-------------------------- MODULE ConversionsProofs --------------------------
(***************************************************************************)
(* What the conversions of mt_vsnprintf produce, for every value, width,   *)
(* precision, set of flags and width of the integer types: that it is      *)
(* text, what an integer, a string and a floating point value are read     *)
(* back as, and where the first two are padded and with what.              *)
(***************************************************************************)
EXTENDS Conversions, SequenceTheorems, FiniteSetTheorems, WellFoundedInduction, TLAPS

(* What FlattenSeq yields, and sequences in general.                       *)
\* A set of natural numbers that is not empty has a smallest member: what the
\* proofs below use for induction.
LEMMA Least ==
  ASSUME NEW T, T \subseteq Nat, T # {}
  PROVE  \E m \in T : \A n \in T : m <= n
<1>1. PICK n \in T : TRUE  OBVIOUS
<1> DEFINE S == 0 .. n
           U == {s \in SUBSET S : \E k \in T : s = 0 .. k}
<1>2. IsFiniteSet(S)  BY FS_Interval
<1>3. S \in U  BY <1>1
<1>4. IsWellFoundedOn(StrictSubsetOrdering(S), SUBSET S)
  BY <1>2, FS_StrictSubsetOrderingWellFounded, FS_FiniteSubsetsOfFinite
<1>5. U \subseteq SUBSET S /\ U # {}  BY <1>3
<1> HIDE DEF U
<1>6. PICK s \in U : \A t \in U : <<t, s>> \notin StrictSubsetOrdering(S)
  BY <1>4, <1>5, WFMin
<1> USE DEF U
<1>7. PICK m \in T : s = 0 .. m  OBVIOUS
<1>8. m \in Nat /\ n \in Nat /\ m <= n
  <2>1. m \in 0 .. n  BY <1>7
  <2> QED  BY <2>1
<1>9. ASSUME NEW k \in T, k < m PROVE FALSE
  <2> DEFINE t == 0 .. k
  <2>1. k \in Nat /\ m \in s /\ m \notin t  BY <1>7, <1>8, <1>9
  <2>2. t \subseteq s  BY <1>7, <1>8, <1>9
  <2>3. t \in U  BY <2>2
  <2>4. t \in SUBSET S /\ s \in SUBSET S  BY <2>2
  <2> HIDE DEF U, S, t
  <2> QED  BY <1>6, <2>1, <2>2, <2>3, <2>4 DEF StrictSubsetOrdering
<1> QED  BY <1>8, <1>9

(* Induction over the numbers, from Least.                                 *)
LEMMA Induction ==
  ASSUME NEW T, 0 \in T, \A n \in Nat : n \in T => n + 1 \in T
  PROVE  Nat \subseteq T
<1> DEFINE U == {n \in Nat : n \notin T}
<1>1. SUFFICES ASSUME U # {} PROVE FALSE  OBVIOUS
<1>2. PICK m \in U : \A n \in U : m <= n
  <2>1. U \subseteq Nat  OBVIOUS
  <2> HIDE DEF U
  <2> QED  BY <1>1, <2>1, Least
<1>3. m # 0 /\ m - 1 \in Nat  OBVIOUS
<1>4. m - 1 \in T  BY <1>2, <1>3
<1>5. m = (m - 1) + 1  OBVIOUS
<1> QED  BY <1>3, <1>4, <1>5

LEMMA StrongInduction ==
  ASSUME NEW T, \A n \in Nat : (\A k \in 0..(n - 1) : k \in T) => n \in T
  PROVE  Nat \subseteq T
<1> DEFINE U == {n \in Nat : n \notin T}
<1>1. SUFFICES ASSUME U # {} PROVE FALSE  OBVIOUS
<1>2. PICK m \in U : \A n \in U : m <= n
  <2>1. U \subseteq Nat  OBVIOUS
  <2> HIDE DEF U
  <2> QED  BY <1>1, <2>1, Least
<1>3. \A k \in 0..(m - 1) : k \in T
  <2> SUFFICES ASSUME NEW k \in 0..(m - 1), k \notin T PROVE FALSE  OBVIOUS
  <2>1. k \in U /\ ~(m <= k)  OBVIOUS
  <2> QED  BY <1>2, <2>1
<1> QED  BY <1>3

-----------------------------------------------------------------------------
(* FlattenSeq, by which Full and the digits with separators are defined,   *)
(* is a recursive function: there is one, and only one.                    *)
FlatOf(l, n, f) == f = [i \in 1..n |-> IF i = 1 THEN l[i] ELSE f[i - 1] \o l[i]]

LEMMA FlattenMeans ==
  ASSUME NEW l
  PROVE  FlattenSeq(l) = IF Len(l) = 0 THEN l
                         ELSE (CHOOSE f : FlatOf(l, Len(l), f))[Len(l)]
BY DEF FlattenSeq, FlatOf

LEMMA FlatExists ==
  ASSUME NEW l, NEW n \in Nat
  PROVE  \E f : FlatOf(l, n, f)
<1> DEFINE T == {k \in Nat : ~ \E f : FlatOf(l, k, f)}
<1>1. SUFFICES ASSUME T # {} PROVE FALSE  OBVIOUS
<1>2. PICK k \in T : \A j \in T : k <= j
  <2>1. T \subseteq Nat  OBVIOUS
  <2> HIDE DEF T
  <2> QED  BY <1>1, <2>1, Least
<1>3. CASE k = 0
  <2> DEFINE f == [i \in 1..0 |-> <<>>]
  <2>1. f = [i \in 1..0 |-> IF i = 1 THEN l[i] ELSE f[i - 1] \o l[i]]  OBVIOUS
  <2> QED  BY <1>2, <1>3, <2>1 DEF FlatOf
<1>4. CASE k # 0
  <2>1. k \in Nat /\ k - 1 \in Nat /\ k - 1 \notin T  BY <1>2, <1>4
  <2>2. PICK h : FlatOf(l, k - 1, h)  BY <2>1
  <2>3. \A i \in 1..k-1 : h[i] = IF i = 1 THEN l[i] ELSE h[i - 1] \o l[i]
    BY <2>2 DEF FlatOf
  <2> DEFINE last == IF k = 1 THEN l[k] ELSE h[k - 1] \o l[k]
             f == [i \in 1..k |-> IF i = k THEN last ELSE h[i]]
  <2>4. ASSUME NEW i \in 1..k PROVE f[i] = IF i = 1 THEN l[i] ELSE f[i - 1] \o l[i]
    <3>1. CASE i = k
      <4>1. i # 1 => i - 1 \in 1..k /\ i - 1 # k  BY <2>1
      <4>2. f[i] = last /\ (i # 1 => f[i - 1] = h[i - 1])  BY <3>1, <4>1
      <4> QED  BY <3>1, <4>2
    <3>2. CASE i # k
      <4>1. i \in 1..k-1 /\ f[i] = h[i]  BY <2>1, <3>2
      <4>2. i # 1 => i - 1 \in 1..k /\ i - 1 # k  BY <2>1
      <4>3. i # 1 => f[i - 1] = h[i - 1]  BY <4>2
      <4> QED  BY <2>3, <4>1, <4>3
    <3> QED  BY <3>1, <3>2
  <2>5. f = [i \in 1..k |-> f[i]]  OBVIOUS
  <2> HIDE DEF f
  <2>6. FlatOf(l, k, f)  BY <2>4, <2>5 DEF FlatOf
  <2> QED  BY <1>2, <2>6
<1> QED  BY <1>3, <1>4

Alike(l, m, n) == \A i \in 1..n : l[i] = m[i]

LEMMA FlatAgree ==
  ASSUME NEW l, NEW m, NEW n \in Nat, NEW k \in Nat, NEW f, NEW h,
         FlatOf(l, n, f), FlatOf(m, k, h),
         NEW j \in Nat, j <= n, j <= k, Alike(l, m, j)
  PROVE  \A i \in 1..j : f[i] = h[i]
<1> DEFINE T == {i \in 1..j : f[i] # h[i]}
<1>1. SUFFICES ASSUME T # {} PROVE FALSE  OBVIOUS
<1>2. PICK i \in T : \A d \in T : i <= d
  <2>1. T \subseteq Nat  OBVIOUS
  <2> HIDE DEF T
  <2> QED  BY <1>1, <2>1, Least
<1>3. i \in 1..n /\ i \in 1..k /\ i \in 1..j  OBVIOUS
<1>4. /\ f[i] = IF i = 1 THEN l[i] ELSE f[i - 1] \o l[i]
      /\ h[i] = IF i = 1 THEN m[i] ELSE h[i - 1] \o m[i]
  BY <1>3 DEF FlatOf
<1>5. i # 1 => f[i - 1] = h[i - 1]
  <2>1. i # 1 => i - 1 \in 1..j /\ i - 1 \notin T  BY <1>2, <1>3
  <2> QED  BY <2>1
<1> QED  BY <1>2, <1>3, <1>4, <1>5 DEF Alike

-----------------------------------------------------------------------------
IsSeq(s) == \E S : s \in Seq(S)

LEMMA EmptyIsSeq == IsSeq(<<>>) /\ Len(<<>>) = 0
<1>1. <<>> \in Seq({}) /\ Len(<<>>) = 0  OBVIOUS
<1> QED  BY <1>1 DEF IsSeq

LEMMA Seqs ==
  ASSUME NEW s, IsSeq(s)
  PROVE  Len(s) \in Nat /\ DOMAIN s = 1..Len(s)
BY DEF IsSeq

\* A function on 1..n is a sequence, an empty one if n is negative.
LEMMA SeqFrom ==
  ASSUME NEW n \in Int, NEW f, f = [i \in 1..n |-> f[i]]
  PROVE  IsSeq(f) /\ (Len(f) = IF n < 0 THEN 0 ELSE n)
<1>1. PICK m \in Nat : 1..n = 1..m /\ m = IF n < 0 THEN 0 ELSE n  OBVIOUS
<1>2. PICK S : f \in [1..m -> S]
  <2>1. [i \in 1..m |-> f[i]] \in [1..m -> {f[i] : i \in 1..m}]  OBVIOUS
  <2>2. f = [i \in 1..m |-> f[i]]  BY ONLY <1>1, f = [i \in 1..n |-> f[i]]
  <2>3. f \in [1..m -> {f[i] : i \in 1..m}]  BY ONLY <2>1, <2>2
  <2> QED  BY ONLY <2>3
<1>3. f \in Seq(S)  BY <1>2, SeqDef
<1>4. Len(f) = m
  <2>1. DOMAIN f = 1..m /\ DOMAIN f = 1..Len(f) /\ Len(f) \in Nat
    BY <1>2, <1>3, LenProperties
  <2>2. \A a, b \in Nat : 1..a = 1..b => a = b
    <3> SUFFICES ASSUME NEW a \in Nat, NEW b \in Nat, 1..a = 1..b, a < b PROVE FALSE
      OBVIOUS
    <3>1. b \in 1..b /\ b \notin 1..a  OBVIOUS
    <3> QED  BY <3>1
  <2> QED  BY <2>1, <2>2
<1> QED  BY <1>1, <1>3, <1>4 DEF IsSeq

LEMMA Concats ==
  ASSUME NEW s, IsSeq(s), NEW t, IsSeq(t)
  PROVE  /\ IsSeq(s \o t) /\ Len(s \o t) = Len(s) + Len(t)
         /\ \A i \in 1..Len(s) : (s \o t)[i] = s[i]
         /\ \A i \in 1..Len(t) : (s \o t)[Len(s) + i] = t[i]
<1>1. PICK A, B : s \in Seq(A) /\ t \in Seq(B)  BY DEF IsSeq
<1>2. s \in Seq(A \cup B) /\ t \in Seq(A \cup B)  BY <1>1
<1>3. s \o t \in Seq(A \cup B)  BY <1>2
<1> QED  BY <1>2, <1>3 DEF IsSeq

LEMMA Firsts ==
  ASSUME NEW s, IsSeq(s), NEW n \in Int, n <= Len(s)
  PROVE  IsSeq(SubSeq(s, 1, n))
<1>1. PICK A : s \in Seq(A)  BY DEF IsSeq
<1>2. SubSeq(s, 1, n) \in Seq(A)  BY <1>1
<1> QED  BY <1>2 DEF IsSeq

\* What flattening one sequence more yields.
LEMMA FlattenFirst == FlattenSeq(<<>>) = <<>>
BY EmptyIsSeq, FlattenMeans

LEMMA FlattenNext ==
  ASSUME NEW l, NEW m, NEW n \in Nat, Len(l) = n, Len(m) = n + 1, 
         l = <<>> \/ n # 0, \A i \in 1..n : m[i] = l[i], IsSeq(m[n + 1])
  PROVE  FlattenSeq(m) = FlattenSeq(l) \o m[n + 1]
<1> DEFINE f == CHOOSE f : FlatOf(l, n, f)
           h == CHOOSE h : FlatOf(m, n + 1, h)
<1>1. n + 1 \in Nat /\ n + 1 # 0  OBVIOUS
<1>2. FlattenSeq(m) = h[n + 1]  BY <1>1, FlattenMeans
<1>3. FlattenSeq(l) = IF n = 0 THEN l ELSE f[n]  BY FlattenMeans
<1>4. FlatOf(l, n, f)  BY FlatExists
<1>5. FlatOf(m, n + 1, h)  BY <1>1, FlatExists
<1> HIDE DEF f, h
<1>6. h[n + 1] = IF n = 0 THEN m[n + 1] ELSE h[n] \o m[n + 1]
  <2>1. n + 1 \in 1..n + 1 /\ (n + 1) - 1 = n /\ (n + 1 = 1 <=> n = 0)  OBVIOUS
  <2>2. \A i \in 1..n + 1 : h[i] = IF i = 1 THEN m[i] ELSE h[i - 1] \o m[i]
    BY <1>5 DEF FlatOf
  <2> QED  BY <2>1, <2>2
<1>7. CASE n = 0
  <2>1. <<>> \o m[n + 1] = m[n + 1]  BY DEF IsSeq
  <2> QED  BY <1>2, <1>3, <1>6, <1>7, <2>1
<1>8. CASE n # 0
  <2>1. n <= n + 1  OBVIOUS
  <2>2. Alike(m, l, n)  BY DEF Alike
  <2>4. \A i \in 1..n : h[i] = f[i]
    BY ONLY n \in Nat, <1>1, <1>4, <1>5, <2>1, <2>2, FlatAgree
  <2>3. h[n] = f[n]  BY <1>8, <2>4
  <2> QED  BY <1>2, <1>3, <1>6, <1>8, <2>3
<1> QED  BY <1>7, <1>8

\* m is l and one sequence more.
Extends(l, m, n) ==
  /\ Len(l) = n /\ Len(m) = n + 1 /\ (l = <<>> \/ n # 0)
  /\ (\A i \in 1..n : m[i] = l[i]) /\ IsSeq(m[n + 1])
LEMMA FlattenExtended ==
  ASSUME NEW l, NEW m, NEW n \in Nat, Extends(l, m, n)
  PROVE  FlattenSeq(m) = FlattenSeq(l) \o m[n + 1]
<1>1. Len(l) = n /\ Len(m) = n + 1 /\ (l = <<>> \/ n # 0)  BY DEF Extends
<1>2. (\A i \in 1..n : m[i] = l[i]) /\ IsSeq(m[n + 1])  BY DEF Extends
<1> QED  BY ONLY n \in Nat, <1>1, <1>2, FlattenNext, SMTT(30)

\* Sequences in a row are a sequence.
LEMMA FlattenIsSeq ==
  ASSUME NEW l, Len(l) \in Nat, l = <<>> \/ Len(l) # 0, \A i \in 1..Len(l) : IsSeq(l[i])
  PROVE  IsSeq(FlattenSeq(l))
<1> DEFINE n == Len(l)
           f == CHOOSE f : FlatOf(l, n, f)
           T == {i \in 1..n : ~ IsSeq(f[i])}
<1>1. SUFFICES ASSUME T # {} PROVE FALSE
  BY EmptyIsSeq, FlattenMeans
<1>2. FlatOf(l, n, f)  BY FlatExists
<1>3. PICK i \in T : \A d \in T : i <= d
  <2>1. T \subseteq Nat  OBVIOUS
  <2> HIDE DEF T
  <2> QED  BY <1>1, <2>1, Least
<1> HIDE DEF f
<1>4. f[i] = IF i = 1 THEN l[i] ELSE f[i - 1] \o l[i]  BY <1>2 DEF FlatOf
<1>5. i # 1 => IsSeq(f[i - 1])
  <2>1. i # 1 => i - 1 \in 1..n /\ i - 1 \notin T  BY <1>3
  <2> QED  BY <2>1
<1>6. IsSeq(l[i])  OBVIOUS
<1> QED  BY <1>3, <1>4, <1>5, <1>6, Concats

-----------------------------------------------------------------------------
(* Whatever a conversion produces is a sequence.                           *)
LEMMA Tuples ==
  /\ \A a : IsSeq(<<a>>) /\ Len(<<a>>) = 1
  /\ \A a, b : IsSeq(<<a, b>>) /\ Len(<<a, b>>) = 2
  /\ \A a, b, c : IsSeq(<<a, b, c>>) /\ Len(<<a, b, c>>) = 3
  /\ \A a, b, c, d : IsSeq(<<a, b, c, d>>)
  /\ \A a, b, c, d, e : IsSeq(<<a, b, c, d, e>>)
  /\ \A a, b, c, d, e, f : IsSeq(<<a, b, c, d, e, f>>)
<1>1. \A a : <<a>> \in Seq({a}) /\ Len(<<a>>) = 1  OBVIOUS
<1>2. \A a, b : <<a, b>> \in Seq({a, b}) /\ Len(<<a, b>>) = 2  OBVIOUS
<1>3. \A a, b, c : <<a, b, c>> \in Seq({a, b, c}) /\ Len(<<a, b, c>>) = 3  OBVIOUS
<1>4. \A a, b, c, d : <<a, b, c, d>> \in Seq({a, b, c, d})  OBVIOUS
<1>5. \A a, b, c, d, e : <<a, b, c, d, e>> \in Seq({a, b, c, d, e})  OBVIOUS
<1>6. \A a, b, c, d, e, f : <<a, b, c, d, e, f>> \in Seq({a, b, c, d, e, f})  OBVIOUS
<1> QED  BY <1>1, <1>2, <1>3, <1>4, <1>5, <1>6 DEF IsSeq

LEMMA LargerInt == \A x, y \in Int : Larger(x, y) \in Int /\ Smaller(x, y) \in Int
  BY DEF Larger, Smaller

LEMMA RepeatIsSeq == \A c : \A n \in Int : IsSeq(Repeat(c, n))
<1> SUFFICES ASSUME NEW c, NEW n \in Int PROVE IsSeq(Repeat(c, n))  OBVIOUS
<1> DEFINE f == Repeat(c, n)
<1>1. f = [i \in 1..n |-> f[i]]  BY DEF Repeat
<1> HIDE DEF f
<1>2. IsSeq(f)  BY <1>1, SeqFrom
<1> QED  BY <1>2 DEF f

-----------------------------------------------------------------------------
(* Powers.                                                                 *)
PowerOf(b, n, p) == p = [i \in 0..n |-> IF i = 0 THEN 1 ELSE b * p[i - 1]]

LEMMA PowerMeans ==
  ASSUME NEW b, NEW n
  PROVE  Power(b, n) = (CHOOSE p : PowerOf(b, n, p))[n]
BY DEF Power, PowerOf

LEMMA PowerExists ==
  ASSUME NEW b, NEW n \in Nat
  PROVE  \E p : PowerOf(b, n, p)
<1> DEFINE T == {k \in Nat : \E p : PowerOf(b, k, p)}
<1>1. 0 \in T
  <2> DEFINE p == [i \in 0..0 |-> 1]
  <2>1. p = [i \in 0..0 |-> IF i = 0 THEN 1 ELSE b * p[i - 1]]  OBVIOUS
  <2> QED  BY <2>1 DEF PowerOf
<1>2. ASSUME NEW k \in Nat, k \in T PROVE k + 1 \in T
  <2>1. PICK h : PowerOf(b, k, h)  BY <1>2
  <2>2. \A i \in 0..k : h[i] = IF i = 0 THEN 1 ELSE b * h[i - 1]  BY <2>1 DEF PowerOf
  <2> DEFINE p == [i \in 0..(k + 1) |-> IF i = k + 1 THEN b * h[k] ELSE h[i]]
  <2>3. ASSUME NEW i \in 0..(k + 1) PROVE p[i] = IF i = 0 THEN 1 ELSE b * p[i - 1]
    <3>1. i # 0 => i - 1 \in 0..(k + 1) /\ i - 1 # k + 1  OBVIOUS
    <3>2. i # 0 => p[i - 1] = h[i - 1]  BY <3>1
    <3>3. CASE i = k + 1
      <4>1. i - 1 = k /\ i # 0  BY <3>3
      <4>2. p[i] = b * h[k]  BY <3>3
      <4> QED  BY <3>2, <4>1, <4>2
    <3>4. CASE i # k + 1
      <4>1. i \in 0..k /\ p[i] = h[i]  BY <3>4
      <4> QED  BY <2>2, <3>2, <4>1
    <3> QED  BY <3>3, <3>4
  <2>4. p = [i \in 0..(k + 1) |-> p[i]]  OBVIOUS
  <2> HIDE DEF p
  <2>5. PowerOf(b, k + 1, p)  BY <2>3, <2>4 DEF PowerOf
  <2> QED  BY <2>5
<1> HIDE DEF T
<1>3. Nat \subseteq T  BY <1>1, <1>2, Induction
<1> QED  BY <1>3 DEF T

LEMMA PowerAgree ==
  ASSUME NEW b, NEW n \in Nat, NEW p, NEW h, PowerOf(b, n, p), PowerOf(b, n + 1, h)
  PROVE  p[n] = h[n]
<1> DEFINE T == {k \in Nat : k <= n => p[k] = h[k]}
<1>1. /\ \A i \in 0..n : p[i] = IF i = 0 THEN 1 ELSE b * p[i - 1]
      /\ \A i \in 0..(n + 1) : h[i] = IF i = 0 THEN 1 ELSE b * h[i - 1]
  BY DEF PowerOf
<1>2. 0 \in T  BY <1>1
<1>3. ASSUME NEW k \in Nat, k \in T PROVE k + 1 \in T
  <2>1. CASE k + 1 <= n
    <3>1. k + 1 \in 0..n /\ k + 1 \in 0..(n + 1) /\ k + 1 # 0 /\ (k + 1) - 1 = k /\ k <= n
      BY <2>1
    <3>2. p[k + 1] = b * p[k] /\ h[k + 1] = b * h[k]  BY <1>1, <3>1
    <3> QED  BY <1>3, <3>1, <3>2
  <2> QED  BY <2>1
<1> HIDE DEF T
<1>4. Nat \subseteq T  BY <1>2, <1>3, Induction
<1> QED  BY <1>4 DEF T

LEMMA PowerZero == \A b : Power(b, 0) = 1
<1> SUFFICES ASSUME NEW b PROVE Power(b, 0) = 1  OBVIOUS
<1> DEFINE p == CHOOSE p : PowerOf(b, 0, p)
<1>1. PowerOf(b, 0, p)  BY PowerExists
<1>2. Power(b, 0) = p[0]  BY PowerMeans
<1> HIDE DEF p
<1> QED  BY <1>1, <1>2 DEF PowerOf

LEMMA PowerNext ==
  ASSUME NEW b, NEW n \in Nat
  PROVE  Power(b, n + 1) = b * Power(b, n)
<1> DEFINE p == CHOOSE p : PowerOf(b, n, p)
           h == CHOOSE h : PowerOf(b, n + 1, h)
<1>1. PowerOf(b, n, p) /\ PowerOf(b, n + 1, h)  BY PowerExists
<1>2. Power(b, n) = p[n] /\ Power(b, n + 1) = h[n + 1]  BY PowerMeans
<1> HIDE DEF p, h
<1>3. p[n] = h[n]  BY <1>1, PowerAgree
<1>4. h[n + 1] = b * h[n]
  <2>1. n + 1 \in 0..(n + 1) /\ n + 1 # 0 /\ (n + 1) - 1 = n  OBVIOUS
  <2>2. h[n + 1] = IF n + 1 = 0 THEN 1 ELSE b * h[(n + 1) - 1]  BY <1>1, <2>1 DEF PowerOf
  <2> QED  BY <2>1, <2>2
<1> QED  BY <1>2, <1>3, <1>4

LEMMA PowerPositive ==
  ASSUME NEW b \in Nat, b >= 1, NEW n \in Nat
  PROVE  Power(b, n) \in Nat /\ Power(b, n) >= 1
<1> DEFINE T == {k \in Nat : Power(b, k) \in Nat /\ Power(b, k) >= 1}
<1>1. 0 \in T  BY PowerZero
<1>2. ASSUME NEW k \in Nat, k \in T PROVE k + 1 \in T
  <2>1. PICK x \in Nat : x = Power(b, k) /\ x >= 1  BY <1>2
  <2>2. Power(b, k + 1) = b * x  BY <2>1, PowerNext
  <2>3. b * x \in Nat /\ b * x >= x  BY <2>1
  <2> QED  BY <2>1, <2>2, <2>3
<1> HIDE DEF T
<1>3. Nat \subseteq T  BY <1>1, <1>2, Induction
<1> QED  BY <1>3 DEF T

LEMMA PowerMonotone ==
  ASSUME NEW b \in Nat, b >= 1, NEW n \in Nat, NEW m \in Nat, n <= m
  PROVE  Power(b, n) <= Power(b, m)
<1> DEFINE T == {k \in Nat : Power(b, n) <= Power(b, n + k)}
<1>0. Power(b, n) \in Nat  BY PowerPositive
<1>1. 0 \in T
  <2>1. n + 0 = n  OBVIOUS
  <2> QED  BY <1>0, <2>1
<1>2. ASSUME NEW k \in Nat, k \in T PROVE k + 1 \in T
  <2>1. n + k \in Nat /\ n + (k + 1) = (n + k) + 1  OBVIOUS
  <2>2. PICK x \in Nat : x = Power(b, n + k) /\ Power(b, n) <= x
    BY <1>2, <2>1, PowerPositive
  <2>3. Power(b, n + (k + 1)) = b * x  BY <2>1, <2>2, PowerNext
  <2>4. b * x \in Nat /\ b * x >= x  BY <2>2
  <2> QED  BY <1>0, <2>2, <2>3, <2>4
<1> HIDE DEF T
<1>3. Nat \subseteq T  BY <1>1, <1>2, Induction
<1>4. m - n \in T /\ n + (m - n) = m  BY <1>3
<1> QED  BY <1>4 DEF T

-----------------------------------------------------------------------------
(* convert.                                                                *)
Bases == {8, 10, 16}
DigitsFor(caps) == IF caps THEN Upper ELSE Lower

LEMMA Division ==
  ASSUME NEW b \in Bases, NEW v \in Nat
  PROVE  /\ v \div b \in Nat /\ v % b \in 0..(b - 1) /\ v = b * (v \div b) + (v % b)
         /\ v >= b => v \div b < v /\ v \div b >= 1
         /\ v < b => v % b = v /\ v \div b = 0
<1>1. CASE b = 8   BY <1>1
<1>2. CASE b = 10  BY <1>2
<1>3. CASE b = 16  BY <1>3
<1> QED  BY <1>1, <1>2, <1>3 DEF Bases

ConvertOf(b, D, n, f) ==
  f = [v \in 0..n |-> IF v < b THEN <<D[(v % b) + 1]>> ELSE f[v \div b] \o <<D[(v % b) + 1]>>]

LEMMA ConvertMeans ==
  ASSUME NEW v, NEW b, NEW caps
  PROVE  convert(v, b, caps) = (CHOOSE f : ConvertOf(b, DigitsFor(caps), v, f))[v]
BY DEF convert, ConvertOf, DigitsFor

LEMMA ConvertExists ==
  ASSUME NEW b \in Bases, NEW D, NEW n \in Nat
  PROVE  \E f : ConvertOf(b, D, n, f)
<1> DEFINE last(v) == <<D[(v % b) + 1]>>
           T == {k \in Nat : \E f : ConvertOf(b, D, k, f)}
<1>1. 0 \in T
  <2> DEFINE f == [v \in 0..0 |-> last(v)]
  <2>1. \A v \in 0..0 : v < b  BY DEF Bases
  <2>2. f = [v \in 0..0 |-> IF v < b THEN last(v) ELSE f[v \div b] \o last(v)]  BY <2>1
  <2> QED  BY <2>2 DEF ConvertOf
<1>2. ASSUME NEW k \in Nat, k \in T PROVE k + 1 \in T
  <2>1. PICK h : ConvertOf(b, D, k, h)  BY <1>2
  <2>2. \A v \in 0..k : h[v] = IF v < b THEN last(v) ELSE h[v \div b] \o last(v)
    BY <2>1 DEF ConvertOf
  <2> DEFINE new == IF k + 1 < b THEN last(k + 1) ELSE h[(k + 1) \div b] \o last(k + 1)
             f == [v \in 0..(k + 1) |-> IF v = k + 1 THEN new ELSE h[v]]
  <2>3. ASSUME NEW v \in 0..(k + 1)
        PROVE  f[v] = IF v < b THEN last(v) ELSE f[v \div b] \o last(v)
    <3>1. ~(v < b) => v \div b \in 0..(k + 1) /\ v \div b # k + 1
      <4>1. v \in Nat /\ v <= k + 1 /\ b \in Nat  BY DEF Bases
      <4>2. v >= b => v \div b \in Nat /\ v \div b < v  BY <4>1, Division
      <4> QED  BY <4>1, <4>2
    <3>2. ~(v < b) => f[v \div b] = h[v \div b]  BY <3>1
    <3>3. CASE v = k + 1  BY <3>2, <3>3
    <3>4. CASE v # k + 1
      <4>1. v \in 0..k /\ f[v] = h[v]  BY <3>4
      <4> QED  BY <2>2, <3>2, <4>1
    <3> QED  BY <3>3, <3>4
  <2>4. f = [v \in 0..(k + 1) |-> f[v]]  OBVIOUS
  <2> HIDE DEF f
  <2>5. ConvertOf(b, D, k + 1, f)  BY <2>3, <2>4 DEF ConvertOf
  <2> QED  BY <2>5
<1> HIDE DEF T
<1>3. Nat \subseteq T  BY <1>1, <1>2, Induction
<1> QED  BY <1>3 DEF T

LEMMA ConvertAgree ==
  ASSUME NEW b \in Bases, NEW D, NEW m \in Nat, NEW n \in Nat, m <= n, NEW f, NEW h,
         ConvertOf(b, D, m, f), ConvertOf(b, D, n, h)
  PROVE  f[m] = h[m]
<1> DEFINE T == {v \in Nat : v <= m => f[v] = h[v]}
<1>1. ASSUME NEW v \in Nat, \A k \in 0..(v - 1) : k \in T PROVE v \in T
  <2>1. SUFFICES ASSUME v <= m PROVE f[v] = h[v]  OBVIOUS
  <2>2. v \in 0..m /\ v \in 0..n  BY <2>1
  <2>3. /\ f[v] = IF v < b THEN <<D[(v % b) + 1]>> ELSE f[v \div b] \o <<D[(v % b) + 1]>>
        /\ h[v] = IF v < b THEN <<D[(v % b) + 1]>> ELSE h[v \div b] \o <<D[(v % b) + 1]>>
    BY <2>2 DEF ConvertOf
  <2>4. ~(v < b) => f[v \div b] = h[v \div b]
    <3>1. b \in Nat  BY DEF Bases
    <3>2. v >= b => v \div b \in Nat /\ v \div b < v  BY Division
    <3>3. v >= b => v \div b \in 0..(v - 1) /\ v \div b <= m  BY <2>1, <3>2
    <3>4. v >= b => v \div b \in T  BY <1>1, <3>3
    <3> QED  BY <3>1, <3>3, <3>4
  <2> QED  BY <2>3, <2>4
<1> HIDE DEF T
<1>2. Nat \subseteq T  BY <1>1, StrongInduction
<1> QED  BY <1>2 DEF T

(* A digit, or the digits of what is left and one more.                    *)
LEMMA ConvertSteps ==
  ASSUME NEW v \in Nat, NEW b \in Bases, NEW caps
  PROVE  /\ v < b => convert(v, b, caps) = <<DigitsFor(caps)[v + 1]>>
         /\ v >= b => convert(v, b, caps)
                        = convert(v \div b, b, caps) \o <<DigitsFor(caps)[(v % b) + 1]>>
<1> DEFINE D == DigitsFor(caps)
           q == v \div b
           f == CHOOSE f : ConvertOf(b, D, v, f)
           h == CHOOSE h : ConvertOf(b, D, q, h)
<1>1. q \in Nat /\ q <= v /\ b \in Nat /\ (v < b => v % b = v)
  <2>1. b \in Nat  BY DEF Bases
  <2> QED  BY <2>1, Division
<1>2. ConvertOf(b, D, v, f)  BY ConvertExists
<1>3. ConvertOf(b, D, q, h)  BY <1>1, ConvertExists
<1>4. convert(v, b, caps) = f[v] /\ convert(q, b, caps) = h[q]  BY ConvertMeans
<1> HIDE DEF D, f, h, q
<1>5. h[q] = f[q]  BY <1>1, <1>2, <1>3, ConvertAgree
<1>6. f[v] = IF v < b THEN <<D[(v % b) + 1]>> ELSE f[q] \o <<D[(v % b) + 1]>>
  <2>1. v \in 0..v  OBVIOUS
  <2>2. f[v] = IF v < b THEN <<D[(v % b) + 1]>> ELSE f[v \div b] \o <<D[(v % b) + 1]>>
    BY <1>2, <2>1 DEF ConvertOf
  <2> QED  BY <2>2 DEF q
<1>7. v >= b <=> ~(v < b)  BY <1>1
<1>8. convert(v, b, caps)
        = IF v < b THEN <<D[(v % b) + 1]>> ELSE convert(q, b, caps) \o <<D[(v % b) + 1]>>
  BY <1>4, <1>5, <1>6
<1> QED  BY <1>1, <1>7, <1>8 DEF D, q

-----------------------------------------------------------------------------
(* Reading what is written.                                                *)
ReadOf(n0, s, b, n, f) ==
  f = [i \in 0..n |-> IF i = 0 THEN n0
                      ELSE IF s[i] \in PassedOver THEN f[i - 1]
                      ELSE f[i - 1] * b + DigitValue(s[i])]

LEMMA ReadMeans ==
  ASSUME NEW n0, NEW s, NEW b
  PROVE  ReadAfter(n0, s, b) = (CHOOSE f : ReadOf(n0, s, b, Len(s), f))[Len(s)]
BY DEF ReadAfter, ReadOf

\* What the character c makes of the number x read before it.
Taken(x, c, b) == IF c \in PassedOver THEN x ELSE x * b + DigitValue(c)
ReadBy(n0, s, b, n, f) ==
  f[0] = n0 /\ \A i \in 1..n : f[i] = Taken(f[i - 1], s[i], b)

LEMMA ReadExists ==
  ASSUME NEW n0, NEW s, NEW b, NEW n \in Nat
  PROVE  \E f : ReadOf(n0, s, b, n, f)
<1> DEFINE T == {k \in Nat : \E f : ReadOf(n0, s, b, k, f)}
<1>1. 0 \in T
  <2> DEFINE f == [i \in 0..0 |-> n0]
  <2>1. ReadOf(n0, s, b, 0, f)  BY DEF ReadOf
  <2> QED  BY <2>1
<1>2. ASSUME NEW k \in Nat, k \in T PROVE k + 1 \in T
  <2>1. PICK h : ReadOf(n0, s, b, k, h)  BY <1>2
  <2> DEFINE val(i, g) == IF i = 0 THEN n0
                          ELSE IF s[i] \in PassedOver THEN g[i - 1]
                          ELSE g[i - 1] * b + DigitValue(s[i])
             f == [i \in 0..(k + 1) |-> IF i = k + 1 THEN val(k + 1, h) ELSE h[i]]
  <2>2. \A i \in 0..k : h[i] = val(i, h)  BY <2>1 DEF ReadOf
  <2>3. ASSUME NEW i \in 0..(k + 1) PROVE f[i] = val(i, f)
    <3>1. i # 0 => i - 1 \in 0..(k + 1) /\ i - 1 # k + 1  OBVIOUS
    <3>2. i # 0 => f[i - 1] = h[i - 1]  BY <3>1
    <3>3. val(i, f) = val(i, h)  BY <3>2
    <3>4. CASE i = k + 1  BY <3>3, <3>4
    <3>5. CASE i # k + 1
      <4>1. i \in 0..k /\ f[i] = h[i]  BY <3>5
      <4> QED  BY <2>2, <3>3, <4>1
    <3> QED  BY <3>4, <3>5
  <2>4. f = [i \in 0..(k + 1) |-> f[i]]  OBVIOUS
  <2> HIDE DEF f
  <2>5. ReadOf(n0, s, b, k + 1, f)  BY <2>3, <2>4 DEF ReadOf
  <2> QED  BY <2>5
<1> HIDE DEF T
<1>3. Nat \subseteq T  BY <1>1, <1>2, Induction
<1> QED  BY <1>3 DEF T

LEMMA ReadMeansBy ==
  ASSUME NEW n0, NEW s, NEW b, NEW n \in Nat, NEW f, ReadOf(n0, s, b, n, f)
  PROVE  ReadBy(n0, s, b, n, f)
<1>1. \A i \in 1..n : i \in 0..n /\ i # 0  OBVIOUS
<1>2. 0 \in 0..n  OBVIOUS
<1> QED  BY <1>1, <1>2 DEF ReadOf, ReadBy, Taken

LEMMA ReadFunction ==
  ASSUME NEW n0, NEW s, NEW b, NEW n, n = Len(s), n \in Nat
  PROVE  \E f : ReadBy(n0, s, b, n, f) /\ ReadAfter(n0, s, b) = f[n]
BY ReadExists, ReadMeans, ReadMeansBy

\* Where two sequences agree the reader has read the same.
LEMMA ReadAgree ==
  ASSUME NEW n0, NEW b, NEW s, NEW t, NEW n \in Nat, NEW k \in Nat, NEW f, NEW h,
         ReadBy(n0, s, b, n, f), ReadBy(n0, t, b, k, h),
         NEW j \in Nat, j <= n, j <= k, Alike(s, t, j)
  PROVE  f[j] = h[j]
<1> DEFINE T == {i \in Nat : i <= j => f[i] = h[i]}
<1>1. 0 \in T  BY DEF ReadBy
<1>2. ASSUME NEW i \in Nat, i \in T PROVE i + 1 \in T
  <2>1. CASE i + 1 <= j
    <3>1. i + 1 \in 1..n /\ i + 1 \in 1..k /\ i + 1 \in 1..j /\ (i + 1) - 1 = i /\ i <= j
      BY <2>1
    <3>2. f[i + 1] = Taken(f[(i + 1) - 1], s[i + 1], b) /\ h[i + 1] = Taken(h[(i + 1) - 1], t[i + 1], b)
      BY <3>1 DEF ReadBy
    <3>3. s[i + 1] = t[i + 1]  BY <3>1 DEF Alike
    <3> QED  BY <1>2, <3>1, <3>2, <3>3
  <2> QED  BY <2>1
<1> HIDE DEF T
<1>3. Nat \subseteq T  BY <1>1, <1>2, Induction
<1> QED  BY <1>3 DEF T

LEMMA ReadNone == ASSUME NEW n0, NEW b, NEW s, Len(s) = 0 PROVE ReadAfter(n0, s, b) = n0
<1>1. PICK n \in Nat : n = Len(s) /\ n = 0  OBVIOUS
<1>2. PICK f : ReadBy(n0, s, b, n, f) /\ ReadAfter(n0, s, b) = f[n]
  <2>1. n = Len(s) /\ n \in Nat  BY <1>1
  <2> QED  BY ONLY <2>1, ReadFunction, ZenonT(30)
<1> QED  BY <1>1, <1>2 DEF ReadBy

LEMMA ReadEmpty == \A n0, b : ReadAfter(n0, <<>>, b) = n0
<1> SUFFICES ASSUME NEW n0, NEW b, NEW s, s = <<>> PROVE ReadAfter(n0, s, b) = n0  OBVIOUS
<1>1. Len(s) = 0  BY EmptyIsSeq
<1> QED  BY <1>1, ReadNone

LEMMA ReadNext ==
  ASSUME NEW n0, NEW b, NEW s, NEW t, NEW n \in Nat, Len(s) = n, Len(t) = n + 1, Alike(s, t, n)
  PROVE  ReadAfter(n0, t, b) = Taken(ReadAfter(n0, s, b), t[n + 1], b)
<1>1. PICK f : ReadBy(n0, s, b, n, f) /\ ReadAfter(n0, s, b) = f[n]  BY ReadFunction
<1>2. PICK k \in Nat : k = n + 1  OBVIOUS
<1>3. PICK h : ReadBy(n0, t, b, k, h) /\ ReadAfter(n0, t, b) = h[k]  BY <1>2, ReadFunction
<1>4. n <= n /\ n <= k  BY <1>2
<1>5. f[n] = h[n]  BY <1>1, <1>3, <1>4, ReadAgree
<1>6. k \in 1..k /\ k - 1 = n  BY <1>2
<1>7. h[k] = Taken(h[k - 1], t[k], b)  BY <1>3, <1>6 DEF ReadBy
<1> QED  BY <1>1, <1>2, <1>3, <1>5, <1>6, <1>7

(* What is written behind is read after what is written before.            *)
LEMMA ReadConcat ==
  ASSUME NEW n0, NEW b, NEW s, IsSeq(s), NEW t, IsSeq(t)
  PROVE  ReadAfter(n0, s \o t, b) = ReadAfter(ReadAfter(n0, s, b), t, b)
<1> DEFINE u == s \o t
<1>1. PICK m \in Nat, n \in Nat : m = Len(s) /\ n = Len(t)  BY Seqs
<1>2. /\ Len(u) = m + n /\ \A i \in 1..m : u[i] = s[i]
      /\ \A i \in 1..n : u[m + i] = t[i]
  BY <1>1, Concats
<1> HIDE DEF u
<1>3. PICK f : ReadBy(n0, s, b, m, f) /\ ReadAfter(n0, s, b) = f[m]  BY <1>1, ReadFunction
<1>4. PICK h : ReadBy(f[m], t, b, n, h) /\ ReadAfter(f[m], t, b) = h[n]  BY <1>1, ReadFunction
<1>5. PICK k \in Nat : k = m + n  OBVIOUS
<1>6. PICK g : ReadBy(n0, u, b, k, g) /\ ReadAfter(n0, u, b) = g[k]
  <2>1. k = Len(u) /\ k \in Nat  BY <1>2, <1>5
  <2> QED  BY ONLY <2>1, ReadFunction, ZenonT(30)
<1>7. f[m] = g[m]
  <2>1. m <= m /\ m <= k  BY <1>5
  <2>2. Alike(s, u, m)  BY <1>2 DEF Alike
  <2> QED  BY <1>3, <1>6, <2>1, <2>2, ReadAgree
<1> DEFINE T == {i \in Nat : i <= n => g[m + i] = h[i]}
<1>8. 0 \in T  BY <1>4, <1>7 DEF ReadBy
<1>9. ASSUME NEW i \in Nat, i \in T PROVE i + 1 \in T
  <2>1. CASE i + 1 <= n
    <3>1. i + 1 \in 1..n /\ m + (i + 1) \in 1..k /\ (i + 1) - 1 = i
          /\ (m + (i + 1)) - 1 = m + i /\ i <= n
      BY <1>5, <2>1
    <3>2. g[m + (i + 1)] = Taken(g[(m + (i + 1)) - 1], u[m + (i + 1)], b)
      BY <1>6, <3>1 DEF ReadBy
    <3>3. h[i + 1] = Taken(h[(i + 1) - 1], t[i + 1], b)  BY <1>4, <3>1 DEF ReadBy
    <3>4. u[m + (i + 1)] = t[i + 1]  BY <1>2, <3>1
    <3> QED  BY <1>9, <3>1, <3>2, <3>3, <3>4
  <2> QED  BY <2>1
<1> HIDE DEF T
<1>10. Nat \subseteq T  BY <1>8, <1>9, Induction
<1>11. g[k] = h[n]  BY <1>5, <1>10 DEF T
<1> QED  BY <1>1, <1>3, <1>4, <1>6, <1>11 DEF u

-----------------------------------------------------------------------------
\* The digits of a number are a sequence, and not an empty one.
LEMMA DigitsIsSeq ==
  ASSUME NEW v \in Nat, NEW b \in Bases, NEW c
  PROVE  IsSeq(convert(v, b, c)) /\ Len(convert(v, b, c)) \in Nat \ {0}
<1> DEFINE T == {n \in Nat : IsSeq(convert(n, b, c)) /\ Len(convert(n, b, c)) \in Nat \ {0}}
<1>1. ASSUME NEW n \in Nat, \A k \in 0..(n - 1) : k \in T PROVE n \in T
  <2>1. \A a : IsSeq(<<a>>) /\ Len(<<a>>) = 1  BY Tuples
  <2>2. CASE n < b
    <3>1. PICK a : convert(n, b, c) = <<a>>  BY <2>2, ConvertSteps, Zenon
    <3>2. IsSeq(<<a>>) /\ Len(<<a>>) \in Nat \ {0}  BY <2>1
    <3> QED  BY ONLY <3>1, <3>2, n \in Nat, Zenon DEF T
  <2>3. CASE ~(n < b)
    <3>1. n >= b /\ b \in Nat  BY <2>3 DEF Bases
    <3>2. n \div b \in 0..(n - 1)  BY <3>1, Division
    <3>3. PICK s : s = convert(n \div b, b, c) /\ IsSeq(s) /\ Len(s) \in Nat \ {0}
      BY <1>1, <3>2
    <3>4. PICK a : convert(n, b, c) = s \o <<a>>
      <4>1. convert(n, b, c) = s \o <<DigitsFor(c)[(n % b) + 1]>>  BY <3>1, <3>3, ConvertSteps
      <4> QED  BY <4>1
    <3>5. PICK t : t = s \o <<a>>  OBVIOUS
    <3>6. IsSeq(t) /\ Len(t) = Len(s) + 1  BY <2>1, <3>3, <3>5, Concats
    <3>7. Len(t) \in Nat \ {0}  BY <3>3, <3>6
    <3> QED  BY ONLY <3>4, <3>5, <3>6, <3>7, n \in Nat, Zenon DEF T
  <2> QED  BY <2>2, <2>3
<1> HIDE DEF T
<1>2. Nat \subseteq T  BY <1>1, StrongInduction
<1> QED  BY <1>2 DEF T

LEMMA DigitsNat == \A v \in Nat : NumDigits(v, 10) \in Nat /\ NumDigits(v, 10) >= 1
<1> SUFFICES ASSUME NEW v \in Nat PROVE NumDigits(v, 10) \in Nat /\ NumDigits(v, 10) >= 1
  OBVIOUS
<1>1. 10 \in Bases  BY DEF Bases
<1>2. PICK n \in Nat \ {0} : n = Len(convert(v, 10, FALSE))  BY <1>1, DigitsIsSeq
<1>3. NumDigits(v, 10) = n  BY <1>2 DEF NumDigits
<1> QED  BY <1>3

LEMMA GroupedIsSeq ==
  ASSUME NEW s, IsSeq(s)
  PROVE  IsSeq(Grouped(s))
<1> DEFINE n == Len(s)
           l == [i \in DOMAIN s |->
                   LET pos == Len(s) - i
                   IN IF pos > 0 /\ pos % 3 = 0 THEN <<s[i], ",">> ELSE <<s[i]>>]
<1>1. n \in Nat /\ DOMAIN s = 1..n  BY Seqs
<1>2. \A i \in 1..n : IsSeq(l[i])  BY <1>1, Tuples
<1>3. l = [i \in 1..n |-> l[i]]  BY <1>1
<1>4. Grouped(s) = FlattenSeq(l)  BY DEF Grouped
<1> HIDE DEF l
<1>5. IsSeq(l) /\ Len(l) = n  BY <1>1, <1>3, SeqFrom
<1> HIDE DEF n
<1>6. l = <<>> \/ Len(l) # 0  BY <1>5 DEF IsSeq
<1> QED  BY <1>1, <1>2, <1>4, <1>5, <1>6, FlattenIsSeq

LEMMA PaddedIsSeq ==
  ASSUME NEW s, IsSeq(s), NEW n \in Int, NEW left
  PROVE  IsSeq(Padded(s, n, left))
BY Concats, RepeatIsSeq DEF Padded

\* fmtstr, fmtint and fmtflt produce sequences.
LEMMA StringIsSeq ==
  ASSUME NEW t, t = NULL \/ IsSeq(t), NEW w \in Int, NEW p \in Int, NEW fl
  PROVE  IsSeq(fmtstr(t, w, p, fl))
<1> DEFINE text == IF t = NULL THEN Null ELSE t
           n    == IF p = -1 THEN Len(text) ELSE Smaller(Len(text), p)
           k    == Larger(w - n, 0)
<1>1. IsSeq(text)  BY Tuples DEF Null
<1>2. fmtstr(t, w, p, fl) = Padded(SubSeq(text, 1, n), k, "-" \in fl)
  BY DEF fmtstr
<1> HIDE DEF text
<1>3. n \in Int /\ n <= Len(text)  BY <1>1, Seqs DEF Smaller
<1> HIDE DEF n
<1>4. k \in Int  BY <1>3, LargerInt
<1> HIDE DEF k
<1>5. IsSeq(SubSeq(text, 1, n))  BY <1>1, <1>3, Firsts
<1> QED  BY <1>2, <1>4, <1>5, PaddedIsSeq

LEMMA ModRange ==
  ASSUME NEW x \in Int, NEW m \in Nat, m >= 1
  PROVE  x % m \in Nat /\ x % m < m
OBVIOUS

LEMMA UnsignedNat ==
  ASSUME NEW x \in Int, NEW t \in DOMAIN Bits
  PROVE  Unsigned(x, t) \in Nat /\ Unsigned(x, t) < Power(2, Bits[t])
<1>1. Bits[t] \in Nat  BY BitsAssumption
<1>2. PICK m \in Nat : m = Power(2, Bits[t]) /\ m >= 1  BY <1>1, PowerPositive
<1> QED  BY <1>2, ModRange DEF Unsigned

LEMMA SignedInt ==
  ASSUME NEW x \in Int, NEW t \in DOMAIN Bits
  PROVE  /\ Signed(x, t) \in Int
         /\ -Power(2, Bits[t] - 1) <= Signed(x, t) /\ Signed(x, t) < Power(2, Bits[t] - 1)
<1>1. PICK n \in Nat : n = Bits[t] - 1
  <2>1. Bits[t] \in Nat \ {0}  BY BitsAssumption
  <2> QED  BY <2>1
<1>2. Bits[t] = n + 1
  <2>1. Bits[t] \in Nat  BY BitsAssumption
  <2> QED  BY <1>1, <2>1
<1>3. PICK h \in Nat : h = Power(2, n) /\ h >= 1  BY PowerPositive
<1>4. PICK m \in Nat : m = 2 * h /\ m = Power(2, n + 1) /\ m >= 1  BY <1>3, PowerNext
<1>5. PICK r \in Nat : r = (x + h) % m /\ r < m
  <2>1. x + h \in Int  OBVIOUS
  <2> QED  BY <1>4, <2>1, ModRange
<1>6. Signed(x, t) = r - h  BY <1>1, <1>2, <1>3, <1>4, <1>5 DEF Signed
<1> QED  BY <1>1, <1>3, <1>4, <1>5, <1>6

LEMMA Longest == "long" \in DOMAIN Bits /\ UINTMAX_MAX \in Nat
<1>1. "long" \in DOMAIN Bits /\ Bits["long"] \in Nat  BY BitsAssumption
<1>2. PICK m \in Nat : m = Power(2, Bits["long"]) /\ m >= 1  BY <1>1, PowerPositive
<1> QED  BY <1>1, <1>2 DEF UINTMAX_MAX

(* The parts of what fmtint produces.                                      *)
UValue(v, fl) == IF "UNSIGNED" \in fl THEN Unsigned(v, "long") ELSE IF v >= 0 THEN v ELSE -v
SignText(v, fl) ==
  IF "UNSIGNED" \in fl THEN <<>>
  ELSE IF v < 0 THEN <<"-">>
  ELSE IF "+" \in fl THEN <<"+">>
  ELSE IF " " \in fl THEN <<" ">> ELSE <<>>
Marked(u, fl) == "#" \in fl /\ u # 0
PrefixText(u, b, fl) ==
  IF Marked(u, fl) /\ b = 16 THEN <<"0", IF "UP" \in fl THEN "X" ELSE "x">> ELSE <<>>
DigitsMin(u, n, b, p, fl) == IF Marked(u, fl) /\ b = 8 /\ p <= n THEN n + 1 ELSE p
SeparatorsIn(n, fl) == IF "'" \in fl THEN getnumsep(n) ELSE 0
ZeroPad(p, fl) == "0" \in fl /\ "-" \notin fl /\ p = -1
NumberText(digits, separators) == IF separators > 0 THEN Grouped(digits) ELSE digits

LEMMA IntegerParts ==
  ASSUME NEW v, NEW b, NEW w, NEW p, NEW fl
  PROVE  fmtint(v, b, w, p, fl) =
           LET u      == UValue(v, fl)
               sign   == SignText(v, fl)
               digits == convert(u, b, "UP" \in fl)
               n      == Len(digits)
               prefix == PrefixText(u, b, fl)
               asked  == DigitsMin(u, n, b, p, fl)
               sep    == SeparatorsIn(n, fl)
               zeros  == Larger(asked - n - sep, 0)
               spaces == Larger(w - sep - Larger(asked, n) - Len(sign) - Len(prefix), 0)
           IN Padded(sign \o prefix \o Repeat("0", zeros + IF ZeroPad(p, fl) THEN spaces ELSE 0)
                       \o NumberText(digits, sep),
                     IF ZeroPad(p, fl) THEN 0 ELSE spaces, "-" \in fl)
BY DEF fmtint, UValue, SignText, Marked, PrefixText, DigitsMin, SeparatorsIn, ZeroPad, NumberText

LEMMA UValueNat == ASSUME NEW v \in Int, NEW fl PROVE UValue(v, fl) \in Nat
<1>1. Unsigned(v, "long") \in Nat  BY Longest, UnsignedNat
<1>2. v \in Int /\ (~(v >= 0) => -v \in Nat) /\ (v >= 0 => v \in Nat)  OBVIOUS
<1> QED  BY <1>1, <1>2 DEF UValue

LEMMA SignsAndPrefixes ==
  ASSUME NEW v, NEW u, NEW b, NEW fl
  PROVE  /\ IsSeq(SignText(v, fl)) /\ Len(SignText(v, fl)) \in {0, 1}
         /\ IsSeq(PrefixText(u, b, fl)) /\ Len(PrefixText(u, b, fl)) \in {0, 2}
BY Tuples, EmptyIsSeq DEF SignText, PrefixText

\* The numbers of characters of each part.
LEMMA Lengths ==
  ASSUME NEW n \in Nat, NEW asked \in Int, NEW sep \in Int, NEW s \in Nat, NEW h \in Nat, NEW w \in Int
  PROVE  /\ Larger(asked - n - sep, 0) \in Nat
         /\ Larger(w - sep - Larger(asked, n) - s - h, 0) \in Nat
BY DEF Larger

LEMMA IntegerIsSeq ==
  ASSUME NEW v \in Int, NEW b \in Bases, NEW w \in Int, NEW p \in Int, NEW fl
  PROVE  IsSeq(fmtint(v, b, w, p, fl))
<1>1. PICK u \in Nat : u = UValue(v, fl)  BY UValueNat
<1>2. PICK digits : digits = convert(u, b, "UP" \in fl)  OBVIOUS
<1>3. IsSeq(digits) /\ Len(digits) \in Nat  BY <1>2, DigitsIsSeq
<1>4. PICK n \in Nat : n = Len(digits)  BY <1>3
<1>5. PICK asked \in Int : asked = DigitsMin(u, n, b, p, fl)  BY DEF DigitsMin
<1>6. PICK sep \in Int : sep = SeparatorsIn(n, fl)  BY DEF SeparatorsIn, getnumsep
<1>7. PICK sign, prefix : sign = SignText(v, fl) /\ prefix = PrefixText(u, b, fl)  OBVIOUS
<1>8. IsSeq(sign) /\ Len(sign) \in Nat /\ IsSeq(prefix) /\ Len(prefix) \in Nat
  BY <1>7, SignsAndPrefixes
<1>9. PICK s \in Nat, h \in Nat : s = Len(sign) /\ h = Len(prefix)  BY <1>8
<1>10. PICK zeros \in Nat, spaces \in Nat :
         /\ zeros = Larger(asked - n - sep, 0)
         /\ spaces = Larger(w - sep - Larger(asked, n) - s - h, 0)
  BY Lengths
<1>11. PICK fill \in Nat, pads \in Nat :
         /\ fill = zeros + IF ZeroPad(p, fl) THEN spaces ELSE 0
         /\ pads = IF ZeroPad(p, fl) THEN 0 ELSE spaces
  OBVIOUS
<1>12. PICK number : number = NumberText(digits, sep)  OBVIOUS
<1>13. IsSeq(number)  BY <1>3, <1>12, GroupedIsSeq DEF NumberText
<1>14. fmtint(v, b, w, p, fl)
         = Padded(sign \o prefix \o Repeat("0", fill) \o number, pads, "-" \in fl)
  BY ONLY <1>1, <1>2, <1>4, <1>5, <1>6, <1>7, <1>9, <1>10, <1>11, <1>12, IntegerParts
<1>15. IsSeq(sign \o prefix \o Repeat("0", fill) \o number)
  <2>1. IsSeq(Repeat("0", fill))  BY RepeatIsSeq
  <2>2. IsSeq(sign \o prefix)  BY <1>8, Concats
  <2>3. IsSeq(sign \o prefix \o Repeat("0", fill))  BY <2>1, <2>2, Concats
  <2> QED  BY <1>13, <2>3, Concats
<1> QED  BY <1>14, <1>15, PaddedIsSeq

LEMMA ExponentInt == ASSUME NEW v \in Finite PROVE getexponent(v) \in Int
<1>1. -99 \in Int /\ 99 \in Int /\ 0 \in Int  OBVIOUS
<1>2. v.m \in Nat /\ v.e \in Int  BY DEF Finite
<1>3. NumDigits(v.m, 10) - 1 + v.e \in Int  BY <1>2, DigitsNat
<1> QED  BY <1>1, <1>3, LargerInt DEF getexponent

LEMMA ScaledFinite ==
  ASSUME NEW v \in Finite, NEW x \in Int
  PROVE  Scaled(v, x) \in Finite /\ Scaled(v, x).m = v.m /\ Scaled(v, x).e = v.e - x
BY DEF Finite, Scaled

LEMMA TenPositive == \A n \in Nat : Power(10, n) \in Nat /\ Power(10, n) >= 1
BY PowerPositive

LEMMA DivideNat ==
  ASSUME NEW x \in Nat, NEW y \in Nat, y >= 1
  PROVE  x \div y \in Nat
OBVIOUS

LEMMA ProductNat == \A x, y \in Nat : x * y \in Nat
OBVIOUS

\* No part of a value that is printed is negative.
LEMMA castNat == ASSUME NEW v \in Finite PROVE cast(v) \in Nat
<1>1. PICK m \in Nat, e \in Int : m = v.m /\ e = v.e  BY DEF Finite
<1>2. UINTMAX_MAX \in Nat  BY Longest
<1>3. CASE m = 0  BY <1>1, <1>3 DEF cast
<1>4. CASE m > 0 /\ e >= 0
  <2>1. PICK y \in Nat : y = Power(10, e)  BY <1>4, TenPositive
  <2>2. m * y \in Nat  BY ProductNat
  <2>3. cast(v) \in {UINTMAX_MAX, m * y}  BY <1>1, <1>4, <2>1 DEF cast
  <2> QED  BY <1>2, <2>2, <2>3
<1>5. CASE m > 0 /\ e < 0
  <2>1. PICK y \in Nat : y = Power(10, -e) /\ y >= 1  BY <1>5, TenPositive
  <2>2. PICK q \in Nat : q = m \div y  BY <2>1, DivideNat
  <2>3. cast(v) \in {0, UINTMAX_MAX, q}  BY <1>1, <1>5, <2>1, <2>2 DEF cast, Smaller
  <2> QED  BY <1>2, <2>2, <2>3
<1> QED  BY <1>3, <1>4, <1>5

LEMMA myroundNat ==
  ASSUME NEW n \in Nat, NEW t \in Nat
  PROVE  myround(n, t) \in Nat
<1>1. PICK y \in Nat : y = Power(10, t) /\ y >= 1  BY TenPositive
<1>2. PICK q \in Nat : q = n \div y  BY <1>1, DivideNat
<1>3. myround(n, t) \in {0, q, q + 1}
  <2>1. myround(n, t) = IF NumDigits(n, 10) < t THEN 0
                        ELSE q + IF 2 * (n % y) < y THEN 0 ELSE 1
    BY <1>1, <1>2 DEF myround
  <2> QED  BY <2>1
<1> QED  BY <1>2, <1>3

LEMMA FractionNat == ASSUME NEW v \in Finite, NEW p \in Int PROVE Fraction(v, p) \in Nat
<1>1. PICK m \in Nat, e \in Int : m = v.m /\ e = v.e  BY DEF Finite
<1>2. PICK n \in Nat : n = IF v.e >= 0 THEN 0 ELSE IF BelowOne(v) THEN v.m ELSE v.m % Power(10, -v.e)
  <2>1. CASE e >= 0  BY <1>1, <2>1
  <2>2. CASE e < 0
    <3>1. PICK y \in Nat : y = Power(10, -e) /\ y >= 1  BY <2>2, TenPositive
    <3>2. m % y \in Nat  BY <3>1, ModRange
    <3> QED  BY <1>1, <2>2, <3>1, <3>2
  <2> QED  BY <2>1, <2>2
<1>3. CASE n = 0  BY <1>2, <1>3 DEF Fraction
<1>4. CASE n > 0 /\ p >= -e
  <2>1. PICK y \in Nat : y = Power(10, p + e)  BY <1>4, TenPositive
  <2>2. Fraction(v, p) = n * y  BY <1>1, <1>2, <1>4, <2>1 DEF Fraction
  <2> QED  BY <2>2, ProductNat
<1>5. CASE n > 0 /\ p < -e
  <2>0. -e - p \in Nat  BY <1>5
  <2>1. PICK t \in Nat : t = -e - p  BY <2>0
  <2>2. Fraction(v, p) = myround(n, t)  BY <1>1, <1>2, <1>5, <2>1 DEF Fraction
  <2> QED  BY <2>2, myroundNat
<1> QED  BY <1>3, <1>4, <1>5

\* A pass, where it leaves a decimal.
IsDecimal(d) == d.precision \in Int /\ d.exponent \in Int /\ d.int \in Nat /\ d.frac \in Nat

LEMMA PassDecimal ==
  ASSUME NEW v \in Finite, NEW estyle, NEW precision \in Int
  PROVE  IsDecimal(Pass(v, estyle, precision))
<1>1. MaxDigits \in Int  BY Longest, DigitsNat DEF MaxDigits
<1>2. PICK p \in Int : p = Smaller(precision, MaxDigits)  BY <1>1, LargerInt
<1>3. PICK x \in Int : x = IF estyle THEN getexponent(v) ELSE 0  BY ExponentInt
<1>4. PICK u \in Finite : u = Scaled(v, x)  BY ScaledFinite
<1>5. PICK i \in Nat : i = cast(u)  BY castNat
<1>6. PICK f \in Nat : f = Fraction(u, p)  BY FractionNat
<1>7. PICK d : d = Pass(v, estyle, precision)  OBVIOUS
<1>8. /\ d.precision = p /\ d.exponent \in {x, x + 1}
      /\ d.int \in {1, i, i + 1} /\ d.frac \in {0, f}
  BY <1>2, <1>3, <1>4, <1>5, <1>6, <1>7 DEF Pass
<1>9. IsDecimal(d)  BY <1>8 DEF IsDecimal
<1> QED  BY <1>7, <1>9

LEMMA DecimalParts ==
  ASSUME NEW v \in Finite, NEW p \in Int, NEW fl
  PROVE  IsDecimal(Decimal(v, p, fl))
<1>1. PICK asked \in Int : asked = IF p = -1 THEN 6 ELSE p  OBVIOUS
<1>2. v.kind = "finite"  BY DEF Finite
<1>3. CASE "G" \notin fl
  <2>1. PICK estyle : estyle = ("E" \in fl)  OBVIOUS
  <2>2. Decimal(v, p, fl) = Pass(v, estyle, asked)  BY <1>1, <1>2, <1>3, <2>1 DEF Decimal
  <2>3. IsDecimal(Pass(v, estyle, asked))  BY PassDecimal
  <2> QED  BY <2>2, <2>3
<1>4. CASE "G" \in fl
  <2>0. PICK less \in Int : less = asked - 1  OBVIOUS
  <2>1. PICK d : d = Pass(v, TRUE, less)  OBVIOUS
  <2>2. IsDecimal(d)  BY <2>1, PassDecimal
  <2>3. Decimal(v, p, fl) = Again(v, d)  BY <1>1, <1>2, <1>4, <2>0, <2>1 DEF Decimal
  <2>4. PICK q \in Int : q = d.precision - d.exponent  BY <2>2 DEF IsDecimal
  <2>5. IsDecimal(Pass(v, FALSE, q))  BY PassDecimal
  <2>6. Again(v, d) \in {d, Pass(v, FALSE, q)}  BY <2>4 DEF Again
  <2> QED  BY <2>2, <2>3, <2>5, <2>6
<1> QED  BY <1>3, <1>4

\* The last digit that is not zero is found by looking from the end.
LEMMA FractionIsSeq ==
  ASSUME NEW d, IsDecimal(d), NEW omit
  PROVE  IsSeq(FractionDigits(d, omit))
<1> DEFINE digits == IF d.frac = 0 THEN <<>> ELSE convert(d.frac, 10, FALSE)
           all    == Repeat("0", d.precision - Len(digits)) \o digits
           kept   == {n \in DOMAIN all : all[n] # "0"}
           end    == IF kept = {} THEN 0 ELSE CHOOSE n \in kept : \A k \in kept : k <= n
<1>1. FractionDigits(d, omit) = IF ~omit THEN all ELSE SubSeq(all, 1, end)
  BY DEF FractionDigits
<1>2. IsSeq(digits) /\ Len(digits) \in Nat
  <2>1. 10 \in Bases /\ d.frac \in Nat  BY DEF Bases, IsDecimal
  <2> QED  BY <2>1, DigitsIsSeq, EmptyIsSeq
<1>0. d.precision \in Int  BY DEF IsDecimal
<1> HIDE DEF digits
<1>3. IsSeq(Repeat("0", d.precision - Len(digits)))  BY <1>0, <1>2, RepeatIsSeq
<1>4. IsSeq(all)  BY <1>2, <1>3, Concats
<1> HIDE DEF all
<1>5. DOMAIN all = 1..Len(all) /\ Len(all) \in Nat  BY <1>4, Seqs
<1>6. CASE kept = {}
  <2>1. end \in Int /\ end <= Len(all)  BY <1>5, <1>6
  <2> HIDE DEF end
  <2> QED  BY <1>1, <1>4, <2>1, Firsts
<1>7. CASE kept # {}
  <2> DEFINE T == {Len(all) - n : n \in kept}
  <2>1. PICK m \in T : \A n \in T : m <= n
    <3>1. T \subseteq Nat /\ T # {}  BY <1>5, <1>7
    <3> HIDE DEF T
    <3> QED  BY <3>1, Least
  <2>2. \E n \in kept : \A k \in kept : k <= n
    <3>1. PICK n \in kept : m = Len(all) - n  OBVIOUS
    <3>2. \A k \in kept : k \in Nat /\ Len(all) - n <= Len(all) - k  BY <1>5, <2>1, <3>1
    <3> QED  BY <1>5, <3>1, <3>2
  <2>3. end \in kept  BY <1>7, <2>2
  <2>4. end \in Int /\ end <= Len(all)  BY <1>5, <2>3
  <2> HIDE DEF end
  <2> QED  BY <1>1, <1>4, <2>4, Firsts
<1> QED  BY <1>6, <1>7

LEMMA FloatIsSeq ==
  ASSUME NEW v \in Float, NEW p \in Int, NEW w \in Int, NEW fl
  PROVE  IsSeq(fmtflt(v, Decimal(v, p, fl), w, fl))
<1> DEFINE d    == Decimal(v, p, fl)
           up   == "UP" \in fl
           sign == FloatSign(v, fl)
           int  == convert(d.int, 10, FALSE)
           frac == FractionDigits(d, "G" \in fl /\ "#" \notin fl)
           whole == IF "'" \in fl THEN Grouped(int) ELSE int
           point == IF frac # <<>> \/ "#" \in fl THEN <<".">> ELSE <<>>
           tail == IF d.estyle THEN ExponentText(d.exponent, up) ELSE <<>>
           body == whole \o point \o frac \o tail
           padlen  == Larger(w - Len(sign) - Len(body), 0)
           zeropad == "0" \in fl /\ "-" \notin fl
<1>1. fmtflt(v, d, w, fl) =
        IF v.kind # "finite" THEN fmtstr(sign \o InfNan(v, up), w, Len(sign) + 3, fl)
        ELSE IF zeropad THEN sign \o Repeat("0", padlen) \o body
        ELSE Padded(sign \o body, padlen, "-" \in fl)
  BY DEF fmtflt
<1>2. IsSeq(sign) /\ Len(sign) \in Nat  BY Tuples, EmptyIsSeq, Seqs DEF FloatSign
<1>3. CASE v.kind # "finite"
  <2>1. IsSeq(InfNan(v, up))  BY Tuples DEF InfNan
  <2> HIDE DEF sign, up
  <2>2. IsSeq(sign \o InfNan(v, up))  BY <1>2, <2>1, Concats
  <2>3. Len(sign) + 3 \in Int  BY <1>2
  <2> QED  BY <1>1, <1>3, <2>2, <2>3, StringIsSeq
<1>4. CASE v.kind = "finite"
  <2>0. v \in Finite  BY <1>4 DEF Float
  <2>1. IsDecimal(d)  BY <2>0, DecimalParts
  <2>2. IsSeq(whole)
    <3>1. 10 \in Bases /\ d.int \in Nat  BY <2>1 DEF Bases, IsDecimal
    <3> QED  BY <3>1, DigitsIsSeq, GroupedIsSeq
  <2>3. IsSeq(point)  BY Tuples, EmptyIsSeq
  <2>4. IsSeq(tail)  BY Tuples, EmptyIsSeq DEF ExponentText
  <2> HIDE DEF d, sign, whole, point, tail
  <2>5. IsSeq(frac)  BY <2>1, FractionIsSeq
  <2> HIDE DEF frac
  <2>6. IsSeq(body) /\ Len(body) \in Nat  BY <2>2, <2>3, <2>4, <2>5, Concats, Seqs
  <2> HIDE DEF body
  <2>7. padlen \in Int  BY <1>2, <2>6, LargerInt
  <2> HIDE DEF padlen
  <2>8. IsSeq(sign \o body) /\ IsSeq(sign \o Repeat("0", padlen) \o body)
    BY <1>2, <2>6, <2>7, Concats, RepeatIsSeq
  <2>9. IsSeq(Padded(sign \o body, padlen, "-" \in fl))  BY <2>7, <2>8, PaddedIsSeq
  <2> QED  BY <1>1, <1>4, <2>8, <2>9 DEF d
<1> QED  BY <1>3, <1>4

-----------------------------------------------------------------------------
(* What the digits of a number are read as.                                *)
LEMMA Hexadecimal ==
  /\ DOMAIN Lower = 1..16 /\ DOMAIN Upper = 1..16
  /\ Lower[1] = "0" /\ Lower[2] = "1" /\ Lower[3] = "2" /\ Lower[4] = "3"
  /\ Lower[5] = "4" /\ Lower[6] = "5" /\ Lower[7] = "6" /\ Lower[8] = "7"
  /\ Lower[9] = "8" /\ Lower[10] = "9" /\ Lower[11] = "a" /\ Lower[12] = "b"
  /\ Lower[13] = "c" /\ Lower[14] = "d" /\ Lower[15] = "e" /\ Lower[16] = "f"
  /\ Upper[1] = "0" /\ Upper[2] = "1" /\ Upper[3] = "2" /\ Upper[4] = "3"
  /\ Upper[5] = "4" /\ Upper[6] = "5" /\ Upper[7] = "6" /\ Upper[8] = "7"
  /\ Upper[9] = "8" /\ Upper[10] = "9" /\ Upper[11] = "A" /\ Upper[12] = "B"
  /\ Upper[13] = "C" /\ Upper[14] = "D" /\ Upper[15] = "E" /\ Upper[16] = "F"
BY DEF Lower, Upper

LEMMA DigitsDiffer ==
  \A i, j \in 1..16 : Lower[i] = Lower[j] \/ Lower[i] = Upper[j] \/ Upper[i] = Upper[j] => i = j
<1>1. \A i \in 1..16 : i \in {1,2,3,4,5,6,7,8,9,10,11,12,13,14,15,16}  OBVIOUS
<1> QED  BY <1>1, Hexadecimal

LEMMA DigitRead ==
  ASSUME NEW caps, NEW i \in 1..16
  PROVE  /\ DigitValue(DigitsFor(caps)[i]) = i - 1
         /\ DigitsFor(caps)[i] \notin PassedOver
<1> DEFINE c == DigitsFor(caps)[i]
<1>1. c \in {Lower[i], Upper[i]}  BY DEF DigitsFor
<1>2. \A j \in 1..16 : c \in {Lower[j], Upper[j]} => j = i  BY <1>1, DigitsDiffer
<1>3. (CHOOSE j \in 1..16 : c \in {Lower[j], Upper[j]}) = i  BY <1>1, <1>2
<1>4. DigitValue(c) = i - 1  BY <1>3, Hexadecimal DEF DigitValue
<1>5. c \notin PassedOver
  <2>1. \A j \in 1..16 : j \in {1,2,3,4,5,6,7,8,9,10,11,12,13,14,15,16}  OBVIOUS
  <2>2. Lower[i] \notin PassedOver /\ Upper[i] \notin PassedOver
    BY <2>1, Hexadecimal DEF PassedOver
  <2> QED  BY <1>1, <2>2
<1> QED  BY <1>4, <1>5

LEMMA ZeroRead == \A b \in Bases : Taken(0, "0", b) = 0
<1> SUFFICES ASSUME NEW b \in Bases PROVE Taken(0, "0", b) = 0  OBVIOUS
<1>1. DigitsFor(FALSE)[1] = "0"  BY Hexadecimal DEF DigitsFor
<1>2. 1 \in 1..16 /\ 1 - 1 = 0 /\ b \in Nat /\ 0 * b + 0 = 0  BY DEF Bases
<1>3. DigitValue("0") = 0 /\ "0" \notin PassedOver  BY <1>1, <1>2, DigitRead
<1> QED  BY <1>2, <1>3 DEF Taken

LEMMA ReadOne == ASSUME NEW n0, NEW b, NEW c PROVE ReadAfter(n0, <<c>>, b) = Taken(n0, c, b)
<1> SUFFICES ASSUME NEW s, s = <<>>, NEW t, t = <<c>> PROVE ReadAfter(n0, t, b) = Taken(n0, c, b)
  OBVIOUS
<1>1. Len(s) = 0 /\ Len(t) = 1 /\ t[1] = c  OBVIOUS
<1>2. PICK n \in Nat : n = 0  OBVIOUS
<1>3. Len(s) = n /\ Len(t) = n + 1 /\ Alike(s, t, n) /\ t[n + 1] = c
  BY <1>1, <1>2 DEF Alike
<1>4. ReadAfter(n0, s, b) = n0  BY <1>1, ReadNone
<1>5. ReadAfter(n0, t, b) = Taken(ReadAfter(n0, s, b), t[n + 1], b)
  BY ONLY n \in Nat, <1>3, ReadNext, Zenon
<1> QED  BY <1>3, <1>4, <1>5

(* What convert writes is read as the number it was given.                 *)
LEMMA DigitsReadBack ==
  ASSUME NEW v \in Nat, NEW b \in Bases, NEW c
  PROVE  ReadAfter(0, convert(v, b, c), b) = v
<1> DEFINE T == {n \in Nat : ReadAfter(0, convert(n, b, c), b) = n}
<1>0. b \in Nat /\ b >= 2 /\ b <= 16  BY DEF Bases
<1>1. ASSUME NEW n \in Nat, \A k \in 0..(n - 1) : k \in T PROVE n \in T
  <2>1. PICK r \in 0..(b - 1) : r = n % b  BY Division
  <2>2. PICK a : a = DigitsFor(c)[r + 1] /\ DigitValue(a) = r /\ a \notin PassedOver
    <3>1. r + 1 \in 1..16 /\ (r + 1) - 1 = r  BY <1>0, <2>1
    <3> QED  BY <3>1, DigitRead
  <2>3. \A x : ReadAfter(x, <<a>>, b) = x * b + r  BY <2>2, ReadOne DEF Taken
  <2>4. CASE n < b
    <3>1. r = n /\ 0 * b + r = n  BY <1>0, <2>1, <2>4, Division
    <3>2. convert(n, b, c) = <<a>>  BY <2>2, <2>4, <3>1, ConvertSteps
    <3> QED  BY <2>3, <3>1, <3>2
  <2>5. CASE n >= b
    <3>1. PICK q \in Nat : q = n \div b /\ q \in 0..(n - 1) /\ n = b * q + r
      <4>1. n \div b \in Nat /\ n \div b < n /\ n = b * (n \div b) + r
        BY <1>0, <2>1, <2>5, Division
      <4> QED  BY <4>1
    <3>2. PICK s : s = convert(q, b, c) /\ IsSeq(s)  BY DigitsIsSeq
    <3>3. ReadAfter(0, s, b) = q  BY <1>1, <3>1, <3>2
    <3>4. convert(n, b, c) = s \o <<a>>  BY <2>1, <2>2, <2>5, <3>1, <3>2, ConvertSteps
    <3>5. IsSeq(<<a>>)  BY Tuples
    <3>6. ReadAfter(0, s \o <<a>>, b) = ReadAfter(ReadAfter(0, s, b), <<a>>, b)
      BY <3>2, <3>5, ReadConcat
    <3>7. q * b + r = n  BY <1>0, <3>1
    <3>8. ReadAfter(0, s \o <<a>>, b) = n  BY <2>3, <3>3, <3>6, <3>7
    <3> QED  BY <3>4, <3>8
  <2> QED  BY <1>0, <2>4, <2>5
<1> HIDE DEF T
<1>2. Nat \subseteq T  BY <1>1, StrongInduction
<1> QED  BY <1>2 DEF T

(* How many digits there are, and that no fewer would do.                  *)
LEMMA DigitsFewest ==
  ASSUME NEW v \in Nat, NEW b \in Bases, NEW c, NEW n \in Nat, n = Len(convert(v, b, c))
  PROVE  /\ n >= 1 /\ v < Power(b, n)
         /\ n = 1 \/ v >= Power(b, n - 1)
<1> DEFINE Fewest(x, k) == k >= 1 /\ x < Power(b, k) /\ (k = 1 \/ x >= Power(b, k - 1))
           T == {x \in Nat : \A k \in Nat : k = Len(convert(x, b, c)) => Fewest(x, k)}
<1>0. b \in Nat /\ b >= 2 /\ b >= 1  BY DEF Bases
<1>1. ASSUME NEW x \in Nat, \A k \in 0..(x - 1) : k \in T PROVE x \in T
  <2> SUFFICES ASSUME NEW k \in Nat, k = Len(convert(x, b, c)) PROVE Fewest(x, k)  OBVIOUS
  <2>1. \A a : IsSeq(<<a>>) /\ Len(<<a>>) = 1  BY Tuples
  <2>2. CASE x < b
    <3>1. k = 1
      <4>1. convert(x, b, c) = <<DigitsFor(c)[x + 1]>>  BY <2>2, ConvertSteps
      <4>2. PICK a : a = DigitsFor(c)[x + 1]  OBVIOUS
      <4>3. Len(<<a>>) = 1  BY <2>1
      <4> QED  BY ONLY <4>1, <4>2, <4>3, k = Len(convert(x, b, c)), Zenon
    <3>2. Power(b, 1) = b
      <4>1. Power(b, 0 + 1) = b * Power(b, 0)  BY PowerNext
      <4> QED  BY <1>0, <4>1, PowerZero
    <3> QED  BY <2>2, <3>1, <3>2
  <2>3. CASE x >= b
    <3>1. PICK q \in Nat, r \in 0..(b - 1) :
            q = x \div b /\ q \in 0..(x - 1) /\ q >= 1 /\ x = b * q + r
      <4>1. PICK r \in 0..(b - 1) : r = x % b  BY Division
      <4>2. x \div b \in Nat /\ x \div b < x /\ x \div b >= 1 /\ x = b * (x \div b) + r
        BY <1>0, <2>3, <4>1, Division
      <4> QED  BY <4>1, <4>2
    <3>2. PICK s : s = convert(q, b, c) /\ IsSeq(s)  BY DigitsIsSeq
    <3>3. PICK a : convert(x, b, c) = s \o <<a>>
      <4>1. convert(x, b, c) = s \o <<DigitsFor(c)[(x % b) + 1]>>
        BY <2>3, <3>1, <3>2, ConvertSteps
      <4> QED  BY <4>1
    <3>4. PICK j \in Nat : j = Len(s) /\ k = j + 1
      <4>1. Len(s \o <<a>>) = Len(s) + 1 /\ Len(s) \in Nat  BY <2>1, <3>2, Concats, Seqs
      <4> QED  BY <3>3, <4>1
    <3>5. j >= 1 /\ q < Power(b, j) /\ (j = 1 \/ q >= Power(b, j - 1))
      <4>1. q \in T  BY <1>1, <3>1
      <4> QED  BY <3>2, <3>4, <4>1
    <3>6. PICK i \in Nat : j = i + 1
      <4>1. j - 1 \in Nat /\ j = (j - 1) + 1  BY <3>5
      <4> QED  BY <4>1
    <3>7. PICK y \in Nat, z \in Nat : y = Power(b, i) /\ z = Power(b, j) /\ y >= 1 /\ z >= 1
      <4>1. Power(b, i) \in Nat /\ Power(b, i) >= 1  BY <1>0, PowerPositive
      <4>2. Power(b, j) \in Nat /\ Power(b, j) >= 1  BY <1>0, PowerPositive
      <4> QED  BY <4>1, <4>2
    <3>8. Power(b, k) = b * z /\ z = b * y
      BY <3>4, <3>6, <3>7, PowerNext
    <3>9. q < z /\ (q >= y)
      <4>1. j - 1 = i  BY <3>6
      <4>2. CASE j = 1
        <5>1. y = 1  BY <3>6, <3>7, <4>2, PowerZero
        <5> QED  BY <3>1, <3>5, <3>7, <5>1
      <4>3. CASE j # 1  BY <3>5, <3>7, <4>1, <4>3
      <4> QED  BY <4>2, <4>3
    <3>10. b * q + r < b * z /\ b * q + r >= b * y
      <4>1. q + 1 <= z /\ r < b /\ r >= 0  BY <1>0, <3>9
      <4>2. CASE b = 8   BY <3>9, <4>1, <4>2
      <4>3. CASE b = 10  BY <3>9, <4>1, <4>3
      <4>4. CASE b = 16  BY <3>9, <4>1, <4>4
      <4> QED  BY <4>2, <4>3, <4>4 DEF Bases
    <3>11. k - 1 = j /\ k >= 1  BY <3>4
    <3> QED  BY <3>1, <3>7, <3>8, <3>10, <3>11
  <2> QED  BY <1>0, <2>2, <2>3
<1> HIDE DEF T
<1>2. Nat \subseteq T  BY <1>1, StrongInduction
<1> QED  BY <1>2 DEF T

-----------------------------------------------------------------------------
(* The characters of a sequence.                                           *)
Chars(s) == {s[i] : i \in 1..Len(s)}

LEMMA TupleChars ==
  /\ Chars(<<>>) = {}
  /\ \A a : Chars(<<a>>) = {a}
  /\ \A a, b : Chars(<<a, b>>) = {a, b}
<1>1. Chars(<<>>) = {}  BY EmptyIsSeq DEF Chars
<1>2. ASSUME NEW a PROVE Chars(<<a>>) = {a}
  <2>1. Len(<<a>>) = 1 /\ <<a>>[1] = a  BY Tuples
  <2> QED  BY <2>1 DEF Chars
<1>3. ASSUME NEW a, NEW b PROVE Chars(<<a, b>>) = {a, b}
  <2>1. Len(<<a, b>>) = 2 /\ <<a, b>>[1] = a /\ <<a, b>>[2] = b  BY Tuples
  <2>2. 1..2 = {1, 2}  OBVIOUS
  <2> QED  BY <2>1, <2>2 DEF Chars
<1> QED  BY <1>1, <1>2, <1>3

LEMMA ConcatChars ==
  ASSUME NEW s, IsSeq(s), NEW t, IsSeq(t)
  PROVE  Chars(s \o t) = Chars(s) \cup Chars(t)
<1> DEFINE u == s \o t
<1>1. PICK m \in Nat, n \in Nat : m = Len(s) /\ n = Len(t)  BY Seqs
<1>2. /\ Len(u) = m + n /\ \A i \in 1..m : u[i] = s[i]
      /\ \A i \in 1..n : u[m + i] = t[i]
  BY <1>1, Concats
<1> HIDE DEF u
<1>3. \A i \in 1..(m + n) : i \in 1..m \/ (i - m \in 1..n /\ m + (i - m) = i)  OBVIOUS
<1>4. \A i \in 1..m : i \in 1..(m + n)  OBVIOUS
<1>5. \A i \in 1..n : m + i \in 1..(m + n)  OBVIOUS
<1>6. Chars(u) \subseteq Chars(s) \cup Chars(t)
  <2> SUFFICES ASSUME NEW i \in 1..(m + n) PROVE u[i] \in Chars(s) \cup Chars(t)
    BY <1>2 DEF Chars
  <2> QED  BY <1>1, <1>2, <1>3 DEF Chars
<1>7. Chars(s) \subseteq Chars(u)  BY <1>1, <1>2, <1>4 DEF Chars
<1>8. Chars(t) \subseteq Chars(u)  BY <1>1, <1>2, <1>5 DEF Chars
<1> QED  BY <1>6, <1>7, <1>8 DEF u

LEMMA Repeated ==
  ASSUME NEW c, NEW n \in Nat
  PROVE  /\ IsSeq(Repeat(c, n)) /\ Len(Repeat(c, n)) = n
         /\ \A i \in 1..n : Repeat(c, n)[i] = c
         /\ Chars(Repeat(c, n)) \subseteq {c}
<1> DEFINE f == Repeat(c, n)
<1>1. f = [i \in 1..n |-> f[i]] /\ \A i \in 1..n : f[i] = c  BY DEF Repeat
<1> HIDE DEF f
<1>2. IsSeq(f) /\ Len(f) = n  BY <1>1, SeqFrom
<1>3. Chars(f) \subseteq {c}  BY <1>1, <1>2 DEF Chars
<1> QED  BY <1>1, <1>2, <1>3 DEF f

\* The reader does not notice what it passes over, nor zeros at the beginning.
LEMMA ReadStays ==
  ASSUME NEW n0, NEW b, NEW s, IsSeq(s), \A c \in Chars(s) : Taken(n0, c, b) = n0
  PROVE  ReadAfter(n0, s, b) = n0
<1>1. PICK n \in Nat : n = Len(s)  BY Seqs
<1>2. \A i \in 1..n : Taken(n0, s[i], b) = n0  BY <1>1 DEF Chars
<1>3. PICK f : ReadBy(n0, s, b, n, f) /\ ReadAfter(n0, s, b) = f[n]
  BY ONLY n \in Nat, <1>1, ReadFunction, ZenonT(30)
<1> DEFINE T == {i \in Nat : i <= n => f[i] = n0}
<1>4. 0 \in T  BY <1>3 DEF ReadBy
<1>5. ASSUME NEW i \in Nat, i \in T PROVE i + 1 \in T
  <2>1. CASE i + 1 <= n
    <3>1. i + 1 \in 1..n /\ (i + 1) - 1 = i /\ i <= n  BY <2>1
    <3>2. f[i + 1] = Taken(f[(i + 1) - 1], s[i + 1], b)  BY <1>3, <3>1 DEF ReadBy
    <3> QED  BY <1>2, <1>5, <3>1, <3>2
  <2> QED  BY <2>1
<1> HIDE DEF T
<1>6. Nat \subseteq T  BY <1>4, <1>5, Induction
<1> QED  BY <1>3, <1>6 DEF T

LEMMA ReadPassed ==
  ASSUME NEW n0, NEW b, NEW s, IsSeq(s), Chars(s) \subseteq PassedOver
  PROVE  ReadAfter(n0, s, b) = n0
BY ReadStays DEF Taken

(* The digits of a number are digits of its base.                          *)
DigitSet(b, caps) == {DigitsFor(caps)[j] : j \in 1..b}
LEMMA DigitsChars ==
  ASSUME NEW v \in Nat, NEW b \in Bases, NEW c
  PROVE  Chars(convert(v, b, c)) \subseteq DigitSet(b, c)
<1> DEFINE T == {n \in Nat : Chars(convert(n, b, c)) \subseteq DigitSet(b, c)}
<1>0. b \in Nat /\ b >= 2  BY DEF Bases
<1>1. ASSUME NEW n \in Nat, \A k \in 0..(n - 1) : k \in T PROVE n \in T
  <2>1. PICK r \in 0..(b - 1) : r = n % b  BY Division
  <2>2. PICK a : a = DigitsFor(c)[r + 1]  OBVIOUS
  <2>3. r + 1 \in 1..b  BY <1>0
  <2>4. a \in DigitSet(b, c)  BY <2>2, <2>3 DEF DigitSet
  <2>5. Chars(<<a>>) = {a} /\ IsSeq(<<a>>)  BY TupleChars, Tuples
  <2>6. CASE n < b
    <3>1. r = n  BY <2>1, <2>6, Division
    <3>2. convert(n, b, c) = <<a>>  BY <2>2, <2>6, <3>1, ConvertSteps
    <3> QED  BY <2>4, <2>5, <3>2
  <2>7. CASE n >= b
    <3>1. PICK q \in Nat : q = n \div b /\ q \in 0..(n - 1)
      <4>1. n \div b \in Nat /\ n \div b < n  BY <1>0, <2>7, Division
      <4> QED  BY <4>1
    <3>2. PICK s : s = convert(q, b, c) /\ IsSeq(s)  BY DigitsIsSeq
    <3>3. Chars(s) \subseteq DigitSet(b, c)  BY <1>1, <3>1, <3>2
    <3>4. convert(n, b, c) = s \o <<a>>  BY <2>1, <2>2, <2>7, <3>1, <3>2, ConvertSteps
    <3>5. Chars(s \o <<a>>) = Chars(s) \cup Chars(<<a>>)  BY <2>5, <3>2, ConcatChars
    <3> QED  BY <2>4, <2>5, <3>3, <3>4, <3>5
  <2> QED  BY <1>0, <2>6, <2>7
<1> HIDE DEF T
<1>2. Nat \subseteq T  BY <1>1, StrongInduction
<1> QED  BY <1>2 DEF T

-----------------------------------------------------------------------------
(* Separators: a comma behind every digit that has a multiple of three     *)
(* others behind it, and nothing else.                                     *)
\* The separators behind the first j of n digits.
CommasIn(n, j) == (n - 1) \div 3 - (IF j = n THEN 0 ELSE (n - j - 1) \div 3)
Piece(s, n, i) == LET pos == n - i IN IF pos > 0 /\ pos % 3 = 0 THEN <<s[i], ",">> ELSE <<s[i]>>

Comma(n, i) == IF n - i > 0 /\ (n - i) % 3 = 0 THEN 1 ELSE 0
LEMMA CommasInt == \A n, j \in Nat : CommasIn(n, j) \in Int
BY DEF CommasIn

LEMMA CommaNext ==
  ASSUME NEW n \in Nat, NEW j \in Nat, j < n
  PROVE  CommasIn(n, j + 1)
           = CommasIn(n, j) + Comma(n, j + 1)
<1> USE DEF Comma
<1>1. PICK x \in Nat : x = n - (j + 1)  OBVIOUS
<1>2. n - j - 1 = x /\ (j + 1 = n <=> x = 0) /\ j # n  BY <1>1
<1>3. CASE x = 0  BY <1>1, <1>2, <1>3 DEF CommasIn
<1>4. CASE x > 0
  <2>1. n - (j + 1) - 1 = x - 1 /\ x - 1 \in Nat  BY <1>1, <1>4
  <2>2. x \div 3 = (x - 1) \div 3 + IF x % 3 = 0 THEN 1 ELSE 0  BY <1>4
  <2>3. (n - 1) \div 3 \in Int /\ x \div 3 \in Int /\ (x - 1) \div 3 \in Int  BY <2>1
  <2>4. CommasIn(n, j) = (n - 1) \div 3 - x \div 3  BY <1>2 DEF CommasIn
  <2>5. CommasIn(n, j + 1) = (n - 1) \div 3 - (x - 1) \div 3  BY <1>2, <1>4, <2>1 DEF CommasIn
  <2> QED  BY <1>1, <1>4, <2>2, <2>3, <2>4, <2>5
<1> QED  BY <1>3, <1>4

\* The sequence t is the digit c and e separators.
IsPiece(t, c, e) ==
  /\ IsSeq(t) /\ Len(t) = 1 + e /\ Chars(t) \subseteq {c, ","}
  /\ \A x, b : ReadAfter(x, t, b) = Taken(x, c, b)

LEMMA PieceRead ==
  ASSUME NEW s, NEW n \in Nat, NEW i \in Nat
  PROVE  IsPiece(Piece(s, n, i), s[i], Comma(n, i))
<1>1. PICK c : c = s[i]  OBVIOUS
<1>2. /\ IsSeq(<<c>>) /\ Len(<<c>>) = 1 /\ Chars(<<c>>) = {c}
      /\ \A x, b : ReadAfter(x, <<c>>, b) = Taken(x, c, b)
  BY Tuples, TupleChars, ReadOne
<1>3. IsSeq(<<c, ",">>) /\ Len(<<c, ",">>) = 2 /\ Chars(<<c, ",">>) = {c, ","}
  BY Tuples, TupleChars
<1>4. \A x, b : ReadAfter(x, <<c, ",">>, b) = Taken(x, c, b)
  <2> SUFFICES ASSUME NEW x, NEW b, NEW l, l = <<c>>, NEW m, m = <<c, ",">>
               PROVE  ReadAfter(x, m, b) = Taken(x, c, b)
    OBVIOUS
  <2>1. PICK k \in Nat : k = 1  OBVIOUS
  <2>2. Len(l) = k /\ Len(m) = k + 1 /\ Alike(l, m, k) /\ m[k + 1] = ","
    <3>1. l[1] = c /\ m[1] = c /\ m[2] = ","  OBVIOUS
    <3>2. Len(l) = 1 /\ Len(m) = 2  BY <1>2, <1>3, Zenon
    <3>3. \A j \in 1..k : j = 1  BY ONLY k \in Nat, <2>1
    <3>4. Alike(l, m, k)  BY <3>1, <3>3 DEF Alike
    <3>5. k + 1 = 2  BY ONLY k \in Nat, <2>1
    <3> QED  BY <2>1, <3>1, <3>2, <3>4, <3>5
  <2>3. ReadAfter(x, m, b) = Taken(ReadAfter(x, l, b), m[k + 1], b)
    BY ONLY k \in Nat, <2>2, ReadNext, Zenon
  <2>4. ReadAfter(x, l, b) = Taken(x, c, b)  BY <1>2
  <2>5. "," \in PassedOver  BY DEF PassedOver
  <2> QED  BY <2>2, <2>3, <2>4, <2>5 DEF Taken
<1>5. CASE n - i > 0 /\ (n - i) % 3 = 0
  <2>1. Piece(s, n, i) = <<c, ",">>  BY <1>1, <1>5 DEF Piece
  <2>2. PICK t : t = <<c, ",">>  OBVIOUS
  <2>3. IsSeq(t) /\ Len(t) = 2 /\ Chars(t) = {c, ","} /\ \A x, b : ReadAfter(x, t, b) = Taken(x, c, b)
    BY <1>3, <1>4, <2>2, Zenon
  <2>4. Comma(n, i) = 1  BY <1>5 DEF Comma
  <2>5. IsPiece(t, c, 1)
    <3>1. 2 = 1 + 1 /\ {c, ","} \subseteq {c, ","}  OBVIOUS
    <3> QED  BY ONLY <2>3, <3>1, Zenon DEF IsPiece
  <2> QED  BY <1>1, <2>1, <2>2, <2>4, <2>5, Zenon
<1>6. CASE ~(n - i > 0 /\ (n - i) % 3 = 0)
  <2>1. Piece(s, n, i) = <<c>>  BY <1>1, <1>6 DEF Piece
  <2>2. PICK t : t = <<c>>  OBVIOUS
  <2>3. IsSeq(t) /\ Len(t) = 1 /\ Chars(t) = {c} /\ \A x, b : ReadAfter(x, t, b) = Taken(x, c, b)
    BY <1>2, <2>2, Zenon
  <2>4. Comma(n, i) = 0  BY <1>6 DEF Comma
  <2>5. IsPiece(t, c, 0)  BY <2>3 DEF IsPiece
  <2> QED  BY <1>1, <2>1, <2>2, <2>4, <2>5, Zenon
<1> QED  BY <1>5, <1>6

LEMMA GroupedMeans ==
  ASSUME NEW s, IsSeq(s), NEW n \in Nat, n = Len(s)
  PROVE  Grouped(s) = FlattenSeq([i \in 1..n |-> Piece(s, n, i)])
<1>1. DOMAIN s = 1..n  BY Seqs
<1> QED  BY <1>1 DEF Grouped, Piece

(* With its separators a number is read as without.                        *)
IsGrouped(g, s, n) ==
  /\ IsSeq(g) /\ Len(g) = n + (n - 1) \div 3
  /\ \A x, b : ReadAfter(x, g, b) = ReadAfter(x, s, b)
  /\ Chars(g) \subseteq Chars(s) \cup {","}
LEMMA GroupedReads ==
  ASSUME NEW s, IsSeq(s), NEW n \in Nat, n = Len(s), n >= 1
  PROVE  IsGrouped(Grouped(s), s, n)
<1> SUFFICES ASSUME NEW x, NEW b
             PROVE  /\ IsSeq(Grouped(s)) /\ Len(Grouped(s)) = n + (n - 1) \div 3
                    /\ ReadAfter(x, Grouped(s), b) = ReadAfter(x, s, b)
                    /\ Chars(Grouped(s)) \subseteq Chars(s) \cup {","}
  BY Zenon DEF IsGrouped
<1> DEFINE Pre(j) == [i \in 1..j |-> Piece(s, n, i)]
           Flat(j) == FlattenSeq(Pre(j))
<1>1. PICK f : ReadBy(x, s, b, n, f) /\ ReadAfter(x, s, b) = f[n]
  BY ONLY n \in Nat, n = Len(s), ReadFunction, ZenonT(30)
<1>2. ASSUME NEW j \in Nat
      PROVE  IsSeq(Pre(j)) /\ Len(Pre(j)) = j /\ \A i \in 1..j : Pre(j)[i] = Piece(s, n, i)
  <2>1. PICK p : p = Pre(j)  OBVIOUS
  <2>2. p = [i \in 1..j |-> p[i]] /\ \A i \in 1..j : p[i] = Piece(s, n, i)  BY <2>1
  <2>3. IsSeq(p) /\ Len(p) = j  BY <2>2, SeqFrom
  <2> QED  BY <2>1, <2>2, <2>3, Zenon
<1> HIDE DEF Pre
<1> DEFINE OK(j, t) == /\ IsSeq(t) /\ Len(t) = j + CommasIn(n, j)
                       /\ ReadAfter(x, t, b) = f[j]
                       /\ Chars(t) \subseteq Chars(s) \cup {","}
           T == {j \in Nat : j <= n => OK(j, Flat(j))}
<1> HIDE DEF OK
<1>3. 0 \in T
  <2>1. Pre(0) = <<>>
    <3>1. IsSeq(Pre(0)) /\ Len(Pre(0)) = 0  BY <1>2
    <3>2. PICK p : p = Pre(0)  OBVIOUS
    <3> QED  BY <3>1, <3>2 DEF IsSeq
  <2>2. Flat(0) = <<>>  BY <2>1, FlattenFirst, Zenon
  <2>3. CommasIn(n, 0) = 0  BY DEF CommasIn
  <2>4. PICK t : t = <<>>  OBVIOUS
  <2>5. IsSeq(t) /\ Len(t) = 0 /\ Chars(t) = {}  BY <2>4, EmptyIsSeq, TupleChars, Zenon
  <2>6. ReadAfter(x, t, b) = f[0]  BY <1>1, <2>5, ReadNone DEF ReadBy
  <2>7. OK(0, t)  BY <2>3, <2>5, <2>6 DEF OK
  <2>8. OK(0, Flat(0))  BY ONLY <2>2, <2>4, <2>7, Zenon
  <2> QED  BY <2>8
<1>4. ASSUME NEW j \in Nat, j \in T PROVE j + 1 \in T
  <2>1. SUFFICES ASSUME j + 1 <= n PROVE OK(j + 1, Flat(j + 1))  OBVIOUS
  <2>2. PICK t : t = Flat(j) /\ OK(j, t)
    <3>1. j <= n  BY <2>1
    <3> QED  BY <1>4, <3>1
  <2>3. PICK k \in Nat : k = j + 1 /\ k \in 1..n /\ k - 1 = j  BY <2>1
  <2>4. PICK u : u = Piece(s, n, k)  OBVIOUS
  <2>5. /\ IsSeq(u) /\ Len(u) = 1 + Comma(n, k) /\ Chars(u) \subseteq {s[k], ","}
        /\ ReadAfter(f[j], u, b) = Taken(f[j], s[k], b)
    <3>1. IsPiece(u, s[k], Comma(n, k))  BY <2>4, PieceRead
    <3> QED  BY <3>1 DEF IsPiece
  <2>6. Flat(k) = t \o u
    <3>1. PICK l, m : l = Pre(j) /\ m = Pre(k)  OBVIOUS
    <3>2. IsSeq(l) /\ Len(l) = j /\ \A i \in 1..j : l[i] = Piece(s, n, i)  BY <1>2, <3>1, Zenon
    <3>3. IsSeq(m) /\ Len(m) = k /\ \A i \in 1..k : m[i] = Piece(s, n, i)  BY <1>2, <3>1, Zenon
    <3>4. l = <<>> \/ j # 0  BY <3>2 DEF IsSeq
    <3>5. \A i \in 1..j : m[i] = l[i]
      <4>1. \A i \in 1..j : i \in 1..k  BY <2>3
      <4> QED  BY <3>2, <3>3, <4>1
    <3>6. m[j + 1] = u /\ Len(m) = j + 1
      <4>1. j + 1 \in 1..k  BY <2>3
      <4> QED  BY <2>3, <2>4, <3>3, <4>1
    <3>7. FlattenSeq(m) = FlattenSeq(l) \o m[j + 1]
      <4>1. Len(l) = j /\ Len(m) = j + 1 /\ IsSeq(m[j + 1])  BY ONLY <2>5, <3>2, <3>6
      <4>2. Extends(l, m, j)  BY ONLY <3>4, <3>5, <4>1 DEF Extends
      <4> QED  BY ONLY j \in Nat, <4>2, FlattenExtended
    <3> QED  BY ONLY <2>2, <3>1, <3>6, <3>7, Zenon
  <2>7. IsSeq(t \o u) /\ Len(t \o u) = Len(t) + Len(u)  BY <2>2, <2>5, Concats DEF OK
  <2>8. Len(t \o u) = k + CommasIn(n, k)
    <3>1. CommasIn(n, j + 1) = CommasIn(n, j) + Comma(n, j + 1)
      <4>1. j < n  BY <2>1
      <4> QED  BY <4>1, CommaNext
    <3>2. PICK y \in Int, z \in Int : y = Len(t) /\ z = CommasIn(n, j) /\ y = j + z
      <4>1. Len(t) = j + CommasIn(n, j)  BY <2>2 DEF OK
      <4>2. PICK z \in Int : z = CommasIn(n, j)  BY CommasInt
      <4> QED  BY <4>1, <4>2
    <3>3. PICK e \in {0, 1} : e = Comma(n, k) /\ Len(u) = 1 + e
      BY <2>5 DEF Comma
    <3>4. CommasIn(n, k) = z + e  BY <2>3, <3>1, <3>2, <3>3
    <3>5. Len(t) + Len(u) = y + (1 + e)  BY <3>2, <3>3
    <3>6. y + (1 + e) = k + (z + e)  BY <2>3, <3>2
    <3> QED  BY <2>7, <3>4, <3>5, <3>6
  <2>9. ReadAfter(x, t \o u, b) = f[k]
    <3>1. ReadAfter(x, t \o u, b) = ReadAfter(ReadAfter(x, t, b), u, b)
      BY <2>2, <2>5, ReadConcat DEF OK
    <3>2. f[k] = Taken(f[k - 1], s[k], b)  BY <1>1, <2>3 DEF ReadBy
    <3>3. ReadAfter(x, t, b) = f[j]  BY <2>2 DEF OK
    <3> QED  BY ONLY <2>3, <2>5, <3>1, <3>2, <3>3, Zenon
  <2>10. Chars(t \o u) \subseteq Chars(s) \cup {","}
    <3>1. Chars(t \o u) = Chars(t) \cup Chars(u)  BY <2>2, <2>5, ConcatChars DEF OK
    <3>2. s[k] \in Chars(s)  BY <2>3 DEF Chars
    <3>3. Chars(t) \subseteq Chars(s) \cup {","}  BY <2>2 DEF OK
    <3> QED  BY <2>5, <3>1, <3>2, <3>3
  <2>11. OK(k, t \o u)  BY ONLY <2>7, <2>8, <2>9, <2>10, Zenon DEF OK
  <2> QED  BY ONLY <2>3, <2>6, <2>11, Zenon
<1> HIDE DEF T
<1>5. Nat \subseteq T  BY <1>3, <1>4, Induction
<1>6. OK(n, Flat(n))  BY <1>5 DEF T
<1>7. Grouped(s) = Flat(n)  BY GroupedMeans DEF Pre
<1>8. CommasIn(n, n) = (n - 1) \div 3  BY DEF CommasIn
<1> QED  BY ONLY <1>1, <1>6, <1>7, <1>8, Zenon DEF OK

-----------------------------------------------------------------------------
(* A field: blanks, a sign, a prefix, zeros and a number, in this order.   *)
IsNumeral(number, b, caps, u) ==
  /\ IsSeq(number) /\ ReadAfter(0, number, b) = u
  /\ Chars(number) \subseteq DigitSet(b, caps) \cup {","}
Letter(caps) == IF caps THEN "X" ELSE "x"
IsSign(sign) == IsSeq(sign) /\ Len(sign) \in {0, 1} /\ Chars(sign) \subseteq {"+", "-", " "}
IsMark(prefix, caps) == prefix = <<>> \/ prefix = <<"0", Letter(caps)>>

\* The letter of a prefix comes behind a "0", and the "0" before any digit.
Placed(t, letter, digits) ==
  \A k \in 1..Len(t) : t[k] = letter =>
    k > 1 /\ t[k - 1] = "0" /\ \A j \in 1..(k - 2) : t[j] \notin digits
\* The blanks of t are among its first n characters.
BlankOnly(t, n) == \A k \in 1..Len(t) : t[k] = " " => k <= n

LEMMA PlacedBehind ==
  ASSUME NEW s, IsSeq(s), NEW t, IsSeq(t), NEW letter, NEW digits, Placed(t, letter, digits),
         letter \notin Chars(s), Chars(s) \cap digits = {}
  PROVE  Placed(s \o t, letter, digits)
<1> DEFINE u == s \o t
<1>1. PICK m \in Nat, n \in Nat : m = Len(s) /\ n = Len(t)  BY Seqs
<1>2. /\ Len(u) = m + n /\ \A i \in 1..m : u[i] = s[i]
      /\ \A i \in 1..n : u[m + i] = t[i]
  BY <1>1, Concats
<1> HIDE DEF u
<1>3. \A i \in 1..m : u[i] # letter /\ u[i] \notin digits  BY <1>1, <1>2 DEF Chars
<1>4. \A k \in 1..n : t[k] = letter => /\ k > 1 /\ t[k - 1] = "0"
                                       /\ \A j \in 1..(k - 2) : t[j] \notin digits
  BY <1>1 DEF Placed
<1>5. SUFFICES ASSUME NEW k \in 1..(m + n), u[k] = letter
               PROVE  k > 1 /\ u[k - 1] = "0" /\ \A j \in 1..(k - 2) : u[j] \notin digits
  BY <1>2 DEF Placed, u
<1>6. PICK i \in 1..n : k = m + i
  <2>1. k \notin 1..m  BY <1>3, <1>5
  <2>2. k - m \in 1..n /\ k = m + (k - m)  BY <2>1
  <2> QED  BY <2>2
<1>7. i > 1 /\ t[i - 1] = "0" /\ \A j \in 1..(i - 2) : t[j] \notin digits
  BY <1>2, <1>4, <1>5, <1>6
<1>8. k > 1 /\ u[k - 1] = "0"
  <2>1. i - 1 \in 1..n /\ m + (i - 1) = k - 1  BY <1>6, <1>7
  <2>2. u[m + (i - 1)] = t[i - 1]  BY <1>2, <2>1
  <2> QED  BY <1>6, <1>7, <2>1, <2>2
<1>9. ASSUME NEW j \in 1..(k - 2) PROVE u[j] \notin digits
  <2>1. CASE j \in 1..m  BY <1>3, <2>1
  <2>2. CASE j \notin 1..m
    <3>1. j - m \in 1..(i - 2) /\ j - m \in 1..n /\ m + (j - m) = j  BY <1>6, <2>2
    <3>2. u[m + (j - m)] = t[j - m]  BY <1>2, <3>1
    <3> QED  BY <1>7, <3>1, <3>2
  <2> QED  BY <2>1, <2>2
<1> QED  BY <1>8, <1>9

LEMMA PlacedBefore ==
  ASSUME NEW s, IsSeq(s), NEW t, IsSeq(t), NEW letter, NEW digits, Placed(s, letter, digits),
         letter \notin Chars(t)
  PROVE  Placed(s \o t, letter, digits)
<1> DEFINE u == s \o t
<1>1. PICK m \in Nat, n \in Nat : m = Len(s) /\ n = Len(t)  BY Seqs
<1>2. /\ Len(u) = m + n /\ \A i \in 1..m : u[i] = s[i]
      /\ \A i \in 1..n : u[m + i] = t[i]
  BY <1>1, Concats
<1> HIDE DEF u
<1>3. \A i \in 1..n : u[m + i] # letter  BY <1>1, <1>2 DEF Chars
<1>4. \A k \in 1..m : s[k] = letter => /\ k > 1 /\ s[k - 1] = "0"
                                       /\ \A j \in 1..(k - 2) : s[j] \notin digits
  BY <1>1 DEF Placed
<1>5. SUFFICES ASSUME NEW k \in 1..(m + n), u[k] = letter
               PROVE  k > 1 /\ u[k - 1] = "0" /\ \A j \in 1..(k - 2) : u[j] \notin digits
  BY <1>2 DEF Placed, u
<1>6. k \in 1..m
  <2>1. k \notin 1..m => k - m \in 1..n /\ m + (k - m) = k  OBVIOUS
  <2> QED  BY <1>3, <1>5, <2>1
<1>7. k > 1 /\ s[k - 1] = "0" /\ \A j \in 1..(k - 2) : s[j] \notin digits
  BY <1>2, <1>4, <1>5, <1>6
<1>8. k - 1 \in 1..m /\ \A j \in 1..(k - 2) : j \in 1..m  BY <1>6, <1>7
<1> QED  BY <1>2, <1>7, <1>8

LEMMA BlankBefore ==
  ASSUME NEW s, IsSeq(s), NEW t, IsSeq(t), NEW n, BlankOnly(s, n), " " \notin Chars(t)
  PROVE  BlankOnly(s \o t, n)
<1> DEFINE u == s \o t
<1>1. PICK m \in Nat, q \in Nat : m = Len(s) /\ q = Len(t)  BY Seqs
<1>2. /\ Len(u) = m + q /\ \A i \in 1..m : u[i] = s[i]
      /\ \A i \in 1..q : u[m + i] = t[i]
  BY ONLY IsSeq(s), IsSeq(t), <1>1, Concats
<1> HIDE DEF u
<1>3. \A i \in 1..q : u[m + i] # " "  BY <1>1, <1>2 DEF Chars
<1>4. \A k \in 1..m : s[k] = " " => k <= n  BY <1>1 DEF BlankOnly
<1>5. SUFFICES ASSUME NEW k \in 1..(m + q), u[k] = " " PROVE k <= n
  BY <1>2 DEF BlankOnly, u
<1>6. k \in 1..m
  <2>1. k \notin 1..m => k - m \in 1..q /\ m + (k - m) = k
    BY ONLY m \in Nat, q \in Nat, k \in 1..(m + q)
  <2> QED  BY <1>3, <1>5, <2>1
<1> QED  BY <1>2, <1>4, <1>5, <1>6

\* Neither a digit nor a separator is a blank, a sign or a letter.
LEMMA DigitsApart ==
  ASSUME NEW b \in Bases, NEW caps
  PROVE  /\ DigitSet(b, caps) \cap PassedOver = {}
         /\ "0" \in DigitSet(b, caps) /\ Letter(caps) \in PassedOver \ {" ", "+", "-", ","}
<1>1. \A j \in 1..b : j \in 1..16  BY DEF Bases
<1>2. DigitSet(b, caps) \cap PassedOver = {}  BY <1>1, DigitRead DEF DigitSet
<1>3. 1 \in 1..b  BY DEF Bases
<1>4. DigitsFor(caps)[1] = "0"  BY Hexadecimal DEF DigitsFor
<1>5. "0" \in DigitSet(b, caps)  BY <1>3, <1>4 DEF DigitSet
<1>6. Letter(caps) \in {"x", "X"}  BY DEF Letter
<1> QED  BY <1>2, <1>5, <1>6 DEF PassedOver

LEMMA ReadSilent ==
  ASSUME NEW b \in Bases, NEW s, IsSeq(s), Chars(s) \subseteq PassedOver \cup {"0"}
  PROVE  ReadAfter(0, s, b) = 0
<1>1. Taken(0, "0", b) = 0  BY ZeroRead
<1>2. \A c \in Chars(s) : Taken(0, c, b) = 0  BY <1>1 DEF Taken
<1> QED  BY <1>2, ReadStays

LEMMA PrefixParts ==
  ASSUME NEW prefix, NEW caps, IsMark(prefix, caps)
  PROVE  /\ IsSeq(prefix) /\ Len(prefix) \in {0, 2} /\ Chars(prefix) \subseteq {"0", Letter(caps)}
         /\ \A digits : Placed(prefix, Letter(caps), digits)
<1>1. PICK c : c = Letter(caps) /\ c # "0"  BY DEF Letter
<1>2. CASE prefix = <<>>
  <2>1. IsSeq(prefix) /\ Len(prefix) = 0 /\ Chars(prefix) = {}  BY <1>2, EmptyIsSeq, TupleChars
  <2> QED  BY <2>1 DEF Placed
<1>3. CASE prefix = <<"0", c>>
  <2>1. IsSeq(prefix) /\ Len(prefix) = 2 /\ Chars(prefix) = {"0", c}
    BY <1>3, Tuples, TupleChars
  <2>2. prefix[1] = "0" /\ prefix[2] = c  BY <1>3
  <2>3. \A k \in 1..2 : k \in {1, 2}  OBVIOUS
  <2>4. \A digits : Placed(prefix, c, digits)
    <3> SUFFICES ASSUME NEW digits, NEW k \in 1..2, prefix[k] = c
                 PROVE  k > 1 /\ prefix[k - 1] = "0" /\ \A j \in 1..(k - 2) : prefix[j] \notin digits
      BY <2>1 DEF Placed
    <3>1. k = 2  BY <1>1, <2>2, <2>3
    <3>2. k - 1 = 1 /\ k - 2 = 0 /\ k > 1  BY <3>1
    <3> QED  BY <2>2, <3>2
  <2> QED  BY <1>1, <2>1, <2>4
<1> QED  BY <1>1, <1>2, <1>3 DEF IsMark

-----------------------------------------------------------------------------
\* What is not padding: every statement about it, from its parts.
IsBody(t, sign, prefix, fill, number) == t = sign \o prefix \o Repeat("0", fill) \o number
BodySays(t, b, caps, u, sign) ==
  /\ IsSeq(t) /\ ReadAfter(0, t, b) = u
  /\ "-" \in Chars(t) <=> "-" \in Chars(sign)
  /\ Chars(t) \subseteq DigitSet(b, caps) \cup {" ", "+", "-", ",", Letter(caps)}
  /\ Placed(t, Letter(caps), DigitSet(b, caps))
  /\ BlankOnly(t, Len(sign))
LEMMA Body ==
  ASSUME NEW b \in Bases, NEW caps, NEW u, NEW sign, IsSign(sign), NEW prefix, IsMark(prefix, caps),
         NEW fill \in Nat, NEW number, IsNumeral(number, b, caps, u),
         NEW t, IsBody(t, sign, prefix, fill, number)
  PROVE  BodySays(t, b, caps, u, sign) /\ Len(t) = Len(sign) + Len(prefix) + fill + Len(number)
<1> DEFINE zeros == Repeat("0", fill)
           s1 == sign \o prefix
           s2 == s1 \o zeros
<1>0. /\ DigitSet(b, caps) \cap PassedOver = {} /\ "0" \in DigitSet(b, caps)
      /\ Letter(caps) \in PassedOver \ {" ", "+", "-", ","}
      /\ {" ", "+", "-", ","} \subseteq PassedOver /\ "0" \notin PassedOver
  BY DigitsApart DEF PassedOver
<1>1. IsSeq(sign) /\ Chars(sign) \subseteq {"+", "-", " "}  BY DEF IsSign
<1>2. IsSeq(prefix) /\ Chars(prefix) \subseteq {"0", Letter(caps)}
      /\ Placed(prefix, Letter(caps), DigitSet(b, caps))
  BY PrefixParts
<1>3. IsSeq(zeros) /\ Len(zeros) = fill /\ Chars(zeros) \subseteq {"0"}  BY Repeated
<1>4. /\ IsSeq(number) /\ ReadAfter(0, number, b) = u
      /\ Chars(number) \subseteq DigitSet(b, caps) \cup {","}
  BY DEF IsNumeral
<1>5. t = s2 \o number  BY DEF IsBody
<1> HIDE DEF zeros
<1>6. IsSeq(s1) /\ Len(s1) = Len(sign) + Len(prefix) /\ Chars(s1) = Chars(sign) \cup Chars(prefix)
  BY <1>1, <1>2, Concats, ConcatChars
<1>7. Placed(s1, Letter(caps), DigitSet(b, caps)) /\ BlankOnly(s1, Len(sign))
  <2>1. Letter(caps) \notin Chars(sign) /\ Chars(sign) \cap DigitSet(b, caps) = {}  BY <1>0, <1>1
  <2>2. " " \notin Chars(prefix)  BY <1>0, <1>2
  <2>3. BlankOnly(sign, Len(sign))
    <3>1. PICK n \in Nat : n = Len(sign)  BY <1>1, Seqs
    <3>2. \A k \in 1..n : k <= n  BY ONLY n \in Nat
    <3> QED  BY ONLY <3>1, <3>2, Zenon DEF BlankOnly
  <2> QED  BY <1>1, <1>2, <2>1, <2>2, <2>3, PlacedBehind, BlankBefore
<1> HIDE DEF s1
<1>8. IsSeq(s2) /\ Len(s2) = Len(s1) + fill /\ Chars(s2) = Chars(s1) \cup Chars(zeros)
  BY <1>3, <1>6, Concats, ConcatChars
<1>9. Placed(s2, Letter(caps), DigitSet(b, caps)) /\ BlankOnly(s2, Len(sign))
  <2>1. Letter(caps) \notin Chars(zeros) /\ " " \notin Chars(zeros)  BY <1>0, <1>3
  <2> QED  BY <1>3, <1>6, <1>7, <2>1, PlacedBefore, BlankBefore
<1> HIDE DEF s2
<1>10. IsSeq(t) /\ Len(t) = Len(s2) + Len(number) /\ Chars(t) = Chars(s2) \cup Chars(number)
  BY <1>4, <1>5, <1>8, Concats, ConcatChars
<1>11. Placed(t, Letter(caps), DigitSet(b, caps)) /\ BlankOnly(t, Len(sign))
  <2>1. Letter(caps) \notin Chars(number) /\ " " \notin Chars(number)  BY <1>0, <1>4
  <2> QED  BY <1>4, <1>5, <1>8, <1>9, <2>1, PlacedBefore, BlankBefore
<1>12. ReadAfter(0, t, b) = u
  <2>1. Chars(s2) \subseteq PassedOver \cup {"0"}  BY <1>0, <1>1, <1>2, <1>3, <1>6, <1>8
  <2>2. ReadAfter(0, s2, b) = 0  BY <1>8, <2>1, ReadSilent
  <2>3. ReadAfter(0, s2 \o number, b) = ReadAfter(ReadAfter(0, s2, b), number, b)
    BY <1>4, <1>8, ReadConcat
  <2> QED  BY <1>4, <1>5, <2>2, <2>3
<1>13. "-" \in Chars(t) <=> "-" \in Chars(sign)
  <2>1. "-" \notin Chars(prefix) /\ "-" \notin Chars(zeros) /\ "-" \notin Chars(number)
    BY <1>0, <1>2, <1>3, <1>4
  <2> QED  BY <1>6, <1>8, <1>10, <2>1
<1>14. Chars(t) \subseteq DigitSet(b, caps) \cup {" ", "+", "-", ",", Letter(caps)}
  BY <1>0, <1>1, <1>2, <1>3, <1>4, <1>6, <1>8, <1>10
<1>15. Len(t) = Len(sign) + Len(prefix) + fill + Len(number)  BY <1>6, <1>8, <1>10
<1> QED  BY <1>10, <1>11, <1>12, <1>13, <1>14, <1>15 DEF BodySays

LEMMA NothingAdded == ASSUME NEW s, IsSeq(s) PROVE <<>> \o s = s /\ s \o <<>> = s
BY DEF IsSeq

\* The sequence u is s, of m elements, followed by t, of n.
IsJoined(u, s, m, t, n) ==
  /\ IsSeq(u) /\ Len(u) = m + n /\ Chars(u) = Chars(s) \cup Chars(t)
  /\ \A i \in 1..m : u[i] = s[i]
  /\ \A i \in 1..n : u[m + i] = t[i]
LEMMA Joined ==
  ASSUME NEW s, IsSeq(s), NEW t, IsSeq(t), NEW m, m = Len(s), NEW n, n = Len(t)
  PROVE  IsJoined(s \o t, s, m, t, n) /\ m \in Nat /\ n \in Nat
<1>1. Chars(s \o t) = Chars(s) \cup Chars(t)  BY ConcatChars
<1> QED  BY <1>1, Concats, Seqs DEF IsJoined

\* The field out is the body t of n characters, with blanks on one side.
PadsAround(out, t, n, pads, left) ==
  /\ IsSeq(out) /\ Len(out) = n + pads
  /\ \A k \in 1..n : out[IF left THEN k ELSE pads + k] = t[k]
  /\ \A k \in 1..pads : out[IF left THEN n + k ELSE k] = " "
  /\ Chars(t) \subseteq Chars(out) /\ Chars(out) \subseteq Chars(t) \cup {" "}
  /\ pads = 0 => out = t

LEMMA PaddedAround ==
  ASSUME NEW t, IsSeq(t), NEW n \in Nat, n = Len(t), NEW pads \in Nat, NEW left
  PROVE  PadsAround(Padded(t, pads, left), t, n, pads, left)
<1> DEFINE sp == Repeat(" ", pads)
<1>1. IsSeq(sp) /\ Len(sp) = pads /\ Chars(sp) \subseteq {" "} /\ \A k \in 1..pads : sp[k] = " "
  BY Repeated
<1>2. pads = 0 => sp = <<>>
  <2>1. PICK s : s = sp  OBVIOUS
  <2> HIDE DEF sp
  <2>2. IsSeq(s) /\ Len(s) = pads  BY <1>1, <2>1
  <2> QED  BY <2>1, <2>2 DEF IsSeq
<1>3. Padded(t, pads, left) = IF left THEN t \o sp ELSE sp \o t  BY DEF Padded
<1> HIDE DEF sp
<1>4. CASE left
  <2>1. PICK out : out = Padded(t, pads, left) /\ out = t \o sp  BY <1>3, <1>4
  <2>2. IsJoined(out, t, n, sp, pads)
    <3>1. pads = Len(sp)  BY <1>1
    <3> QED  BY ONLY IsSeq(t), n = Len(t), <1>1, <2>1, <3>1, Joined, Zenon
  <2>3. pads = 0 => out = t  BY <1>2, <2>1, NothingAdded
  <2>4. PadsAround(out, t, n, pads, left)  BY <1>1, <1>4, <2>2, <2>3 DEF PadsAround, IsJoined
  <2> QED  BY <2>1, <2>4
<1>5. CASE ~left
  <2>1. PICK out : out = Padded(t, pads, left) /\ out = sp \o t  BY <1>3, <1>5
  <2>2. IsJoined(out, sp, pads, t, n)
    <3>1. pads = Len(sp)  BY <1>1
    <3> QED  BY ONLY IsSeq(t), n = Len(t), <1>1, <2>1, <3>1, Joined, Zenon
  <2>3. pads = 0 => out = t  BY <1>2, <2>1, NothingAdded
  <2>4. pads + n = n + pads  OBVIOUS
  <2>5. PadsAround(out, t, n, pads, left)  BY <1>1, <1>5, <2>2, <2>3, <2>4 DEF PadsAround, IsJoined
  <2> QED  BY <2>1, <2>5
<1> QED  BY <1>4, <1>5

\* The reader passes over the padding.
LEMMA PaddedReads ==
  ASSUME NEW t, IsSeq(t), NEW pads \in Nat, NEW left, NEW b
  PROVE  ReadAfter(0, Padded(t, pads, left), b) = ReadAfter(0, t, b)
<1> DEFINE sp == Repeat(" ", pads)
<1>1. IsSeq(sp) /\ Chars(sp) \subseteq PassedOver  BY Repeated DEF PassedOver
<1>2. Padded(t, pads, left) = IF left THEN t \o sp ELSE sp \o t  BY DEF Padded
<1> HIDE DEF sp
<1>3. \A x : ReadAfter(x, sp, b) = x  BY <1>1, ReadPassed
<1>4. ReadAfter(0, t \o sp, b) = ReadAfter(ReadAfter(0, t, b), sp, b)  BY <1>1, ReadConcat
<1>5. ReadAfter(0, sp \o t, b) = ReadAfter(ReadAfter(0, sp, b), t, b)  BY <1>1, ReadConcat
<1> QED  BY <1>2, <1>3, <1>4, <1>5

LEMMA PaddedPlaced ==
  ASSUME NEW t, IsSeq(t), NEW pads \in Nat, NEW left, NEW letter, letter # " ",
         NEW digits, " " \notin digits, Placed(t, letter, digits)
  PROVE  Placed(Padded(t, pads, left), letter, digits)
<1> DEFINE sp == Repeat(" ", pads)
<1>1. IsSeq(sp) /\ Chars(sp) \subseteq {" "}  BY Repeated
<1>2. Padded(t, pads, left) = IF left THEN t \o sp ELSE sp \o t  BY DEF Padded
<1> HIDE DEF sp
<1>3. letter \notin Chars(sp) /\ Chars(sp) \cap digits = {}  BY <1>1
<1>4. Placed(t \o sp, letter, digits) /\ Placed(sp \o t, letter, digits)
  BY <1>1, <1>3, PlacedBefore, PlacedBehind
<1> QED  BY <1>2, <1>4

-----------------------------------------------------------------------------
(* What the field of an integer says, and in which characters.             *)
SaysInteger(out, b, caps, u, negative) ==
  /\ IsSeq(out) /\ ReadAfter(0, out, b) = u
  /\ "-" \in Chars(out) <=> negative
  /\ Chars(out) \subseteq DigitSet(b, caps) \cup {" ", "+", "-", ",", Letter(caps)}
  /\ Placed(out, Letter(caps), DigitSet(b, caps))

(* How long it is, and where its padding is: m characters and as many      *)
(* blanks as the width asks for, or a sign of s characters and zeros.      *)
IsPadded(out, m, w, left) ==
  LET pads == Larger(w - m, 0)
  IN /\ Len(out) = m + pads
     /\ \A k \in 1..pads : out[IF left THEN m + k ELSE k] = " "
IsZeroPadded(out, m, w, s) == Len(out) = m + Larger(w - m, 0) /\ BlankOnly(out, s)

\* The characters that are not padding, and the digits among them that are
\* left out for separators.
NaturalLength(s, h, n, asked, sep) == s + h + Larger(asked, n) + sep
DigitsTaken(n, asked, sep) == Smaller(Larger(asked, n) - n, sep)

LEMMA SeparatorsNat ==
  ASSUME NEW n \in Nat, n >= 1, NEW fl
  PROVE  SeparatorsIn(n, fl) = IF "'" \in fl THEN (n - 1) \div 3 ELSE 0
<1>1. (n - (IF n % 3 = 0 THEN 1 ELSE 0)) \div 3 = (n - 1) \div 3
  <2>1. CASE n % 3 = 0  BY <2>1
  <2>2. CASE n % 3 # 0
    <3>1. n \div 3 = (n - 1) \div 3  BY <2>2
    <3> QED  BY <2>2, <3>1
  <2> QED  BY <2>1, <2>2
<1> QED  BY <1>1 DEF SeparatorsIn, getnumsep

\* The sign says whether the value is negative.
LEMMA SignSays ==
  ASSUME NEW v, NEW fl, NEW negative, negative <=> (v < 0 /\ "UNSIGNED" \notin fl),
         NEW sign, sign = SignText(v, fl)
  PROVE  IsSign(sign) /\ ("-" \in Chars(sign) <=> negative)
<1>1. ASSUME sign = <<>> PROVE IsSign(sign) /\ "-" \notin Chars(sign)
  BY <1>1, EmptyIsSeq, TupleChars DEF IsSign
<1>2. ASSUME NEW c \in {"+", "-", " "}, sign = <<c>> PROVE IsSign(sign) /\ Chars(sign) = {c}
  <2>1. IsSeq(sign) /\ Chars(sign) = {c}  BY ONLY <1>2, Tuples, TupleChars
  <2>2. Chars(sign) \subseteq {"+", "-", " "}  BY ONLY <2>1, c \in {"+", "-", " "}
  <2>3. Len(sign) \in {0, 1}  BY ONLY <1>2, Tuples
  <2> QED  BY ONLY <2>1, <2>2, <2>3 DEF IsSign
<1>3. \/ sign = <<>> /\ ~negative
      \/ sign = <<"-">> /\ negative
      \/ sign = <<"+">> /\ ~negative
      \/ sign = <<" ">> /\ ~negative
  BY sign = SignText(v, fl) DEF SignText
<1> QED  BY <1>1, <1>2, <1>3

LEMMA NumberSays ==
  ASSUME NEW u \in Nat, NEW b \in Bases, NEW caps, NEW n \in Nat, n = Len(convert(u, b, caps)),
         NEW fl, NEW sep, sep = SeparatorsIn(n, fl),
         NEW number, number = NumberText(convert(u, b, caps), sep)
  PROVE  IsNumeral(number, b, caps, u) /\ Len(number) = n + sep /\ sep \in Nat
<1>1. PICK digits : digits = convert(u, b, caps)  OBVIOUS
<1>2. /\ IsSeq(digits) /\ ReadAfter(0, digits, b) = u /\ Chars(digits) \subseteq DigitSet(b, caps)
      /\ n = Len(digits)
  BY <1>1, DigitsIsSeq, DigitsReadBack, DigitsChars
<1>3. n >= 1  BY DigitsFewest
<1>4. sep = IF "'" \in fl THEN (n - 1) \div 3 ELSE 0  BY <1>3, SeparatorsNat
<1>5. sep \in Nat
  <2>1. (n - 1) \div 3 \in Nat  BY <1>3
  <2> QED  BY <1>4, <2>1
<1>6. CASE sep > 0
  <2>1. number = Grouped(digits)  BY <1>1, <1>6 DEF NumberText
  <2>2. IsGrouped(number, digits, n)  BY ONLY n \in Nat, <1>2, <1>3, <2>1, GroupedReads, Zenon
  <2>3. sep = (n - 1) \div 3  BY <1>4, <1>6
  <2>4. IsNumeral(number, b, caps, u)  BY <1>2, <2>2 DEF IsNumeral, IsGrouped
  <2> QED  BY <1>5, <2>2, <2>3, <2>4 DEF IsGrouped
<1>7. CASE ~(sep > 0)
  <2>1. number = digits  BY <1>1, <1>7 DEF NumberText
  <2>2. sep = 0 /\ n + sep = n  BY <1>5, <1>7
  <2>3. IsNumeral(number, b, caps, u)  BY <1>2, <2>1 DEF IsNumeral
  <2> QED  BY <1>2, <1>5, <2>1, <2>2, <2>3
<1> QED  BY <1>6, <1>7

\* The field out of fmtint (v, b, w, p, fl), whose digits are the n of u.
IsInteger(out, v, b, w, p, fl, u, n) ==
  LET asked == DigitsMin(u, n, b, p, fl)
      sep   == SeparatorsIn(n, fl)
      s     == Len(SignText(v, fl))
      k     == DigitsTaken(n, asked, sep)
      m     == NaturalLength(s, Len(PrefixText(u, b, fl)), n, asked, sep) - k
  IN /\ SaysInteger(out, b, "UP" \in fl, u, v < 0 /\ "UNSIGNED" \notin fl)
     /\ IF ZeroPad(p, fl) THEN IsZeroPadded(out, m, w - k, s)
        ELSE IsPadded(out, m, w - k, "-" \in fl)

LEMMA IntegerField ==
  ASSUME NEW v \in Int, NEW b \in Bases, NEW w \in Int, NEW p \in Int, NEW fl,
         NEW u, u = UValue(v, fl), NEW n, n = Len(convert(u, b, "UP" \in fl)),
         NEW out, out = fmtint(v, b, w, p, fl)
  PROVE  IsInteger(out, v, b, w, p, fl, u, n)
<1>1. u \in Nat  BY UValueNat
<1>2. PICK caps : caps = ("UP" \in fl)  OBVIOUS
<1>3. PICK digits : digits = convert(u, b, caps)  OBVIOUS
<1>4. n = Len(digits) /\ n \in Nat  BY <1>1, <1>2, <1>3, DigitsIsSeq
<1>5. PICK asked \in Int : asked = DigitsMin(u, n, b, p, fl)  BY <1>4 DEF DigitsMin
<1>6. PICK sep, number : sep = SeparatorsIn(n, fl) /\ number = NumberText(digits, sep)  OBVIOUS
<1>7. IsNumeral(number, b, caps, u) /\ Len(number) = n + sep /\ sep \in Nat
  BY <1>1, <1>3, <1>4, <1>6, NumberSays
<1>8. PICK sign, prefix, negative :
        /\ sign = SignText(v, fl) /\ prefix = PrefixText(u, b, fl)
        /\ negative <=> (v < 0 /\ "UNSIGNED" \notin fl)
  OBVIOUS
<1>9. IsSign(sign) /\ ("-" \in Chars(sign) <=> negative)  BY <1>8, SignSays
<1>10. IsMark(prefix, caps)  BY <1>2, <1>8 DEF PrefixText, IsMark, Letter
<1>11. PICK s \in Nat, h \in Nat : s = Len(sign) /\ h = Len(prefix)
  <2>1. IsSeq(sign) /\ IsSeq(prefix)  BY <1>9, <1>10, PrefixParts DEF IsSign
  <2>2. Len(sign) \in Nat /\ Len(prefix) \in Nat  BY <2>1, Seqs
  <2> QED  BY <2>2
<1>12. PICK zeros \in Nat, spaces \in Nat :
         /\ zeros = Larger(asked - n - sep, 0)
         /\ spaces = Larger(w - sep - Larger(asked, n) - s - h, 0)
  <2>1. n \in Nat /\ sep \in Int  BY <1>4, <1>7
  <2>2. /\ Larger(asked - n - sep, 0) \in Nat
        /\ Larger(w - sep - Larger(asked, n) - s - h, 0) \in Nat
    BY ONLY <2>1, asked \in Int, s \in Nat, h \in Nat, w \in Int, Lengths
  <2> QED  BY ONLY <2>2, Zenon
<1>13. PICK zp : zp = ZeroPad(p, fl)  OBVIOUS
<1>20. PICK fill \in Nat, pads \in Nat :
         /\ fill = zeros + IF zp THEN spaces ELSE 0
         /\ pads = IF zp THEN 0 ELSE spaces
  BY ONLY zeros \in Nat, spaces \in Nat
<1>14. PICK t : t = sign \o prefix \o Repeat("0", fill) \o number  OBVIOUS
<1>15. out = Padded(t, pads, "-" \in fl)
  BY ONLY out = fmtint(v, b, w, p, fl), u = UValue(v, fl), <1>2, <1>3, <1>4, <1>5, <1>6, <1>8, <1>11,
          <1>12, <1>13, <1>20, <1>14, IntegerParts
<1>16. IsBody(t, sign, prefix, fill, number)  BY <1>14 DEF IsBody
<1>17. BodySays(t, b, caps, u, sign) /\ Len(t) = Len(sign) + Len(prefix) + fill + Len(number)
  BY <1>7, <1>9, <1>10, <1>16, Body
<1>24. PICK left : left = ("-" \in fl)  OBVIOUS
<1>18. PICK l \in Nat : l = Len(t)  BY <1>17, Seqs DEF BodySays
<1>19. PadsAround(out, t, l, pads, left)  BY <1>15, <1>17, <1>18, <1>24, PaddedAround DEF BodySays
<1>21. SaysInteger(out, b, caps, u, negative)
  <2>1. ReadAfter(0, out, b) = u
    <3>1. IsSeq(t) /\ ReadAfter(0, t, b) = u  BY <1>17 DEF BodySays
    <3> QED  BY <1>15, <3>1, PaddedReads
  <2>2. IsSeq(out) /\ Chars(t) \subseteq Chars(out) /\ Chars(out) \subseteq Chars(t) \cup {" "}
    BY <1>19 DEF PadsAround
  <2>3. "-" \in Chars(out) <=> negative  BY <1>9, <1>17, <2>2 DEF BodySays
  <2>4. Chars(out) \subseteq DigitSet(b, caps) \cup {" ", "+", "-", ",", Letter(caps)}
    BY <1>17, <2>2 DEF BodySays
  <2>5. Placed(out, Letter(caps), DigitSet(b, caps))
    <3>1. Letter(caps) # " " /\ " " \notin DigitSet(b, caps)
      BY DigitsApart DEF PassedOver
    <3> QED  BY <1>15, <1>17, <3>1, PaddedPlaced DEF BodySays
  <2> QED  BY ONLY <2>1, <2>2, <2>3, <2>4, <2>5, Zenon DEF SaysInteger
<1>22. ASSUME NEW k, k = DigitsTaken(n, asked, sep), NEW x, x = w - k,
              NEW m, m = NaturalLength(s, h, n, asked, sep) - k
       PROVE  IF zp THEN IsZeroPadded(out, m, x, s) ELSE IsPadded(out, m, x, left)
  <2>0. n \in Nat /\ sep \in Nat  BY <1>4, <1>7
  <2>1. m \in Nat /\ spaces = Larger(x - m, 0) /\ s + h + zeros + (n + sep) = m
    <3>1. PICK L \in Int : L = Larger(asked, n) /\ L >= n /\ (L = asked \/ (L = n /\ asked <= n))
      <4>1. IF asked >= n THEN Larger(asked, n) = asked ELSE Larger(asked, n) = n
        BY DEF Larger
      <4> QED  BY ONLY <2>0, <4>1, asked \in Int
    <3>2. k \in Nat /\ IF L - n <= sep THEN k = L - n ELSE k = sep
      <4>1. k = Smaller(L - n, sep)  BY ONLY <1>22, <3>1 DEF DigitsTaken
      <4>2. IF L - n <= sep THEN k = L - n ELSE k = sep  BY ONLY <4>1 DEF Smaller
      <4> QED  BY ONLY <2>0, <3>1, <4>2
    <3>3. IF asked - n - sep >= 0 THEN zeros = asked - n - sep ELSE zeros = 0
      BY ONLY <1>12 DEF Larger
    <3>4. m = s + h + L + sep - k
      <4>1. NaturalLength(s, h, n, asked, sep) = s + h + Larger(asked, n) + sep
        BY ONLY Zenon DEF NaturalLength
      <4>2. Larger(asked, n) = L  BY ONLY <3>1
      <4>3. PICK o : o = NaturalLength(s, h, n, asked, sep)  OBVIOUS
      <4>4. o = s + h + L + sep  BY ONLY <4>1, <4>2, <4>3
      <4>5. m = o - k  BY ONLY <1>22, <4>3
      <4> QED  BY ONLY <2>0, <3>1, <3>2, <4>4, <4>5, s \in Nat, h \in Nat
    <3>5. zeros + n + k = L
      BY ONLY <2>0, <3>1, <3>2, <3>3, asked \in Int, zeros \in Nat
    <3>6. s + h + zeros + (n + sep) = m /\ m \in Nat
      BY ONLY <2>0, <3>1, <3>2, <3>4, <3>5, s \in Nat, h \in Nat, zeros \in Nat
    <3>7. x - m = w - sep - L - s - h
      BY ONLY <1>22, <2>0, <3>1, <3>2, <3>4, s \in Nat, h \in Nat, w \in Int
    <3> QED  BY ONLY <1>12, <3>1, <3>6, <3>7
  <2>2. l = s + h + fill + (n + sep)  BY <1>7, <1>11, <1>17, <1>18
  <2>3. CASE zp
    <3>1. fill = zeros + spaces /\ pads = 0  BY <1>20, <2>3
    <3>2. l = m + spaces
      BY ONLY <2>0, <2>1, <2>2, <3>1, s \in Nat, h \in Nat, zeros \in Nat, spaces \in Nat
    <3>3. out = t  BY <1>19, <3>1 DEF PadsAround
    <3>4. Len(out) = m + Larger(x - m, 0)  BY <1>18, <2>1, <3>2, <3>3, Zenon
    <3>5. BlankOnly(out, s)  BY <1>11, <1>17, <3>3 DEF BodySays
    <3> QED  BY <2>3, <3>4, <3>5 DEF IsZeroPadded
  <2>4. CASE ~zp
    <3>1. fill = zeros /\ pads = spaces
      <4>1. zeros + 0 = zeros  BY ONLY zeros \in Nat
      <4> QED  BY ONLY <1>20, <2>4, <4>1
    <3>2. l = m
      BY ONLY <2>0, <2>1, <2>2, <3>1, s \in Nat, h \in Nat, zeros \in Nat, spaces \in Nat
    <3>3. IsPadded(out, m, x, left)
      <4>1. pads = Larger(x - m, 0)  BY <2>1, <3>1
      <4> QED  BY ONLY <1>19, <3>2, <4>1, Zenon DEF IsPadded, PadsAround
    <3> QED  BY <2>4, <3>3
  <2> QED  BY <2>3, <2>4
<1>23. SaysInteger(out, b, "UP" \in fl, u, v < 0 /\ "UNSIGNED" \notin fl)
  BY ONLY <1>2, <1>8, <1>21 DEF SaysInteger
<1> QED  BY ONLY <1>5, <1>6, <1>8, <1>11, <1>13, <1>18, <1>22, <1>23, <1>24 DEF IsInteger

-----------------------------------------------------------------------------
(* The number of digits, as the only one that is enough and not too many.  *)
IsFewest(k, x, b) == x < Power(b, k) /\ (k = 1 \/ x >= Power(b, k - 1))

LEMMA TwoPositive == \A n \in Nat : Power(2, n) \in Nat /\ Power(2, n) >= 1
BY PowerPositive

LEMMA PowerBase ==
  ASSUME NEW b \in Bases, NEW n \in Nat
  PROVE  Power(2, n) <= Power(b, n)
<1> DEFINE T == {k \in Nat : Power(2, k) <= Power(b, k)}
<1>0. b \in Nat /\ b >= 2 /\ b >= 1  BY DEF Bases
<1>1. 0 \in T  BY PowerZero
<1>2. ASSUME NEW k \in Nat, k \in T PROVE k + 1 \in T
  <2>1. PICK x \in Nat, y \in Nat : x = Power(2, k) /\ y = Power(b, k)
    <3>1. Power(2, k) \in Nat /\ Power(b, k) \in Nat  BY <1>0, PowerPositive, TwoPositive
    <3> QED  BY <3>1
  <2>2. x <= y  BY <1>2, <2>1
  <2>3. Power(2, k + 1) = 2 * x /\ Power(b, k + 1) = b * y  BY <2>1, PowerNext
  <2>4. 2 * x <= b * y
    <3>1. CASE b = 8   BY <2>2, <3>1
    <3>2. CASE b = 10  BY <2>2, <3>2
    <3>3. CASE b = 16  BY <2>2, <3>3
    <3> QED  BY <3>1, <3>2, <3>3 DEF Bases
  <2> QED  BY <2>3, <2>4
<1> HIDE DEF T
<1>3. Nat \subseteq T  BY <1>1, <1>2, Induction
<1> QED  BY <1>3 DEF T

LEMMA FewestUnique ==
  ASSUME NEW b \in Bases, NEW x \in Nat, NEW k \in Nat, k >= 1, NEW n \in Nat, n >= 1,
         IsFewest(k, x, b), IsFewest(n, x, b)
  PROVE  k = n
<1>0. b \in Nat /\ b >= 1  BY DEF Bases
<1>1. ASSUME NEW i \in Nat, i >= 1, NEW j \in Nat, j >= 1, IsFewest(i, x, b), IsFewest(j, x, b), i < j
      PROVE  FALSE
  <2>1. PICK h \in Nat : h = j - 1 /\ i <= h  BY <1>1
  <2>2. Power(b, i) <= Power(b, h)  BY <1>0, <2>1, PowerMonotone
  <2>3. Power(b, i) \in Nat /\ Power(b, h) \in Nat  BY <1>0, PowerPositive
  <2>4. x < Power(b, i) /\ x >= Power(b, h)  BY <1>1, <2>1 DEF IsFewest
  <2> QED  BY <2>2, <2>3, <2>4
<1>2. ~(k < n) /\ ~(n < k)  BY <1>1
<1> QED  BY <1>2

LEMMA FewestBound ==
  ASSUME NEW b \in Bases, NEW x \in Nat, NEW n \in Nat, n >= 1, IsFewest(n, x, b),
         NEW l \in Nat, l >= 1, x < Power(2, l)
  PROVE  n <= l
<1> SUFFICES ASSUME n > l PROVE FALSE  OBVIOUS
<1>1. PICK h \in Nat : h = n - 1 /\ l <= h /\ n # 1  OBVIOUS
<1>2. Power(2, l) <= Power(2, h)  BY <1>1, PowerMonotone
<1>3. Power(2, h) <= Power(b, h)  BY PowerBase
<1>4. b \in Nat /\ b >= 1  BY DEF Bases
<1>5. Power(2, l) \in Nat /\ Power(2, h) \in Nat /\ Power(b, h) \in Nat
  <2>1. Power(2, l) \in Nat  BY TwoPositive
  <2>2. Power(2, h) \in Nat  BY TwoPositive
  <2>3. Power(b, h) \in Nat  BY <1>4, PowerPositive
  <2> QED  BY <2>1, <2>2, <2>3
<1>6. x >= Power(b, h)  BY <1>1 DEF IsFewest
<1> QED  BY <1>2, <1>3, <1>5, <1>6

\* The integers of a type are below the power of two of the longest one.
LEMMA UnsignedAgain ==
  ASSUME NEW x \in Int, NEW t \in DOMAIN Bits
  PROVE  /\ Unsigned(Unsigned(x, t), "long") = Unsigned(x, t)
         /\ Unsigned(x, t) < Power(2, Bits["long"])
<1>1. Bits[t] \in Nat /\ Bits["long"] \in Nat /\ Bits[t] <= Bits["long"]  BY BitsAssumption
<1>2. PICK y \in Nat : y = Unsigned(x, t) /\ y < Power(2, Bits[t])  BY UnsignedNat
<1>3. Power(2, Bits[t]) <= Power(2, Bits["long"])  BY <1>1, PowerMonotone
<1>4. PICK m \in Nat, q \in Nat : m = Power(2, Bits["long"]) /\ m >= 1 /\ q = Power(2, Bits[t])
  <2>1. Power(2, Bits["long"]) \in Nat /\ Power(2, Bits["long"]) >= 1  BY <1>1, PowerPositive
  <2>2. Power(2, Bits[t]) \in Nat  BY <1>1, PowerPositive
  <2> QED  BY <2>1, <2>2
<1>5. y < m  BY <1>2, <1>3, <1>4
<1>6. y % m = y  BY <1>4, <1>5
<1> QED  BY <1>2, <1>4, <1>5, <1>6 DEF Unsigned

LEMMA SignedBound ==
  ASSUME NEW x \in Int, NEW t \in DOMAIN Bits, NEW v, v = Signed(x, t)
  PROVE  v \in Int /\ v < Power(2, Bits["long"]) /\ -v < Power(2, Bits["long"])
<1>1. PICK n \in Nat : n = Bits[t] - 1
  <2>1. Bits[t] \in Nat \ {0}  BY BitsAssumption
  <2> QED  BY <2>1
<1>2. Bits["long"] \in Nat /\ n + 1 <= Bits["long"]
  <2>1. Bits[t] \in Nat /\ Bits["long"] \in Nat /\ Bits[t] <= Bits["long"]  BY BitsAssumption
  <2> QED  BY <1>1, <2>1
<1>3. PICK h \in Nat : h = Power(2, n) /\ h >= 1  BY PowerPositive
<1>4. Power(2, n + 1) = 2 * h  BY <1>3, PowerNext
<1>5. PICK q \in Nat : q = Power(2, Bits["long"]) /\ 2 * h <= q
  <2>1. Power(2, Bits["long"]) \in Nat  BY <1>2, TwoPositive
  <2>2. Power(2, n + 1) <= Power(2, Bits["long"])  BY <1>2, PowerMonotone
  <2> QED  BY <1>4, <2>1, <2>2
<1>6. v \in Int /\ -h <= v /\ v < h
  <2>1. Signed(x, t) \in Int /\ -Power(2, Bits[t] - 1) <= Signed(x, t) /\ Signed(x, t) < Power(2, Bits[t] - 1)
    BY SignedInt
  <2> QED  BY <1>1, <1>3, <2>1
<1> QED  BY <1>3, <1>5, <1>6

-----------------------------------------------------------------------------
(* The field of a string: n characters of text and the padding.            *)
IsString(out, text, n, w, left) ==
  LET pads == Larger(w - n, 0)
  IN /\ IsSeq(out) /\ IsPadded(out, n, w, left)
     /\ \A k \in 1..n : out[IF left THEN k ELSE pads + k] = text[k]
StringLength(text, p) == IF p = -1 THEN Len(text) ELSE Smaller(Len(text), p)

LEMMA StringField ==
  ASSUME NEW t, t = NULL \/ IsSeq(t), NEW w \in Int, NEW p \in Int, p >= -1, NEW fl,
         NEW text, text = IF t = NULL THEN Null ELSE t,
         NEW n, n = StringLength(text, p), NEW out, out = fmtstr(t, w, p, fl)
  PROVE  n \in Nat /\ n <= Len(text) /\ IsString(out, text, n, w, "-" \in fl)
<1>1. IsSeq(text)  BY Tuples DEF Null
<1>2. out = Padded(SubSeq(text, 1, n), Larger(w - n, 0), "-" \in fl)
  BY DEF fmtstr, StringLength
<1>3. PICK l \in Nat : l = Len(text)  BY <1>1, Seqs
<1>4. n \in Nat /\ n <= l  BY <1>3 DEF StringLength, Smaller
<1>5. PICK body, pads, left :
        body = SubSeq(text, 1, n) /\ pads \in Nat /\ pads = Larger(w - n, 0) /\ left = ("-" \in fl)
  <2>1. Larger(w - n, 0) \in Nat  BY <1>4 DEF Larger
  <2> QED  BY <2>1
<1>6. IsSeq(body) /\ Len(body) = n /\ \A k \in 1..n : body[k] = text[k]
  BY <1>1, <1>3, <1>4, <1>5, Firsts
<1>7. out = Padded(body, pads, left)  BY <1>2, <1>5
<1>8. PadsAround(out, body, n, pads, left)  BY ONLY <1>4, <1>5, <1>6, <1>7, PaddedAround, Zenon
<1>9. IsPadded(out, n, w, left)  BY ONLY <1>5, <1>8, Zenon DEF IsPadded, PadsAround
<1>10. IsString(out, text, n, w, left)
  BY ONLY <1>5, <1>6, <1>8, <1>9, Zenon DEF IsString, PadsAround
<1> QED  BY ONLY <1>3, <1>4, <1>5, <1>10, Zenon

-----------------------------------------------------------------------------
(* Powers and quotients.                                                   *)
LEMMA Quotient ==
  ASSUME NEW m \in Nat, NEW w \in Nat, w >= 1
  PROVE  /\ m \div w \in Nat /\ m % w \in Nat /\ m % w < w
         /\ m = w * (m \div w) + (m % w)
OBVIOUS

LEMMA QuotientBelow ==
  ASSUME NEW m \in Nat, NEW w \in Nat, w >= 1, NEW k \in Nat, m < k * w
  PROVE  m \div w < k
<1>1. PICK q \in Nat, r \in Nat : q = m \div w /\ m = w * q + r  BY Quotient
<1>2. SUFFICES ASSUME q >= k PROVE FALSE  BY <1>1
<1>3. w * q >= k * w
  <2>1. PICK d \in Nat : q = k + d
    <3>1. q - k \in Nat /\ q = k + (q - k)  BY ONLY <1>2, q \in Nat, k \in Nat
    <3> QED  BY <3>1
  <2>2. w * q = k * w + w * d /\ w * d \in Nat  BY ONLY <2>1, w \in Nat, k \in Nat, d \in Nat
  <2> QED  BY ONLY <2>2, w \in Nat, k \in Nat, k * w \in Nat
<1>4. k * w \in Nat /\ w * q \in Nat  BY ONLY w \in Nat, k \in Nat, q \in Nat
<1> QED  BY ONLY <1>1, <1>3, <1>4, m < k * w, m \in Nat, r \in Nat

LEMMA QuotientLeast ==
  ASSUME NEW m \in Nat, NEW w \in Nat, w >= 1, NEW k \in Nat, m >= k * w
  PROVE  m \div w >= k
<1>1. PICK q \in Nat, r \in Nat : q = m \div w /\ m = w * q + r /\ r < w  BY Quotient
<1>2. SUFFICES ASSUME q < k PROVE FALSE  BY <1>1
<1>3. k * w >= w * q + w
  <2>1. PICK d \in Nat : k = q + 1 + d
    <3>1. k - (q + 1) \in Nat /\ k = q + 1 + (k - (q + 1))  BY ONLY <1>2, q \in Nat, k \in Nat
    <3> QED  BY <3>1
  <2>2. k * w = w * q + w + w * d /\ w * d \in Nat /\ w * q \in Nat
    BY ONLY <2>1, w \in Nat, q \in Nat, d \in Nat
  <2> QED  BY ONLY <2>2, w \in Nat
<1>4. k * w \in Nat /\ w * q \in Nat  BY ONLY w \in Nat, k \in Nat, q \in Nat
<1> QED  BY ONLY <1>1, <1>3, <1>4, m >= k * w, m \in Nat, r \in Nat, w \in Nat

LEMMA PowerSum ==
  ASSUME NEW b \in Nat, b >= 1, NEW i \in Nat, NEW j \in Nat
  PROVE  Power(b, i + j) = Power(b, i) * Power(b, j)
<1>0. PICK x \in Nat : x = Power(b, i)  BY PowerPositive
<1> DEFINE T == {n \in Nat : Power(b, i + n) = x * Power(b, n)}
<1>1. 0 \in T
  <2>1. i + 0 = i /\ x * 1 = x  OBVIOUS
  <2>2. Power(b, i + 0) = x * Power(b, 0)  BY <1>0, <2>1, PowerZero
  <2> QED  BY <2>2
<1>2. ASSUME NEW n \in Nat, n \in T PROVE n + 1 \in T
  <2>1. PICK k \in Nat : k = i + n /\ k + 1 = i + (n + 1)  OBVIOUS
  <2>2. PICK y \in Nat : y = Power(b, n)  BY PowerPositive
  <2>3. Power(b, k) = x * y  BY <1>2, <2>1, <2>2
  <2>4. Power(b, k + 1) = b * (x * y)  BY <2>3, PowerNext
  <2>5. Power(b, n + 1) = b * y  BY <2>2, PowerNext
  <2>6. b * (x * y) = x * (b * y)  BY ONLY b \in Nat, x \in Nat, y \in Nat
  <2>7. Power(b, i + (n + 1)) = x * Power(b, n + 1)  BY <2>1, <2>4, <2>5, <2>6
  <2> QED  BY <2>7
<1> HIDE DEF T
<1>3. Nat \subseteq T  BY <1>1, <1>2, Induction
<1> QED  BY <1>0, <1>3 DEF T

LEMMA PowerLess ==
  ASSUME NEW b \in Nat, b >= 1, NEW i \in Nat, NEW j \in Nat, Power(b, i) < Power(b, j)
  PROVE  i < j
<1>1. SUFFICES ASSUME j <= i PROVE FALSE  OBVIOUS
<1>2. PICK x \in Nat, y \in Nat : x = Power(b, i) /\ y = Power(b, j)  BY PowerPositive
<1>3. y <= x  BY <1>1, <1>2, PowerMonotone
<1> QED  BY <1>2, <1>3

\* Three binary digits are worth less than a decimal one.
LEMMA PowerOctal == ASSUME NEW n \in Nat PROVE Power(2, 3 * n) <= Power(10, n)
<1> DEFINE T == {k \in Nat : Power(2, 3 * k) <= Power(10, k)}
<1>1. 0 \in T
  <2>1. 3 * 0 = 0  OBVIOUS
  <2>2. Power(2, 3 * 0) = 1 /\ Power(10, 0) = 1  BY <2>1, PowerZero
  <2> QED  BY <2>2
<1>2. ASSUME NEW k \in Nat, k \in T PROVE k + 1 \in T
  <2>1. PICK a \in Nat : a = 3 * k  OBVIOUS
  <2>2. PICK x \in Nat, y \in Nat : x = Power(2, a) /\ y = Power(10, k) /\ x <= y
    BY <1>2, <2>1, TwoPositive, TenPositive
  <2>3. PICK c \in Nat, d \in Nat : c = a + 1 /\ d = c + 1 /\ d + 1 = 3 * (k + 1)  BY <2>1
  <2>4. Power(2, c) = 2 * x  BY <2>2, <2>3, PowerNext
  <2>5. Power(2, d) = 2 * (2 * x)  BY <2>3, <2>4, PowerNext
  <2>6. Power(2, d + 1) = 2 * (2 * (2 * x))  BY <2>5, PowerNext
  <2>7. Power(10, k + 1) = 10 * y  BY <2>2, PowerNext
  <2>8. 2 * (2 * (2 * x)) <= 10 * y  BY ONLY <2>2, x \in Nat, y \in Nat
  <2>9. Power(2, 3 * (k + 1)) <= Power(10, k + 1)  BY <2>3, <2>6, <2>7, <2>8
  <2> QED  BY <2>9
<1> HIDE DEF T
<1>3. Nat \subseteq T  BY <1>1, <1>2, Induction
<1> QED  BY <1>3 DEF T

LEMMA DigitsMean ==
  ASSUME NEW v \in Nat, NEW n, n = NumDigits(v, 10)
  PROVE  /\ n \in Nat /\ n >= 1 /\ v < Power(10, n)
         /\ v > 0 => v >= Power(10, n - 1)
<1>1. 10 \in Bases  BY DEF Bases
<1>2. n \in Nat /\ n = Len(convert(v, 10, FALSE))  BY DigitsNat DEF NumDigits
<1>3. PICK k \in Nat : k = n  BY <1>2
<1>4. /\ k >= 1 /\ v < Power(10, k)
      /\ k = 1 \/ v >= Power(10, k - 1)
  BY <1>1, <1>2, <1>3, DigitsFewest
<1>5. Power(10, 0) = 1  BY PowerZero
<1>6. k = 1 => k - 1 = 0  OBVIOUS
<1> QED  BY <1>3, <1>4, <1>5, <1>6

-----------------------------------------------------------------------------
(* The floating point values fmtflt gives up on.                           *)

\* What a UINTMAX_T holds.
LEMMA Limits ==
  /\ UINTMAX_MAX \in Nat /\ UINTMAX_MAX >= 15
  /\ MaxDigits \in Nat /\ MaxDigits >= 1 /\ MaxDigits < 98
  /\ Power(10, MaxDigits) <= UINTMAX_MAX
<1>1. PICK n \in Nat : n = Bits["long"] /\ n >= 4 /\ n <= 128
  <2>1. Bits["long"] \in 4..128  BY LongAssumption
  <2> QED  BY <2>1
<1>2. PICK x \in Nat : x = Power(2, n) /\ x >= 16
  <2>1. Power(2, 4) = 16
    <3>0. PICK a \in Nat, b \in Nat, c \in Nat, d \in Nat :
            a = 0 /\ b = 1 /\ c = 2 /\ d = 3
      OBVIOUS
    <3>1. Power(2, a) = 1  BY <3>0, PowerZero
    <3>2. Power(2, a + 1) = 2 * Power(2, a)  BY PowerNext
    <3>3. Power(2, b + 1) = 2 * Power(2, b)  BY PowerNext
    <3>4. Power(2, c + 1) = 2 * Power(2, c)  BY PowerNext
    <3>5. Power(2, d + 1) = 2 * Power(2, d)  BY PowerNext
    <3>6. a + 1 = b /\ b + 1 = c /\ c + 1 = d /\ d + 1 = 4  BY <3>0
    <3>7. Power(2, b) = 2  BY <3>1, <3>2, <3>6
    <3>8. Power(2, c) = 4  BY <3>3, <3>6, <3>7
    <3>9. Power(2, d) = 8  BY <3>4, <3>6, <3>8
    <3> QED  BY <3>5, <3>6, <3>9
  <2>2. PICK k \in Nat : k = 4  OBVIOUS
  <2>3. k <= n  BY <1>1, <2>2
  <2>4. Power(2, k) <= Power(2, n)  BY <2>3, PowerMonotone
  <2> QED  BY <2>1, <2>2, <2>4, TwoPositive
<1>3. PICK U \in Nat : U = UINTMAX_MAX /\ U = x - 1 /\ U >= 15
  <2>1. x - 1 \in Nat /\ x - 1 >= 15  BY <1>2
  <2> QED  BY <1>1, <1>2, <2>1 DEF UINTMAX_MAX
<1>4. PICK D : D = NumDigits(U, 10)  OBVIOUS
<1>5. D \in Nat /\ D >= 1 /\ U < Power(10, D) /\ U >= Power(10, D - 1)
  BY <1>3, <1>4, DigitsMean
<1>6. PICK k \in Nat : k = MaxDigits /\ k = D - 1
  <2>1. D - 1 \in Nat  BY <1>5
  <2> QED  BY <1>3, <1>4, <2>1 DEF MaxDigits
<1>7. k >= 1
  <2>1. SUFFICES ASSUME k = 0 PROVE FALSE  OBVIOUS
  <2>2. D = k + 1  BY <1>5, <1>6
  <2>3. Power(10, k) = 1  BY <2>1, PowerZero
  <2>4. Power(10, k + 1) = 10 * Power(10, k)  BY PowerNext
  <2>5. Power(10, D) = 10  BY <2>2, <2>3, <2>4
  <2> QED  BY <1>3, <1>5, <2>5
<1>8. k < 98
  <2>1. PICK h \in Nat, g \in Nat : h = 43 /\ g = 3 * h  OBVIOUS
  <2>2. n <= g  BY <1>1, <2>1
  <2>3. Power(2, n) <= Power(2, g)  BY <2>2, PowerMonotone
  <2>4. Power(2, g) <= Power(10, h)  BY <2>1, PowerOctal
  <2>5. PICK a \in Nat, b \in Nat, c \in Nat : a = Power(2, g) /\ b = Power(10, h) /\ c = Power(10, k)
    BY TwoPositive, TenPositive
  <2>6. c <= U  BY <1>5, <1>6, <2>5
  <2>7. c < b  BY <1>2, <1>3, <2>3, <2>4, <2>5, <2>6
  <2>8. k < h  BY <2>5, <2>7, PowerLess
  <2> QED  BY <2>1, <2>8
<1> QED  BY <1>3, <1>5, <1>6, <1>7, <1>8

\* A value m * 10^e with D digits: cast cuts it at UINTMAX_MAX.
LEMMA CastLarge ==
  ASSUME NEW v \in Finite, cast(v) = UINTMAX_MAX,
         NEW D, D = NumDigits(v.m, 10)
  PROVE  v.m > 0 /\ D - 1 + v.e >= MaxDigits
<1>1. PICK m \in Nat, e \in Int : m = v.m /\ e = v.e  BY DEF Finite
<1>2. PICK U \in Nat, M \in Nat : /\ U = UINTMAX_MAX /\ M = MaxDigits /\ U >= 15
                                  /\ Power(10, M) <= U
  BY Limits
<1>3. m > 0
  <2>1. SUFFICES ASSUME m = 0 PROVE FALSE  OBVIOUS
  <2>2. cast(v) = 0  BY <1>1, <2>1 DEF cast
  <2> QED  BY <1>2, <2>2
<1>4. PICK d \in Nat : d = D /\ d >= 1 /\ m < Power(10, d)  BY <1>1, DigitsMean
<1>5. CASE e >= 0
  <2>1. PICK k \in Nat : k = e  BY <1>5
  <2>2. PICK y \in Nat : y = Power(10, k) /\ y >= 1  BY TenPositive
  <2>3. k > M \/ m > U \div y \/ m * y = U
    <3>1. (m > 0 /\ e >= 0) /\ ~(m = 0)  BY <1>3, <1>5
    <3>2. cast(v) = IF k > M \/ m > U \div y THEN U ELSE m * y
      BY <1>1, <1>2, <2>1, <2>2, <3>1 DEF cast
    <3> QED  BY <1>2, <3>2
  <2>4. CASE k > M
    <3>1. d - 1 + e >= M  BY ONLY <1>4, <2>1, <2>4, d \in Nat, k \in Nat, M \in Nat, e \in Int
    <3> QED  BY <1>1, <1>2, <1>3, <1>4, <3>1
  <2>5. ASSUME m > U \div y \/ m * y = U PROVE m * y >= U
    <3>1. m * y \in Nat  BY ProductNat
    <3>2. CASE m > U \div y
      <4>1. SUFFICES ASSUME U >= m * y PROVE FALSE  BY <3>1
      <4>2. U \div y >= m  BY <2>2, <4>1, QuotientLeast
      <4>3. U \div y \in Nat  BY <2>2, Quotient
      <4> QED  BY <3>2, <4>2, <4>3
    <3> QED  BY <2>5, <3>1, <3>2
  <2>6. CASE m > U \div y \/ m * y = U
    <3>1. PICK z \in Nat, c \in Nat : z = Power(10, d) /\ c = Power(10, M)  BY TenPositive
    <3>2. Power(10, d + k) = z * y  BY <2>2, <3>1, PowerSum
    <3>3. m * y < z * y
      <4>1. m < z  BY <1>4, <3>1
      <4>2. PICK q \in Nat : z = m + 1 + q
        <5>1. z - (m + 1) \in Nat /\ z = m + 1 + (z - (m + 1))  BY ONLY <4>1, z \in Nat, m \in Nat
        <5> QED  BY <5>1
      <4>3. z * y = m * y + y + q * y /\ q * y \in Nat /\ m * y \in Nat
        BY ONLY <4>2, m \in Nat, q \in Nat, y \in Nat
      <4> QED  BY ONLY <2>2, <4>3, y \in Nat
    <3>4. m * y >= U  BY <2>5, <2>6
    <3>5. c < z * y
      <4>1. m * y \in Nat /\ z * y \in Nat  BY ProductNat
      <4>2. c <= U  BY <1>2, <3>1
      <4> QED  BY ONLY <3>3, <3>4, <4>1, <4>2, c \in Nat, U \in Nat
    <3>6. PICK s \in Nat : s = d + k  OBVIOUS
    <3>7. Power(10, M) < Power(10, s)  BY <3>1, <3>2, <3>5, <3>6
    <3>8. M < s  BY <3>7, PowerLess
    <3>9. d - 1 + e >= M  BY <2>1, <3>6, <3>8
    <3> QED  BY <1>1, <1>2, <1>3, <1>4, <3>9
  <2> QED  BY <2>3, <2>4, <2>6
<1>6. CASE e < 0
  <2>1. PICK t \in Nat : t = -v.e /\ t = -e  BY <1>1, <1>6
  <2>2. PICK y \in Nat : y = Power(10, t) /\ y >= 1  BY TenPositive
  <2>3. m \div y >= U
    <3>1. (m > 0 /\ e < 0) /\ ~(m = 0) /\ ~(m > 0 /\ e >= 0)  BY <1>3, <1>6
    <3>2. cast(v) = IF BelowOne(v) THEN 0 ELSE Smaller(m \div y, U)
      BY <1>1, <1>2, <2>1, <2>2, <3>1 DEF cast
    <3>3. m \div y \in Nat  BY <2>2, Quotient
    <3> QED  BY <1>2, <3>2, <3>3 DEF Smaller
  <2>4. PICK c \in Nat, z \in Nat : c = Power(10, M) /\ z = Power(10, d)  BY TenPositive
  <2>5. PICK s \in Nat : s = M + t  OBVIOUS
  <2>6. Power(10, s) = c * y  BY <2>2, <2>4, <2>5, PowerSum
  <2>7. m >= c * y
    <3>1. SUFFICES ASSUME m < c * y PROVE FALSE  BY ProductNat
    <3>2. m \div y < c  BY <2>2, <3>1, QuotientBelow
    <3>3. m \div y \in Nat  BY <2>2, Quotient
    <3> QED  BY <1>2, <2>3, <2>4, <3>2, <3>3
  <2>8. Power(10, s) < Power(10, d)
    <3>1. c * y \in Nat  BY ProductNat
    <3>2. m < z  BY <1>4, <2>4
    <3> QED  BY <2>4, <2>6, <2>7, <3>1, <3>2
  <2>9. s < d  BY <2>8, PowerLess
  <2>10. d - 1 + e >= M  BY <2>1, <2>5, <2>9
  <2> QED  BY <1>1, <1>2, <1>3, <1>4, <2>10
<1> QED  BY <1>5, <1>6

\* In e-style only an exponent past 99 leaves too large a value.
LEMMA StyleTooLarge ==
  ASSUME NEW v \in Finite, NEW q, Pass(v, TRUE, q).overflow, NEW D, D = NumDigits(v.m, 10)
  PROVE  v.m > 0 /\ D - 1 + v.e >= 99 /\ cast(Scaled(v, 99)) = UINTMAX_MAX
<1>1. PICK x \in Int : x = getexponent(v)  BY ExponentInt
<1>2. cast(Scaled(v, x)) = UINTMAX_MAX  BY <1>1 DEF Pass
<1>3. PICK u \in Finite : u = Scaled(v, x) /\ u.m = v.m /\ u.e = v.e - x  BY ScaledFinite
<1>4. cast(u) = UINTMAX_MAX /\ D = NumDigits(u.m, 10)  BY <1>2, <1>3
<1>5. u.m > 0 /\ D - 1 + u.e >= MaxDigits  BY <1>4, CastLarge
<1>6. PICK m \in Nat, e \in Int : m = v.m /\ e = v.e  BY DEF Finite
<1>7. PICK d \in Nat : d = D /\ d = NumDigits(v.m, 10)  BY <1>6, DigitsNat
<1>8. PICK M \in Nat : M = MaxDigits /\ M >= 1  BY Limits
<1>9. d - 1 + e - x >= M
  <2>1. d - 1 + (e - x) >= M  BY <1>3, <1>5, <1>6, <1>7, <1>8
  <2> QED  BY ONLY <2>1, d \in Nat, e \in Int, x \in Int, M \in Nat
<1>10. m # 0  BY <1>3, <1>5, <1>6
<1>11. x = Larger(-99, Smaller(99, d - 1 + e))
  BY <1>1, <1>6, <1>7, <1>10 DEF getexponent
<1>12. x = 99 /\ d - 1 + e >= 99
  BY ONLY <1>8, <1>9, <1>11, d \in Nat, e \in Int, x \in Int, M \in Nat DEF Larger, Smaller
<1> QED  BY <1>2, <1>3, <1>5, <1>6, <1>7, <1>12

Rounded(m, W, t, K) == m \div W = 9 /\ m % W > 0 /\ myround(m % W, t) >= K

\* The rounding of a value that is a little less than a power of ten.
LEMMA RoundsUp ==
  ASSUME NEW m \in Nat, NEW t \in Nat, t >= 1, NEW x \in Nat, x >= 1,
         NEW T \in Nat, T = Power(10, t), NEW K \in Nat, K = Power(10, x),
         NEW W \in Nat, W = Power(10, x + t), m < 10 * W,
         2 * m + T >= 20 * W
  PROVE  Rounded(m, W, t, K)
<1>1. T >= 1 /\ K >= 10
  <2>1. PICK y \in Nat : y = x - 1 /\ y + 1 = x
    <3>1. x - 1 \in Nat /\ (x - 1) + 1 = x  OBVIOUS
    <3> QED  BY <3>1
  <2>2. PICK z \in Nat : z = Power(10, y) /\ z >= 1  BY TenPositive
  <2>3. K = 10 * z  BY <2>1, <2>2, PowerNext
  <2> QED  BY <2>2, <2>3, TenPositive
<1>2. W = K * T  BY PowerSum
<1>3. W >= 10 * T /\ W >= 1
  <2>1. PICK j \in Nat : K = 10 + j
    <3>1. K - 10 \in Nat /\ K = 10 + (K - 10)  BY <1>1
    <3> QED  BY <3>1
  <2>2. W = 10 * T + j * T /\ j * T \in Nat  BY ONLY <1>2, <2>1, T \in Nat, j \in Nat
  <2> QED  BY ONLY <1>1, <2>2, T \in Nat, W \in Nat
<1>4. m >= 9 * W  BY ONLY <1>3, 2 * m + T >= 20 * W, m \in Nat, T \in Nat, W \in Nat
<1>5. m \div W = 9
  <2>1. PICK i \in Nat, j \in Nat : i = 9 /\ j = 10  OBVIOUS
  <2>2. m >= i * W /\ m < j * W  BY <1>4, <2>1
  <2>3. m \div W >= i  BY <1>3, <2>2, QuotientLeast
  <2>4. m \div W < j  BY <1>3, <2>2, QuotientBelow
  <2> QED  BY <1>3, <2>1, <2>3, <2>4, Quotient
<1>6. PICK n \in Nat : n = m % W /\ n < W /\ m = 9 * W + n
  <2>1. m % W \in Nat /\ m % W < W /\ m = W * (m \div W) + (m % W)  BY <1>3, Quotient
  <2> QED  BY <1>5, <2>1
<1>7. 2 * n + T >= 2 * W
  BY ONLY <1>6, 2 * m + T >= 20 * W, m \in Nat, T \in Nat, W \in Nat, n \in Nat
<1>8. n > 0 /\ n >= T  BY ONLY <1>1, <1>3, <1>7, T \in Nat, W \in Nat, n \in Nat
<1>9. PICK q \in Nat, r \in Nat : q = n \div T /\ r = n % T /\ r < T /\ n = T * q + r
  <2>1. n \div T \in Nat /\ n % T \in Nat /\ n % T < T /\ n = T * (n \div T) + (n % T)
    BY <1>1, Quotient
  <2> QED  BY <2>1
<1>10. ~(NumDigits(n, 10) < t)
  <2>1. PICK d \in Nat : d = NumDigits(n, 10) /\ n < Power(10, d)  BY DigitsMean
  <2>2. PICK z \in Nat : z = Power(10, d)  BY TenPositive
  <2>3. T < z  BY <1>8, <2>1, <2>2
  <2>4. t < d  BY <2>2, <2>3, PowerLess
  <2> QED  BY <2>1, <2>4
<1>11. myround(n, t) = q + IF 2 * r < T THEN 0 ELSE 1  BY <1>9, <1>10 DEF myround
<1>12. q >= K \/ q = K - 1
  <2>0. q >= K \/ q = K - 1 \/ q + 2 <= K  BY ONLY q \in Nat, K \in Nat
  <2>1. SUFFICES ASSUME q + 2 <= K PROVE FALSE  BY <2>0
  <2>2. PICK j \in Nat : K = q + 2 + j
    <3>1. K - (q + 2) \in Nat /\ K = q + 2 + (K - (q + 2))  BY ONLY <2>1, q \in Nat, K \in Nat
    <3> QED  BY <3>1
  <2>3. W = T * q + 2 * T + j * T /\ j * T \in Nat /\ T * q \in Nat
    BY ONLY <1>2, <2>2, T \in Nat, q \in Nat, j \in Nat
  <2>4. PICK a \in Nat, b \in Nat : a = T * q /\ b = j * T  BY <2>3
  <2>5. W = a + 2 * T + b /\ n = a + r  BY <1>9, <2>3, <2>4
  <2> QED  BY ONLY <1>1, <1>7, <1>9, <2>5, a \in Nat, b \in Nat, T \in Nat, r \in Nat, n \in Nat, W \in Nat
<1>13. q = K - 1 => ~(2 * r < T)
  <2>1. SUFFICES ASSUME q = K - 1 PROVE ~(2 * r < T)  OBVIOUS
  <2>2. K = q + 1  BY <1>1, <2>1
  <2>3. W = T * q + T /\ T * q \in Nat  BY ONLY <1>2, <2>2, T \in Nat, q \in Nat
  <2>4. PICK a \in Nat : a = T * q  BY <2>3
  <2>5. W = a + T /\ n = a + r  BY <1>9, <2>3, <2>4
  <2> QED  BY ONLY <1>7, <2>5, a \in Nat, T \in Nat, r \in Nat, n \in Nat, W \in Nat
<1>14. myround(n, t) >= K
  BY ONLY <1>1, <1>11, <1>12, <1>13, q \in Nat, r \in Nat, T \in Nat, K \in Nat
<1> QED  BY <1>5, <1>6, <1>8, <1>14 DEF Rounded

-----------------------------------------------------------------------------
(* Floating point: the digits that fmtflt leaves in its buffers, what the  *)
(* characters it makes of them are read back as, and that this is the      *)
(* value that was passed, rounded to what was asked for.                   *)

\* Rounding to p digits behind the first takes the exponent at most one further.
LEMMA ExponentNear ==
  ASSUME NEW v \in Finite, v.m > 0, NEW p, NEW x, x = NumDigits(v.m, 10) - 1 + v.e
  PROVE  /\ Exponent(v, p) \in {x, x + 1}
         /\ InUnits(v, x - p) # Power(10, p + 1) => Exponent(v, p) = x
<1>1. v.m # 0  BY DEF Finite
<1> QED  BY <1>1 DEF Exponent

\* A value that %g prints as %f, with the exponent its first pass found, and
\* that is too large then, has that exponent: rounding carries it no further.
LEMMA PlainTooLarge ==
  ASSUME NEW v \in Finite, NEW q \in Int, NEW d, d = Pass(v, TRUE, q), cast(v) = UINTMAX_MAX,
         d.exponent <= d.precision, d.exponent >= -4
  PROVE  Exponent(v, d.precision) >= -4 /\ Exponent(v, d.precision) <= d.precision
<1>1. PICK m \in Nat, e \in Int : m = v.m /\ e = v.e  BY DEF Finite
<1>2. PICK D : D = NumDigits(v.m, 10)  OBVIOUS
<1>3. v.m > 0 /\ D - 1 + v.e >= MaxDigits  BY <1>2, CastLarge
<1>4. D \in Nat /\ D >= 1 /\ m < Power(10, D)  BY <1>1, <1>2, DigitsMean
<1>5. PICK M \in Nat : M = MaxDigits /\ M >= 1 /\ M < 98  BY Limits
<1>6. PICK x \in Int : x = D - 1 + e /\ x >= M  BY <1>1, <1>3, <1>4, <1>5
<1>7. PICK p \in Int : p = d.precision /\ p <= M
  <2>1. Smaller(q, M) \in Int /\ Smaller(q, M) <= M  BY ONLY q \in Int, M \in Nat DEF Smaller
  <2> QED  BY <1>5, <2>1 DEF Pass
<1>8. PICK g \in Int : g = getexponent(v) /\ g = Larger(-99, Smaller(99, x))
  <2>1. m # 0  BY <1>1, <1>3
  <2> QED  BY <1>1, <1>2, <1>6, <2>1, ExponentInt DEF getexponent
<1>9. d.exponent = g \/ d.exponent = g + 1  BY <1>8 DEF Pass
<1>10. x = g /\ x = p /\ x = M /\ d.exponent = g
  <2>1. PICK y : y = d.exponent  OBVIOUS
  <2>2. (y = g \/ y = g + 1) /\ y <= p  BY <1>7, <1>9, <2>1
  <2>3. y \in Int  BY <2>2
  <2>4. x = g /\ x = p /\ x = M /\ y = g
    BY ONLY <1>5, <1>6, <1>7, <1>8, <2>2, <2>3, M \in Nat, x \in Int, p \in Int, g \in Int
       DEF Larger, Smaller
  <2> QED  BY <2>1, <2>4
<1>11. PICK n \in Nat : n = x /\ n >= 1 /\ n = p /\ n = g  BY <1>5, <1>10
<1>12. InUnits(v, 0) # Power(10, n + 1)
  <2>1. SUFFICES ASSUME InUnits(v, 0) = Power(10, n + 1) PROVE FALSE  OBVIOUS
  <2>2. PICK t \in Int : t = 0 - v.e /\ t = -e  BY <1>1
  <2>3. CASE t <= 0
    <3>1. PICK k \in Nat : k = -t /\ k = e  BY <2>2, <2>3
    <3>2. InUnits(v, 0) = m * Power(10, k)
      <4>1. ~(t > NumDigits(v.m, 10))  BY <1>2, <1>4, <2>3
      <4>2. InUnits(v, 0) = v.m * Power(10, -t)  BY <2>2, <2>3, <4>1 DEF InUnits
      <4> QED  BY <1>1, <3>1, <4>2
    <3>3. n + 1 = D + k  BY <1>4, <1>6, <1>11, <3>1
    <3>4. PICK z \in Nat, y \in Nat : z = Power(10, D) /\ y = Power(10, k) /\ y >= 1
      BY <1>4, TenPositive
    <3>5. Power(10, D + k) = z * y  BY <1>4, <3>4, PowerSum
    <3>6. m * y = z * y /\ m < z  BY <1>4, <2>1, <3>2, <3>3, <3>4, <3>5
    <3>7. PICK j \in Nat : z = m + 1 + j
      <4>1. z - (m + 1) \in Nat /\ z = m + 1 + (z - (m + 1))  BY ONLY <3>6, z \in Nat, m \in Nat
      <4> QED  BY <4>1
    <3>8. z * y = m * y + y + j * y /\ j * y \in Nat /\ m * y \in Nat
      BY ONLY <3>7, m \in Nat, j \in Nat, y \in Nat
    <3> QED  BY ONLY <3>4, <3>6, <3>8, y \in Nat
  <2>4. CASE t > 0
    <3>1. PICK k \in Nat : k = t /\ k >= 1 /\ D = n + 1 + k  BY <1>4, <1>6, <1>11, <2>2, <2>4
    <3>2. PICK T \in Nat, K \in Nat, W \in Nat, Z \in Nat :
            T = Power(10, k) /\ K = Power(10, n) /\ W = Power(10, n + k) /\ Z = Power(10, n + 1) /\ T >= 1
      <4>1. n + k \in Nat /\ n + 1 \in Nat  BY ONLY n \in Nat, k \in Nat
      <4>2. Power(10, k) \in Nat /\ Power(10, k) >= 1 /\ Power(10, n) \in Nat
        BY ONLY n \in Nat, k \in Nat, TenPositive
      <4>3. Power(10, n + k) \in Nat /\ Power(10, n + 1) \in Nat  BY ONLY <4>1, TenPositive
      <4> QED  BY ONLY <4>2, <4>3
    <3>3. Z = 10 * K /\ W = K * T  BY <3>2, PowerNext, PowerSum
    <3>4. m < 10 * W
      <4>1. PICK s \in Nat : s = n + k /\ s + 1 = D  BY <3>1
      <4>2. Power(10, s + 1) = 10 * W  BY <3>2, <4>1, PowerNext
      <4> QED  BY <1>4, <4>1, <4>2
    <3>5. 2 * m + T >= 20 * W
      <4>1. ~(t <= 0) /\ ~(t > NumDigits(v.m, 10))  BY <1>2, <1>4, <2>4, <3>1
      <4>2. InUnits(v, 0) = (2 * m + T) \div (2 * T)
        BY <1>1, <2>2, <3>1, <3>2, <4>1 DEF InUnits
      <4>3. PICK a \in Nat, b \in Nat : a = 2 * m + T /\ b = 2 * T /\ b >= 1  BY <3>2
      <4>4. a \div b = Z  BY <2>1, <3>2, <4>2, <4>3
      <4>5. a >= Z * b
        <5>1. PICK r \in Nat : a = b * Z + r  BY <4>3, <4>4, Quotient
        <5>2. b * Z \in Nat /\ b * Z = Z * b  BY ONLY b \in Nat, Z \in Nat
        <5> QED  BY ONLY <5>1, <5>2, r \in Nat, a \in Nat
      <4>6. Z * b = 20 * W  BY ONLY <3>3, <4>3, K \in Nat, T \in Nat
      <4> QED  BY <4>3, <4>5, <4>6
    <3>6. m \div W = 9 /\ m % W > 0 /\ myround(m % W, k) >= K
      <4>1. k >= 1 /\ n >= 1  BY <1>11, <3>1
      <4>2. Rounded(m, W, k, K)
        BY ONLY <3>2, <3>4, <3>5, <4>1, n \in Nat, k \in Nat, m \in Nat, T \in Nat, K \in Nat,
                W \in Nat, RoundsUp
      <4> QED  BY <4>2 DEF Rounded
    <3>7. PICK u \in Finite : u = Scaled(v, n) /\ u.m = m /\ u.e = e - n
      <4>1. n \in Int  BY ONLY n \in Nat
      <4>2. Scaled(v, n) \in Finite /\ Scaled(v, n).m = v.m /\ Scaled(v, n).e = v.e - n
        BY ONLY v \in Finite, <4>1, ScaledFinite
      <4> QED  BY ONLY <1>1, <4>2
    <3>8. u.e < 0 /\ -u.e = n + k /\ ~BelowOne(u) /\ n < -u.e /\ -u.e - n = k
      <4>1. e = -k  BY <2>2, <3>1
      <4>2. PICK c \in Int : c = u.e  BY <3>7
      <4>3. c < 0 /\ -c = n + k /\ n < -c /\ -c - n = k /\ ~(D <= -c)
        BY ONLY <3>1, <3>7, <4>1, <4>2, n \in Nat, k \in Nat, c \in Int, D = n + 1 + k
      <4>4. NumDigits(u.m, 10) = D  BY <1>1, <1>2, <3>7
      <4> QED  BY <4>2, <4>3, <4>4 DEF BelowOne
    <3>9. cast(u) = 9
      <4>1. u.m > 0 /\ u.e < 0 /\ ~(u.m = 0) /\ ~(u.m > 0 /\ u.e >= 0)  BY <1>1, <1>3, <3>7, <3>8
      <4>2. cast(u) = Smaller(m \div W, UINTMAX_MAX)
        BY <3>2, <3>7, <3>8, <4>1 DEF cast
      <4> QED  BY <3>6, <4>2, Limits DEF Smaller
    <3>10. Fraction(u, n) >= K
      <4>1. PICK r \in Nat : r = m % W /\ r > 0
        <5>1. W \in Nat /\ m % W > 0 /\ W >= 1  BY <3>2, <3>6, TenPositive
        <5> QED  BY <5>1, Quotient
      <4>2. ~(u.e >= 0) /\ ~(n >= -u.e)
        BY <3>7, <3>8
      <4>3. Fraction(u, n) = myround(r, k)
        BY <3>2, <3>7, <3>8, <4>1, <4>2 DEF Fraction
      <4> QED  BY <3>6, <4>1, <4>3
    <3>11. d.exponent = g + 1
      <4>1. Smaller(q, MaxDigits) = n /\ g = n
        BY <1>5, <1>7, <1>10, <1>11 DEF Pass
      <4> QED  BY <1>8, <3>2, <3>7, <3>9, <3>10, <4>1 DEF Pass
    <3> QED  BY ONLY <1>10, <3>11, g \in Int
  <2> QED  BY <2>3, <2>4
<1>13. x - p = 0 /\ p + 1 = n + 1  BY <1>11
<1>14. x = NumDigits(v.m, 10) - 1 + v.e  BY <1>1, <1>2, <1>6
<1>15. InUnits(v, x - p) # Power(10, p + 1)  BY <1>12, <1>13
<1>16. Exponent(v, p) = x  BY <1>3, <1>14, <1>15, ExponentNear
<1> QED  BY <1>7, <1>10, <1>11, <1>16

\* The precision that a floating point conversion goes by, from the one it was given.
FloatAsked(p, general) ==
  LET q == IF p = -1 THEN 6 ELSE p
  IN Smaller(IF general THEN Larger(q, 1) - 1 ELSE q, MaxDigits)
TooLargeFor(v, p, general, estyle) ==
  LET x == Exponent(v, FloatAsked(p, general))
      e == estyle \/ (general /\ (x < -4 \/ x > FloatAsked(p, general)))
  IN cast(IF e THEN Scaled(v, 99) ELSE v) = UINTMAX_MAX

LEMMA ScaledByNone == ASSUME NEW v \in Finite PROVE Scaled(v, 0) = v
<1>1. v.e \in Int  BY DEF Finite
<1>2. v.e - 0 = v.e  BY <1>1
<1>3. v = [kind |-> v.kind, neg |-> v.neg, m |-> v.m, e |-> v.e]  BY DEF Finite
<1> QED  BY <1>2, <1>3 DEF Scaled, Finite

\* The digits do not fit only where the reference says so.
LEMMA DecimalTooLarge ==
  ASSUME NEW v \in Float, NEW p \in Int, p >= -1, NEW fl, NEW q \in Int,
         q = (IF "G" \in fl /\ p = 0 THEN 1 ELSE p), ~("G" \in fl /\ "E" \in fl),
         Decimal(v, q, fl).overflow
  PROVE  TooLargeFor(v, p, "G" \in fl, "E" \in fl)
<1>1. v \in Finite /\ v.kind = "finite"
  <2>1. v.kind = "finite" \/ v.kind # "finite"  OBVIOUS
  <2>2. ASSUME v.kind # "finite" PROVE FALSE
    <3>1. Decimal(v, q, fl) = [overflow |-> FALSE]  BY <2>2 DEF Decimal
    <3> QED  BY <3>1
  <2>3. v \in Finite \/ v.kind # "finite"  BY DEF Float
  <2> QED  BY <2>2, <2>3
<1>2. PICK a \in Int : a = (IF q = -1 THEN 6 ELSE q) /\ a >= 0
  <2>1. (IF q = -1 THEN 6 ELSE q) \in Int  OBVIOUS
  <2>2. (IF q = -1 THEN 6 ELSE q) >= 0  OBVIOUS
  <2> QED  BY <2>1, <2>2
<1>3. CASE "G" \notin fl
  <2>1. Decimal(v, q, fl) = Pass(v, "E" \in fl, a)  BY <1>1, <1>2, <1>3 DEF Decimal
  <2>2. Pass(v, "E" \in fl, a).overflow  BY <2>1
  <2>3. CASE "E" \in fl
    <3>1. Pass(v, TRUE, a).overflow  BY <2>2, <2>3
    <3>2. cast(Scaled(v, 99)) = UINTMAX_MAX  BY <1>1, <3>1, StyleTooLarge
    <3> QED  BY <2>3, <3>2 DEF TooLargeFor
  <2>4. CASE "E" \notin fl
    <3>0. ("E" \in fl) = FALSE  BY <2>4
    <3>1. Pass(v, FALSE, a).overflow  BY ONLY <2>2, <3>0, Zenon
    <3>2. cast(Scaled(v, 0)) = UINTMAX_MAX  BY <3>1 DEF Pass
    <3>3. cast(v) = UINTMAX_MAX  BY <1>1, <3>2, ScaledByNone
    <3> QED  BY <1>3, <2>4, <3>3 DEF TooLargeFor
  <2> QED  BY <2>3, <2>4
<1>4. CASE "G" \in fl
  <2>0. "E" \notin fl  BY <1>4
  <2>1. PICK d : d = Pass(v, TRUE, a - 1)  OBVIOUS
  <2>2. Again(v, d).overflow  BY <1>1, <1>2, <1>4, <2>1 DEF Decimal
  <2>3. PICK P \in Int : P = FloatAsked(p, TRUE) /\ P = d.precision /\ P < 98
    <3>1. PICK M \in Nat : M = MaxDigits /\ M < 98  BY Limits
    <3>2. Smaller(a - 1, M) \in Int /\ Smaller(a - 1, M) < 98
      BY ONLY <3>1, a \in Int, M \in Nat DEF Smaller
    <3>3. d.precision = Smaller(a - 1, M)  BY <2>1, <3>1 DEF Pass
    <3>4. PICK b \in Int : b = IF p = -1 THEN 6 ELSE p  OBVIOUS
    <3>5. q = IF p = 0 THEN 1 ELSE p  BY <1>4
    <3>6. Larger(b, 1) - 1 = a - 1
      BY ONLY <1>2, <3>4, <3>5, a \in Int, b \in Int, p \in Int, q \in Int, p >= -1 DEF Larger
    <3>7. FloatAsked(p, TRUE) = Smaller(a - 1, M)  BY <3>1, <3>4, <3>6 DEF FloatAsked
    <3> QED  BY <3>2, <3>3, <3>7
  <2>4. PICK x : x = Exponent(v, P)  OBVIOUS
  <2>5. SUFFICES cast(IF x < -4 \/ x > P THEN Scaled(v, 99) ELSE v) = UINTMAX_MAX
    BY <1>4, <2>0, <2>3, <2>4 DEF TooLargeFor
  <2>6. CASE d.overflow
    <3>1. PICK D : D = NumDigits(v.m, 10)  OBVIOUS
    <3>2. v.m > 0 /\ D - 1 + v.e >= 99 /\ cast(Scaled(v, 99)) = UINTMAX_MAX
      BY <1>1, <2>1, <2>6, <3>1, StyleTooLarge
    <3>3. PICK c \in Int : c = D - 1 + v.e
      <4>1. v.m \in Nat /\ v.e \in Int  BY <1>1 DEF Finite
      <4>2. D \in Nat  BY <3>1, <4>1, DigitsNat
      <4> QED  BY <4>1, <4>2
    <3>4. x \in {c, c + 1}  BY <1>1, <2>4, <3>1, <3>2, <3>3, ExponentNear
    <3>5. x > P
      <4>1. x \in Int /\ x >= c  BY <3>4
      <4>2. c >= 99  BY <3>2, <3>3
      <4>3. P < 98  BY <2>3
      <4> QED  BY ONLY <4>1, <4>2, <4>3, P \in Int, c \in Int
    <3> QED  BY <3>2, <3>5
  <2>7. CASE ~d.overflow
    <3>0. a - 1 \in Int  OBVIOUS
    <3>1. PICK y \in Int : y = d.exponent  BY <1>1, <2>1, <3>0, PassDecimal DEF IsDecimal
    <3>2. P + 1 > y /\ y >= -4
      <4>1. SUFFICES ASSUME ~(P + 1 > y /\ y >= -4) PROVE FALSE  OBVIOUS
      <4>2. Again(v, d) = d  BY <2>3, <3>1, <4>1 DEF Again
      <4> QED  BY <2>2, <2>7, <4>2
    <3>3. PICK r : r = d.precision - d.exponent  OBVIOUS
    <3>4. Again(v, d) = Pass(v, FALSE, r)  BY <2>3, <2>7, <3>1, <3>2, <3>3 DEF Again
    <3>5. Pass(v, FALSE, r).overflow  BY ONLY <2>2, <3>4, Zenon
    <3>6. cast(Scaled(v, 0)) = UINTMAX_MAX  BY ONLY <3>5 DEF Pass
    <3>7. cast(v) = UINTMAX_MAX  BY <1>1, <3>6, ScaledByNone
    <3>8. y <= P  BY <3>2
    <3>9. d.exponent <= d.precision /\ d.exponent >= -4  BY <2>3, <3>1, <3>2, <3>8
    <3>10. Exponent(v, d.precision) >= -4 /\ Exponent(v, d.precision) <= d.precision
      BY <1>1, <2>1, <3>0, <3>7, <3>9, PlainTooLarge
    <3>11. v.m > 0  BY <1>1, <3>7, CastLarge
    <3>12. PICK c \in Int : c = NumDigits(v.m, 10) - 1 + v.e
      <4>1. v.m \in Nat /\ v.e \in Int  BY <1>1 DEF Finite
      <4>2. NumDigits(v.m, 10) \in Nat  BY <4>1, DigitsNat
      <4> QED  BY <4>1, <4>2
    <3>13. x \in {c, c + 1}  BY <1>1, <2>4, <3>11, <3>12, ExponentNear
    <3>14. ~(x < -4) /\ ~(x > P)
      <4>1. x >= -4 /\ x <= P  BY <2>3, <2>4, <3>10
      <4>2. x \in Int  BY <3>13
      <4> QED  BY ONLY <4>1, <4>2, P \in Int
    <3> QED  BY <3>7, <3>14
  <2> QED  BY <2>6, <2>7
<1> QED  BY <1>3, <1>4

\* The quotient of two numbers, to the nearest integer, half of one up.
Nearest(m, w) == (2 * m + w) \div (2 * w)

\* The quotient is the only number with its remainder.
LEMMA QuotientIs ==
  ASSUME NEW m \in Nat, NEW w \in Nat, w >= 1, NEW k \in Nat, k * w <= m, m < (k + 1) * w
  PROVE  m \div w = k
<1>1. m \div w >= k  BY QuotientLeast
<1>2. m \div w < k + 1  BY QuotientBelow
<1> QED  BY <1>1, <1>2, Quotient

LEMMA Divided ==
  ASSUME NEW m \in Nat, NEW w \in Nat, w >= 1
  PROVE  \E q \in Nat, r \in Nat : r < w /\ m = q * w + r
<1>1. m \div w \in Nat /\ m % w \in Nat /\ m % w < w /\ m = w * (m \div w) + (m % w)  BY Quotient
<1>2. PICK q \in Nat, r \in Nat : r < w /\ m = w * q + r  BY <1>1
<1>3. w * q = q * w  BY ONLY w \in Nat, q \in Nat
<1> QED  BY <1>2, <1>3

LEMMA NearestIs ==
  ASSUME NEW m \in Nat, NEW w \in Nat, w >= 1, NEW q \in Nat, NEW r \in Nat, r < w, m = q * w + r
  PROVE  Nearest(m, w) = q + IF 2 * r < w THEN 0 ELSE 1
<1>1. PICK z \in Nat : z = q * w  OBVIOUS
<1>2. PICK n \in Nat : n = 2 * m + w /\ n = 2 * z + (2 * r + w)
  <2>1. 2 * m + w \in Nat /\ 2 * m + w = 2 * z + (2 * r + w)  BY ONLY <1>1, m = q * w + r, m \in Nat, w \in Nat, r \in Nat, z \in Nat
  <2> QED  BY <2>1
<1>3. PICK u \in Nat : u = 2 * w /\ u >= 1  BY ONLY w \in Nat, w >= 1
<1>4. Nearest(m, w) = n \div u  BY <1>2, <1>3 DEF Nearest
<1>5. q * u = 2 * z /\ (q + 1) * u = 2 * z + u /\ ((q + 1) + 1) * u = 2 * z + 2 * u
  BY ONLY <1>1, <1>3, q \in Nat, w \in Nat, u \in Nat, z \in Nat
<1>6. CASE 2 * r < w
  <2>1. q * u <= n /\ n < (q + 1) * u  BY ONLY <1>2, <1>3, <1>5, <1>6, r \in Nat, w \in Nat, z \in Nat, u \in Nat, n \in Nat
  <2>2. n \div u = q  BY <1>3, <2>1, QuotientIs
  <2> QED  BY <1>4, <1>6, <2>2
<1>7. CASE ~(2 * r < w)
  <2>0. PICK k \in Nat : k = q + 1  OBVIOUS
  <2>1. k * u <= n /\ n < (k + 1) * u
    BY ONLY <1>2, <1>3, <1>5, <1>7, <2>0, r < w, r \in Nat, w \in Nat, z \in Nat, u \in Nat, n \in Nat
  <2>2. n \div u = k  BY <1>3, <2>1, QuotientIs
  <2> QED  BY <1>4, <1>7, <2>0, <2>2
<1> QED  BY <1>6, <1>7

LEMMA NearestNat ==
  ASSUME NEW m \in Nat, NEW w \in Nat, w >= 1
  PROVE  Nearest(m, w) \in Nat
<1>1. PICK q \in Nat, r \in Nat : r < w /\ m = q * w + r  BY Divided
<1>2. Nearest(m, w) = q + IF 2 * r < w THEN 0 ELSE 1  BY <1>1, NearestIs
<1> QED  BY <1>2

\* Whole multiples are not rounded.
LEMMA NearestShifted ==
  ASSUME NEW n \in Nat, NEW w \in Nat, w >= 1, NEW a \in Nat, NEW m \in Nat, m = a * w + n
  PROVE  Nearest(m, w) = a + Nearest(n, w)
<1>1. PICK q \in Nat, r \in Nat : r < w /\ n = q * w + r  BY Divided
<1>2. PICK k \in Nat : k = a + q  OBVIOUS
<1>3. m = k * w + r
  <2>1. k * w = a * w + q * w  BY ONLY <1>2, a \in Nat, q \in Nat, w \in Nat
  <2>2. a * w \in Nat /\ q * w \in Nat  BY ONLY a \in Nat, q \in Nat, w \in Nat
  <2> QED  BY ONLY <1>1, <2>1, <2>2, m = a * w + n, r \in Nat, n \in Nat, m \in Nat
<1>4. PICK up \in Nat : up = IF 2 * r < w THEN 0 ELSE 1  OBVIOUS
<1>5. Nearest(m, w) = k + up
  <2>1. Nearest(m, w) = k + IF 2 * r < w THEN 0 ELSE 1
    BY ONLY <1>1, <1>3, k \in Nat, r \in Nat, w \in Nat, w >= 1, m \in Nat, NearestIs
  <2> QED  BY ONLY <1>4, <2>1
<1>6. Nearest(n, w) = q + up
  <2>1. Nearest(n, w) = q + IF 2 * r < w THEN 0 ELSE 1
    BY ONLY <1>1, q \in Nat, r \in Nat, w \in Nat, w >= 1, n \in Nat, NearestIs
  <2> QED  BY ONLY <1>4, <2>1
<1> QED  BY <1>2, <1>5, <1>6

LEMMA NearestAtMost ==
  ASSUME NEW n \in Nat, NEW w \in Nat, w >= 1, NEW k \in Nat, n <= k * w
  PROVE  Nearest(n, w) <= k
<1>1. PICK q \in Nat, r \in Nat : r < w /\ n = q * w + r  BY Divided
<1>2. Nearest(n, w) = q + IF 2 * r < w THEN 0 ELSE 1  BY <1>1, NearestIs
<1>3. SUFFICES ASSUME q + (IF 2 * r < w THEN 0 ELSE 1) > k PROVE FALSE  BY <1>2
<1>4. CASE q < k
  BY ONLY <1>3, <1>4, q \in Nat, k \in Nat
<1>5. CASE q >= k
  <2>1. PICK j \in Nat : q = k + j
    <3>1. q - k \in Nat /\ q = k + (q - k)  BY ONLY <1>5, q \in Nat, k \in Nat
    <3> QED  BY <3>1
  <2>2. q * w = k * w + j * w /\ j * w \in Nat /\ k * w \in Nat  BY ONLY <2>1, w \in Nat, k \in Nat, j \in Nat
  <2>3. r = 0 /\ j * w = 0  BY ONLY <1>1, <2>2, n <= k * w, n \in Nat, r \in Nat
  <2>4. j = 0  BY ONLY <2>3, w \in Nat, w >= 1, j \in Nat
  <2> QED  BY ONLY <1>3, <2>1, <2>3, <2>4, w \in Nat, w >= 1, k \in Nat
<1> QED  BY <1>4, <1>5

LEMMA NearestZero ==
  ASSUME NEW n \in Nat, NEW w \in Nat, 2 * n < w
  PROVE  Nearest(n, w) = 0
<1>1. PICK q \in Nat : q = 0  OBVIOUS
<1>2. w >= 1 /\ n < w /\ n = q * w + n
  <2>1. q * w = 0  BY ONLY <1>1, w \in Nat
  <2> QED  BY ONLY <2>1, 2 * n < w, n \in Nat, w \in Nat
<1>3. Nearest(n, w) = q + IF 2 * n < w THEN 0 ELSE 1  BY <1>2, NearestIs
<1> QED  BY <1>1, <1>3

\* What myround does.
LEMMA myroundNearest ==
  ASSUME NEW n \in Nat, NEW t \in Nat, NEW w, w = Power(10, t)
  PROVE  myround(n, t) = Nearest(n, w)
<1>1. w \in Nat /\ w >= 1  BY TenPositive
<1>2. PICK d \in Nat : d = NumDigits(n, 10) /\ d >= 1 /\ n < Power(10, d)  BY DigitsMean
<1>3. CASE d < t
  <2>1. PICK s \in Nat : s = t - 1 /\ s + 1 = t /\ d <= s
    <3>1. t - 1 \in Nat /\ (t - 1) + 1 = t /\ d <= t - 1  BY <1>3
    <3> QED  BY <3>1
  <2>2. PICK x \in Nat, y \in Nat : x = Power(10, d) /\ y = Power(10, s)  BY TenPositive
  <2>3. x <= y  BY <2>1, <2>2, PowerMonotone
  <2>4. w = 10 * y  BY <2>1, <2>2, PowerNext
  <2>5. 2 * n < w  BY ONLY <1>2, <2>2, <2>3, <2>4, n \in Nat, x \in Nat, y \in Nat
  <2> QED  BY <1>1, <1>2, <1>3, <2>5, NearestZero DEF myround
<1>4. CASE ~(d < t)
  <2>1. PICK q \in Nat, r \in Nat : q = n \div w /\ r = n % w /\ r < w /\ n = w * q + r
    <3>1. n \div w \in Nat /\ n % w \in Nat /\ n % w < w /\ n = w * (n \div w) + (n % w)  BY <1>1, Quotient
    <3> QED  BY <3>1
  <2>2. n = q * w + r
    <3>1. w * q = q * w  BY ONLY <1>1, q \in Nat
    <3> QED  BY <2>1, <3>1
  <2>3. Nearest(n, w) = q + IF 2 * r < w THEN 0 ELSE 1
    BY ONLY <1>1, <2>1, <2>2, q \in Nat, r \in Nat, n \in Nat, NearestIs
  <2> QED  BY <1>2, <1>4, <2>1, <2>3 DEF myround
<1> QED  BY <1>3, <1>4

\* What InUnits says: a multiple when the unit is at most 10^e, the nearest number otherwise.
LEMMA UnitsMean ==
  ASSUME NEW v \in Finite, NEW u \in Int, NEW t \in Int, t = u - v.e
  PROVE  /\ t <= 0 => InUnits(v, u) = v.m * Power(10, -t)
         /\ t > 0 => InUnits(v, u) = Nearest(v.m, Power(10, t))
<1>1. PICK m \in Nat : m = v.m  BY DEF Finite
<1>2. CASE t <= 0
  <2>1. ~(t > NumDigits(v.m, 10))  BY <1>1, <1>2, DigitsNat
  <2> QED  BY <1>2, <2>1 DEF InUnits
<1>3. CASE t > 0
  <2>1. PICK w \in Nat : w = Power(10, t)
    <3>1. t \in Nat  BY <1>3
    <3> QED  BY <3>1, TenPositive
  <2>2. PICK D \in Nat : D = NumDigits(v.m, 10) /\ D >= 1 /\ m < Power(10, D)  BY <1>1, DigitsMean
  <2>3. CASE t > D
    <3>1. InUnits(v, u) = 0  BY <1>3, <2>2, <2>3 DEF InUnits
    <3>2. PICK s \in Nat : s = t - 1 /\ s + 1 = t /\ D <= s
      <4>1. t - 1 \in Nat /\ (t - 1) + 1 = t /\ D <= t - 1  BY <1>3, <2>3
      <4> QED  BY <4>1
    <3>3. PICK x \in Nat, y \in Nat : x = Power(10, D) /\ y = Power(10, s)  BY TenPositive
    <3>4. x <= y  BY <3>2, <3>3, PowerMonotone
    <3>5. w = 10 * y  BY <2>1, <3>2, <3>3, PowerNext
    <3>6. 2 * m < w  BY ONLY <2>2, <3>3, <3>4, <3>5, m \in Nat, x \in Nat, y \in Nat
    <3>7. Nearest(m, w) = 0  BY <3>6, NearestZero
    <3> QED  BY <1>1, <1>3, <2>1, <3>1, <3>7
  <2>4. CASE ~(t > D)
    <3>1. InUnits(v, u) = (2 * v.m + Power(10, t)) \div (2 * Power(10, t))
      BY <1>3, <2>2, <2>4 DEF InUnits
    <3> QED  BY <1>3, <3>1 DEF Nearest
  <2> QED  BY <2>3, <2>4
<1> QED  BY <1>2, <1>3

\* cast cuts off what is behind the point.
LEMMA castMeans ==
  ASSUME NEW v \in Finite, cast(v) # UINTMAX_MAX
  PROVE  /\ v.e >= 0 => cast(v) = v.m * Power(10, v.e)
         /\ v.e < 0 => cast(v) = v.m \div Power(10, -v.e)
<1>1. PICK m \in Nat, e \in Int : m = v.m /\ e = v.e  BY DEF Finite
<1>2. CASE e >= 0
  <2>1. PICK w \in Nat : w = Power(10, e)
    <3>1. e \in Nat  BY <1>2
    <3> QED  BY <3>1, TenPositive
  <2>2. CASE m = 0
    <3>1. cast(v) = 0  BY <1>1, <2>2 DEF cast
    <3>2. m * w = 0  BY ONLY <2>2, w \in Nat
    <3> QED  BY <1>1, <1>2, <2>1, <3>1, <3>2
  <2>3. CASE m > 0
    <3>1. ~(v.m = 0) /\ (v.m > 0 /\ v.e >= 0) /\ ~(v.m > 0 /\ v.e < 0)  BY <1>1, <1>2, <2>3
    <3>2. cast(v) = IF v.e > MaxDigits \/ v.m > UINTMAX_MAX \div Power(10, v.e) THEN UINTMAX_MAX ELSE v.m * Power(10, v.e)
      BY <3>1 DEF cast
    <3> QED  BY <1>1, <1>2, <3>2
  <2> QED  BY <2>2, <2>3
<1>3. CASE e < 0
  <2>1. PICK k \in Nat : k = -e  BY <1>3
  <2>2. PICK w \in Nat : w = Power(10, k) /\ w >= 1  BY TenPositive
  <2>3. PICK a \in Nat : a = m \div w  BY <2>2, Quotient
  <2>4. CASE m = 0
    <3>1. cast(v) = 0  BY <1>1, <2>4 DEF cast
    <3>2. a = 0  BY <2>2, <2>3, <2>4, QuotientBelow
    <3> QED  BY <1>1, <1>3, <2>1, <2>2, <2>3, <3>1, <3>2
  <2>5. CASE m > 0
    <3>1. ~(v.m = 0) /\ ~(v.m > 0 /\ v.e >= 0) /\ (v.m > 0 /\ v.e < 0)  BY <1>1, <1>3, <2>5
    <3>2. cast(v) = IF BelowOne(v) THEN 0 ELSE Smaller(v.m \div Power(10, -v.e), UINTMAX_MAX)
      BY <3>1 DEF cast
    <3>3. CASE BelowOne(v)
      <4>1. PICK D \in Nat : D = NumDigits(v.m, 10) /\ D >= 1 /\ m < Power(10, D)  BY <1>1, DigitsMean
      <4>2. D <= k  BY <1>1, <2>1, <3>3, <4>1 DEF BelowOne
      <4>3. PICK x \in Nat : x = Power(10, D)  BY TenPositive
      <4>4. x <= w  BY <2>2, <4>2, <4>3, PowerMonotone
      <4>5. m < 1 * w  BY <4>1, <4>3, <4>4
      <4>6. a = 0  BY <2>2, <2>3, <4>5, QuotientBelow
      <4> QED  BY <1>1, <1>3, <2>1, <2>2, <2>3, <3>2, <3>3, <4>6
    <3>4. CASE ~BelowOne(v)
      <4>1. cast(v) = Smaller(a, UINTMAX_MAX)  BY <1>1, <2>1, <2>2, <2>3, <3>2, <3>4
      <4>2. cast(v) = a  BY <4>1 DEF Smaller
      <4> QED  BY <1>1, <1>3, <2>1, <2>2, <2>3, <4>2
    <3> QED  BY <3>3, <3>4
  <2> QED  BY <2>4, <2>5
<1> QED  BY <1>1, <1>2, <1>3

\* Fraction is the rest, to the nearest unit of 10^-p.
LEMMA FractionMeans ==
  ASSUME NEW v \in Finite, NEW p \in Nat
  PROVE  /\ v.e >= 0 => Fraction(v, p) = 0
         /\ v.e < 0 /\ p >= -v.e => Fraction(v, p) = (v.m % Power(10, -v.e)) * Power(10, p + v.e)
         /\ v.e < 0 /\ p < -v.e => Fraction(v, p) = Nearest(v.m % Power(10, -v.e), Power(10, -v.e - p))
<1>1. PICK m \in Nat, e \in Int : m = v.m /\ e = v.e  BY DEF Finite
<1>2. CASE e >= 0
  <2>1. Fraction(v, p) = 0  BY <1>1, <1>2 DEF Fraction
  <2> QED  BY <1>1, <1>2, <2>1
<1>3. CASE e < 0
  <2>1. PICK k \in Nat : k = -e  BY <1>3
  <2>2. PICK w \in Nat : w = Power(10, k) /\ w >= 1  BY TenPositive
  <2>3. PICK n \in Nat : n = m % w  BY <2>2, Quotient
  <2>4. BelowOne(v) => m = n
    <3>1. SUFFICES ASSUME BelowOne(v) PROVE m = n  OBVIOUS
    <3>2. PICK D \in Nat : D = NumDigits(v.m, 10) /\ D >= 1 /\ m < Power(10, D)  BY <1>1, DigitsMean
    <3>3. D <= k  BY <1>1, <2>1, <3>1, <3>2 DEF BelowOne
    <3>4. PICK x \in Nat : x = Power(10, D)  BY TenPositive
    <3>5. x <= w  BY <2>2, <3>3, <3>4, PowerMonotone
    <3>6. m < 1 * w  BY <3>2, <3>4, <3>5
    <3>7. m \div w \in Nat /\ m = w * (m \div w) + (m % w)  BY <2>2, Quotient
    <3>8. m \div w = 0
      <4>1. m \div w < 1  BY <2>2, <3>6, QuotientBelow
      <4> QED  BY <3>7, <4>1
    <3>9. w * 0 = 0  BY ONLY w \in Nat
    <3> QED  BY <2>3, <3>7, <3>8, <3>9
  <2>5. n = IF v.e >= 0 THEN 0 ELSE IF BelowOne(v) THEN v.m ELSE v.m % Power(10, -v.e)
    BY <1>1, <1>3, <2>1, <2>2, <2>3, <2>4
  <2>6. CASE p >= k
    <3>1. PICK y \in Nat : y = Power(10, p + e)
      <4>1. p + e \in Nat  BY <2>1, <2>6
      <4> QED  BY <4>1, TenPositive
    <3>2. n = 0 => n * y = 0  BY ONLY y \in Nat
    <3>3. n > 0 => Fraction(v, p) = n * y
      BY <1>1, <2>1, <2>5, <2>6, <3>1 DEF Fraction
    <3>4. n = 0 => Fraction(v, p) = 0  BY <1>1, <2>5 DEF Fraction
    <3>5. Fraction(v, p) = n * y  BY <3>2, <3>3, <3>4
    <3>6. n = v.m % Power(10, -v.e) /\ y = Power(10, p + v.e)
      BY <1>1, <2>1, <2>2, <2>3, <3>1
    <3>7. v.e < 0 /\ ~(p < -v.e)  BY <1>1, <2>1, <2>6, <1>3
    <3> QED  BY ONLY <3>5, <3>6, <3>7, <1>1, e \in Int, p \in Nat
  <2>7. CASE p < k
    <3>1. PICK t \in Nat : t = -e - p  BY <2>1, <2>7
    <3>2. PICK z \in Nat : z = Power(10, t) /\ z >= 1  BY TenPositive
    <3>3. n = 0 => Fraction(v, p) = 0  BY <1>1, <2>5 DEF Fraction
    <3>4. n > 0 => Fraction(v, p) = myround(n, t)
      BY <1>1, <2>1, <2>5, <2>7, <3>1 DEF Fraction
    <3>5. Fraction(v, p) = Nearest(n, z)
      <4>1. CASE n = 0
        <5>1. Nearest(n, z) = 0  BY <3>2, <4>1, NearestZero
        <5> QED  BY <3>3, <4>1, <5>1
      <4>2. CASE n > 0
        <5>1. myround(n, t) = Nearest(n, z)  BY <3>2, myroundNearest
        <5> QED  BY <3>4, <4>2, <5>1
      <4> QED  BY <4>1, <4>2
    <3>6. n = v.m % Power(10, -v.e) /\ z = Power(10, -v.e - p)
      BY <1>1, <2>1, <2>2, <2>3, <3>1, <3>2
    <3>7. v.e < 0 /\ ~(p >= -v.e)  BY <1>1, <2>1, <2>7, <1>3
    <3> QED  BY ONLY <3>5, <3>6, <3>7, <1>1, e \in Int, p \in Nat
  <2> QED  BY <2>6, <2>7
<1> QED  BY <1>1, <1>2, <1>3

\* A value in units of 10^-p: the part before the point and the part after it.
LEMMA WholeAndFraction ==
  ASSUME NEW v \in Finite, NEW p \in Nat, cast(v) # UINTMAX_MAX
  PROVE  /\ cast(v) * Power(10, p) + Fraction(v, p) = InUnits(v, -p)
         /\ Fraction(v, p) <= Power(10, p)
<1>1. PICK m \in Nat, e \in Int : m = v.m /\ e = v.e  BY DEF Finite
<1>2. PICK P \in Nat : P = Power(10, p) /\ P >= 1  BY TenPositive
<1>3. PICK u \in Int : u = -p  OBVIOUS
<1>4. PICK t \in Int : t = u - e  OBVIOUS
<1>5. CASE e >= 0
  <2>1. PICK w \in Nat : w = Power(10, e)
    <3>1. e \in Nat  BY <1>5
    <3> QED  BY <3>1, TenPositive
  <2>2. cast(v) = m * w  BY <1>1, <1>5, <2>1, castMeans
  <2>3. Fraction(v, p) = 0  BY <1>1, <1>5, FractionMeans
  <2>4. InUnits(v, u) = m * Power(10, -t)
    <3>1. t <= 0  BY <1>3, <1>4, <1>5
    <3> QED  BY <1>1, <1>4, <3>1, UnitsMean
  <2>5. Power(10, -t) = w * P
    <3>1. PICK i \in Nat : i = e  BY <1>5
    <3>2. -t = i + p  BY <1>3, <1>4, <3>1
    <3>3. Power(10, i + p) = Power(10, i) * Power(10, p)  BY PowerSum
    <3> QED  BY ONLY <1>2, <2>1, <3>1, <3>2, <3>3
  <2>6. (m * w) * P + 0 = m * (w * P)  BY ONLY m \in Nat, w \in Nat, P \in Nat
  <2> QED  BY <1>2, <1>3, <2>2, <2>3, <2>4, <2>5, <2>6
<1>6. CASE e < 0
  <2>1. PICK k \in Nat : k = -e /\ e = -k  BY <1>6
  <2>2. PICK w \in Nat : w = Power(10, k) /\ w >= 1  BY TenPositive
  <2>3. PICK a \in Nat, n \in Nat : a = m \div w /\ n = m % w /\ n < w /\ m = a * w + n
    <3>1. m \div w \in Nat /\ m % w \in Nat /\ m % w < w /\ m = w * (m \div w) + (m % w)
      BY <2>2, Quotient
    <3>2. PICK a \in Nat, n \in Nat : a = m \div w /\ n = m % w  BY <3>1
    <3>3. w * a = a * w  BY ONLY w \in Nat, a \in Nat
    <3> QED  BY <3>1, <3>2, <3>3
  <2>4. cast(v) = a  BY <1>1, <1>6, <2>1, <2>2, <2>3, castMeans
  <2>5. CASE p >= k
    <3>1. PICK j \in Nat : j = p - k /\ p = k + j  BY <2>5
    <3>2. PICK y \in Nat : y = Power(10, j) /\ y >= 1  BY TenPositive
    <3>3. P = w * y  BY <1>2, <2>2, <3>1, <3>2, PowerSum
    <3>4. Fraction(v, p) = n * y
      <4>1. v.e < 0 /\ p >= -v.e  BY <1>1, <1>6, <2>1, <2>5
      <4>2. -v.e = k /\ p + v.e = j  BY <1>1, <2>1, <3>1
      <4>3. Fraction(v, p) = (v.m % Power(10, -v.e)) * Power(10, p + v.e)  BY <4>1, FractionMeans
      <4> QED  BY <1>1, <2>2, <2>3, <3>2, <4>2, <4>3
    <3>5. InUnits(v, u) = m * y
      <4>1. t <= 0 /\ -t = j  BY <1>3, <1>4, <2>1, <3>1
      <4> QED  BY <1>1, <1>4, <3>2, <4>1, UnitsMean
    <3>6. a * P + n * y = m * y
      <4>1. a * (w * y) + n * y = (a * w + n) * y
        BY ONLY a \in Nat, w \in Nat, y \in Nat, n \in Nat
      <4> QED  BY <2>3, <3>3, <4>1
    <3>7. n * y <= P
      <4>1. PICK i \in Nat : w = n + i
        <5>1. w - n \in Nat /\ w = n + (w - n)  BY ONLY <2>3, w \in Nat, n \in Nat
        <5> QED  BY <5>1
      <4>2. P = n * y + i * y /\ i * y \in Nat /\ n * y \in Nat
        BY ONLY <3>3, <4>1, n \in Nat, i \in Nat, y \in Nat
      <4> QED  BY <4>2
    <3> QED  BY <1>2, <1>3, <2>4, <3>4, <3>5, <3>6, <3>7
  <2>6. CASE p < k
    <3>1. PICK j \in Nat : j = k - p /\ k = p + j /\ j > 0  BY <2>6
    <3>2. PICK y \in Nat : y = Power(10, j) /\ y >= 1  BY TenPositive
    <3>3. w = P * y  BY <1>2, <2>2, <3>1, <3>2, PowerSum
    <3>4. Fraction(v, p) = Nearest(n, y)
      <4>1. v.e < 0 /\ p < -v.e  BY <1>1, <1>6, <2>1, <2>6
      <4>2. -v.e = k /\ -v.e - p = j  BY <1>1, <2>1, <3>1
      <4>3. Fraction(v, p) = Nearest(v.m % Power(10, -v.e), Power(10, -v.e - p))
        BY <4>1, FractionMeans
      <4> QED  BY <1>1, <2>2, <2>3, <3>2, <4>2, <4>3
    <3>5. InUnits(v, u) = Nearest(m, y)
      <4>1. t > 0 /\ t = j  BY <1>3, <1>4, <2>1, <3>1
      <4> QED  BY <1>1, <1>4, <3>2, <4>1, UnitsMean
    <3>6. PICK b \in Nat : b = a * P  OBVIOUS
    <3>7. m = b * y + n
      <4>1. a * (P * y) = (a * P) * y  BY ONLY a \in Nat, P \in Nat, y \in Nat
      <4> QED  BY <2>3, <3>3, <3>6, <4>1
    <3>8. Nearest(m, y) = b + Nearest(n, y)  BY <3>2, <3>7, NearestShifted
    <3>9. Nearest(n, y) <= P
      <4>1. n <= P * y  BY <2>3, <3>3
      <4> QED  BY <3>2, <4>1, NearestAtMost
    <3> QED  BY <1>2, <1>3, <2>4, <3>4, <3>5, <3>6, <3>8, <3>9
  <2> QED  BY <2>5, <2>6
<1> QED  BY <1>5, <1>6

\* The parts of a number after the rounding of the second has been carried.
LEMMA Carried ==
  ASSUME NEW i \in Nat, NEW f \in Nat, NEW w \in Nat, w >= 1, f <= w,
         NEW int, NEW frac, f >= w => int = i + 1 /\ frac = 0, f < w => int = i /\ frac = f
  PROVE  /\ int \in Nat /\ frac \in Nat /\ frac < w
         /\ int * w + frac = i * w + f
<1>1. CASE f >= w
  <2>1. int = i + 1 /\ frac = 0 /\ f = w  BY <1>1
  <2>2. (i + 1) * w + 0 = i * w + w  BY ONLY i \in Nat, w \in Nat
  <2> QED  BY <2>1, <2>2
<1>2. CASE ~(f >= w)
  <2>0. f < w  BY ONLY <1>2, f \in Nat, w \in Nat
  <2>1. int = i /\ frac = f  BY <2>0
  <2> QED  BY <2>0, <2>1
<1> QED  BY <1>1, <1>2

\* d has the digits of v in units of 10^(x - p), p of them after the point.
HasDigits(d, v, p, x) ==
  /\ d.precision = p /\ d.int \in Nat /\ d.frac \in Nat /\ d.frac < Power(10, p)
  /\ d.int * Power(10, p) + d.frac = InUnits(v, x - p)

\* The digits that a pass in the style of %f leaves.
LEMMA PlainMeans ==
  ASSUME NEW v \in Finite, NEW p \in Nat, NEW q \in Int, p = Smaller(q, MaxDigits),
         NEW d, d = Pass(v, FALSE, q), ~d.overflow
  PROVE  HasDigits(d, v, p, 0) /\ d.estyle = FALSE
<1>1. PICK w \in Nat : w = Power(10, p) /\ w >= 1  BY TenPositive
<1>2. PICK i \in Nat : i = cast(v)  BY castNat
<1>3. PICK f \in Nat : f = Fraction(v, p)  BY FractionNat
<1>4. Scaled(v, 0) = v  BY ScaledByNone
<1>5. /\ d.overflow = (i = UINTMAX_MAX) /\ d.estyle = FALSE /\ d.precision = p
      /\ d.int = (IF f >= w THEN i + 1 ELSE i) /\ d.frac = IF f >= w THEN 0 ELSE f
  BY <1>1, <1>2, <1>3, <1>4 DEF Pass
<1>6. i # UINTMAX_MAX  BY <1>5
<1>7. i * w + f = InUnits(v, -p) /\ f <= w  BY <1>1, <1>2, <1>3, <1>6, WholeAndFraction
<1>8. PICK int, frac : int = d.int /\ frac = d.frac  OBVIOUS
<1>9. int \in Nat /\ frac \in Nat /\ frac < w /\ int * w + frac = i * w + f
  <2>1. (f >= w => int = i + 1 /\ frac = 0) /\ (f < w => int = i /\ frac = f)
    <3>1. f < w => ~(f >= w)  BY ONLY f \in Nat, w \in Nat
    <3> QED  BY ONLY <1>5, <1>8, <3>1
  <2> QED  BY ONLY <1>1, <1>7, <2>1, i \in Nat, f \in Nat, w \in Nat, Carried
<1>10. 0 - p = -p  OBVIOUS
<1> QED  BY <1>1, <1>5, <1>7, <1>8, <1>9, <1>10 DEF HasDigits

\* A value that rounds to the next power of ten, in the units that go with it.
LEMMA NextPower ==
  ASSUME NEW m \in Nat, NEW D \in Nat, m < Power(10, D), NEW p \in Nat, NEW t \in Nat, t >= 1,
         t + p + 1 = D, Nearest(m, Power(10, t)) = Power(10, p + 1)
  PROVE  Nearest(m, Power(10, t + 1)) = Power(10, p)
<1>1. PICK w \in Nat : w = Power(10, t) /\ w >= 1  BY TenPositive
<1>2. PICK k \in Nat : k = Power(10, p) /\ k >= 1  BY TenPositive
<1>3. PICK z \in Nat : z = w * k  OBVIOUS
<1>4. Power(10, D) = 10 * z
  <2>1. PICK s \in Nat : s = t + p /\ D = s + 1  OBVIOUS
  <2>2. Power(10, s) = w * k
    <3>1. Power(10, t + p) = Power(10, t) * Power(10, p)  BY PowerSum
    <3> QED  BY <1>1, <1>2, <2>1, <3>1
  <2> QED  BY <1>3, <2>1, <2>2, PowerNext
<1>5. m < 10 * z  BY <1>4
<1>6. Power(10, t + 1) = 10 * w /\ Power(10, p + 1) = 10 * k  BY <1>1, <1>2, PowerNext
<1>7. 2 * m + w >= 20 * z
  <2>0. 2 * m + w >= 20 * z \/ 2 * m + w < 20 * z  BY ONLY m \in Nat, w \in Nat, z \in Nat
  <2>1. SUFFICES ASSUME 2 * m + w < 20 * z PROVE FALSE  BY <2>0
  <2>2. PICK n \in Nat, u \in Nat, j \in Nat : n = 2 * m + w /\ u = 2 * w /\ j = 10 * k  OBVIOUS
  <2>3. j * u = 20 * z
    <3>1. (10 * k) * (2 * w) = 20 * (w * k)  BY ONLY k \in Nat, w \in Nat
    <3> QED  BY <1>3, <2>2, <3>1
  <2>4. n < j * u /\ u >= 1  BY <1>1, <2>1, <2>2, <2>3
  <2>5. n \div u < j  BY <2>4, QuotientBelow
  <2>6. n \div u = j  BY <1>1, <1>6, <2>2 DEF Nearest
  <2> QED  BY <2>5, <2>6
<1>8. PICK n \in Nat, u \in Nat, r \in Nat : n = 2 * m + r /\ u = 2 * r /\ r = 10 * w
  OBVIOUS
<1>9. k * u = 20 * z /\ (k + 1) * u = 20 * z + u
  <2>1. k * (2 * (10 * w)) = 20 * (w * k)  BY ONLY k \in Nat, w \in Nat
  <2>2. (k + 1) * u = k * u + u  BY ONLY k \in Nat, u \in Nat
  <2> QED  BY <1>3, <1>8, <2>1, <2>2
<1>10. k * u <= n /\ n < (k + 1) * u /\ u >= 1
  BY ONLY <1>1, <1>5, <1>7, <1>8, <1>9, m \in Nat, w \in Nat, z \in Nat, n \in Nat, u \in Nat, r \in Nat
<1>11. n \div u = k  BY <1>10, QuotientIs
<1> QED  BY <1>2, <1>6, <1>8, <1>11 DEF Nearest

\* Moving the point of a value by x digits.
LEMMA UnitsScaled ==
  ASSUME NEW v \in Finite, NEW x \in Int, NEW u \in Finite, u.m = v.m, u.e = v.e - x,
         NEW p \in Nat
  PROVE  InUnits(u, -p) = InUnits(v, x - p)
<1>1. PICK m \in Nat, e \in Int : m = v.m /\ e = v.e  BY DEF Finite
<1>2. PICK t \in Int : t = (-p) - u.e /\ t = (x - p) - v.e
  <2>1. (-p) - (e - x) = (x - p) - e /\ (x - p) - e \in Int  OBVIOUS
  <2> QED  BY <1>1, <2>1
<1>3. PICK a \in Int, b \in Int : a = -p /\ b = x - p  OBVIOUS
<1>4. CASE t <= 0
  <2>1. InUnits(u, a) = u.m * Power(10, -t)  BY <1>2, <1>3, <1>4, UnitsMean
  <2>2. InUnits(v, b) = v.m * Power(10, -t)  BY <1>2, <1>3, <1>4, UnitsMean
  <2> QED  BY <1>3, <2>1, <2>2
<1>5. CASE t > 0
  <2>1. InUnits(u, a) = Nearest(u.m, Power(10, t))  BY <1>2, <1>3, <1>5, UnitsMean
  <2>2. InUnits(v, b) = Nearest(v.m, Power(10, t))  BY <1>2, <1>3, <1>5, UnitsMean
  <2> QED  BY <1>3, <2>1, <2>2
<1> QED  BY <1>4, <1>5

LEMMA UnitsOfZero ==
  ASSUME NEW v \in Finite, v.m = 0, NEW u \in Int
  PROVE  InUnits(v, u) = 0
<1>1. PICK t \in Int : t = u - v.e  BY DEF Finite
<1>2. CASE t <= 0
  <2>1. PICK y \in Nat : y = Power(10, -t)
    <3>1. -t \in Nat  BY <1>2
    <3> QED  BY <3>1, TenPositive
  <2>2. 0 * y = 0  OBVIOUS
  <2> QED  BY <1>1, <1>2, <2>1, <2>2, UnitsMean
<1>3. CASE t > 0
  <2>1. PICK y \in Nat : y = Power(10, t) /\ y >= 1
    <3>1. t \in Nat  BY <1>3
    <3> QED  BY <3>1, TenPositive
  <2>2. Nearest(0, y) = 0  BY <2>1, NearestZero
  <2> QED  BY <1>1, <1>3, <2>1, <2>2, UnitsMean
<1> QED  BY <1>2, <1>3

\* What is left when the exponent has been divided out has one digit.
LEMMA OneDigit ==
  ASSUME NEW u \in Finite, NEW D \in Nat, D = NumDigits(u.m, 10), u.m > 0, u.e = 1 - D,
         cast(u) # UINTMAX_MAX
  PROVE  cast(u) \in 1..9
<1>1. PICK m \in Nat : m = u.m /\ m > 0  BY DEF Finite
<1>2. D >= 1 /\ m < Power(10, D) /\ m >= Power(10, D - 1)  BY <1>1, DigitsMean
<1>3. PICK k \in Nat : k = D - 1 /\ D = k + 1  BY <1>2
<1>4. PICK w \in Nat : w = Power(10, k) /\ w >= 1 /\ Power(10, D) = 10 * w
  BY <1>3, TenPositive, PowerNext
<1>5. m >= 1 * w /\ m < 10 * w  BY <1>2, <1>3, <1>4
<1>6. CASE k = 0
  <2>1. u.e >= 0 /\ u.e = 0  BY <1>3, <1>6
  <2>2. cast(u) = m * w  BY <1>1, <1>4, <1>6, <2>1, castMeans
  <2>3. w = 1  BY <1>4, <1>6, PowerZero
  <2> QED  BY <1>5, <2>2, <2>3
<1>7. CASE k > 0
  <2>1. u.e < 0 /\ -u.e = k  BY <1>3, <1>7
  <2>2. cast(u) = m \div w  BY <1>1, <1>4, <2>1, castMeans
  <2>3. m \div w >= 1 /\ m \div w < 10 /\ m \div w \in Nat
    <3>1. PICK a \in Nat, b \in Nat : a = 1 /\ b = 10  OBVIOUS
    <3>2. m >= a * w /\ m < b * w  BY <1>5, <3>1
    <3>3. m \div w >= a  BY <1>4, <3>2, QuotientLeast
    <3>4. m \div w < b  BY <1>4, <3>2, QuotientBelow
    <3>5. m \div w \in Nat  BY <1>4, Quotient
    <3> QED  BY <3>1, <3>3, <3>4, <3>5
  <2> QED  BY <2>2, <2>3
<1> QED  BY <1>6, <1>7

\* No exponent of more than two digits.
Usual(v) == v.m > 0 => NumDigits(v.m, 10) + v.e \in -97..99

LEMMA UsualExponent ==
  ASSUME NEW v \in Finite, Usual(v), v.m > 0, NEW D, D = NumDigits(v.m, 10)
  PROVE  getexponent(v) = D - 1 + v.e
<1>1. PICK m \in Nat, e \in Int : m = v.m /\ e = v.e  BY DEF Finite
<1>2. D \in Nat  BY <1>1, DigitsNat
<1>3. D + e \in -97..99  BY <1>1 DEF Usual
<1>4. Larger(-99, Smaller(99, D - 1 + e)) = D - 1 + e  BY <1>2, <1>3 DEF Larger, Smaller
<1>5. v.m # 0  BY <1>1
<1> QED  BY <1>1, <1>4, <1>5 DEF getexponent

\* The digits and the exponent that a pass in the style of %e leaves.
LEMMA StyleDigits ==
  ASSUME NEW v \in Finite, Usual(v), NEW p \in Nat, NEW q \in Int, p = Smaller(q, MaxDigits),
         NEW d, d = Pass(v, TRUE, q), ~d.overflow, NEW X, X = Exponent(v, p)
  PROVE  HasDigits(d, v, p, X) /\ d.estyle = TRUE /\ d.exponent = X
<1>1. PICK m \in Nat, e \in Int : m = v.m /\ e = v.e  BY DEF Finite
<1>2. PICK x \in Int : x = getexponent(v)  BY ExponentInt
<1>3. PICK u \in Finite : u = Scaled(v, x) /\ u.m = v.m /\ u.e = v.e - x  BY ScaledFinite
<1>4. PICK w \in Nat : w = Power(10, p) /\ w >= 1 /\ Power(10, p + 1) = 10 * w
  BY TenPositive, PowerNext
<1>5. PICK i \in Nat : i = cast(u)  BY castNat
<1>6. PICK f \in Nat : f = Fraction(u, p)  BY FractionNat
<1>7. PICK ten \in BOOLEAN : ten = (f >= w /\ i = 9)  OBVIOUS
<1>8. /\ d.overflow = (i = UINTMAX_MAX) /\ d.estyle = TRUE /\ d.precision = p
      /\ d.exponent = (IF ten THEN x + 1 ELSE x)
      /\ d.int = (IF ten THEN 1 ELSE IF f >= w THEN i + 1 ELSE i)
      /\ d.frac = IF f >= w THEN 0 ELSE f
  BY <1>2, <1>3, <1>4, <1>5, <1>6, <1>7 DEF Pass
<1>9. i # UINTMAX_MAX  BY <1>8
<1>10. PICK s : s = InUnits(v, x - p) /\ i * w + f = s /\ f <= w
  <2>1. i * w + f = InUnits(u, -p) /\ f <= w
    BY <1>3, <1>4, <1>5, <1>6, <1>9, WholeAndFraction
  <2>2. InUnits(u, -p) = InUnits(v, x - p)  BY <1>3, UnitsScaled
  <2> QED  BY <2>1, <2>2
<1>11. CASE m = 0
  <2>1. x = 0 /\ X = 0  BY <1>1, <1>2, <1>11 DEF getexponent, Exponent
  <2>2. i = 0  BY <1>1, <1>3, <1>5, <1>11 DEF cast
  <2>3. s = 0
    <3>1. x - p \in Int  OBVIOUS
    <3> QED  BY <1>1, <1>10, <1>11, <3>1, UnitsOfZero
  <2>4. f = 0
    <3>1. i * w = 0  BY ONLY <2>2, w \in Nat
    <3> QED  BY <1>10, <2>3, <3>1
  <2>5. ~(f >= w)  BY ONLY <1>4, <2>4, w \in Nat
  <2>6. ~ten  BY ONLY <1>7, <2>5, Zenon
  <2>7. d.exponent = x /\ d.int = i /\ d.frac = f  BY ONLY <1>8, <2>5, <2>6
  <2>8. f < w  BY ONLY <1>4, <2>4, w \in Nat
  <2>9. HasDigits(d, v, p, X)
    BY ONLY <1>4, <1>8, <1>10, <2>1, <2>7, <2>8, i \in Nat, f \in Nat DEF HasDigits
  <2> QED  BY ONLY <1>8, <2>1, <2>7, <2>9
<1>12. CASE m > 0
  <2>1. PICK D \in Nat : D = NumDigits(v.m, 10) /\ D >= 1 /\ m < Power(10, D)
    BY <1>1, DigitsMean
  <2>2. x = D - 1 + e  BY <1>1, <1>2, <1>12, <2>1, UsualExponent
  <2>3. i \in 1..9
    <3>1. u.e = 1 - D  BY <1>1, <1>3, <2>1, <2>2
    <3> QED  BY <1>1, <1>3, <1>5, <1>9, <1>12, <2>1, <3>1, OneDigit
  <2>4. v.m # 0 /\ X = IF s = 10 * w THEN x + 1 ELSE x
    <3>1. v.m # 0  BY <1>1, <1>12
    <3> QED  BY <1>1, <1>4, <1>10, <2>1, <2>2, <3>1 DEF Exponent
  <2>5. CASE ten
    <3>1. i = 9 /\ f = w /\ d.int = 1 /\ d.frac = 0 /\ d.exponent = x + 1
      <4>1. f >= w /\ i = 9  BY ONLY <1>7, <2>5, Zenon
      <4>2. f = w  BY ONLY <1>10, <4>1, w \in Nat, f \in Nat
      <4> QED  BY ONLY <1>8, <2>5, <4>1, <4>2
    <3>2. s = 10 * w  BY <1>10, <3>1
    <3>3. X = x + 1  BY <2>4, <3>2
    <3>4. PICK t \in Int : t = (x - p) - e /\ t + p + 1 = D  BY <2>2
    <3>5. t >= 1
      <4>1. SUFFICES ASSUME t <= 0 PROVE FALSE  OBVIOUS
      <4>2. PICK j \in Nat : j = -t /\ p + 1 = D + j  BY <3>4, <4>1
      <4>3. PICK y \in Nat, z \in Nat : y = Power(10, j) /\ y >= 1 /\ z = Power(10, D)
        BY TenPositive
      <4>4. s = m * y
        <5>1. x - p \in Int /\ t = (x - p) - v.e  BY <1>1, <3>4
        <5> QED  BY <1>1, <1>10, <4>1, <4>2, <4>3, <5>1, UnitsMean
      <4>5. Power(10, p + 1) = z * y  BY <4>2, <4>3, PowerSum
      <4>6. m * y = z * y  BY <1>4, <3>2, <4>4, <4>5
      <4>7. m < z  BY <2>1, <4>3
      <4> QED  BY ONLY <4>3, <4>6, <4>7, m \in Nat, z \in Nat, y \in Nat
    <3>6. PICK k \in Nat : k = t /\ k >= 1 /\ k + p + 1 = D  BY <3>4, <3>5
    <3>7. s = Nearest(m, Power(10, k))
      <4>1. x - p \in Int /\ k = (x - p) - v.e /\ k > 0  BY <1>1, <3>4, <3>6
      <4> QED  BY <1>1, <1>10, <4>1, UnitsMean
    <3>8. Nearest(m, Power(10, k + 1)) = w
      BY <1>4, <2>1, <3>2, <3>6, <3>7, NextPower
    <3>9. InUnits(v, X - p) = w
      <4>1. PICK a \in Int, b \in Int : a = X - p /\ b = k + 1 /\ b = a - v.e /\ b > 0
        BY <1>1, <3>3, <3>4, <3>6
      <4>2. InUnits(v, a) = Nearest(v.m, Power(10, b))  BY <4>1, UnitsMean
      <4> QED  BY <1>1, <3>8, <4>1, <4>2
    <3>10. 1 * w + 0 = w /\ 1 \in Nat /\ 0 \in Nat /\ 0 < w  BY <1>4
    <3>11. HasDigits(d, v, p, X)  BY ONLY <1>4, <1>8, <3>1, <3>9, <3>10 DEF HasDigits
    <3> QED  BY ONLY <1>8, <3>1, <3>3, <3>11
  <2>6. CASE ~ten
    <3>1. d.exponent = x  BY <1>8, <2>6
    <3>2. s # 10 * w
      <4>1. SUFFICES ASSUME s = 10 * w PROVE FALSE  OBVIOUS
      <4>2. ~(f >= w /\ i = 9)  BY <1>7, <2>6
      <4>3. i <= 8 \/ i = 9  BY <2>3
      <4>4. CASE i = 9
        BY ONLY <1>10, <4>1, <4>2, <4>4, w \in Nat, f \in Nat
      <4>5. CASE i <= 8
        <5>1. PICK j \in Nat : i + j = 8
          <6>1. 8 - i \in Nat /\ i + (8 - i) = 8  BY <4>5
          <6> QED  BY <6>1
        <5>2. i * w + j * w = 8 * w
          <6>1. (i + j) * w = i * w + j * w  BY ONLY i \in Nat, j \in Nat, w \in Nat
          <6> QED  BY <5>1, <6>1
        <5>3. i * w \in Nat /\ j * w \in Nat  BY ONLY i \in Nat, j \in Nat, w \in Nat
        <5> QED  BY ONLY <1>4, <1>10, <4>1, <5>2, <5>3, w \in Nat, f \in Nat
      <4> QED  BY <4>3, <4>4, <4>5
    <3>3. X = x  BY <2>4, <3>2
    <3>4. PICK int, frac : int = d.int /\ frac = d.frac  OBVIOUS
    <3>5. (f >= w => int = i + 1 /\ frac = 0) /\ (f < w => int = i /\ frac = f)
      <4>1. f < w => ~(f >= w)  BY ONLY f \in Nat, w \in Nat
      <4> QED  BY ONLY <1>8, <2>6, <3>4, <4>1
    <3>6. int \in Nat /\ frac \in Nat /\ frac < w /\ int * w + frac = i * w + f
      BY ONLY <1>4, <1>10, <3>5, i \in Nat, f \in Nat, w \in Nat, Carried
    <3>7. HasDigits(d, v, p, X)
      BY ONLY <1>4, <1>8, <1>10, <3>3, <3>4, <3>6 DEF HasDigits
    <3> QED  BY ONLY <1>8, <3>1, <3>3, <3>7
  <2> QED  BY <2>5, <2>6
<1>13. m = 0 \/ m > 0  BY ONLY m \in Nat
<1> QED  BY ONLY <1>11, <1>12, <1>13

LEMMA ReferenceInt ==
  ASSUME NEW v \in Finite, NEW p \in Int
  PROVE  Exponent(v, p) \in Int
<1>1. PICK m \in Nat, e \in Int : m = v.m /\ e = v.e  BY DEF Finite
<1>2. PICK D \in Nat : D = NumDigits(v.m, 10)  BY <1>1, DigitsNat
<1>3. PICK x \in Int : x = NumDigits(v.m, 10) - 1 + v.e  BY <1>1, <1>2
<1>4. CASE m = 0  BY <1>1, <1>4 DEF Exponent
<1>5. CASE m # 0
  <2>1. Exponent(v, p) \in {x, x + 1}  BY <1>1, <1>3, <1>5 DEF Exponent
  <2> QED  BY <2>1
<1> QED  BY <1>4, <1>5

LEMMA AskedNat ==
  ASSUME NEW p \in Int, p >= -1, NEW general
  PROVE  FloatAsked(p, general) \in Nat /\ FloatAsked(p, general) <= MaxDigits
<1>1. PICK M \in Nat : M = MaxDigits  BY Limits
<1>2. PICK b \in Nat : b = IF p = -1 THEN 6 ELSE p
  <2>1. (IF p = -1 THEN 6 ELSE p) \in Nat  OBVIOUS
  <2> QED  BY <2>1
<1>3. CASE general
  <2>1. PICK c \in Nat : c = Larger(b, 1) - 1
    <3>1. Larger(b, 1) - 1 \in Nat  BY ONLY b \in Nat DEF Larger
    <3> QED  BY <3>1
  <2>2. FloatAsked(p, general) = Smaller(c, M)  BY <1>1, <1>2, <1>3, <2>1 DEF FloatAsked
  <2>3. Smaller(c, M) \in Nat /\ Smaller(c, M) <= M  BY ONLY c \in Nat, M \in Nat DEF Smaller
  <2> QED  BY <1>1, <2>2, <2>3
<1>4. CASE ~general
  <2>1. FloatAsked(p, general) = Smaller(b, M)  BY <1>1, <1>2, <1>4 DEF FloatAsked
  <2>2. Smaller(b, M) \in Nat /\ Smaller(b, M) <= M  BY ONLY b \in Nat, M \in Nat DEF Smaller
  <2> QED  BY <1>1, <2>1, <2>2
<1> QED  BY <1>3, <1>4

\* What fmtflt prints: with an exponent or without, the digits that are asked for.
PlacesAsked(P, x, styled, general) == IF styled \/ ~general THEN P ELSE P - x
Digital(d, v, styled, x, places) ==
  /\ places \in Nat /\ x \in Int /\ HasDigits(d, v, places, IF styled THEN x ELSE 0)
  /\ (d.estyle = TRUE <=> styled) /\ (styled => d.exponent = x)

\* Decimal leaves the digits, the style and the exponent that are asked for.
LEMMA DecimalDigits ==
  ASSUME NEW v \in Finite, Usual(v), NEW p \in Int, p >= -1, NEW fl, NEW q \in Int,
         q = (IF "G" \in fl /\ p = 0 THEN 1 ELSE p), ~("G" \in fl /\ "E" \in fl),
         NEW P, P = FloatAsked(p, "G" \in fl), NEW X, X = Exponent(v, P),
         NEW S, S <=> ("E" \in fl \/ ("G" \in fl /\ (X < -4 \/ X > P))),
         NEW asked, asked = PlacesAsked(P, X, S, "G" \in fl), asked <= MaxDigits,
         NEW d, d = Decimal(v, q, fl), ~d.overflow
  PROVE  Digital(d, v, S, X, asked)
<1>1. v.kind = "finite"  BY DEF Finite
<1>2. PICK a \in Int : a = (IF q = -1 THEN 6 ELSE q) /\ a >= 0
  <2>1. (IF q = -1 THEN 6 ELSE q) \in Int  OBVIOUS
  <2>2. (IF q = -1 THEN 6 ELSE q) >= 0  OBVIOUS
  <2> QED  BY <2>1, <2>2
<1>3. PICK M \in Nat : M = MaxDigits  BY Limits
<1>4. P \in Nat  BY AskedNat
<1>5. X \in Int  BY <1>4, ReferenceInt
<1>6. CASE "G" \notin fl
  <2>0. ("G" \in fl) = FALSE  BY <1>6
  <2>1. a = IF p = -1 THEN 6 ELSE p  BY <1>2, <1>6
  <2>2. P = Smaller(a, MaxDigits)  BY <1>6, <2>1 DEF FloatAsked
  <2>3. asked = P  BY <1>6 DEF PlacesAsked
  <2>4. d = Pass(v, "E" \in fl, a)  BY <1>1, <1>2, <1>6 DEF Decimal
  <2>5. CASE "E" \in fl
    <3>0. ("E" \in fl) = TRUE  BY <2>5
    <3>1. d = Pass(v, TRUE, a)  BY ONLY <2>4, <3>0, Zenon
    <3>2. HasDigits(d, v, P, X) /\ d.estyle = TRUE /\ d.exponent = X
      BY ONLY <1>4, <2>2, <3>1, ~d.overflow, X = Exponent(v, P), a \in Int, v \in Finite, Usual(v),
             StyleDigits, ZenonT(30)
    <3>3. S  BY <2>5
    <3> QED  BY <1>4, <1>5, <2>3, <3>2, <3>3 DEF Digital
  <2>6. CASE "E" \notin fl
    <3>0. ("E" \in fl) = FALSE  BY <2>6
    <3>1. d = Pass(v, FALSE, a)  BY ONLY <2>4, <3>0, Zenon
    <3>2. HasDigits(d, v, P, 0) /\ d.estyle = FALSE  BY <1>4, <2>2, <3>1, PlainMeans
    <3>3. ~S  BY <1>6, <2>6
    <3> QED  BY <1>4, <1>5, <2>3, <3>2, <3>3 DEF Digital
  <2> QED  BY <2>5, <2>6
<1>7. CASE "G" \in fl
  <2>0. "E" \notin fl /\ ("G" \in fl) = TRUE  BY <1>7
  <2>1. PICK c \in Int : c = a - 1  OBVIOUS
  <2>2. PICK f : f = Pass(v, TRUE, c)  OBVIOUS
  <2>3. d = Again(v, f)  BY <1>1, <1>2, <1>7, <2>1, <2>2 DEF Decimal
  <2>4. P = Smaller(c, MaxDigits)
    <3>1. PICK b \in Int : b = IF p = -1 THEN 6 ELSE p  OBVIOUS
    <3>2. q = IF p = 0 THEN 1 ELSE p  BY <1>7
    <3>3. Larger(b, 1) - 1 = c
      BY ONLY <1>2, <2>1, <3>1, <3>2, a \in Int, b \in Int, p \in Int, q \in Int, p >= -1 DEF Larger
    <3>4. P = FloatAsked(p, TRUE)  BY ONLY <2>0, P = FloatAsked(p, "G" \in fl), Zenon
    <3> QED  BY <3>1, <3>3, <3>4 DEF FloatAsked
  <2>5. ~f.overflow
    <3>1. SUFFICES ASSUME f.overflow PROVE FALSE  OBVIOUS
    <3>2. Again(v, f) = f  BY ONLY <3>1 DEF Again
    <3> QED  BY ONLY <2>3, <3>1, <3>2, ~d.overflow, Zenon
  <2>6. HasDigits(f, v, P, X) /\ f.estyle = TRUE /\ f.exponent = X
    BY ONLY <1>4, <2>2, <2>4, <2>5, X = Exponent(v, P), c \in Int, v \in Finite, Usual(v), StyleDigits,
           ZenonT(30)
  <2>7. f.precision = P  BY <2>6 DEF HasDigits
  <2>8. CASE P + 1 > X /\ X >= -4
    <3>1. ~S  BY <1>4, <1>5, <2>0, <2>8
    <3>2. asked = P - X  BY <1>7, <3>1 DEF PlacesAsked
    <3>3. PICK r \in Nat : r = P - X  BY <1>4, <1>5, <2>8
    <3>4. d = Pass(v, FALSE, r)  BY <2>3, <2>5, <2>6, <2>7, <2>8, <3>3 DEF Again
    <3>5. r = Smaller(r, MaxDigits)
      <4>1. r <= M  BY <1>3, <3>2, <3>3
      <4> QED  BY ONLY <1>3, <4>1, r \in Nat, M \in Nat DEF Smaller
    <3>6. HasDigits(d, v, r, 0) /\ d.estyle = FALSE
      <4>1. r \in Int  OBVIOUS
      <4> QED  BY ONLY <3>4, <3>5, <4>1, ~d.overflow, r \in Nat, v \in Finite, PlainMeans
    <3> QED  BY <1>5, <3>1, <3>2, <3>3, <3>6 DEF Digital
  <2>9. CASE ~(P + 1 > X /\ X >= -4)
    <3>1. X < -4 \/ X > P  BY ONLY <1>4, <1>5, <2>9
    <3>2. S  BY <2>0, <3>1
    <3>3. asked = P  BY <3>2 DEF PlacesAsked
    <3>4. d = f  BY <2>3, <2>6, <2>7, <2>9 DEF Again
    <3> QED  BY <1>4, <1>5, <2>6, <3>2, <3>3, <3>4 DEF Digital
  <2> QED  BY <2>8, <2>9
<1> QED  BY <1>6, <1>7

-----------------------------------------------------------------------------
(* How the digits of a decimal are read, after those that come before.     *)
Decimals10 == DigitSet(10, FALSE)

LEMMA Ten == 10 \in Bases /\ 10 \in Nat  BY DEF Bases

LEMMA DecimalDigit ==
  ASSUME NEW c
  PROVE  /\ ISDIGIT(c) <=> c \in Decimals10
         /\ c \in Decimals10 => /\ c \notin PassedOver /\ DigitValue(c) \in 0..9
                                /\ DigitValue(c) = 0 <=> c = "0"
<1>1. DOMAIN Num = 1..10 /\ \A i \in 1..10 : Num[i] = Lower[i]
  <2>1. DOMAIN Num = 1..10  BY DEF Num
  <2>2. \A i \in 1..10 : i \in {1,2,3,4,5,6,7,8,9,10}  OBVIOUS
  <2>3. /\ Num[1] = "0" /\ Num[2] = "1" /\ Num[3] = "2" /\ Num[4] = "3" /\ Num[5] = "4"
        /\ Num[6] = "5" /\ Num[7] = "6" /\ Num[8] = "7" /\ Num[9] = "8" /\ Num[10] = "9"
    BY DEF Num
  <2> QED  BY <2>1, <2>2, <2>3, Hexadecimal
<1>2. Decimals10 = {Lower[i] : i \in 1..10}  BY DEF Decimals10, DigitSet, DigitsFor
<1>3. ISDIGIT(c) <=> c \in Decimals10  BY <1>1, <1>2 DEF ISDIGIT
<1>4. ASSUME c \in Decimals10
      PROVE  c \notin PassedOver /\ DigitValue(c) \in 0..9 /\ (DigitValue(c) = 0 <=> c = "0")
  <2>1. PICK i \in 1..10 : c = Lower[i]  BY <1>2, <1>4
  <2>2. i \in 1..16 /\ 1 \in 1..16 /\ DigitsFor(FALSE) = Lower  BY DEF DigitsFor
  <2>3. DigitValue(c) = i - 1 /\ c \notin PassedOver  BY <2>1, <2>2, DigitRead
  <2>4. c = "0" <=> i = 1  BY <2>1, <2>2, DigitsDiffer, Hexadecimal
  <2> QED  BY <2>3, <2>4
<1> QED  BY <1>3, <1>4

LEMMA ReadWeighted ==
  ASSUME NEW s, IsSeq(s), NEW n \in Nat, n = Len(s), Chars(s) \subseteq Decimals10, NEW x \in Nat
  PROVE  /\ ReadAfter(0, s, 10) \in Nat
         /\ ReadAfter(x, s, 10) = x * Power(10, n) + ReadAfter(0, s, 10)
<1>1. PICK f : ReadBy(x, s, 10, n, f) /\ ReadAfter(x, s, 10) = f[n]  BY ReadFunction
<1>2. PICK g : ReadBy(0, s, 10, n, g) /\ ReadAfter(0, s, 10) = g[n]  BY ReadFunction
<1> DEFINE T == {i \in Nat : i <= n => g[i] \in Nat /\ f[i] = x * Power(10, i) + g[i]}
<1>3. 0 \in T
  <2>1. f[0] = x /\ g[0] = 0  BY <1>1, <1>2 DEF ReadBy
  <2>2. x * 1 + 0 = x  OBVIOUS
  <2> QED  BY <2>1, <2>2, PowerZero
<1>4. ASSUME NEW i \in Nat, i \in T PROVE i + 1 \in T
  <2>1. SUFFICES ASSUME i + 1 <= n
                 PROVE  g[i + 1] \in Nat /\ f[i + 1] = x * Power(10, i + 1) + g[i + 1]
    OBVIOUS
  <2>2. i + 1 \in 1..n /\ (i + 1) - 1 = i /\ i <= n  BY <2>1
  <2>3. PICK c : c = s[i + 1]  OBVIOUS
  <2>4. c \in Decimals10  BY <2>2, <2>3 DEF Chars
  <2>5. PICK z \in Nat : z = DigitValue(c)  BY <2>4, DecimalDigit
  <2>6. c \notin PassedOver  BY <2>4, DecimalDigit
  <2>7. f[i + 1] = f[i] * 10 + z /\ g[i + 1] = g[i] * 10 + z
    BY <1>1, <1>2, <2>2, <2>3, <2>5, <2>6 DEF ReadBy, Taken
  <2>8. PICK P \in Nat : P = Power(10, i) /\ Power(10, i + 1) = 10 * P  BY TenPositive, PowerNext
  <2>9. PICK y \in Nat : y = g[i] /\ f[i] = x * P + y  BY <1>4, <2>2, <2>8
  <2>10. (x * P + y) * 10 + z = x * (10 * P) + (y * 10 + z)
    BY ONLY x \in Nat, P \in Nat, y \in Nat, z \in Nat
  <2>11. y * 10 + z \in Nat  OBVIOUS
  <2> QED  BY <2>7, <2>8, <2>9, <2>10, <2>11
<1> HIDE DEF T
<1>5. Nat \subseteq T  BY <1>3, <1>4, Induction
<1>6. n \in T /\ n <= n  BY <1>5
<1> QED  BY <1>1, <1>2, <1>6 DEF T

\* The digits past the point, k of them: a number of a decimal that has places.
IsFraction(s, k, places, f, omit) ==
  /\ IsSeq(s) /\ k \in Nat /\ Len(s) = k /\ k <= places /\ Chars(s) \subseteq Decimals10
  /\ \A x \in Nat : /\ ReadAfter(x, s, 10) \in Nat
                    /\ ReadAfter(x, s, 10) * Power(10, places - k) = x * Power(10, places) + f
                    /\ omit /\ k > 0 => ReadAfter(x, s, 10) % 10 # 0
  /\ ~omit => k = places

\* The digits of f, in as many places.
FillsPlaces(s, places, f) ==
  IsSeq(s) /\ Len(s) = places /\ Chars(s) \subseteq Decimals10 /\ ReadAfter(0, s, 10) = f
LEMMA FractionFilled ==
  ASSUME NEW f \in Nat, NEW places \in Nat, f < Power(10, places),
         NEW digits, f = 0 => digits = <<>>, f # 0 => digits = convert(f, 10, FALSE),
         NEW all, all = Repeat("0", places - Len(digits)) \o digits
  PROVE  FillsPlaces(all, places, f)
<1>1. PICK n \in Nat : /\ n = Len(digits) /\ n <= places /\ IsSeq(digits)
                       /\ Chars(digits) \subseteq Decimals10 /\ ReadAfter(0, digits, 10) = f
  <2>1. CASE f = 0
    <3>1. digits = <<>>  BY <2>1
    <3> QED  BY <2>1, <3>1, EmptyIsSeq, TupleChars, ReadEmpty
  <2>2. CASE f # 0
    <3>1. digits = convert(f, 10, FALSE)  BY <2>2
    <3>2. PICK n \in Nat : n = NumDigits(f, 10) /\ n >= 1 /\ f >= Power(10, n - 1)
      BY <2>2, DigitsMean
    <3>3. n = Len(digits)  BY <3>1, <3>2 DEF NumDigits
    <3>4. n <= places
      <4>1. PICK i \in Nat : i = n - 1 /\ n = i + 1  BY <3>2
      <4>2. PICK a \in Nat, b \in Nat : a = Power(10, i) /\ b = Power(10, places)  BY TenPositive
      <4>3. a < b  BY <3>2, <4>1, <4>2
      <4>4. i < places  BY <4>2, <4>3, PowerLess
      <4> QED  BY <4>1, <4>4
    <3>5. IsSeq(digits)  BY <3>1, Ten, DigitsIsSeq
    <3>6. Chars(digits) \subseteq Decimals10  BY <3>1, Ten, DigitsChars DEF Decimals10
    <3>7. ReadAfter(0, digits, 10) = f  BY <3>1, Ten, DigitsReadBack
    <3> QED  BY <3>3, <3>4, <3>5, <3>6, <3>7
  <2> QED  BY <2>1, <2>2
<1>2. PICK z \in Nat : z = places - Len(digits) /\ z + n = places
  <2>1. places - n \in Nat /\ (places - n) + n = places  BY ONLY <1>1, n \in Nat, places \in Nat
  <2> QED  BY <1>1, <2>1
<1>3. PICK zeros : zeros = Repeat("0", z) /\ IsSeq(zeros) /\ Len(zeros) = z
                   /\ Chars(zeros) \subseteq {"0"}
  BY Repeated
<1>4. all = zeros \o digits  BY <1>2, <1>3
<1>5. IsSeq(all) /\ Len(all) = z + n
  <2>1. IsSeq(zeros) /\ IsSeq(digits) /\ Len(zeros) = z /\ Len(digits) = n  BY ONLY <1>1, <1>3
  <2>2. IsSeq(zeros \o digits) /\ Len(zeros \o digits) = Len(zeros) + Len(digits)
    BY ONLY <2>1, Concats
  <2> QED  BY ONLY <1>4, <2>1, <2>2
<1>6. Chars(all) \subseteq Decimals10
  <2>1. Chars(all) = Chars(zeros) \cup Chars(digits)  BY <1>1, <1>3, <1>4, ConcatChars
  <2>2. "0" \in Decimals10  BY Ten, DigitsApart DEF Decimals10
  <2> QED  BY <1>1, <1>3, <2>1, <2>2
<1>7. ReadAfter(0, all, 10) = f
  <2>1. ReadAfter(0, zeros, 10) = 0  BY <1>3, Ten, ReadSilent
  <2>2. ReadAfter(0, zeros \o digits, 10) = ReadAfter(ReadAfter(0, zeros, 10), digits, 10)
    BY <1>1, <1>3, ReadConcat
  <2> QED  BY <1>1, <1>4, <2>1, <2>2
<1> QED  BY <1>2, <1>5, <1>6, <1>7 DEF FillsPlaces

\* s is a, its first k of n elements, and b.
Split(s, n, k, a, b) ==
  /\ s = a \o b /\ IsSeq(a) /\ IsSeq(b) /\ Len(a) = k /\ Len(b) = n - k
  /\ \A i \in 1..k : a[i] = s[i]
  /\ \A i \in 1..(n - k) : b[i] = s[k + i]

LEMMA SubSeqChars ==
  ASSUME NEW s, IsSeq(s), NEW n \in Nat, n = Len(s), NEW k \in Nat, k <= n,
         NEW a, a = SubSeq(s, 1, k), NEW b, b = SubSeq(s, k + 1, n)
  PROVE  Split(s, n, k, a, b)
<1>1. PICK A : s \in Seq(A)  BY DEF IsSeq
<1>2. a \in Seq(A) /\ Len(a) = k /\ \A i \in 1..k : a[i] = s[i]
  <2>1. \A i \in 1..k : s[i] \in A /\ 1 + i - 1 = i  BY <1>1
  <2>2. k - 1 + 1 = k /\ 1 \in Int /\ k \in Int /\ (~(1 <= k) => k = 0)  OBVIOUS
  <2>3. /\ a \in Seq(A) /\ Len(a) = IF 1 <= k THEN k - 1 + 1 ELSE 0
        /\ \A i \in 1..(k - 1 + 1) : a[i] = s[1 + i - 1]
    <3>1. \A i \in 1..k : s[i] \in A  BY ONLY <2>1
    <3> QED  BY ONLY <2>2, <3>1, a = SubSeq(s, 1, k), SubSeqProperties
  <2> QED  BY ONLY <2>1, <2>2, <2>3
<1>3. PICK j \in Nat : j = n - k
  <2>1. n - k \in Nat  BY ONLY n \in Nat, k \in Nat, k <= n
  <2> QED  BY ONLY <2>1
<1>4. b \in Seq(A) /\ Len(b) = j /\ \A i \in 1..j : b[i] = s[k + i]
  <2>1. \A i \in (k + 1)..n : s[i] \in A  BY <1>1
  <2>2. PICK m \in Int : m = k + 1 /\ n - m + 1 = j /\ (~(m <= n) => j = 0)  BY <1>3
  <2>3. \A i \in 1..j : m + i - 1 = k + i  BY <2>2
  <2>4. n \in Int  OBVIOUS
  <2>5. /\ b \in Seq(A) /\ Len(b) = IF m <= n THEN n - m + 1 ELSE 0
        /\ \A i \in 1..(n - m + 1) : b[i] = s[m + i - 1]
    <3>1. \A i \in m..n : s[i] \in A  BY ONLY <2>1, <2>2
    <3>2. b = SubSeq(s, m, n)  BY ONLY <2>2, b = SubSeq(s, k + 1, n)
    <3> QED  BY ONLY <2>4, <3>1, <3>2, m \in Int, SubSeqProperties
  <2> QED  BY ONLY <2>2, <2>3, <2>5, j \in Nat
<1>5. IsSeq(a) /\ IsSeq(b)  BY <1>2, <1>4 DEF IsSeq
<1>6. a \o b \in Seq(A) /\ Len(a \o b) = n
  <2>1. k + j = n  BY <1>3
  <2>2. a \in Seq(A) /\ b \in Seq(A) /\ Len(a) = k /\ Len(b) = j  BY ONLY <1>2, <1>4
  <2>3. a \o b \in Seq(A)  BY ONLY <2>2
  <2>4. Len(a \o b) = Len(a) + Len(b)  BY ONLY <2>2
  <2> QED  BY ONLY <2>1, <2>2, <2>3, <2>4
<1>7. \A i \in 1..n : (a \o b)[i] = s[i]
  <2> SUFFICES ASSUME NEW i \in 1..n PROVE (a \o b)[i] = s[i]  OBVIOUS
  <2>3. /\ \A l \in 1..Len(a) : (a \o b)[l] = a[l]
        /\ \A l \in 1..Len(b) : (a \o b)[Len(a) + l] = b[l]
    BY ONLY <1>5, Concats
  <2>4. /\ \A l \in 1..k : (a \o b)[l] = a[l]
        /\ \A l \in 1..j : (a \o b)[k + l] = b[l]
    BY ONLY <2>3, <1>2, <1>4
  <2>1. CASE i <= k
    <3>1. i \in 1..k  BY <2>1
    <3> QED  BY <1>2, <2>4, <3>1
  <2>2. CASE i > k
    <3>1. PICK l \in 1..j : i = k + l
      <4>1. i - k \in 1..j /\ i = k + (i - k)  BY <1>3, <2>2
      <4> QED  BY <4>1
    <3> QED  BY <1>4, <2>4, <3>1
  <2>5. i <= k \/ i > k  BY ONLY i \in 1..n, n \in Nat, k \in Nat
  <2> QED  BY ONLY <2>1, <2>2, <2>5
<1>8. s = a \o b  BY <1>1, <1>6, <1>7, SeqEqual
<1> QED  BY ONLY <1>2, <1>3, <1>4, <1>5, <1>8 DEF Split

\* The zeros at the end that %g leaves out.
LEMMA FractionTrimmed ==
  ASSUME NEW f \in Nat, NEW n \in Nat, NEW all, IsSeq(all), Len(all) = n, Chars(all) \subseteq Decimals10,
         ReadAfter(0, all, 10) = f, NEW k \in Nat, k <= n,
         \A i \in (k + 1)..n : all[i] = "0", k > 0 => all[k] # "0",
         NEW s, s = SubSeq(all, 1, k)
  PROVE  IsFraction(s, k, n, f, TRUE)
<1>1. PICK r : r = SubSeq(all, k + 1, n)  OBVIOUS
<1>7. Split(all, n, k, s, r)
  BY ONLY <1>1, IsSeq(all), Len(all) = n, n \in Nat, k \in Nat, k <= n, s = SubSeq(all, 1, k),
          SubSeqChars
<1>2. /\ all = s \o r /\ IsSeq(s) /\ IsSeq(r) /\ Len(s) = k /\ Len(r) = n - k
      /\ \A i \in 1..k : s[i] = all[i]
      /\ \A i \in 1..(n - k) : r[i] = all[k + i]
  BY ONLY <1>7 DEF Split
<1>3. Chars(s) \subseteq Decimals10
  <2>1. \A i \in 1..k : i \in 1..n  OBVIOUS
  <2> QED  BY <1>2, <2>1 DEF Chars
<1>4. PICK j \in Nat : j = n - k  OBVIOUS
<1>5. Chars(r) \subseteq {"0"}
  <2>1. \A i \in 1..j : k + i \in (k + 1)..n  BY <1>4
  <2>2. \A i \in 1..j : r[i] = "0"  BY <1>2, <1>4, <2>1
  <2>3. Len(r) = j  BY <1>2, <1>4
  <2> QED  BY <2>2, <2>3 DEF Chars
<1>6. ASSUME NEW x \in Nat
      PROVE  /\ ReadAfter(x, s, 10) \in Nat
             /\ ReadAfter(x, s, 10) * Power(10, n - k) = x * Power(10, n) + f
             /\ k > 0 => ReadAfter(x, s, 10) % 10 # 0
  <2>1. PICK y \in Nat : y = ReadAfter(x, s, 10)
    <3>1. PICK z \in Nat : z = ReadAfter(0, s, 10)  BY <1>2, <1>3, ReadWeighted
    <3>2. ReadAfter(x, s, 10) = x * Power(10, k) + z  BY <1>2, <1>3, <3>1, ReadWeighted
    <3>3. PICK P \in Nat : P = Power(10, k)  BY TenPositive
    <3>4. x * P + z \in Nat  BY ONLY x \in Nat, P \in Nat, z \in Nat
    <3> QED  BY <3>2, <3>3, <3>4
  <2>2. y * Power(10, j) = x * Power(10, n) + f
    <3>1. ReadAfter(x, all, 10) = x * Power(10, n) + f  BY ReadWeighted
    <3>8. ReadAfter(x, s \o r, 10) = ReadAfter(ReadAfter(x, s, 10), r, 10)
      BY ONLY <1>2, ReadConcat
    <3>2. ReadAfter(x, s \o r, 10) = ReadAfter(y, r, 10)  BY ONLY <2>1, <3>8
    <3>3. Chars(r) \subseteq Decimals10
      <4>1. "0" \in Decimals10  BY Ten, DigitsApart DEF Decimals10
      <4> QED  BY <1>5, <4>1
    <3>4. ReadAfter(y, r, 10) = y * Power(10, j) + ReadAfter(0, r, 10)
      <4>1. Len(r) = j  BY <1>2, <1>4
      <4> QED  BY ONLY <1>2, <4>1, <3>3, j \in Nat, y \in Nat, ReadWeighted
    <3>5. ReadAfter(0, r, 10) = 0
      <4>1. Chars(r) \subseteq PassedOver \cup {"0"}  BY <1>5
      <4> QED  BY ONLY <1>2, <4>1, Ten, ReadSilent
    <3>6. PICK P \in Nat : P = Power(10, j)  BY TenPositive
    <3>7. y * P + 0 = y * P  OBVIOUS
    <3> QED  BY <1>2, <3>1, <3>2, <3>4, <3>5, <3>6, <3>7
  <2>3. k > 0 => y % 10 # 0
    <3>1. SUFFICES ASSUME k > 0 PROVE y % 10 # 0  OBVIOUS
    <3>2. PICK i \in Nat : i = k - 1 /\ k = i + 1  BY <3>1
    <3>3. PICK t : t = SubSeq(s, 1, i)  OBVIOUS
    <3>4. IsSeq(t) /\ Len(t) = i /\ \A l \in 1..i : t[l] = s[l]
      <4>1. i <= k  BY <3>2
      <4>2. PICK u : u = SubSeq(s, i + 1, k)  OBVIOUS
      <4>3. Split(s, k, i, t, u)  BY ONLY <1>2, <3>3, <4>1, <4>2, k \in Nat, i \in Nat, SubSeqChars
      <4> QED  BY ONLY <4>3 DEF Split
    <3>5. ReadAfter(x, s, 10) = Taken(ReadAfter(x, t, 10), s[i + 1], 10)
      <4>1. Alike(t, s, i)  BY ONLY <3>4 DEF Alike
      <4>2. Len(s) = i + 1  BY ONLY <1>2, <3>2
      <4> QED  BY ONLY <3>4, <4>1, <4>2, i \in Nat, ReadNext
    <3>6. Chars(t) \subseteq Decimals10
      <4>1. \A l \in 1..i : l \in 1..k  BY ONLY <3>2, i \in Nat, k \in Nat
      <4>2. Len(s) = k  BY ONLY <1>2
      <4>3. \A l \in 1..i : t[l] \in Chars(s)  BY ONLY <3>4, <4>1, <4>2 DEF Chars
      <4>4. Len(t) = i  BY ONLY <3>4
      <4> QED  BY ONLY <1>3, <4>3, <4>4 DEF Chars
    <3>7. PICK z \in Nat : z = ReadAfter(x, t, 10)
      <4>1. PICK u \in Nat : u = ReadAfter(0, t, 10)  BY <3>4, <3>6, ReadWeighted
      <4>2. ReadAfter(x, t, 10) = x * Power(10, i) + u  BY <3>4, <3>6, <4>1, ReadWeighted
      <4>3. PICK P \in Nat : P = Power(10, i)  BY TenPositive
      <4>4. x * P + u \in Nat  BY ONLY x \in Nat, P \in Nat, u \in Nat
      <4> QED  BY <4>2, <4>3, <4>4
    <3>8. PICK c : c = s[i + 1] /\ c \in Decimals10 /\ c # "0"
      <4>1. i + 1 \in 1..k /\ i + 1 = k  BY <3>1, <3>2
      <4> QED  BY <1>2, <1>3, <3>1, <4>1 DEF Chars
    <3>9. PICK v \in 1..9 : v = DigitValue(c)
      <4>1. DigitValue(c) \in 0..9 /\ DigitValue(c) # 0  BY <3>8, DecimalDigit
      <4> QED  BY <4>1
    <3>10. y = z * 10 + v
      <4>1. c \notin PassedOver  BY <3>8, DecimalDigit
      <4> QED  BY <2>1, <3>5, <3>7, <3>8, <3>9, <4>1 DEF Taken
    <3> QED  BY ONLY <3>10, z \in Nat, v \in 1..9
  <2> QED  BY <1>4, <2>1, <2>2, <2>3
<1> QED  BY <1>2, <1>3, <1>6 DEF IsFraction

LEMMA FractionSays ==
  ASSUME NEW d, NEW omit, NEW places \in Nat, d.precision = places, NEW f \in Nat, f = d.frac,
         f < Power(10, places), NEW s, s = FractionDigits(d, omit)
  PROVE  \E k \in Nat : IsFraction(s, k, places, f, omit)
<1>0. PICK digits : digits = IF f = 0 THEN <<>> ELSE convert(f, 10, FALSE)  OBVIOUS
<1>10. (f = 0 => digits = <<>>) /\ (f # 0 => digits = convert(f, 10, FALSE))  BY <1>0
<1>1. PICK all : all = Repeat("0", places - Len(digits)) \o digits  OBVIOUS
<1>11. FillsPlaces(all, places, f)
  BY ONLY <1>10, <1>1, f \in Nat, places \in Nat, f < Power(10, places), FractionFilled
<1>2. /\ IsSeq(all) /\ Len(all) = places /\ Chars(all) \subseteq Decimals10
      /\ ReadAfter(0, all, 10) = f
  BY ONLY <1>11 DEF FillsPlaces
<1> DEFINE kept == {n \in DOMAIN all : all[n] # "0"}
<1>3. s = IF ~omit THEN all
          ELSE SubSeq(all, 1, IF kept = {} THEN 0 ELSE CHOOSE n \in kept : \A k \in kept : k <= n)
  <2> DEFINE Written == IF d.frac = 0 THEN <<>> ELSE convert(d.frac, 10, FALSE)
             Every   == Repeat("0", d.precision - Len(Written)) \o Written
             Rest(t) == {n \in DOMAIN t : t[n] # "0"}
             Trim(t) == IF ~omit THEN t
                        ELSE SubSeq(t, 1, IF Rest(t) = {} THEN 0
                                          ELSE CHOOSE n \in Rest(t) : \A k \in Rest(t) : k <= n)
  <2>1. s = Trim(Every)  BY ONLY s = FractionDigits(d, omit) DEF FractionDigits
  <2>2. Written = digits  BY ONLY <1>0, f = d.frac
  <2> HIDE DEF Written
  <2>3. Every = all  BY ONLY <1>1, <2>2, d.precision = places
  <2> HIDE DEF Every
  <2> QED  BY ONLY <2>1, <2>3
<1>4. DOMAIN all = 1..places  BY <1>2, Seqs
<1>5. CASE ~omit
  <2>1. s = all  BY <1>3, <1>5
  <2>2. ASSUME NEW x \in Nat
        PROVE  ReadAfter(x, s, 10) \in Nat
               /\ ReadAfter(x, s, 10) * Power(10, places - places) = x * Power(10, places) + f
    <3>1. PICK P \in Nat : P = Power(10, places)  BY TenPositive
    <3>2. ReadAfter(x, s, 10) = x * Power(10, places) + f  BY <1>2, <2>1, ReadWeighted
    <3>3. PICK y \in Nat : y = ReadAfter(x, s, 10)
      <4>1. x * P + f \in Nat  BY ONLY x \in Nat, P \in Nat, f \in Nat
      <4> QED  BY <3>1, <3>2, <4>1
    <3>4. places - places = 0 /\ Power(10, 0) = 1  BY PowerZero
    <3>5. y * 1 = y  OBVIOUS
    <3> QED  BY <3>2, <3>3, <3>4, <3>5
  <2>3. places <= places  OBVIOUS
  <2> QED  BY ONLY <1>2, <1>5, <2>1, <2>2, <2>3, places \in Nat DEF IsFraction
<1>6. CASE omit
  <2>1. \E k \in Nat : /\ k <= places /\ s = SubSeq(all, 1, k)
                       /\ \A i \in (k + 1)..places : all[i] = "0"
                       /\ k > 0 => all[k] # "0"
    <3>1. CASE kept = {}
      <4>1. s = SubSeq(all, 1, 0)  BY <1>3, <1>6, <3>1
      <4>2. \A i \in (0 + 1)..places : all[i] = "0"  BY <1>4, <3>1
      <4> QED  BY <4>1, <4>2
    <3>2. CASE kept # {}
      <4> DEFINE T == {places - n : n \in kept}
      <4>1. PICK m \in T : \A n \in T : m <= n
        <5>1. T \subseteq Nat /\ T # {}  BY <1>4, <3>2
        <5> HIDE DEF T
        <5> QED  BY <5>1, Least
      <4>2. \E n \in kept : \A k \in kept : k <= n
        <5>1. PICK n \in kept : m = places - n  OBVIOUS
        <5>2. \A k \in kept : k \in Nat /\ places - n <= places - k  BY <1>4, <4>1, <5>1
        <5> QED  BY <1>4, <5>1, <5>2
      <4>3. PICK end : end = CHOOSE n \in kept : \A k \in kept : k <= n  OBVIOUS
      <4>4. end \in kept /\ \A k \in kept : k <= end  BY <4>2, <4>3
      <4>5. end \in Nat /\ end <= places /\ all[end] # "0"  BY <1>4, <4>4
      <4>6. s = SubSeq(all, 1, end)  BY <1>3, <1>6, <3>2, <4>3
      <4>7. \A i \in (end + 1)..places : all[i] = "0"
        <5> SUFFICES ASSUME NEW i \in (end + 1)..places, all[i] # "0" PROVE FALSE  OBVIOUS
        <5>1. i \in kept  BY <1>4, <4>5
        <5>2. i <= end  BY <4>4, <5>1
        <5> QED  BY <4>5, <5>2
      <4> QED  BY <4>5, <4>6, <4>7
    <3> QED  BY <3>1, <3>2
  <2>2. PICK k \in Nat : /\ k <= places /\ s = SubSeq(all, 1, k)
                         /\ \A i \in (k + 1)..places : all[i] = "0"
                         /\ k > 0 => all[k] # "0"
    BY <2>1
  <2>3. IsFraction(s, k, places, f, TRUE)
    BY ONLY <1>2, <2>2, f \in Nat, places \in Nat, k \in Nat, FractionTrimmed
  <2>4. IsFraction(s, k, places, f, omit)  BY ONLY <1>6, <2>3 DEF IsFraction
  <2> QED  BY <2>4
<1> QED  BY <1>5, <1>6

-----------------------------------------------------------------------------
(* The parts of a field: what comes before the point, the point, the digits *)
(* behind it, the exponent, and blanks.                                     *)
LEMMA Regrouped ==
  ASSUME NEW a, IsSeq(a), NEW b, IsSeq(b), NEW c, IsSeq(c)
  PROVE  a \o (b \o c) = (a \o b) \o c
<1>1. PICK A, B, C : a \in Seq(A) /\ b \in Seq(B) /\ c \in Seq(C)  BY DEF IsSeq
<1>2. PICK S : S = A \cup B \cup C  OBVIOUS
<1>3. a \in Seq(S) /\ b \in Seq(S) /\ c \in Seq(S)
  <2>1. A \subseteq S /\ B \subseteq S /\ C \subseteq S  BY <1>2
  <2> QED  BY <1>1, <2>1
<1>4. (a \o b) \o c = a \o (b \o c)  BY ONLY <1>3, ConcatAssociative
<1> QED  BY ONLY <1>4

LEMMA WholeSays ==
  ASSUME NEW i \in Nat, NEW fl, NEW whole,
         whole = IF "'" \in fl THEN Grouped(convert(i, 10, FALSE)) ELSE convert(i, 10, FALSE)
  PROVE  IsNumeral(whole, 10, FALSE, i)
<1>1. PICK digits, n : digits = convert(i, 10, FALSE) /\ n = Len(digits)  OBVIOUS
<1>2. /\ IsSeq(digits) /\ ReadAfter(0, digits, 10) = i /\ Chars(digits) \subseteq DigitSet(10, FALSE)
      /\ n \in Nat
  BY <1>1, Ten, DigitsIsSeq, DigitsReadBack, DigitsChars
<1>3. n >= 1  BY <1>1, <1>2, Ten, DigitsFewest
<1>4. IsGrouped(Grouped(digits), digits, n)  BY ONLY <1>1, <1>2, <1>3, GroupedReads
<1>5. IsNumeral(digits, 10, FALSE, i)  BY ONLY <1>2 DEF IsNumeral
<1>6. IsNumeral(Grouped(digits), 10, FALSE, i)
  BY ONLY <1>2, <1>4 DEF IsNumeral, IsGrouped
<1> QED  BY <1>1, <1>5, <1>6

\* What comes before the point: padding, the sign and the digits of i.
IsFront(s, i, negative) ==
  /\ IsSeq(s) /\ Chars(s) \subseteq {" ", "+", "-", ","} \cup Decimals10
  /\ "-" \in Chars(s) <=> negative
  /\ ReadAfter(0, s, 10) = i

LEMMA FrontSays ==
  ASSUME NEW i \in Nat, NEW whole, IsNumeral(whole, 10, FALSE, i),
         NEW a, IsSeq(a), Chars(a) \subseteq {" ", "+", "-", "0"}
  PROVE  IsFront(a \o whole, i, "-" \in Chars(a))
<1>1. IsSeq(whole) /\ ReadAfter(0, whole, 10) = i /\ Chars(whole) \subseteq Decimals10 \cup {","}
  BY DEF IsNumeral, Decimals10
<1>2. Decimals10 \cap PassedOver = {} /\ "0" \in Decimals10  BY Ten, DigitsApart DEF Decimals10
<1>3. {" ", "+", "-", ","} \subseteq PassedOver  BY DEF PassedOver
<1>4. PICK s : s = a \o whole  OBVIOUS
<1>5. IsSeq(s) /\ Chars(s) = Chars(a) \cup Chars(whole)
  BY ONLY <1>1, <1>4, IsSeq(a), Concats, ConcatChars
<1>6. Chars(a) \subseteq PassedOver \cup {"0"}  BY <1>3
<1>7. ReadAfter(0, a, 10) = 0  BY ONLY <1>6, IsSeq(a), Ten, ReadSilent
<1>8. ReadAfter(0, a \o whole, 10) = ReadAfter(ReadAfter(0, a, 10), whole, 10)
  BY ONLY <1>1, IsSeq(a), ReadConcat
<1>9. ReadAfter(0, s, 10) = i  BY ONLY <1>1, <1>4, <1>7, <1>8
<1>10. Chars(s) \subseteq {" ", "+", "-", ","} \cup Decimals10  BY <1>1, <1>2, <1>5
<1>11. "-" \notin Chars(whole)  BY <1>1, <1>2, <1>3
<1>12. "-" \in Chars(s) <=> "-" \in Chars(a)  BY <1>5, <1>11
<1> QED  BY ONLY <1>4, <1>5, <1>9, <1>10, <1>12 DEF IsFront

\* The point of a number with k digits behind it.
IsPoint(pt, k) == pt = <<".">> \/ (pt = <<>> /\ k = 0)

\* Up to where s has a point at its end and nowhere else.
PointedOnce(s, n, k) ==
  /\ IsSeq(s) /\ Len(s) = n /\ n \in Nat
  /\ \A l \in 1..n : s[l] = "." => l = n
  /\ k > 0 => n >= 1 /\ s[n] = "."

IsStart(s, i, negative, k) ==
  /\ \E n \in Nat : PointedOnce(s, n, k)
  /\ Chars(s) \subseteq {" ", "+", "-", ",", "."} \cup Decimals10
  /\ "-" \in Chars(s) <=> negative
  /\ ReadAfter(0, s, 10) = i

LEMMA FrontPointed ==
  ASSUME NEW front, NEW i, NEW negative, IsFront(front, i, negative), NEW k \in Nat,
         NEW pt, IsPoint(pt, k), NEW s, s = front \o pt
  PROVE  IsStart(s, i, negative, k)
<1>1. /\ IsSeq(front) /\ Chars(front) \subseteq {" ", "+", "-", ","} \cup Decimals10
      /\ ("-" \in Chars(front) <=> negative) /\ ReadAfter(0, front, 10) = i
  BY DEF IsFront
<1>2. Decimals10 \cap PassedOver = {}  BY Ten, DigitsApart DEF Decimals10
<1>3. {" ", "+", "-", ",", "."} \subseteq PassedOver  BY DEF PassedOver
<1>4. PICK n \in Nat : n = Len(front)  BY <1>1, Seqs
<1>5. \A l \in 1..n : front[l] # "."
  <2>1. "." \notin Chars(front)  BY <1>1, <1>2, <1>3
  <2> QED  BY <1>4, <2>1 DEF Chars
<1>6. CASE pt = <<>> /\ k = 0
  <2>1. s = front  BY <1>1, <1>6, NothingAdded
  <2>3. ~(k > 0)  BY ONLY <1>6
  <2>4. \A l \in 1..n : s[l] = "." => l = n  BY ONLY <1>5, <2>1
  <2>5. IsSeq(s) /\ Len(s) = n  BY ONLY <1>1, <1>4, <2>1
  <2>2. PointedOnce(s, n, k)  BY ONLY <2>3, <2>4, <2>5, n \in Nat DEF PointedOnce
  <2>6. Chars(s) \subseteq {" ", "+", "-", ",", "."} \cup Decimals10  BY <1>1, <2>1
  <2> QED  BY ONLY <1>1, <2>1, <2>2, <2>6, n \in Nat DEF IsStart
<1>7. CASE pt = <<".">>
  <2>1. IsSeq(pt) /\ Len(pt) = 1 /\ pt[1] = "." /\ Chars(pt) = {"."}
    BY <1>7, Tuples, TupleChars
  <2>2. IsJoined(s, front, n, pt, 1)
    <3>1. 1 = Len(pt)  BY <2>1
    <3> QED  BY ONLY <1>1, <1>4, <2>1, <3>1, s = front \o pt, Joined, Zenon
  <2>3. PointedOnce(s, n + 1, k)
    <3>1. IsSeq(s) /\ Len(s) = n + 1 /\ \A l \in 1..n : s[l] = front[l]
      BY ONLY <2>2 DEF IsJoined
    <3>2. s[n + 1] = "."
      <4>1. 1 \in 1..1 /\ \A l \in 1..1 : s[n + l] = pt[l]  BY ONLY <2>2 DEF IsJoined
      <4> QED  BY ONLY <2>1, <4>1
    <3>3. \A l \in 1..(n + 1) : l \in 1..n \/ l = n + 1  OBVIOUS
    <3>4. \A l \in 1..(n + 1) : s[l] = "." => l = n + 1  BY ONLY <1>5, <3>1, <3>3
    <3>5. n + 1 \in Nat /\ n + 1 >= 1  OBVIOUS
    <3> QED  BY ONLY <3>1, <3>2, <3>4, <3>5 DEF PointedOnce
  <2>4. Chars(s) = Chars(front) \cup {"."}  BY ONLY <2>1, <2>2 DEF IsJoined
  <2>5. n + 1 \in Nat  OBVIOUS
  <2>6. ReadAfter(0, s, 10) = i
    <3>1. Chars(pt) \subseteq PassedOver  BY <1>3, <2>1
    <3>2. ReadAfter(i, pt, 10) = i  BY ONLY <2>1, <3>1, ReadPassed
    <3>4. IsSeq(front) /\ IsSeq(pt)  BY ONLY <1>1, <2>1
    <3>3. ReadAfter(0, front \o pt, 10) = ReadAfter(ReadAfter(0, front, 10), pt, 10)
      BY ONLY <3>4, ReadConcat
    <3> QED  BY ONLY <1>1, <3>2, <3>3, s = front \o pt
  <2>7. "-" \in Chars(s) <=> negative  BY <1>1, <2>4
  <2>8. Chars(s) \subseteq {" ", "+", "-", ",", "."} \cup Decimals10  BY <1>1, <2>4
  <2>9. \E a \in Nat : PointedOnce(s, a, k)  BY <2>3, <2>5
  <2> QED  BY ONLY <2>6, <2>7, <2>8, <2>9 DEF IsStart
<1> QED  BY ONLY <1>6, <1>7, IsPoint(pt, k) DEF IsPoint

\* The digits that stand behind the point.
BehindPoint(s) == {j \in DOMAIN s : ISDIGIT(s[j]) /\ \E l \in 1..(j - 1) : s[l] = "."}

\* s, k digits and blanks.
IsWritten(nm, s, n, frac, k, bl) ==
  /\ PointedOnce(s, n, k)
  /\ IsSeq(frac) /\ Len(frac) = k /\ Chars(frac) \subseteq Decimals10
  /\ IsSeq(bl) /\ Chars(bl) \subseteq {" "} /\ nm = (s \o frac) \o bl

LEMMA BehindMeans ==
  ASSUME NEW s, NEW n \in Nat, NEW k \in Nat, NEW frac, NEW bl, NEW nm,
         IsWritten(nm, s, n, frac, k, bl)
  PROVE  Cardinality(BehindPoint(nm)) = k
<1>0. /\ PointedOnce(s, n, k)
      /\ IsSeq(frac) /\ Len(frac) = k /\ Chars(frac) \subseteq Decimals10
      /\ IsSeq(bl) /\ Chars(bl) \subseteq {" "} /\ nm = (s \o frac) \o bl
  BY DEF IsWritten
<1>1. PICK q \in Nat : q = Len(bl)  BY <1>0, Seqs
<1>2. PICK t : t = s \o frac  OBVIOUS
<1>3. PICK m \in Nat : m = n + k
  <2>1. n + k \in Nat  BY ONLY n \in Nat, k \in Nat
  <2> QED  BY ONLY <2>1
<1>4. IsJoined(t, s, n, frac, k)
  BY ONLY <1>0, <1>2, Joined DEF PointedOnce
<1>5. IsSeq(t) /\ Len(t) = m  BY ONLY <1>3, <1>4 DEF IsJoined
<1>6. IsJoined(nm, t, m, bl, q)
  BY ONLY <1>0, <1>1, <1>2, <1>5, Joined
<1>7. DOMAIN nm = 1..(m + q)
  <2>1. IsSeq(nm) /\ Len(nm) = m + q  BY ONLY <1>6 DEF IsJoined
  <2> QED  BY ONLY <2>1, Seqs
<1>8. \A j \in 1..n : nm[j] = s[j]
  <2>1. \A j \in 1..n : j \in 1..m  BY ONLY <1>3, n \in Nat, k \in Nat, m \in Nat
  <2> QED  BY <1>4, <1>6, <2>1 DEF IsJoined
<1>9. \A j \in 1..k : nm[n + j] = frac[j]
  <2>1. \A j \in 1..k : n + j \in 1..m  BY ONLY <1>3, n \in Nat, k \in Nat, m \in Nat
  <2> QED  BY <1>4, <1>6, <2>1 DEF IsJoined
<1>10. \A j \in 1..q : nm[m + j] = " "
  <2>1. \A j \in 1..q : bl[j] = " "  BY <1>0, <1>1 DEF Chars
  <2> QED  BY <1>6, <2>1 DEF IsJoined
<1>11. \A j \in 1..k : ISDIGIT(frac[j])
  <2>1. \A j \in 1..k : frac[j] \in Decimals10  BY <1>0 DEF Chars
  <2> QED  BY <2>1, DecimalDigit
<1>12. ~ISDIGIT(" ")
  <2>1. " " \in PassedOver  BY DEF PassedOver
  <2> QED  BY <2>1, DecimalDigit
<1>13. /\ \A l \in 1..n : s[l] = "." => l = n
       /\ k > 0 => n >= 1 /\ s[n] = "."
  BY <1>0 DEF PointedOnce
<1>14. \A j \in (n + 1)..(n + k) : j \in BehindPoint(nm)
  <2> SUFFICES ASSUME NEW j \in (n + 1)..(n + k) PROVE j \in BehindPoint(nm)  OBVIOUS
  <2>1. j \in 1..(m + q) /\ j - n \in 1..k /\ n + (j - n) = j /\ k > 0
    BY ONLY <1>3, n \in Nat, k \in Nat, m \in Nat, q \in Nat, j \in (n + 1)..(n + k)
  <2>2. nm[j] = frac[j - n]  BY <1>9, <2>1
  <2>3. ISDIGIT(nm[j])  BY <1>11, <2>1, <2>2
  <2>6. n >= 1 /\ s[n] = "."  BY <1>13, <2>1
  <2>4. n \in 1..n /\ n \in 1..(j - 1)
    BY ONLY <2>6, n \in Nat, k \in Nat, j \in (n + 1)..(n + k)
  <2>5. nm[n] = "."  BY <1>8, <2>4, <2>6
  <2> QED  BY <1>7, <2>1, <2>3, <2>4, <2>5 DEF BehindPoint
<1>15. \A j \in BehindPoint(nm) : j \in (n + 1)..(n + k)
  <2> SUFFICES ASSUME NEW j \in BehindPoint(nm) PROVE j \in (n + 1)..(n + k)  OBVIOUS
  <2>1. j \in 1..(m + q) /\ ISDIGIT(nm[j])  BY <1>7 DEF BehindPoint
  <2>2. PICK l \in 1..(j - 1) : nm[l] = "."  BY DEF BehindPoint
  <2>3. j <= m
    <3>0. j <= m \/ j > m  BY ONLY <2>1, m \in Nat, q \in Nat
    <3>1. SUFFICES ASSUME j > m PROVE FALSE  BY <3>0
    <3>2. j - m \in 1..q /\ m + (j - m) = j  BY ONLY <2>1, <3>1, m \in Nat, q \in Nat
    <3>3. nm[j] = " "  BY <1>10, <3>2
    <3> QED  BY <1>12, <2>1, <3>3
  <2>4. j > n
    <3>0. j > n \/ j <= n  BY ONLY <2>1, m \in Nat, n \in Nat, q \in Nat
    <3>1. SUFFICES ASSUME j <= n PROVE FALSE  BY <3>0
    <3>2. l \in 1..n /\ l # n  BY ONLY <2>1, <3>1, l \in 1..(j - 1), n \in Nat, m \in Nat, q \in Nat
    <3>3. s[l] = "."  BY <1>8, <2>2, <3>2
    <3> QED  BY <1>13, <3>2, <3>3
  <2> QED  BY ONLY <1>3, <2>1, <2>3, <2>4, n \in Nat, k \in Nat, m \in Nat, q \in Nat
<1>16. BehindPoint(nm) = (n + 1)..(n + k)  BY <1>14, <1>15
<1>17. Cardinality((n + 1)..(n + k)) = k
  <2>1. PICK a \in Int, b \in Int : a = n + 1 /\ b = n + k /\ (a > b => k = 0) /\ (~(a > b) => b - a + 1 = k)
    <3>1. /\ n + 1 \in Int /\ n + k \in Int
          /\ n + 1 > n + k => k = 0
          /\ ~(n + 1 > n + k) => (n + k) - (n + 1) + 1 = k
      BY ONLY n \in Nat, k \in Nat
    <3> QED  BY ONLY <3>1
  <2>2. Cardinality(a..b) = IF a > b THEN 0 ELSE b - a + 1  BY FS_Interval
  <2> QED  BY <2>1, <2>2
<1> QED  BY <1>16, <1>17

\* What is read of a number: its sign, the digits behind its point and its value.
ReadsAs(nm, negative, k, x) ==
  /\ IsSeq(nm) /\ Chars(nm) \cap {"e", "E"} = {}
  /\ "-" \in Chars(nm) <=> negative
  /\ Cardinality(BehindPoint(nm)) = k
  /\ NumberIn(nm, 10) = x

LEMMA NoLetter ==
  ASSUME NEW c \in Decimals10
  PROVE  c \notin {"e", "E"}
<1>1. PICK j \in 1..10 : c = Lower[j]  BY DEF Decimals10, DigitSet, DigitsFor
<1>2. \/ j = 1 \/ j = 2 \/ j = 3 \/ j = 4 \/ j = 5 \/ j = 6 \/ j = 7 \/ j = 8 \/ j = 9 \/ j = 10
  BY ONLY j \in 1..10
<1> QED  BY ONLY <1>1, <1>2, Hexadecimal

LEMMA NumberReads ==
  ASSUME NEW front, NEW i \in Nat, NEW negative, IsFront(front, i, negative), NEW k \in Nat,
         NEW pt, IsPoint(pt, k), NEW frac, NEW places, NEW f, NEW omit,
         IsFraction(frac, k, places, f, omit), NEW bl, IsSeq(bl), Chars(bl) \subseteq {" "},
         NEW nm, nm = ((front \o pt) \o frac) \o bl
  PROVE  ReadsAs(nm, negative, k, ReadAfter(i, frac, 10))
<1>1. PICK s : s = front \o pt  OBVIOUS
<1>17. IsStart(s, i, negative, k)
  BY ONLY <1>1, IsFront(front, i, negative), IsPoint(pt, k), k \in Nat, FrontPointed
<1>2. /\ \E n \in Nat : PointedOnce(s, n, k)
      /\ Chars(s) \subseteq {" ", "+", "-", ",", "."} \cup Decimals10
      /\ "-" \in Chars(s) <=> negative
      /\ ReadAfter(0, s, 10) = i
  BY ONLY <1>17 DEF IsStart
<1>3. PICK n \in Nat : PointedOnce(s, n, k)  BY <1>2
<1>4. IsSeq(s)  BY <1>3 DEF PointedOnce
<1>5. IsSeq(frac) /\ Len(frac) = k /\ Chars(frac) \subseteq Decimals10  BY DEF IsFraction
<1>18. nm = (s \o frac) \o bl  BY <1>1
<1>6. Cardinality(BehindPoint(nm)) = k
  <2>1. IsWritten(nm, s, n, frac, k, bl)  BY <1>3, <1>5, <1>18 DEF IsWritten
  <2> QED  BY ONLY <2>1, n \in Nat, k \in Nat, BehindMeans
<1>7. PICK t : t = s \o frac  OBVIOUS
<1>8. IsSeq(t) /\ Chars(t) = Chars(s) \cup Chars(frac)
  BY ONLY <1>4, <1>5, <1>7, Concats, ConcatChars
<1>9. nm = t \o bl  BY <1>1, <1>7
<1>10. IsSeq(nm) /\ Chars(nm) = Chars(t) \cup Chars(bl)
  BY ONLY <1>8, <1>9, IsSeq(bl), Concats, ConcatChars
<1>11. Decimals10 \cap PassedOver = {} /\ Decimals10 \cap {"e", "E"} = {}
  <2>1. Decimals10 \cap PassedOver = {}  BY Ten, DigitsApart DEF Decimals10
  <2> QED  BY <2>1, NoLetter
<1>12. {" ", "+", "-", ",", "."} \subseteq PassedOver  BY DEF PassedOver
<1>13. Chars(nm) \subseteq {" ", "+", "-", ",", "."} \cup Decimals10
  BY <1>2, <1>5, <1>8, <1>10
<1>14. Chars(nm) \cap {"e", "E"} = {}  BY <1>11, <1>13
<1>15. "-" \in Chars(nm) <=> negative
  <2>1. "-" \notin Chars(frac) /\ "-" \notin Chars(bl)  BY <1>5, <1>11, <1>12
  <2> QED  BY <1>2, <1>8, <1>10, <2>1
<1>16. NumberIn(nm, 10) = ReadAfter(i, frac, 10)
  <2>1. ReadAfter(0, s \o frac, 10) = ReadAfter(ReadAfter(0, s, 10), frac, 10)
    BY ONLY <1>4, <1>5, ReadConcat
  <2>2. ReadAfter(0, t \o bl, 10) = ReadAfter(ReadAfter(0, t, 10), bl, 10)
    BY ONLY <1>8, IsSeq(bl), ReadConcat
  <2>3. Chars(bl) \subseteq PassedOver  BY <1>12
  <2>4. ReadAfter(ReadAfter(0, t, 10), bl, 10) = ReadAfter(0, t, 10)
    BY ONLY <2>3, IsSeq(bl), ReadPassed
  <2> QED  BY ONLY <1>2, <1>7, <1>9, <2>1, <2>2, <2>4 DEF NumberIn
<1> QED  BY ONLY <1>6, <1>10, <1>14, <1>15, <1>16 DEF ReadsAs

LEMMA NumberOfDigit ==
  ASSUME NEW j \in 1..10
  PROVE  CHARTOINT(Num[j]) = j - 1 /\ Num[j] \notin {"e", "E"}
<1>1. \A i \in 1..10 : \/ i = 1 \/ i = 2 \/ i = 3 \/ i = 4 \/ i = 5
                       \/ i = 6 \/ i = 7 \/ i = 8 \/ i = 9 \/ i = 10
  BY ONLY TRUE
<1>2. /\ Num[1] = "0" /\ Num[2] = "1" /\ Num[3] = "2" /\ Num[4] = "3" /\ Num[5] = "4"
      /\ Num[6] = "5" /\ Num[7] = "6" /\ Num[8] = "7" /\ Num[9] = "8" /\ Num[10] = "9"
  BY DEF Num
<1>3. DOMAIN Num = 1..10  BY DEF Num
<1>4. \A i \in 1..10 : Num[i] = Num[j] => i = j  BY ONLY <1>1, <1>2, j \in 1..10
<1>5. (CHOOSE i \in 1..10 : Num[i] = Num[j]) = j  BY <1>4
<1>6. Num[j] \notin {"e", "E"}  BY ONLY <1>1, <1>2, j \in 1..10
<1> QED  BY <1>3, <1>5, <1>6 DEF CHARTOINT

\* The exponent that follows the mark.
PowerAt(s, mark) ==
  (10 * CHARTOINT(s[mark + 2]) + CHARTOINT(s[mark + 3])) * (IF s[mark + 1] = "-" THEN -1 ELSE 1)
IsTail(t, x) ==
  /\ IsSeq(t) /\ Len(t) = 4 /\ t[1] \in {"e", "E"}
  /\ \A j \in 2..4 : t[j] \notin {"e", "E"}
  /\ (10 * CHARTOINT(t[3]) + CHARTOINT(t[4])) * (IF t[2] = "-" THEN -1 ELSE 1) = x

LEMMA Quadruple ==
  ASSUME NEW a, NEW b, NEW c, NEW d, NEW t, t = <<a, b, c, d>>
  PROVE  IsSeq(t) /\ Len(t) = 4 /\ t[1] = a /\ t[2] = b /\ t[3] = c /\ t[4] = d
<1>1. t \in Seq({a, b, c, d})  OBVIOUS
<1> QED  BY <1>1 DEF IsSeq

\* The exponent that is written is the one that is read.
LEMMA ExponentReads ==
  ASSUME NEW x \in Int, x \in -99..99, NEW up
  PROVE  IsTail(ExponentText(x, up), x)
<1>1. PICK n \in Nat : n = (IF x < 0 THEN -x ELSE x) /\ n < 100
  <2>1. CASE x < 0
    <3>1. -x \in Nat /\ -x < 100  BY <2>1
    <3> QED  BY <2>1, <3>1
  <2>2. CASE ~(x < 0)
    <3>1. x \in Nat /\ x < 100  BY <2>2
    <3> QED  BY <2>2, <3>1
  <2> QED  BY <2>1, <2>2
<1>2. n % 100 = n  BY <1>1
<1>3. PICK h \in 0..9, l \in 0..9 : h = n \div 10 /\ l = n % 10 /\ n = 10 * h + l
  <2>1. n \div 10 \in 0..9 /\ n % 10 \in 0..9 /\ n = 10 * (n \div 10) + (n % 10)  BY <1>1
  <2> QED  BY <2>1
<1>4. h + 1 \in 1..10 /\ l + 1 \in 1..10 /\ (h + 1) - 1 = h /\ (l + 1) - 1 = l
  BY ONLY h \in 0..9, l \in 0..9
<1>5. PICK a, b, c, d, t : /\ a = (IF up THEN "E" ELSE "e") /\ b = (IF x < 0 THEN "-" ELSE "+")
                           /\ c = Num[h + 1] /\ d = Num[l + 1] /\ t = <<a, b, c, d>>
  OBVIOUS
<1>6. t = ExponentText(x, up)  BY <1>1, <1>2, <1>3, <1>5 DEF ExponentText
<1>7. IsSeq(t) /\ Len(t) = 4 /\ t[1] = a /\ t[2] = b /\ t[3] = c /\ t[4] = d
  BY ONLY <1>5, Quadruple
<1>8. CHARTOINT(c) = h /\ CHARTOINT(d) = l /\ c \notin {"e", "E"} /\ d \notin {"e", "E"}
  BY ONLY <1>4, <1>5, NumberOfDigit
<1>9. a \in {"e", "E"} /\ b \in {"+", "-"} /\ (b = "-" <=> x < 0)
  <2>1. a = "E" \/ a = "e"  BY <1>5
  <2>2. x < 0 => b = "-"  BY <1>5
  <2>3. ~(x < 0) => b = "+"  BY <1>5
  <2> QED  BY <2>1, <2>2, <2>3
<1>10. \A j \in 2..4 : t[j] \notin {"e", "E"}
  <2>1. \A j \in 2..4 : j = 2 \/ j = 3 \/ j = 4  BY ONLY TRUE
  <2>2. b \notin {"e", "E"}  BY <1>9
  <2> QED  BY ONLY <1>7, <1>8, <2>1, <2>2
<1>11. (10 * h + l) * (IF b = "-" THEN -1 ELSE 1) = x
  <2>1. CASE x < 0
    <3>1. (IF b = "-" THEN -1 ELSE 1) = -1  BY <1>9, <2>1
    <3>2. n = -x  BY <1>1, <2>1
    <3>3. n * (-1) = x  BY ONLY <3>2, x \in Int, n \in Nat
    <3> QED  BY <1>3, <3>1, <3>3
  <2>2. CASE ~(x < 0)
    <3>1. (IF b = "-" THEN -1 ELSE 1) = 1  BY <1>9, <2>2
    <3>2. n = x  BY <1>1, <2>2
    <3>3. n * 1 = x  BY ONLY <3>2, x \in Int, n \in Nat
    <3> QED  BY <1>3, <3>1, <3>3
  <2> QED  BY <2>1, <2>2
<1>12. IsTail(t, x)  BY ONLY <1>7, <1>8, <1>9, <1>10, <1>11 DEF IsTail
<1> QED  BY <1>6, <1>12

-----------------------------------------------------------------------------
(* What the field of a floating point value says.                          *)
Marks(s) == {k \in DOMAIN s : s[k] \in {"e", "E"}}
FloatSays(out, v, styled, x, asked, omit, w) ==
  LET marks  == Marks(out)
      mark   == IF marks = {} THEN Len(out) + 1 ELSE CHOOSE k \in marks : TRUE
      number == SubSeq(out, 1, mark - 1)
      places == Cardinality(BehindPoint(number))
      read   == NumberIn(number, 10)
      power  == IF marks = {} THEN 0 ELSE PowerAt(out, mark)
      rest   == asked - places
  IN /\ Contains(number, "-") <=> (v.neg /\ v.m > 0)
     /\ marks # {} <=> styled
     /\ marks # {} => power = x
     /\ rest >= 0 /\ read * Power(10, rest) = InUnits(v, power - asked)
     /\ IF omit THEN places = 0 \/ read % 10 # 0 ELSE rest = 0
     /\ Len(out) >= w

\* The number y with k digits behind the point is u units, of those asked for.
ValueShown(k, y, asked, omit, u) ==
  /\ asked - k >= 0 /\ y * Power(10, asked - k) = u
  /\ IF omit THEN k = 0 \/ y % 10 # 0 ELSE asked - k = 0

LEMMA PlainShown ==
  ASSUME NEW out, NEW v, NEW k, NEW y, NEW negative, ReadsAs(out, negative, k, y),
         negative <=> (v.neg /\ v.m > 0), NEW asked, NEW omit,
         ValueShown(k, y, asked, omit, InUnits(v, 0 - asked)), NEW w, Len(out) >= w, NEW x,
         NEW styled, ~styled
  PROVE  FloatSays(out, v, styled, x, asked, omit, w)
<1>1. /\ IsSeq(out) /\ Chars(out) \cap {"e", "E"} = {} /\ ("-" \in Chars(out) <=> negative)
      /\ Cardinality(BehindPoint(out)) = k /\ NumberIn(out, 10) = y
  BY DEF ReadsAs
<1>2. PICK n \in Nat : n = Len(out) /\ DOMAIN out = 1..n  BY <1>1, Seqs
<1>3. Marks(out) = {}  BY <1>1, <1>2 DEF Marks, Chars
<1>4. SubSeq(out, 1, (n + 1) - 1) = out
  <2>1. PICK A : out \in Seq(A)  BY <1>1 DEF IsSeq
  <2>2. (n + 1) - 1 = n  OBVIOUS
  <2>3. SubSeq(out, 1, n) = out  BY ONLY <1>2, <2>1, n \in Nat
  <2> QED  BY <2>2, <2>3
<1>5. Contains(out, "-") <=> "-" \in Chars(out)  BY DEF Contains, Chars
<1>6. PICK number : number = SubSeq(out, 1, (Len(out) + 1) - 1)  OBVIOUS
<1>7. number = out  BY ONLY <1>2, <1>4, <1>6
<1> QED
  BY ONLY <1>1, <1>3, <1>5, <1>6, <1>7, negative <=> (v.neg /\ v.m > 0), Len(out) >= w, ~styled,
          ValueShown(k, y, asked, omit, InUnits(v, 0 - asked)), Zenon
     DEF FloatSays, ValueShown

LEMMA StyledShown ==
  ASSUME NEW nm, NEW v, NEW k, NEW y, NEW negative, ReadsAs(nm, negative, k, y),
         negative <=> (v.neg /\ v.m > 0), NEW asked, NEW omit, NEW x,
         ValueShown(k, y, asked, omit, InUnits(v, x - asked)), NEW t, IsTail(t, x),
         NEW bl, IsSeq(bl), Chars(bl) \subseteq {" "},
         NEW out, out = (nm \o t) \o bl, NEW w, Len(out) >= w, NEW styled, styled
  PROVE  FloatSays(out, v, styled, x, asked, omit, w)
<1>1. /\ IsSeq(nm) /\ Chars(nm) \cap {"e", "E"} = {} /\ ("-" \in Chars(nm) <=> negative)
      /\ Cardinality(BehindPoint(nm)) = k /\ NumberIn(nm, 10) = y
  BY DEF ReadsAs
<1>2. PICK n \in Nat : n = Len(nm) /\ DOMAIN nm = 1..n  BY <1>1, Seqs
<1>3. /\ IsSeq(t) /\ Len(t) = 4 /\ t[1] \in {"e", "E"}
      /\ \A j \in 2..4 : t[j] \notin {"e", "E"}
      /\ (10 * CHARTOINT(t[3]) + CHARTOINT(t[4])) * (IF t[2] = "-" THEN -1 ELSE 1) = x
  BY DEF IsTail
<1>4. PICK s : s = nm \o t  OBVIOUS
<1>5. IsJoined(s, nm, n, t, 4)
  <2>1. 4 = Len(t)  BY ONLY <1>3
  <2> QED  BY ONLY <1>1, <1>2, <1>3, <1>4, <2>1, Joined
<1>6. PICK q \in Nat : q = Len(bl)  BY Seqs
<1>7. PICK m \in Nat : m = n + 4 /\ n + 4 = m
  <2>1. n + 4 \in Nat  BY ONLY n \in Nat
  <2> QED  BY ONLY <2>1
<1>8. IsSeq(s) /\ Len(s) = m  BY ONLY <1>5, <1>7 DEF IsJoined
<1>9. IsJoined(out, s, m, bl, q)
  BY ONLY <1>4, <1>6, <1>8, IsSeq(bl), out = (nm \o t) \o bl, Joined
<1>10. IsSeq(out) /\ Len(out) = m + q /\ DOMAIN out = 1..(m + q)
  <2>1. IsSeq(out) /\ Len(out) = m + q  BY ONLY <1>9 DEF IsJoined
  <2> QED  BY ONLY <2>1, Seqs
<1>11. \A j \in 1..n : out[j] = nm[j]
  <2>1. \A j \in 1..n : j \in 1..m  BY ONLY <1>7, n \in Nat, m \in Nat
  <2> QED  BY ONLY <1>5, <1>9, <2>1 DEF IsJoined
<1>12. \A j \in 1..4 : out[n + j] = t[j]
  <2>1. \A j \in 1..4 : n + j \in 1..m  BY ONLY <1>7, n \in Nat, m \in Nat
  <2> QED  BY ONLY <1>5, <1>9, <2>1 DEF IsJoined
<1>13. \A j \in 1..q : out[m + j] = " "
  <2>1. \A j \in 1..q : bl[j] = " "  BY <1>6 DEF Chars
  <2> QED  BY ONLY <1>9, <2>1 DEF IsJoined
<1>14. Marks(out) = {n + 1}
  <2>1. n + 1 \in Marks(out)
    <3>1. 1 \in 1..4 /\ n + 1 \in 1..(m + q)  BY ONLY <1>7, n \in Nat, m \in Nat, q \in Nat
    <3> QED  BY ONLY <1>3, <1>10, <1>12, <3>1 DEF Marks
  <2>2. ASSUME NEW j \in Marks(out) PROVE j = n + 1
    <3>1. j \in 1..(m + q) /\ out[j] \in {"e", "E"}  BY ONLY <1>10, j \in Marks(out) DEF Marks
    <3>2. \/ j \in 1..n
          \/ j = n + 1
          \/ j - n \in 2..4 /\ j - n \in 1..4 /\ n + (j - n) = j
          \/ j - m \in 1..q /\ m + (j - m) = j
      BY ONLY <1>7, <3>1, n \in Nat, m \in Nat, q \in Nat
    <3>3. j \notin 1..n
      <4>1. \A l \in 1..n : out[l] \in Chars(nm)  BY ONLY <1>2, <1>11 DEF Chars
      <4> QED  BY <1>1, <3>1, <4>1
    <3>4. \A l \in 2..4 : l \in 1..4 => out[n + l] \notin {"e", "E"}  BY ONLY <1>3, <1>12
    <3>5. \A l \in 1..q : out[m + l] \notin {"e", "E"}
      <4>1. " " \notin {"e", "E"}  OBVIOUS
      <4> QED  BY ONLY <1>13, <4>1
    <3> QED  BY ONLY <3>1, <3>2, <3>3, <3>4, <3>5
  <2> QED  BY ONLY <2>1, <2>2
<1>15. (CHOOSE j \in Marks(out) : TRUE) = n + 1  BY ONLY <1>14
<1>16. SubSeq(out, 1, (n + 1) - 1) = nm
  <2>1. (n + 1) - 1 = n  BY ONLY n \in Nat
  <2>2. n <= m + q  BY ONLY <1>7, n \in Nat, m \in Nat, q \in Nat
  <2>3. PICK a : a = SubSeq(out, 1, n)  OBVIOUS
  <2>4. PICK b : b = SubSeq(out, n + 1, m + q)  OBVIOUS
  <2>5. PICK l \in Nat : l = m + q /\ m + q = l
    <3>1. m + q \in Nat  BY ONLY m \in Nat, q \in Nat
    <3> QED  BY ONLY <3>1
  <2>6. Split(out, l, n, a, b)
    BY ONLY <1>10, <2>2, <2>3, <2>4, <2>5, n \in Nat, l \in Nat, SubSeqChars
  <2>7. IsSeq(a) /\ Len(a) = n /\ \A i \in 1..n : a[i] = out[i]  BY ONLY <2>6 DEF Split
  <2>8. PICK A, B : a \in Seq(A) /\ nm \in Seq(B)  BY ONLY <1>1, <2>7 DEF IsSeq
  <2>9. a \in Seq(A \cup B) /\ nm \in Seq(A \cup B)  BY ONLY <2>8
  <2>10. \A i \in 1..n : a[i] = nm[i]  BY ONLY <1>11, <2>7
  <2>11. a = nm  BY ONLY <1>2, <2>7, <2>9, <2>10, SeqEqual
  <2> QED  BY ONLY <2>1, <2>3, <2>11
<1>17. PowerAt(out, n + 1) = x
  <2>1. (n + 1) + 1 = n + 2 /\ (n + 1) + 2 = n + 3 /\ (n + 1) + 3 = n + 4  BY ONLY n \in Nat
  <2>2. 2 \in 1..4 /\ 3 \in 1..4 /\ 4 \in 1..4  BY ONLY TRUE
  <2>3. out[n + 2] = t[2] /\ out[n + 3] = t[3] /\ out[n + 4] = t[4]  BY ONLY <1>12, <2>2
  <2> QED  BY ONLY <1>3, <2>1, <2>3 DEF PowerAt
<1>18. Contains(nm, "-") <=> "-" \in Chars(nm)  BY DEF Contains, Chars
<1>19. Marks(out) # {}  BY ONLY <1>14
<1> QED
  BY ONLY <1>1, <1>15, <1>16, <1>17, <1>18, <1>19, negative <=> (v.neg /\ v.m > 0), Len(out) >= w,
          styled, ValueShown(k, y, asked, omit, InUnits(v, x - asked)), Zenon
     DEF FloatSays, ValueShown

\* The sign and the body, and the padding before, between or behind them.
IsArranged(out, a, body, bl, sign, n) ==
  /\ IsSeq(a) /\ IsSeq(bl) /\ out = (a \o body) \o bl
  /\ Chars(a) \subseteq Chars(sign) \cup {" ", "0"} /\ Chars(sign) \subseteq Chars(a)
  /\ Chars(bl) \subseteq {" "} /\ Len(out) = n

LEMMA Arranged ==
  ASSUME NEW sign, IsSeq(sign), NEW body, IsSeq(body), NEW pads \in Nat, NEW zeropad, NEW left,
         NEW out, zeropad => out = (sign \o Repeat("0", pads)) \o body,
         ~zeropad => out = Padded(sign \o body, pads, left),
         NEW n, n = Len(sign) + pads + Len(body)
  PROVE  \E a, bl : IsArranged(out, a, body, bl, sign, n)
<1>1. PICK s \in Nat, b \in Nat : s = Len(sign) /\ b = Len(body)
  <2>1. Len(sign) \in Nat /\ Len(body) \in Nat  BY Seqs
  <2> QED  BY <2>1
<1>2. PICK blanks : blanks = Repeat(" ", pads)  OBVIOUS
<1>3. IsSeq(blanks) /\ Len(blanks) = pads /\ Chars(blanks) \subseteq {" "}
  BY ONLY <1>2, pads \in Nat, Repeated
<1>4. PICK zeros : zeros = Repeat("0", pads)  OBVIOUS
<1>5. IsSeq(zeros) /\ Len(zeros) = pads /\ Chars(zeros) \subseteq {"0"}
  BY ONLY <1>4, pads \in Nat, Repeated
<1>6. IsSeq(<<>>) /\ Chars(<<>>) = {}  BY EmptyIsSeq, TupleChars
<1>7. PICK u : u = sign \o body  OBVIOUS
<1>8. IsSeq(u) /\ Len(u) = s + b
  BY ONLY <1>1, <1>7, IsSeq(sign), IsSeq(body), Concats
<1>9. CASE zeropad
  <2>1. PICK a : a = sign \o zeros  OBVIOUS
  <2>2. IsSeq(a) /\ Len(a) = s + pads /\ Chars(a) = Chars(sign) \cup Chars(zeros)
    BY ONLY <1>1, <1>5, <2>1, IsSeq(sign), Concats, ConcatChars
  <2>3. out = a \o body  BY <1>4, <1>9, <2>1
  <2>4. IsSeq(out) /\ Len(out) = (s + pads) + b
    BY ONLY <1>1, <2>2, <2>3, IsSeq(body), Concats
  <2>5. out = (a \o body) \o <<>>  BY ONLY <2>3, <2>4, NothingAdded
  <2>6. Len(out) = n  BY ONLY <1>1, <2>4, n = Len(sign) + pads + Len(body)
  <2>7. IsArranged(out, a, body, <<>>, sign, n)
    BY ONLY <1>5, <1>6, <2>2, <2>5, <2>6 DEF IsArranged
  <2> QED  BY ONLY <2>7
<1>10. CASE ~zeropad /\ left
  <2>1. out = u \o blanks  BY <1>2, <1>7, <1>10 DEF Padded
  <2>2. IsSeq(out) /\ Len(out) = (s + b) + pads  BY ONLY <1>3, <1>8, <2>1, Concats
  <2>3. Len(out) = n
    BY ONLY <1>1, <2>2, n = Len(sign) + pads + Len(body), s \in Nat, b \in Nat, pads \in Nat
  <2>4. IsArranged(out, sign, body, blanks, sign, n)
    BY ONLY <1>3, <1>7, <2>1, <2>3, IsSeq(sign) DEF IsArranged
  <2> QED  BY ONLY <2>4
<1>11. CASE ~zeropad /\ ~left
  <2>1. out = blanks \o u  BY <1>2, <1>7, <1>11 DEF Padded
  <2>2. PICK a : a = blanks \o sign  OBVIOUS
  <2>3. IsSeq(a) /\ Chars(a) = Chars(blanks) \cup Chars(sign)
    BY ONLY <1>3, <2>2, IsSeq(sign), Concats, ConcatChars
  <2>9. blanks \o (sign \o body) = (blanks \o sign) \o body
    <3>1. IsSeq(blanks)  BY ONLY <1>3
    <3> QED  BY ONLY <3>1, IsSeq(sign), IsSeq(body), Regrouped
  <2>4. out = a \o body  BY ONLY <1>7, <2>1, <2>2, <2>9
  <2>5. IsSeq(out) /\ Len(out) = pads + (s + b)  BY ONLY <1>3, <1>8, <2>1, Concats
  <2>6. out = (a \o body) \o <<>>  BY ONLY <2>4, <2>5, NothingAdded
  <2>7. Len(out) = n
    BY ONLY <1>1, <2>5, n = Len(sign) + pads + Len(body), s \in Nat, b \in Nat, pads \in Nat
  <2>8. IsArranged(out, a, body, <<>>, sign, n)
    BY ONLY <1>3, <1>6, <2>3, <2>6, <2>7 DEF IsArranged
  <2> QED  BY ONLY <2>8
<1> QED  BY ONLY <1>9, <1>10, <1>11

\* The sign of a field is a minus exactly for a negative value.
LEMMA FloatSignSays ==
  ASSUME NEW v \in Finite, NEW fl, NEW sign, sign = FloatSign(v, fl)
  PROVE  /\ IsSeq(sign) /\ Chars(sign) \subseteq {"+", "-", " "}
         /\ "-" \in Chars(sign) <=> (v.neg /\ v.m > 0)
<1>1. v.kind = "finite"  BY DEF Finite
<1>2. \/ sign = <<>> /\ ~(v.neg /\ v.m > 0)
      \/ sign = <<"-">> /\ (v.neg /\ v.m > 0)
      \/ sign = <<"+">> /\ ~(v.neg /\ v.m > 0)
      \/ sign = <<" ">> /\ ~(v.neg /\ v.m > 0)
  BY <1>1 DEF FloatSign
<1>3. ASSUME sign = <<>> PROVE IsSeq(sign) /\ Chars(sign) = {}
  BY ONLY <1>3, EmptyIsSeq, TupleChars
<1>4. ASSUME NEW c, sign = <<c>> PROVE IsSeq(sign) /\ Chars(sign) = {c}
  BY ONLY <1>4, Tuples, TupleChars
<1>5. PICK negative \in BOOLEAN : negative <=> (v.neg /\ v.m > 0)  OBVIOUS
<1>6. CASE sign = <<>> /\ ~negative
  <2>1. IsSeq(sign) /\ Chars(sign) = {}  BY <1>3, <1>6
  <2> QED  BY ONLY <1>5, <1>6, <2>1
<1>7. ASSUME NEW c \in {"+", "-", " "}, sign = <<c>>, c = "-" <=> negative
      PROVE  /\ IsSeq(sign) /\ Chars(sign) \subseteq {"+", "-", " "}
             /\ "-" \in Chars(sign) <=> (v.neg /\ v.m > 0)
  <2>1. IsSeq(sign) /\ Chars(sign) = {c}  BY ONLY <1>4, <1>7
  <2> QED  BY ONLY <1>5, <1>7, <2>1, c \in {"+", "-", " "}
<1>8. \/ sign = <<>> /\ ~negative
      \/ sign = <<"-">> /\ negative
      \/ sign = <<"+">> /\ ~negative
      \/ sign = <<" ">> /\ ~negative
  BY ONLY <1>2, <1>5
<1> QED  BY <1>6, <1>7, <1>8

\* A body that begins with a whole number, put behind what a has.
AreSeqs(a, whole, pt, frac, t) ==
  IsSeq(a) /\ IsSeq(whole) /\ IsSeq(pt) /\ IsSeq(frac) /\ IsSeq(t)
LEMMA BodyRegrouped ==
  ASSUME NEW a, NEW whole, NEW pt, NEW frac, NEW t, AreSeqs(a, whole, pt, frac, t), NEW body, body = ((whole \o pt) \o frac) \o t,
         NEW front, front = a \o whole
  PROVE  a \o body = ((front \o pt) \o frac) \o t
<1>0. IsSeq(a) /\ IsSeq(whole) /\ IsSeq(pt) /\ IsSeq(frac) /\ IsSeq(t)  BY DEF AreSeqs
<1>1. PICK b : b = whole \o pt  OBVIOUS
<1>2. PICK c : c = b \o frac  OBVIOUS
<1>3. IsSeq(b)  BY ONLY <1>0, <1>1, Concats
<1>4. IsSeq(c)  BY ONLY <1>0, <1>2, <1>3, Concats
<1>5. a \o (c \o t) = (a \o c) \o t
  <2>1. IsSeq(a) /\ IsSeq(c) /\ IsSeq(t)  BY ONLY <1>0, <1>4
  <2> QED  BY ONLY <2>1, Regrouped
<1>6. a \o (b \o frac) = (a \o b) \o frac
  <2>1. IsSeq(a) /\ IsSeq(b) /\ IsSeq(frac)  BY ONLY <1>0, <1>3
  <2> QED  BY ONLY <2>1, Regrouped
<1>7. a \o (whole \o pt) = (a \o whole) \o pt
  <2>1. IsSeq(a) /\ IsSeq(whole) /\ IsSeq(pt)  BY ONLY <1>0
  <2> QED  BY ONLY <2>1, Regrouped
<1>8. body = c \o t  BY ONLY <1>1, <1>2, body = ((whole \o pt) \o frac) \o t
<1>9. a \o body = ((a \o b) \o frac) \o t  BY ONLY <1>2, <1>5, <1>6, <1>8
<1>10. a \o b = front \o pt  BY ONLY <1>1, <1>7, front = a \o whole
<1> QED  BY ONLY <1>9, <1>10

\* A field with the right digits says the value that was passed.
LEMMA FloatField ==
  ASSUME NEW v \in Finite, NEW d, NEW styled, NEW x, NEW asked, Digital(d, v, styled, x, asked),
         styled => x \in -99..99, NEW w \in Int, NEW fl,
         NEW omit, omit <=> ("G" \in fl /\ "#" \notin fl), NEW out, out = fmtflt(v, d, w, fl)
  PROVE  FloatSays(out, v, styled, x, asked, omit, w)
<1>1. /\ asked \in Nat /\ x \in Int /\ HasDigits(d, v, asked, IF styled THEN x ELSE 0)
      /\ (d.estyle = TRUE <=> styled) /\ (styled => d.exponent = x)
  BY DEF Digital
<1>2. PICK e : (styled => e = x) /\ (~styled => e = 0) /\ HasDigits(d, v, asked, e)
  <2>1. styled => (IF styled THEN x ELSE 0) = x  OBVIOUS
  <2>2. ~styled => (IF styled THEN x ELSE 0) = 0  OBVIOUS
  <2> QED  BY ONLY <1>1, <2>1, <2>2
<1>3. PICK i \in Nat, f \in Nat : /\ i = d.int /\ f = d.frac /\ d.precision = asked /\ f < Power(10, asked)
                                  /\ i * Power(10, asked) + f = InUnits(v, e - asked)
  BY <1>2 DEF HasDigits
<1>4. PICK om : om = ("G" \in fl /\ "#" \notin fl)  OBVIOUS
<1>5. om <=> omit  BY <1>4
<1>6. PICK sign : sign = FloatSign(v, fl)  OBVIOUS
<1>7. /\ IsSeq(sign) /\ Chars(sign) \subseteq {"+", "-", " "}
      /\ "-" \in Chars(sign) <=> (v.neg /\ v.m > 0)
  BY ONLY <1>6, v \in Finite, FloatSignSays
<1>8. PICK whole : whole = IF "'" \in fl THEN Grouped(convert(i, 10, FALSE)) ELSE convert(i, 10, FALSE)
  OBVIOUS
<1>9. IsNumeral(whole, 10, FALSE, i)  BY ONLY <1>8, i \in Nat, WholeSays
<1>10. PICK frac : frac = FractionDigits(d, om)  OBVIOUS
<1>11. PICK k \in Nat : IsFraction(frac, k, asked, f, om)
  BY ONLY <1>1, <1>3, <1>10, f \in Nat, FractionSays
<1>12. PICK pt : pt = IF frac # <<>> \/ "#" \in fl THEN <<".">> ELSE <<>>  OBVIOUS
<1>13. IsPoint(pt, k) /\ IsSeq(pt)
  <2>1. pt = <<".">> \/ (pt = <<>> /\ frac = <<>>)  BY <1>12
  <2>2. Len(frac) = k  BY <1>11 DEF IsFraction
  <2> QED  BY <2>1, <2>2, EmptyIsSeq, Tuples DEF IsPoint
<1>14. PICK up : up = ("UP" \in fl)  OBVIOUS
<1>15. PICK t : t = IF d.estyle THEN ExponentText(d.exponent, up) ELSE <<>>  OBVIOUS
<1>16. (styled => IsTail(t, x)) /\ (~styled => t = <<>>) /\ IsSeq(t)
  <2>1. CASE styled
    <3>1. t = ExponentText(x, up)  BY <1>1, <1>15, <2>1
    <3>2. IsTail(t, x)  BY <1>1, <2>1, <3>1, ExponentReads
    <3> QED  BY ONLY <2>1, <3>2 DEF IsTail
  <2>2. CASE ~styled
    <3>1. t = <<>>  BY <1>1, <1>15, <2>2
    <3> QED  BY ONLY <2>2, <3>1, EmptyIsSeq
  <2> QED  BY ONLY <2>1, <2>2
<1>17. IsSeq(whole) /\ IsSeq(frac)  BY <1>9, <1>11 DEF IsNumeral, IsFraction
<1>18. PICK body : body = ((whole \o pt) \o frac) \o t  OBVIOUS
<1>19. IsSeq(body)
  <2>1. PICK b : b = whole \o pt  OBVIOUS
  <2>2. IsSeq(b)  BY ONLY <1>13, <1>17, <2>1, Concats
  <2>3. PICK c : c = b \o frac  OBVIOUS
  <2>4. IsSeq(c)  BY ONLY <1>17, <2>2, <2>3, Concats
  <2>5. body = c \o t  BY ONLY <1>18, <2>1, <2>3
  <2> QED  BY ONLY <1>16, <2>4, <2>5, Concats
<1>20. PICK s \in Nat, b \in Nat : s = Len(sign) /\ b = Len(body)
  <2>1. Len(sign) \in Nat /\ Len(body) \in Nat  BY ONLY <1>7, <1>19, Seqs
  <2> QED  BY ONLY <2>1
<1>21. PICK pads \in Nat : pads = Larger(w - s - b, 0) /\ s + pads + b >= w
  <2>1. w - s - b \in Int  BY ONLY w \in Int, s \in Nat, b \in Nat
  <2>2. PICK z \in Int : z = w - s - b  BY ONLY <2>1
  <2>3. Larger(z, 0) \in Nat /\ Larger(z, 0) >= z  BY ONLY z \in Int DEF Larger
  <2>4. PICK y \in Nat : y = Larger(z, 0) /\ y >= z  BY ONLY <2>3
  <2>5. s + y + b >= w  BY ONLY <2>2, <2>4, w \in Int, s \in Nat, b \in Nat, y \in Nat, z \in Int
  <2> QED  BY ONLY <2>2, <2>4, <2>5
<1>22. PICK zeropad : zeropad = ("0" \in fl /\ "-" \notin fl)  OBVIOUS
<1>23. PICK left : left = ("-" \in fl)  OBVIOUS
<1>24. out = IF zeropad THEN (sign \o Repeat("0", pads)) \o body ELSE Padded(sign \o body, pads, left)
  <2> DEFINE Sign  == FloatSign(v, fl)
             Ints  == convert(d.int, 10, FALSE)
             Frac  == FractionDigits(d, "G" \in fl /\ "#" \notin fl)
             Whole == IF "'" \in fl THEN Grouped(Ints) ELSE Ints
             Point == IF Frac # <<>> \/ "#" \in fl THEN <<".">> ELSE <<>>
             Expo  == IF d.estyle THEN ExponentText(d.exponent, "UP" \in fl) ELSE <<>>
             Text  == Whole \o Point \o Frac \o Expo
             Pads  == Larger(w - Len(Sign) - Len(Text), 0)
             Zeros == "0" \in fl /\ "-" \notin fl
  <2>1. v.kind = "finite"  BY DEF Finite
  <2>2. fmtflt(v, d, w, fl) =
          IF v.kind # "finite"
          THEN fmtstr(Sign \o InfNan(v, "UP" \in fl), w, Len(Sign) + 3, fl)
          ELSE IF Zeros THEN Sign \o Repeat("0", Pads) \o Text
          ELSE Padded(Sign \o Text, Pads, "-" \in fl)
    BY DEF fmtflt
  <2>3. Sign = sign  BY <1>6
  <2>4. Frac = frac  BY <1>4, <1>10
  <2>5. Whole = whole  BY <1>3, <1>8
  <2> HIDE DEF Frac
  <2>6. Point = pt  BY <1>12, <2>4
  <2>7. Expo = t  BY <1>14, <1>15
  <2> HIDE DEF Whole, Point, Expo
  <2>8. Text = body  BY ONLY <1>18, <2>4, <2>5, <2>6, <2>7
  <2> HIDE DEF Sign, Text
  <2>9. Pads = pads  BY ONLY <1>20, <1>21, <2>3, <2>8
  <2> HIDE DEF Pads
  <2>10. out = IF Zeros THEN Sign \o Repeat("0", Pads) \o Text
               ELSE Padded(Sign \o Text, Pads, "-" \in fl)
    BY <2>1, <2>2
  <2> QED  BY ONLY <1>22, <1>23, <2>3, <2>8, <2>9, <2>10
<1>25. (zeropad => out = (sign \o Repeat("0", pads)) \o body)
         /\ (~zeropad => out = Padded(sign \o body, pads, left))
  BY ONLY <1>24
<1>26. PICK n \in Nat : n = Len(sign) + pads + Len(body) /\ n >= w
  <2>1. s + pads + b \in Nat  BY ONLY s \in Nat, b \in Nat, pads \in Nat
  <2> QED  BY ONLY <1>20, <1>21, <2>1
<1>27. \E a, bl : IsArranged(out, a, body, bl, sign, n)
  BY ONLY <1>7, <1>19, <1>25, <1>26, pads \in Nat, Arranged
<1>28. PICK a, bl : IsArranged(out, a, body, bl, sign, n)  BY <1>27
<1>29. /\ IsSeq(a) /\ IsSeq(bl) /\ out = (a \o body) \o bl
       /\ Chars(a) \subseteq Chars(sign) \cup {" ", "0"} /\ Chars(sign) \subseteq Chars(a)
       /\ Chars(bl) \subseteq {" "} /\ Len(out) >= w
  BY ONLY <1>26, <1>28 DEF IsArranged
<1>30. PICK negative : negative = ("-" \in Chars(a))  OBVIOUS
<1>31. negative <=> (v.neg /\ v.m > 0)  BY ONLY <1>7, <1>29, <1>30
<1>32. PICK front : front = a \o whole  OBVIOUS
<1>33. IsFront(front, i, negative)
  <2>1. Chars(a) \subseteq {" ", "+", "-", "0"}  BY ONLY <1>7, <1>29
  <2>2. IsFront(a \o whole, i, "-" \in Chars(a))  BY ONLY <1>9, <1>29, <2>1, i \in Nat, FrontSays
  <2> QED  BY ONLY <1>30, <1>32, <2>2
<1>34. PICK y : y = ReadAfter(i, frac, 10)  OBVIOUS
<1>35. ValueShown(k, y, asked, omit, InUnits(v, e - asked))
  <2>1. /\ k <= asked /\ y * Power(10, asked - k) = i * Power(10, asked) + f
        /\ om /\ k > 0 => y % 10 # 0
        /\ ~om => k = asked
    BY ONLY <1>11, <1>34, i \in Nat DEF IsFraction
  <2>2. asked - k >= 0 /\ (k = asked => asked - k = 0) /\ (k > 0 \/ k = 0)
    BY ONLY <1>1, <2>1, k \in Nat
  <2> QED  BY ONLY <1>3, <1>5, <2>1, <2>2 DEF ValueShown
<1>36. a \o body = ((front \o pt) \o frac) \o t
  <2>1. AreSeqs(a, whole, pt, frac, t)  BY ONLY <1>13, <1>16, <1>17, <1>29 DEF AreSeqs
  <2> QED  BY ONLY <1>18, <1>32, <2>1, BodyRegrouped
<1>37. ASSUME NEW rest, IsSeq(rest), Chars(rest) \subseteq {" "}
       PROVE  ReadsAs(((front \o pt) \o frac) \o rest, negative, k, y)
  BY ONLY <1>11, <1>13, <1>33, <1>34, <1>37, i \in Nat, k \in Nat, NumberReads
<1>38. PICK h : h = (front \o pt) \o frac /\ IsSeq(h)
  <2>1. IsSeq(front)  BY ONLY <1>33 DEF IsFront
  <2>2. PICK g : g = front \o pt  OBVIOUS
  <2>3. IsSeq(g)  BY ONLY <1>13, <2>1, <2>2, Concats
  <2>4. IsSeq(g \o frac)  BY ONLY <1>17, <2>3, Concats
  <2> QED  BY ONLY <2>2, <2>4
<1>39. h \o <<>> = h  BY ONLY <1>38, NothingAdded
<1>40. CASE ~styled
  <2>1. out = h \o bl  BY ONLY <1>16, <1>29, <1>36, <1>38, <1>39, <1>40
  <2>2. ReadsAs(out, negative, k, y)  BY ONLY <1>29, <1>37, <1>38, <2>1
  <2>3. ValueShown(k, y, asked, omit, InUnits(v, 0 - asked))  BY ONLY <1>2, <1>35, <1>40
  <2> QED  BY ONLY <1>29, <1>31, <1>40, <2>2, <2>3, PlainShown
<1>41. CASE styled
  <2>1. out = (h \o t) \o bl  BY ONLY <1>29, <1>36, <1>38
  <2>2. ReadsAs(h, negative, k, y)
    <3>1. IsSeq(<<>>) /\ Chars(<<>>) \subseteq {" "}  BY EmptyIsSeq, TupleChars
    <3>2. ReadsAs(h \o <<>>, negative, k, y)  BY ONLY <1>37, <1>38, <3>1
    <3> QED  BY ONLY <1>39, <3>2
  <2>3. ValueShown(k, y, asked, omit, InUnits(v, x - asked))  BY ONLY <1>2, <1>35, <1>41
  <2>4. IsTail(t, x)  BY ONLY <1>16, <1>41
  <2> QED  BY ONLY <1>29, <1>31, <1>41, <2>1, <2>2, <2>3, <2>4, StyledShown
<1> QED  BY ONLY <1>40, <1>41

\* Rounding takes the exponent of a usual value at most one further.
LEMMA ReferenceUsual ==
  ASSUME NEW v \in Finite, Usual(v), NEW p
  PROVE  Exponent(v, p) \in -99..99
<1>1. PICK m \in Nat, e \in Int : m = v.m /\ e = v.e  BY DEF Finite
<1>2. CASE m = 0  BY <1>1, <1>2 DEF Exponent
<1>3. CASE m # 0
  <2>1. PICK D \in Nat : D = NumDigits(v.m, 10)  BY <1>1, DigitsNat
  <2>2. PICK x \in Int : x = NumDigits(v.m, 10) - 1 + v.e /\ x = D - 1 + e  BY <1>1, <2>1
  <2>3. D + e \in -97..99
    <3>1. v.m > 0  BY ONLY <1>1, <1>3
    <3> QED  BY ONLY <1>1, <2>1, <3>1, Usual(v) DEF Usual
  <2>4. Exponent(v, p) \in {x, x + 1}  BY <1>1, <1>3, <2>2 DEF Exponent
  <2> QED  BY <2>2, <2>3, <2>4
<1> QED  BY <1>2, <1>3
=============================================================================
