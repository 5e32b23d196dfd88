--------------------------- MODULE PipelineProofs ---------------------------
(***************************************************************************)
(* Proofs about module Pipeline, for all sets of addresses, sizes, tags    *)
(* and callstacks, and without regard to the size of its bounds.           *)
(***************************************************************************)
EXTENDS Pipeline, SequenceTheorems, FiniteSetTheorems, WellFoundedInduction, TLAPS

Stacks == Backtraces \cup {NoBacktrace}
Hotspots == [Backtraces -> [allocs : Nat, frees : Nat, size : Int]]
Records == [ev     : {"start", "tag", "malloc", "free", "realloc"},
            ptr    : Addresses \cup {NULL},
            new    : Addresses \cup {NULL},
            size   : Nat,
            bt     : Stacks,
            tag    : Tags \cup {NoTag},
            serial : Nat]

\* What memtraq may have sent when n is the serial of its last record.
Sent(n) == {r \in Records :
              /\ r.serial \in 1 .. n
              /\ r.ev \in {"malloc", "realloc"} => r.size \in Sizes /\ r.bt \in Backtraces}

-----------------------------------------------------------------------------
(* The invariants, in parts.                                               *)

Typed ==
  /\ after \in Tags \cup {NoTag} /\ before \in Tags \cup {NoTag}
  /\ DOMAIN inuse \subseteq Addresses /\ \A a \in DOMAIN inuse : inuse[a] \in Blocks
  /\ DOMAIN chunks \subseteq Addresses \cup {NULL} /\ \A a \in DOMAIN chunks : chunks[a] \in Blocks
  /\ enabled \in BOOLEAN /\ tracking \in BOOLEAN
  /\ serial \in Nat \ {0} /\ ops \in 0 .. MaxOps /\ serial <= ops + 1
  /\ channel \in Seq(Sent(serial))
  /\ seen \subseteq 1 .. serial /\ lines \in Nat /\ lines + Len(channel) <= serial
  /\ total \in Int /\ heap_max \in Nat /\ heap_max >= total
  /\ hotspots \in Hotspots
  /\ unknown_frees \in [Stacks -> Nat]
  /\ current_serial \in Nat /\ logs_lost \in Nat

\* The serials increase, from those read to those on the way.
Rising ==
  /\ \A i, j \in 1 .. Len(channel) : i < j => channel[i].serial < channel[j].serial
  /\ \A y \in seen, i \in 1 .. Len(channel) : y < channel[i].serial

\* The records that memtraq.pl may read.
Logs == {r \in Records : r.ev \in {"malloc", "realloc"} => r.size \in Sizes /\ r.bt \in Backtraces}

\* The records read while tracking are among those read.
StoryTyped ==
  /\ story \in Seq(Logs) /\ Len(story) <= lines
  /\ \A i \in 1 .. Len(story) : story[i].serial \in seen

\* Some record between the first of S and y is not in S.
Gapped(S, y) == \E s \in 1 .. y : s \notin S /\ \E x \in S : x < s

\* The serial expected is the first one read and one more for each record
\* since; the records counted as lost are those after a gap.
Counted ==
  /\ Cardinality(seen) = lines
  /\ seen = {} <=> current_serial = 0
  /\ seen # {} => \E m \in seen : /\ \A y \in seen : m <= y
                                  /\ current_serial = m + lines - 1
  /\ logs_lost = Cardinality({y \in seen : Gapped(seen, y)})

Serials == "reordered" \notin faults => Rising /\ Counted

\* The operation that record r is about takes the blocks in use from s to t.
Makes(s, r, t) ==
  /\ r.ev \in {"start", "tag"} => t = s
  /\ r.ev = "malloc" =>
       /\ r.ptr \notin DOMAIN s
       /\ t = Put(s, r.ptr, Block(r.size, r.bt))
  /\ r.ev = "free" =>
       /\ r.ptr \in DOMAIN s
       /\ t = Delete(s, r.ptr)
  /\ r.ev = "realloc" =>
       /\ r.ptr \in DOMAIN s /\ r.new \notin DOMAIN s \ {r.ptr}
       /\ t = Put(Delete(s, r.ptr), r.new, Block(r.size, r.bt))

\* The bytes of the blocks of u at the addresses of S, and the blocks of u
\* that a callstack allocated.
Bytes(u, S) == SumOver([a \in S |-> u[a].size], S)
From(u, bt) == {a \in DOMAIN u : u[a].backtrace = bt}

\* Total t and hotspots h are those of the blocks of u.
Totals(t, h, u) ==
  /\ IsFiniteSet(DOMAIN u)
  /\ t = Bytes(u, DOMAIN u)
  /\ \A bt \in Backtraces : /\ h[bt].size = Bytes(u, From(u, bt))
                            /\ h[bt].allocs - h[bt].frees = Cardinality(From(u, bt))

\* Table c has the blocks of s.
Lists(c, s) == DOMAIN s \subseteq DOMAIN c /\ \A a \in DOMAIN s : c[a] = s[a]

\* memtraq.pl has all the blocks of a program that holds s and their totals.
Tells(s) == Lists(chunks, s) /\ Totals(total, hotspots, s)

\* The states that the program has been in: memtraq.pl is at the first, and
\* every record on the way is about the step to the next.
Behind(p) ==
  /\ Tells(p[0])
  /\ \A i \in 1 .. Len(channel) : Makes(p[i - 1], channel[i], p[i])
  /\ p[Len(channel)] = inuse

Untouched == faults = {} /\ after = NoTag

Followed ==
  Untouched =>
    /\ tracking /\ logs_lost = 0
    /\ \A bt \in Stacks : unknown_frees[bt] = 0
    /\ serial = current_serial + Len(channel)
    /\ \A i \in 1 .. Len(channel) : channel[i].serial = current_serial + i
    /\ \E p : Behind(p)

-----------------------------------------------------------------------------
(* Sequences.                                                              *)

LEMMA Removed ==
  ASSUME NEW S, NEW s \in Seq(S), NEW i \in 1 .. Len(s)
  PROVE  LET r == RemoveAt(s, i)
         IN /\ r \in Seq(S) /\ Len(s) \in Nat /\ Len(r) = Len(s) - 1
            /\ \A j \in 1 .. i - 1 : r[j] = s[j]
            /\ \A j \in i .. Len(s) - 1 : r[j] = s[j + 1]
<1> DEFINE x == SubSeq(s, 1, i - 1)
           z == SubSeq(s, i + 1, Len(s))
           r == x \o z
<1>1. Len(s) \in Nat /\ \A j \in 1 .. Len(s) : s[j] \in S  BY LenProperties
<1>2. /\ x \in Seq(S) /\ Len(x) = i - 1
      /\ \A j \in 1 .. i - 1 : x[j] = s[j]
  <2>1. \A j \in 1 .. i - 1 : s[j] \in S  BY <1>1
  <2>2. /\ x \in Seq(S) /\ Len(x) = IF 1 <= i - 1 THEN (i - 1) - 1 + 1 ELSE 0
        /\ \A j \in 1 .. (i - 1) - 1 + 1 : x[j] = s[1 + j - 1]
    BY <1>1, <2>1, SubSeqProperties
  <2> HIDE DEF x
  <2> QED  BY <1>1, <2>2
<1>3. /\ z \in Seq(S) /\ Len(z) = Len(s) - i
      /\ \A j \in 1 .. Len(s) - i : z[j] = s[i + j]
  <2>1. \A j \in i + 1 .. Len(s) : s[j] \in S  BY <1>1
  <2>2. /\ z \in Seq(S) /\ Len(z) = IF i + 1 <= Len(s) THEN Len(s) - (i + 1) + 1 ELSE 0
        /\ \A j \in 1 .. Len(s) - (i + 1) + 1 : z[j] = s[(i + 1) + j - 1]
    BY <1>1, <2>1, SubSeqProperties
  <2> HIDE DEF z
  <2> QED  BY <1>1, <2>2
<1> HIDE DEF x, z
<1>4. /\ r \in Seq(S) /\ Len(r) = Len(x) + Len(z)
      /\ \A j \in 1 .. Len(x) + Len(z) : r[j] = IF j <= Len(x) THEN x[j] ELSE z[j - Len(x)]
  BY <1>2, <1>3, ConcatProperties
<1>5. r = RemoveAt(s, i)  BY DEF RemoveAt, x, z
<1> HIDE DEF r
<1>6. Len(r) = Len(s) - 1  BY <1>1, <1>2, <1>3, <1>4
<1>7. ASSUME NEW j \in 1 .. i - 1 PROVE r[j] = s[j]
  <2>1. j \in 1 .. Len(x) + Len(z) /\ j <= Len(x)  BY <1>1, <1>2, <1>3
  <2> QED  BY <1>2, <1>4, <2>1
<1>8. ASSUME NEW j \in i .. Len(s) - 1 PROVE r[j] = s[j + 1]
  <2>1. /\ j \in 1 .. Len(x) + Len(z) /\ ~(j <= Len(x))
        /\ j - Len(x) \in 1 .. Len(s) - i /\ i + (j - Len(x)) = j + 1
    BY <1>1, <1>2, <1>3
  <2> QED  BY <1>3, <1>4, <2>1
<1> QED  BY <1>1, <1>4, <1>5, <1>6, <1>7, <1>8

LEMMA Swapped ==
  ASSUME NEW S, NEW s \in Seq(S), NEW i \in 1 .. Len(s), i < Len(s)
  PROVE  LET r == [s EXCEPT ![i] = s[i + 1], ![i + 1] = s[i]]
         IN r \in Seq(S) /\ Len(r) = Len(s)
<1>1. Len(s) \in Nat /\ i + 1 \in 1 .. Len(s)  BY LenProperties
<1>2. s[i] \in S /\ s[i + 1] \in S  BY <1>1, ElementOfSeq
<1> DEFINE r == [s EXCEPT ![i] = s[i + 1]]
<1>3. r \in Seq(S) /\ Len(r) = Len(s)  BY <1>2, ExceptSeq
<1> HIDE DEF r
<1>4. /\ [r EXCEPT ![i + 1] = s[i]] \in Seq(S)
      /\ Len([r EXCEPT ![i + 1] = s[i]]) = Len(s)
  BY <1>1, <1>2, <1>3, ExceptSeq
<1> QED  BY <1>4 DEF r

(* The record at the head and those after it.                              *)
LEMMA HeadAndTail ==
  ASSUME NEW S, NEW s \in Seq(S), s # <<>>
  PROVE  /\ Head(s) \in S /\ Head(s) = s[1]
         /\ Tail(s) \in Seq(S)
         /\ Len(s) \in Nat \ {0} /\ Len(Tail(s)) = Len(s) - 1
         /\ \A i \in 1 .. Len(s) - 1 : Tail(s)[i] = s[i + 1]
<1>1. Len(s) \in Nat \ {0}  BY EmptySeq
<1> QED  BY <1>1, HeadTailProperties

LEMMA Appended ==
  ASSUME NEW S, NEW s \in Seq(S), NEW e \in S
  PROVE  /\ Append(s, e) \in Seq(S) /\ Len(s) \in Nat
         /\ Len(Append(s, e)) = Len(s) + 1
         /\ \A i \in 1 .. Len(s) : Append(s, e)[i] = s[i]
         /\ Append(s, e)[Len(s) + 1] = e
BY AppendProperties, LenProperties

-----------------------------------------------------------------------------
(* Records.                                                                *)

LEMMA SentGrows ==
  ASSUME NEW n \in Nat
  PROVE  Sent(n) \subseteq Sent(n + 1)
BY DEF Sent

LEMMA Numbering ==
  ASSUME NEW r \in Records, NEW n \in Nat,
         r.ev \in {"malloc", "realloc"} => r.size \in Sizes /\ r.bt \in Backtraces
  PROVE  /\ [r EXCEPT !.serial = n + 1] \in Sent(n + 1)
         /\ [r EXCEPT !.serial = n + 1].serial = n + 1
         /\ \A k \in {"ev", "ptr", "new", "size", "bt", "tag"} :
              [r EXCEPT !.serial = n + 1][k] = r[k]
<1> DEFINE q == [r EXCEPT !.serial = n + 1]
<1>1. /\ q.serial = n + 1 /\ q.ev = r.ev /\ q.ptr = r.ptr /\ q.new = r.new /\ q.size = r.size
      /\ q.bt = r.bt /\ q.tag = r.tag /\ q \in Records
  BY DEF Records
<1> HIDE DEF q
<1>2. q \in Sent(n + 1)  BY <1>1 DEF Sent
<1> QED  BY <1>1, <1>2 DEF q

-----------------------------------------------------------------------------
(* Sums over finite sets, by induction: a set of subsets of a finite set   *)
(* has a smallest one, which cannot be a smallest counterexample.          *)

\* g is the function on the subsets of S by which the sum of f is defined.
First(s)      == CHOOSE x \in s : TRUE
Adds(f, S, g) == g = [s \in SUBSET S |-> IF s = {} THEN 0 ELSE f[First(s)] + g[s \ {First(s)}]]

LEMMA SumMeans ==
  ASSUME NEW f, NEW S
  PROVE  SumOver(f, S) = (CHOOSE g : Adds(f, S, g))[S]
BY DEF SumOver, MapThenSumSet, MapThenFoldSet, Adds, First

LEMMA Smallest ==
  ASSUME NEW S, IsFiniteSet(S), NEW T, T \subseteq SUBSET S, T # {}
  PROVE  \E s \in T : \A t \in T : t \subseteq s => t = s
<1>1. IsWellFoundedOn(StrictSubsetOrdering(S), SUBSET S)
  BY FS_StrictSubsetOrderingWellFounded, FS_FiniteSubsetsOfFinite
<1>2. PICK s \in T : \A t \in T : <<t, s>> \notin StrictSubsetOrdering(S)
  BY <1>1, WFMin
<1> QED  BY <1>2 DEF StrictSubsetOrdering

\* Two such functions agree where both are defined.
LEMMA AddsOnce ==
  ASSUME NEW f, NEW S, NEW g, Adds(f, S, g), IsFiniteSet(S),
         NEW e, NEW R, NEW h, Adds(e, R, h),
         NEW u \in SUBSET S, u \subseteq R, \A x \in u : f[x] = e[x]
  PROVE  g[u] = h[u]
<1> DEFINE T == {t \in SUBSET u : g[t] # h[t]}
<1>1. SUFFICES ASSUME T # {} PROVE FALSE  OBVIOUS
<1>2. IsFiniteSet(u)  BY FS_Subset
<1>3. PICK t \in T : \A v \in T : v \subseteq t => v = t
  <2>1. T \subseteq SUBSET u  OBVIOUS
  <2> HIDE DEF T
  <2> QED  BY <1>1, <1>2, <2>1, Smallest
<1> DEFINE c == First(t)
<1>4. /\ g[t] = IF t = {} THEN 0 ELSE f[c] + g[t \ {c}]
      /\ h[t] = IF t = {} THEN 0 ELSE e[c] + h[t \ {c}]
  BY DEF Adds
<1>5. t # {}  BY <1>4
<1>6. c \in t  BY <1>5 DEF First
<1> HIDE DEF c
<1>7. t \ {c} \notin T  BY <1>3, <1>6
<1>8. g[t \ {c}] = h[t \ {c}]  BY <1>7
<1> QED  BY <1>4, <1>5, <1>6, <1>8

LEMMA AddsExists ==
  ASSUME NEW f, NEW S, IsFiniteSet(S)
  PROVE  \E g : Adds(f, S, g)
<1> DEFINE T == {s \in SUBSET S : ~ \E g : Adds(f, s, g)}
<1>1. SUFFICES ASSUME T # {} PROVE FALSE  OBVIOUS
<1>2. PICK s \in T : \A v \in T : v \subseteq s => v = s
  <2>1. T \subseteq SUBSET S  OBVIOUS
  <2> HIDE DEF T
  <2> QED  BY <1>1, <2>1, Smallest
<1> DEFINE A(t) == CHOOSE g : Adds(f, t, g)
           g == [t \in SUBSET s |-> IF t = {} THEN 0
                                    ELSE f[First(t)] + A(t \ {First(t)})[t \ {First(t)}]]
<1>3. ASSUME NEW t \in SUBSET s, t # s PROVE Adds(f, t, A(t)) /\ IsFiniteSet(t)
  <2>1. t \in SUBSET S /\ t \notin T /\ IsFiniteSet(t)  BY <1>2, <1>3, FS_Subset
  <2>2. \E h : Adds(f, t, h)  BY <2>1
  <2> QED  BY <2>1, <2>2
<1>4. ASSUME NEW t \in SUBSET s, t # {} PROVE First(t) \in t  BY <1>4 DEF First
<1>5. ASSUME NEW t \in SUBSET s, t # s PROVE g[t] = A(t)[t]
  <2>1. A(t)[t] = IF t = {} THEN 0 ELSE f[First(t)] + A(t)[t \ {First(t)}]
    <3> HIDE DEF A
    <3> QED  BY <1>3, <1>5 DEF Adds
  <2>2. CASE t # {}
    <3> DEFINE v == t \ {First(t)}
    <3>1. v \in SUBSET s /\ v # s /\ v \subseteq t  BY <1>5
    <3>2. Adds(f, t, A(t)) /\ IsFiniteSet(t) /\ Adds(f, v, A(v))  BY <1>3, <1>5, <3>1
    <3> HIDE DEF A, v
    <3>3. A(t)[v] = A(v)[v]  BY <3>1, <3>2, AddsOnce
    <3> QED  BY <2>1, <2>2, <3>3 DEF v
  <2> QED  BY <2>1, <2>2
<1>6. ASSUME NEW t \in SUBSET s, t # {} PROVE g[t] = f[First(t)] + g[t \ {First(t)}]
  <2>1. t \ {First(t)} \in SUBSET s /\ t \ {First(t)} # s  BY <1>4, <1>6
  <2> HIDE DEF A
  <2> QED  BY <1>5, <1>6, <2>1
<1>7. Adds(f, s, g)
  <2>1. g[{}] = 0 /\ {} \in SUBSET s  OBVIOUS
  <2>2. g = [t \in SUBSET s |-> g[t]]  OBVIOUS
  <2>3. DOMAIN g = SUBSET s  OBVIOUS
  <2> HIDE DEF g
  <2>4. \A t \in SUBSET s : g[t] = IF t = {} THEN 0 ELSE f[First(t)] + g[t \ {First(t)}]
    BY <1>6, <2>1
  <2> QED  BY <2>2, <2>3, <2>4 DEF Adds
<1> QED  BY <1>2, <1>7

\* The sum over no elements, and over some.
LEMMA SumFirst ==
  ASSUME NEW f, NEW S, IsFiniteSet(S)
  PROVE  SumOver(f, S) = IF S = {} THEN 0 ELSE f[First(S)] + SumOver(f, S \ {First(S)})
<1> DEFINE c == First(S)
           g == CHOOSE g : Adds(f, S, g)
           h == CHOOSE h : Adds(f, S \ {c}, h)
<1>1. IsFiniteSet(S \ {c})  BY FS_Subset
<1>2. Adds(f, S, g) /\ Adds(f, S \ {c}, h)  BY <1>1, AddsExists
<1>3. SumOver(f, S) = g[S] /\ SumOver(f, S \ {c}) = h[S \ {c}]  BY SumMeans
<1> HIDE DEF g, h
<1>4. g[S] = IF S = {} THEN 0 ELSE f[c] + g[S \ {c}]  BY <1>2 DEF Adds
<1>5. g[S \ {c}] = h[S \ {c}]  BY <1>2, AddsOnce
<1> QED  BY <1>3, <1>4, <1>5

LEMMA SumSame ==
  ASSUME NEW f, NEW e, NEW S, IsFiniteSet(S), \A x \in S : f[x] = e[x]
  PROVE  SumOver(f, S) = SumOver(e, S)
<1> DEFINE g == CHOOSE g : Adds(f, S, g)
           h == CHOOSE h : Adds(e, S, h)
<1>1. Adds(f, S, g) /\ Adds(e, S, h)  BY AddsExists
<1>2. SumOver(f, S) = g[S] /\ SumOver(e, S) = h[S]  BY SumMeans
<1> HIDE DEF g, h
<1> QED  BY <1>1, <1>2, AddsOnce

LEMMA SumType ==
  ASSUME NEW f, NEW S, IsFiniteSet(S), \A x \in S : f[x] \in Int
  PROVE  SumOver(f, S) \in Int
<1> DEFINE T == {t \in SUBSET S : SumOver(f, t) \notin Int}
<1>1. SUFFICES ASSUME T # {} PROVE FALSE  OBVIOUS
<1>2. PICK t \in T : \A v \in T : v \subseteq t => v = t
  <2>1. T \subseteq SUBSET S  OBVIOUS
  <2> HIDE DEF T
  <2> QED  BY <1>1, <2>1, Smallest
<1>3. SumOver(f, t) = IF t = {} THEN 0 ELSE f[First(t)] + SumOver(f, t \ {First(t)})
  BY FS_Subset, SumFirst
<1>4. t # {} => First(t) \in t  BY DEF First
<1>5. t # {} => SumOver(f, t \ {First(t)}) \in Int  BY <1>2, <1>4
<1> QED  BY <1>3, <1>4, <1>5

\* Any element may be taken out first.
LEMMA SumTake ==
  ASSUME NEW f, NEW S, IsFiniteSet(S), \A x \in S : f[x] \in Int, NEW a \in S
  PROVE  /\ SumOver(f, S) \in Int /\ SumOver(f, S \ {a}) \in Int
         /\ SumOver(f, S) = f[a] + SumOver(f, S \ {a})
<1> DEFINE T == {t \in SUBSET S : \E x \in t : SumOver(f, t) # f[x] + SumOver(f, t \ {x})}
<1>1. ASSUME NEW t \in SUBSET S PROVE SumOver(f, t) \in Int  BY FS_Subset, SumType
<1>2. SUFFICES ASSUME T # {} PROVE FALSE  BY <1>1
<1>3. PICK t \in T : \A v \in T : v \subseteq t => v = t
  <2>1. T \subseteq SUBSET S  OBVIOUS
  <2> HIDE DEF T
  <2> QED  BY <1>2, <2>1, Smallest
<1>4. PICK x \in t : SumOver(f, t) # f[x] + SumOver(f, t \ {x})  OBVIOUS
<1> DEFINE c == First(t)
<1>5. c \in t  BY <1>4 DEF First
<1>6. SumOver(f, t) = f[c] + SumOver(f, t \ {c})  BY <1>4, FS_Subset, SumFirst
<1> HIDE DEF c
<1>7. c # x  BY <1>4, <1>6
<1>8. ASSUME NEW v \in SUBSET t, v # t, NEW y \in v
      PROVE  SumOver(f, v) = f[y] + SumOver(f, v \ {y})
  <2>1. v \in SUBSET S /\ v \notin T  BY <1>3, <1>8
  <2> QED  BY <2>1
<1>9. /\ SumOver(f, t \ {c}) = f[x] + SumOver(f, (t \ {c}) \ {x})
      /\ SumOver(f, t \ {x}) = f[c] + SumOver(f, (t \ {x}) \ {c})
  <2>1. t \ {c} # t /\ x \in t \ {c} /\ t \ {x} # t /\ c \in t \ {x}  BY <1>5, <1>7
  <2> HIDE DEF T
  <2> QED  BY <1>8, <2>1
<1>10. (t \ {x}) \ {c} = (t \ {c}) \ {x}  OBVIOUS
<1>11. /\ f[c] \in Int /\ f[x] \in Int /\ SumOver(f, t \ {c}) \in Int
       /\ SumOver(f, (t \ {c}) \ {x}) \in Int
  BY <1>1, <1>5
<1> DEFINE w == SumOver(f, (t \ {c}) \ {x})
<1>12. /\ SumOver(f, t) = f[c] + (f[x] + w)
       /\ SumOver(f, t) # f[x] + (f[c] + w)
  <2> HIDE DEF T, w
  <2>1. w = SumOver(f, (t \ {x}) \ {c})  BY <1>10 DEF w
  <2> QED  BY <1>4, <1>6, <1>9, <2>1 DEF w
<1>13. w \in Int  BY <1>11
<1> HIDE DEF T, w
<1> QED  BY <1>11, <1>12, <1>13

LEMMA SumChange ==
  ASSUME NEW f, NEW e, NEW S, IsFiniteSet(S), NEW a \in S,
         \A x \in S : f[x] \in Int /\ e[x] \in Int,
         \A x \in S \ {a} : f[x] = e[x]
  PROVE  SumOver(e, S) = SumOver(f, S) - f[a] + e[a]
<1>1. SumOver(f, S \ {a}) = SumOver(e, S \ {a})  BY FS_Subset, SumSame
<1>2. SumOver(f, S) \in Int /\ SumOver(f, S \ {a}) \in Int
      /\ SumOver(f, S) = f[a] + SumOver(f, S \ {a})  BY SumTake
<1>3. SumOver(e, S) \in Int /\ SumOver(e, S) = e[a] + SumOver(e, S \ {a})  BY SumTake
<1> QED  BY <1>1, <1>2, <1>3

LEMMA SumZero ==
  ASSUME NEW f, NEW S, IsFiniteSet(S), \A x \in S : f[x] = 0
  PROVE  SumOver(f, S) = 0
<1> DEFINE T == {t \in SUBSET S : SumOver(f, t) # 0}
<1>1. SUFFICES ASSUME T # {} PROVE FALSE  OBVIOUS
<1>2. PICK t \in T : \A v \in T : v \subseteq t => v = t
  <2>1. T \subseteq SUBSET S  OBVIOUS
  <2> HIDE DEF T
  <2> QED  BY <1>1, <2>1, Smallest
<1>3. SumOver(f, t) = IF t = {} THEN 0 ELSE f[First(t)] + SumOver(f, t \ {First(t)})
  BY FS_Subset, SumFirst
<1>4. t # {} => First(t) \in t  BY DEF First
<1>5. t # {} => SumOver(f, t \ {First(t)}) = 0  BY <1>2, <1>4
<1> QED  BY <1>3, <1>4, <1>5

-----------------------------------------------------------------------------
(* Types.                                                                  *)

LEMMA Options ==
  /\ MaxOps \in Nat /\ MaxInTransit \in Nat /\ MaxFaults \in Nat /\ FreeBacktraces \subseteq Stacks
  /\ NULL \notin Addresses /\ NoBacktrace \notin Backtraces
  /\ "digit" \notin Tags \cup {NoTag} /\ NoTag \notin Tags
BY BoundAssumption, UdpAssumption, AddressAssumption, TagAssumption DEF Stacks

\* A table of blocks at addresses of A.
Table(c, A) == DOMAIN c \subseteq A /\ \A a \in DOMAIN c : c[a] \in Blocks

LEMMA Putting ==
  ASSUME NEW A, NEW c, NEW a \in A, NEW b \in Blocks, Table(c, A)
  PROVE  /\ Table(Put(c, a, b), A)
         /\ DOMAIN Put(c, a, b) = DOMAIN c \cup {a} /\ Put(c, a, b)[a] = b
         /\ \A x \in DOMAIN c \ {a} : Put(c, a, b)[x] = c[x]
BY DEF Put, Table

LEMMA Deleting ==
  ASSUME NEW A, NEW c, NEW a, Table(c, A)
  PROVE  /\ Table(Delete(c, a), A)
         /\ DOMAIN Delete(c, a) = DOMAIN c \ {a}
         /\ \A x \in DOMAIN c \ {a} : Delete(c, a)[x] = c[x]
BY DEF Delete, Table

(* What the analyzer has and what is on the way, apart from the program.   *)
TypedAnalyzer ==
  /\ after \in Tags \cup {NoTag} /\ before \in Tags \cup {NoTag}
  /\ Table(chunks, Addresses \cup {NULL})
  /\ tracking \in BOOLEAN
  /\ lines \in Nat
  /\ total \in Int /\ heap_max \in Nat /\ heap_max >= total
  /\ hotspots \in Hotspots
  /\ unknown_frees \in [Stacks -> Nat]
  /\ current_serial \in Nat /\ logs_lost \in Nat

TypedProgram ==
  /\ Table(inuse, Addresses)
  /\ enabled \in BOOLEAN
  /\ serial \in Nat \ {0} /\ ops \in 0 .. MaxOps /\ serial <= ops + 1
  /\ channel \in Seq(Sent(serial))
  /\ seen \subseteq 1 .. serial

LEMMA TypedParts ==
  /\ Typed <=> /\ TypedAnalyzer /\ TypedProgram
               /\ lines + Len(channel) <= serial
  /\ Typed' <=> /\ TypedAnalyzer' /\ TypedProgram'
                /\ lines' + Len(channel') <= serial'
BY DEF Typed, TypedAnalyzer, TypedProgram, Table

LEMMA AnalyzerSame ==
  ASSUME TypedAnalyzer, UNCHANGED analyzer
  PROVE  TypedAnalyzer'
BY DEF TypedAnalyzer, analyzer, options, serials, counters, tables, Table

(* What the operations of the program log.                                 *)
Performs(r, kinds) ==
  /\ r \in Records
  /\ r.ev \in {"malloc", "realloc"} => r.size \in Sizes /\ r.bt \in Backtraces
  /\ Log(r, kinds)

LEMMA MallocMeans ==
  ASSUME NEW a \in Addresses, NEW s \in Sizes, NEW bt \in Backtraces, Malloc(a, s, bt)
  PROVE  \E r : Performs(r, {}) /\ r.ev = "malloc" /\ r.ptr = a /\ r.size = s /\ r.bt = bt
<1> DEFINE r == Record("malloc", a, NULL, s, bt, NoTag)
<1>1. s \in Nat /\ bt \in Stacks  BY SizeAssumption DEF Stacks
<1>2. r \in Records /\ r.ev = "malloc" /\ r.ptr = a /\ r.size = s /\ r.bt = bt
  BY <1>1 DEF Record, Records
<1>3. Log(r, {})  BY DEF Malloc
<1> HIDE DEF r
<1> QED  BY <1>2, <1>3 DEF Performs

LEMMA FreeMeans ==
  ASSUME Typed, NEW a \in DOMAIN inuse, NEW bt \in FreeBacktraces, Free(a, bt)
  PROVE  \E r : Performs(r, {}) /\ r.ev = "free" /\ r.ptr = a
<1> DEFINE r == Record("free", a, NULL, 0, bt, NoTag)
<1>1. a \in Addresses /\ bt \in Stacks /\ 0 \in Nat  BY Options DEF Typed
<1>2. r \in Records /\ r.ev = "free" /\ r.ptr = a  BY <1>1 DEF Record, Records
<1>3. Log(r, {})  BY DEF Free
<1> HIDE DEF r
<1> QED  BY <1>2, <1>3 DEF Performs

LEMMA ReallocMeans ==
  ASSUME Typed, NEW a \in DOMAIN inuse, NEW b \in Addresses, NEW s \in Sizes,
         NEW bt \in Backtraces, Realloc(a, b, s, bt)
  PROVE  \E r : /\ Performs(r, {}) /\ r.ev = "realloc"
                /\ r.ptr = a /\ r.new = b /\ r.size = s /\ r.bt = bt
<1> DEFINE r == Record("realloc", a, b, s, bt, NoTag)
<1>1. a \in Addresses /\ s \in Nat /\ bt \in Stacks  BY SizeAssumption DEF Typed, Stacks
<1>2. /\ r \in Records /\ r.ev = "realloc"
      /\ r.ptr = a /\ r.new = b /\ r.size = s /\ r.bt = bt
  BY <1>1 DEF Record, Records
<1>3. Log(r, {})  BY DEF Realloc
<1> HIDE DEF r
<1> QED  BY <1>2, <1>3 DEF Performs

LEMMA FailureMeans ==
  ASSUME Typed, NEW s \in Sizes, NEW bt \in Backtraces,
         MallocFails(s, bt) \/ \E a \in DOMAIN inuse : ReallocFails(a, s, bt)
  PROVE  \E r : Performs(r, {"failed"})
<1>1. s \in Nat /\ bt \in Stacks  BY SizeAssumption DEF Stacks
<1>2. CASE MallocFails(s, bt)
  <2> DEFINE r == Record("malloc", NULL, NULL, s, bt, NoTag)
  <2>1. r \in Records /\ r.size = s /\ r.bt = bt  BY <1>1 DEF Record, Records
  <2>2. Log(r, {"failed"})  BY <1>2 DEF MallocFails
  <2> HIDE DEF r
  <2> QED  BY <2>1, <2>2 DEF Performs
<1>3. ASSUME NEW a \in DOMAIN inuse, ReallocFails(a, s, bt) PROVE \E r : Performs(r, {"failed"})
  <2> DEFINE r == Record("realloc", a, NULL, s, bt, NoTag)
  <2>1. r \in Records /\ r.size = s /\ r.bt = bt  BY <1>1 DEF Record, Records, Typed
  <2>2. Log(r, {"failed"})  BY <1>3 DEF ReallocFails
  <2> HIDE DEF r
  <2> QED  BY <2>1, <2>2 DEF Performs
<1> QED  BY <1>2, <1>3

LEMMA TagMeans ==
  ASSUME NEW g \in Tags, Tag(g)
  PROVE  \E r : Performs(r, {}) /\ r.ev = "tag"
<1> DEFINE r == Record("tag", NULL, NULL, 0, NoBacktrace, g)
<1>1. r \in Records /\ r.ev = "tag"  BY DEF Record, Records, Stacks
<1>2. Log(r, {})  BY DEF Tag
<1> HIDE DEF r
<1> QED  BY <1>1, <1>2 DEF Performs

(* An operation of the program appends its record, or none.                *)
LEMMA LogTyped ==
  ASSUME Typed, NEW r, NEW kinds, Performs(r, kinds), Table(inuse', Addresses)
  PROVE  Typed'
<1>0. /\ Log(r, kinds) /\ r \in Records
      /\ r.ev \in {"malloc", "realloc"} => r.size \in Sizes /\ r.bt \in Backtraces
  BY DEF Performs
<1>1. ops < MaxOps /\ ops' = ops + 1 /\ UNCHANGED analyzer /\ enabled' = enabled /\ seen' = seen
  BY <1>0 DEF Log, history
<1>2. TypedAnalyzer'  BY <1>1, TypedParts, AnalyzerSame
<1>3. serial \in Nat \ {0} /\ ops \in 0 .. MaxOps /\ serial <= ops + 1 /\ MaxOps \in Nat
      /\ channel \in Seq(Sent(serial)) /\ Len(channel) \in Nat /\ lines \in Nat
      /\ lines + Len(channel) <= serial /\ lines' = lines /\ seen \subseteq 1 .. serial
  BY <1>1, Options, LenProperties DEF Typed, analyzer, serials
<1>4. CASE enabled
  <2> DEFINE q == Numbered(r)
  <2>1. serial' = serial + 1 /\ channel' = Append(channel, q)  BY <1>0, <1>4 DEF Log
  <2>2. q \in Sent(serial + 1)  BY <1>0, <1>3, Numbering DEF Numbered
  <2>3. channel \in Seq(Sent(serial + 1))  BY <1>3, SentGrows, SeqMonotonic
  <2> HIDE DEF q
  <2>4. channel' \in Seq(Sent(serial')) /\ Len(channel') = Len(channel) + 1
    BY <2>1, <2>2, <2>3, Appended
  <2>5. lines' + Len(channel') <= serial'  BY <1>3, <2>1, <2>4
  <2>6. TypedProgram'
    <3>1. seen' \subseteq 1 .. serial'  BY <1>1, <1>3, <2>1
    <3>2. serial' \in Nat \ {0} /\ ops' \in 0 .. MaxOps /\ serial' <= ops' + 1
      BY <1>1, <1>3, <2>1
    <3>3. enabled' \in BOOLEAN  BY <1>1 DEF Typed
    <3> QED  BY <2>4, <3>1, <3>2, <3>3 DEF TypedProgram, Table
  <2> QED  BY <1>2, <2>5, <2>6, TypedParts
<1>5. CASE ~enabled
  <2>1. serial' = serial /\ channel' = channel  BY <1>0, <1>5 DEF Log
  <2>2. TypedProgram'
    <3>1. serial' \in Nat \ {0} /\ ops' \in 0 .. MaxOps /\ serial' <= ops' + 1
      BY <1>1, <1>3, <2>1
    <3>2. enabled' \in BOOLEAN  BY <1>1 DEF Typed
    <3> QED  BY <1>1, <1>3, <2>1, <3>1, <3>2 DEF TypedProgram, Table
  <2> QED  BY <1>2, <1>3, <2>1, <2>2, TypedParts
<1> QED  BY <1>4, <1>5

LEMMA MallocTyped ==
  ASSUME Typed, NEW a \in Addresses, NEW s \in Sizes, NEW bt \in Backtraces, Malloc(a, s, bt)
  PROVE  Typed'
<1>1. Table(inuse', Addresses)
  <2>1. Block(s, bt) \in Blocks  BY DEF Block, Blocks
  <2> QED  BY <2>1, Putting, TypedParts DEF Malloc, TypedProgram
<1> QED  BY <1>1, MallocMeans, LogTyped

LEMMA FreeTyped ==
  ASSUME Typed, NEW a \in DOMAIN inuse, NEW bt \in FreeBacktraces, Free(a, bt)
  PROVE  Typed'
<1>1. Table(inuse', Addresses)  BY Deleting, TypedParts DEF Free, TypedProgram
<1> QED  BY <1>1, FreeMeans, LogTyped

LEMMA ReallocTyped ==
  ASSUME Typed, NEW a \in DOMAIN inuse, NEW b \in Addresses, NEW s \in Sizes,
         NEW bt \in Backtraces, Realloc(a, b, s, bt)
  PROVE  Typed'
<1>1. Table(inuse', Addresses)
  <2>1. Block(s, bt) \in Blocks  BY DEF Block, Blocks
  <2>2. Table(Delete(inuse, a), Addresses)  BY Deleting, TypedParts DEF TypedProgram
  <2> QED  BY <2>1, <2>2, Putting DEF Realloc
<1> QED  BY <1>1, ReallocMeans, LogTyped

(* Requests that fail, and tags.                                           *)
LEMMA OthersTyped ==
  ASSUME Typed,
         \/ \E s \in Sizes, bt \in Backtraces :
              MallocFails(s, bt) \/ \E a \in DOMAIN inuse : ReallocFails(a, s, bt)
         \/ \E g \in Tags : Tag(g)
  PROVE  Typed'
<1>1. inuse' = inuse  BY DEF MallocFails, ReallocFails, Tag
<1>2. \E r, kinds : Performs(r, kinds)  BY FailureMeans, TagMeans
<1>3. Table(inuse', Addresses)  BY <1>1, TypedParts DEF TypedProgram
<1> QED  BY <1>2, <1>3, LogTyped

(* Less on the way, or in another order.                                   *)
LEMMA ChannelTyped ==
  ASSUME Typed, UNCHANGED <<analyzer, program, serial, seen>>,
         channel' \in Seq(Sent(serial)), Len(channel') <= Len(channel)
  PROVE  Typed'
<1>1. TypedAnalyzer'  BY AnalyzerSame, TypedParts
<1>2. TypedProgram'  BY DEF Typed, TypedProgram, program, Table
<1>3. /\ Len(channel) \in Nat /\ Len(channel') \in Nat /\ lines \in Nat /\ serial \in Nat
      /\ lines + Len(channel) <= serial
  BY LenProperties DEF Typed
<1>4. lines' + Len(channel') <= serial'  BY <1>3 DEF analyzer, serials
<1> QED  BY <1>1, <1>2, <1>4, TypedParts

LEMMA NetworkTyped ==
  ASSUME Typed, NEW i \in DOMAIN channel, Lose(i) \/ Reorder(i)
  PROVE  Typed'
<1>1. channel \in Seq(Sent(serial)) /\ Len(channel) \in Nat /\ i \in 1 .. Len(channel)
  BY LenProperties DEF Typed
<1>2. CASE Lose(i)
  <2>1. channel' \in Seq(Sent(serial)) /\ Len(channel') = Len(channel) - 1
    BY <1>1, <1>2, Removed DEF Lose
  <2> QED  BY <1>1, <1>2, <2>1, ChannelTyped DEF Lose, history
<1>3. CASE Reorder(i)
  <2>1. channel' \in Seq(Sent(serial)) /\ Len(channel') = Len(channel)
    BY <1>1, <1>3, Swapped DEF Reorder
  <2> QED  BY <1>1, <1>3, <2>1, ChannelTyped DEF Reorder, history
<1> QED  BY <1>2, <1>3

(* memtraq.pl reads a record.                                              *)
LEMMA HotspotsTyped ==
  ASSUME NEW h \in Hotspots, NEW bt \in Backtraces, NEW s \in Int
  PROVE  Gain(h, bt, s) \in Hotspots /\ Release(h, bt, s) \in Hotspots
<1> DEFINE e == h[bt]
<1>1. e \in [allocs : Nat, frees : Nat, size : Int]  BY DEF Hotspots
<1>2. /\ e.allocs \in Nat /\ e.frees \in Nat /\ e.size \in Int
      /\ e.allocs + 1 \in Nat /\ e.frees + 1 \in Nat /\ e.size + s \in Int /\ e.size - s \in Int
  BY <1>1
<1>3. [e EXCEPT !.allocs = e.allocs + 1, !.size = e.size + s]
        \in [allocs : Nat, frees : Nat, size : Int]
  BY <1>1, <1>2
<1>4. [e EXCEPT !.frees = e.frees + 1, !.size = e.size - s]
        \in [allocs : Nat, frees : Nat, size : Int]
  BY <1>1, <1>2
<1>5. Gain(h, bt, s) = [h EXCEPT ![bt] = [e EXCEPT !.allocs = e.allocs + 1, !.size = e.size + s]]
  BY DEF Gain, Hotspots
<1>6. Release(h, bt, s) = [h EXCEPT ![bt] = [e EXCEPT !.frees = e.frees + 1, !.size = e.size - s]]
  BY DEF Release, Hotspots
<1> HIDE DEF e
<1> QED  BY <1>3, <1>4, <1>5, <1>6 DEF Hotspots

LEMMA BlockKnown ==
  ASSUME Typed, NEW a \in DOMAIN chunks
  PROVE  chunks[a].size \in Nat /\ chunks[a].backtrace \in Backtraces
BY SizeAssumption DEF Typed, Blocks

LEMMA ReadTyped ==
  ASSUME Typed, NEW r \in Sent(serial), Read(r)
  PROVE  TypedAnalyzer' /\ lines' = lines + 1
<1>1. /\ r.serial \in Nat /\ r.ptr \in Addresses \cup {NULL} /\ r.new \in Addresses \cup {NULL}
      /\ r.bt \in Stacks /\ r.size \in Nat
      /\ r.ev \in {"malloc", "realloc"} => r.size \in Sizes /\ r.bt \in Backtraces
  BY DEF Sent, Records
<1>2. TypedAnalyzer  BY TypedParts
<1>3. /\ after' = after /\ before' = before
      /\ lines' \in Nat /\ lines' = lines + 1 /\ current_serial' \in Nat /\ logs_lost' \in Nat
  BY <1>1 DEF Read, ReadSerial, options, Typed
<1> DEFINE Rest == /\ Table(chunks', Addresses \cup {NULL}) /\ total' \in Int
                   /\ hotspots' \in Hotspots /\ unknown_frees' \in [Stacks -> Nat]
<1>4. tracking' \in BOOLEAN
  <2>1. CASE tracking' = tracking  BY <2>1 DEF Typed
  <2>2. CASE ReadTag(r)  BY <2>2 DEF ReadTag
  <2> QED
    BY <2>1, <2>2 DEF Read, ReadStart, Skip, ReadMalloc, ReadFree, ReadRealloc
<1>5. ASSUME ReadStart(r) \/ ReadTag(r) \/ Skip(r) PROVE Rest
  <2>1. UNCHANGED <<total, counters, tables>>  BY <1>5 DEF ReadStart, ReadTag, Skip
  <2> QED  BY <1>2, <2>1 DEF tables, TypedAnalyzer, Table
<1>6. ASSUME ReadMalloc(r) PROVE Rest
  <2>1. /\ r.ev = "malloc" /\ chunks' = Put(chunks, r.ptr, Block(r.size, r.bt))
        /\ hotspots' = Gain(hotspots, r.bt, r.size) /\ total' = total + r.size
        /\ unknown_frees' = unknown_frees
    BY <1>6 DEF ReadMalloc
  <2>2. Block(r.size, r.bt) \in Blocks  BY <1>1, <2>1 DEF Block, Blocks
  <2>3. Table(chunks', Addresses \cup {NULL})
    BY <1>1, <1>2, <2>1, <2>2, Putting DEF TypedAnalyzer
  <2>4. hotspots' \in Hotspots  BY <1>1, <2>1, HotspotsTyped DEF Typed
  <2> QED  BY <1>1, <2>1, <2>3, <2>4 DEF Typed
<1>7. ASSUME ReadFree(r) PROVE Rest
  <2>1. CASE FreeKnown(r)
    <3>1. /\ r.ptr \in DOMAIN chunks /\ chunks' = Delete(chunks, r.ptr)
          /\ total' = total - chunks[r.ptr].size /\ unknown_frees' = unknown_frees
          /\ hotspots' = Release(hotspots, chunks[r.ptr].backtrace, chunks[r.ptr].size)
      BY <2>1 DEF FreeKnown, Known
    <3>2. Table(chunks', Addresses \cup {NULL})  BY <1>2, <3>1, Deleting DEF TypedAnalyzer
    <3>3. chunks[r.ptr].size \in Nat /\ chunks[r.ptr].backtrace \in Backtraces
      BY <3>1, BlockKnown
    <3>4. hotspots' \in Hotspots  BY <3>1, <3>3, HotspotsTyped DEF Typed
    <3> QED  BY <3>1, <3>2, <3>3, <3>4 DEF Typed
  <2>2. CASE FreeUnknown(r)
    <3>1. /\ unknown_frees' = [unknown_frees EXCEPT ![r.bt] = @ + 1]
          /\ UNCHANGED <<total, hotspots, chunks>>
      BY <2>2 DEF FreeUnknown
    <3>2. unknown_frees' \in [Stacks -> Nat]  BY <1>1, <3>1 DEF Typed
    <3> QED  BY <1>2, <3>1, <3>2 DEF TypedAnalyzer, Table
  <2> QED  BY <1>7, <2>1, <2>2 DEF ReadFree
<1>8. ASSUME ReadRealloc(r) PROVE Rest
  <2>1. /\ r.ev = "realloc" /\ chunks' = Put(chunks, r.new, Block(r.size, r.bt))
        /\ ReallocKnown(r) \/ ReallocUnknown(r)
        /\ unknown_frees' = unknown_frees
    BY <1>8 DEF ReadRealloc
  <2>2. Block(r.size, r.bt) \in Blocks  BY <1>1, <2>1 DEF Block, Blocks
  <2>3. Table(chunks', Addresses \cup {NULL})
    BY <1>1, <1>2, <2>1, <2>2, Putting DEF TypedAnalyzer
  <2>4. hotspots' \in Hotspots /\ total' \in Int
    <3>1. CASE ReallocKnown(r)
      <4> DEFINE old == chunks[r.ptr]
                 h == Release(hotspots, old.backtrace, old.size)
      <4>1. /\ r.ptr \in DOMAIN chunks /\ total' = total - old.size + r.size
            /\ hotspots' = Gain(h, r.bt, r.size)
        BY <3>1 DEF ReallocKnown, Known
      <4>2. old.size \in Nat /\ old.backtrace \in Backtraces  BY <4>1, BlockKnown
      <4>3. h \in Hotspots  BY <4>2, HotspotsTyped DEF Typed
      <4> HIDE DEF h
      <4>4. hotspots' \in Hotspots  BY <1>1, <2>1, <4>1, <4>3, HotspotsTyped
      <4> QED  BY <1>1, <4>1, <4>2, <4>4 DEF Typed
    <3>2. CASE ReallocUnknown(r)
      <4>1. hotspots' = Gain(hotspots, r.bt, r.size) /\ total' = total + r.size
        BY <3>2 DEF ReallocUnknown
      <4>2. hotspots' \in Hotspots  BY <1>1, <2>1, <4>1, HotspotsTyped DEF Typed
      <4> QED  BY <1>1, <4>1, <4>2 DEF Typed
    <3> QED  BY <2>1, <3>1, <3>2
  <2>5. unknown_frees' \in [Stacks -> Nat]  BY <1>8 DEF ReadRealloc, Typed
  <2> QED  BY <2>3, <2>4, <2>5
<1>9. Rest  BY <1>5, <1>6, <1>7, <1>8 DEF Read
<1>10. heap_max' \in Nat /\ heap_max' >= total'
  <2>1. heap_max' = IF total' > heap_max THEN total' ELSE heap_max  BY DEF Read, UpdatePeak
  <2>2. total' \in Int /\ heap_max \in Nat  BY <1>9 DEF Typed
  <2> QED  BY <2>1, <2>2
<1> QED  BY <1>2, <1>3, <1>4, <1>9, <1>10 DEF TypedAnalyzer

LEMMA ReadNextTyped ==
  ASSUME Typed, ReadNext
  PROVE  Typed'
<1> DEFINE r == Head(channel)
<1>1. /\ channel # <<>> /\ Read(r) /\ channel' = Tail(channel) /\ seen' = seen \cup {r.serial}
      /\ UNCHANGED <<program, serial>>
  BY DEF ReadNext
<1>2. /\ r \in Sent(serial) /\ channel' \in Seq(Sent(serial))
      /\ Len(channel) \in Nat \ {0} /\ Len(channel') = Len(channel) - 1
  BY <1>1, HeadAndTail DEF Typed
<1>3. r.serial \in 1 .. serial  BY <1>2 DEF Sent
<1> HIDE DEF r
<1>4. TypedAnalyzer' /\ lines' = lines + 1  BY <1>1, <1>2, ReadTyped
<1>5. TypedProgram'  BY <1>1, <1>2, <1>3 DEF Typed, TypedProgram, program, Table
<1>6. lines' + Len(channel') <= serial'  BY <1>1, <1>2, <1>4 DEF Typed
<1> QED  BY <1>4, <1>5, <1>6, TypedParts

LEMMA SetEnabledTyped ==
  ASSUME Typed, NEW on \in BOOLEAN, SetEnabled(on)
  PROVE  Typed'
<1>1. TypedAnalyzer'  BY AnalyzerSame, TypedParts DEF SetEnabled
<1>2. TypedProgram'
  <2>1. enabled' \in BOOLEAN  BY DEF SetEnabled
  <2>2. UNCHANGED <<inuse, ops, serial, channel, seen>>  BY DEF SetEnabled, history
  <2> QED  BY <2>1, <2>2 DEF Typed, TypedProgram, Table
<1>3. UNCHANGED <<lines, channel, serial>>  BY DEF SetEnabled, analyzer, serials
<1> QED  BY <1>1, <1>2, <1>3, TypedParts

LEMMA TypedInit == Init => Typed
<1> SUFFICES ASSUME Init PROVE Typed  OBVIOUS
<1>1. TypedAnalyzer
  <2>1. DOMAIN chunks = {}  BY DEF Init, AInit
  <2>2. tracking \in BOOLEAN  BY DEF Init, AInit
  <2>3. hotspots \in Hotspots  BY DEF Init, AInit, Hotspots
  <2>4. unknown_frees \in [Stacks -> Nat]  BY DEF Init, AInit, Stacks
  <2> QED  BY <2>1, <2>2, <2>3, <2>4 DEF Init, AInit, TypedAnalyzer, Table
<1>2. channel \in Seq(Sent(1)) /\ Len(channel) = 1
  <2> DEFINE r == [Record("start", NULL, NULL, 0, NoBacktrace, NoTag) EXCEPT !.serial = 1]
  <2>1. r \in Sent(1)  BY DEF Record, Records, Sent, Stacks
  <2>2. channel = <<r>>  BY DEF Init, Start
  <2> HIDE DEF r
  <2> QED  BY <2>1, <2>2
<1>3. TypedProgram
  <2>1. DOMAIN inuse = {} /\ enabled \in BOOLEAN  BY DEF Init
  <2>2. serial = 1 /\ ops = 0 /\ ops \in 0 .. MaxOps /\ seen = {}  BY Options DEF Init
  <2> QED  BY <1>2, <2>1, <2>2 DEF TypedProgram, Table
<1>4. lines + Len(channel) <= serial  BY <1>2 DEF Init, AInit
<1> QED  BY <1>1, <1>3, <1>4, TypedParts

LEMMA TypedNext == Typed /\ [Next]_vars => Typed'
<1> SUFFICES ASSUME Typed, [Next]_vars PROVE Typed'  OBVIOUS
<1>1. CASE UNCHANGED vars
  <2>1. UNCHANGED <<analyzer, program, serial, channel, seen>>  BY <1>1 DEF vars, history
  <2>2. TypedAnalyzer'  BY <2>1, AnalyzerSame, TypedParts
  <2>3. TypedProgram'  BY <2>1 DEF Typed, TypedProgram, program, Table
  <2>4. lines' + Len(channel') <= serial'  BY <2>1 DEF Typed, analyzer, serials
  <2> QED  BY <2>2, <2>3, <2>4, TypedParts
<1>2. CASE \E s \in Sizes, bt \in Backtraces, a \in Addresses : Malloc(a, s, bt)
  BY <1>2, MallocTyped
<1>3. CASE \E s \in Sizes, bt \in Backtraces, a \in DOMAIN inuse, b \in Addresses :
             Realloc(a, b, s, bt)
  BY <1>3, ReallocTyped
<1>4. CASE \/ \E s \in Sizes, bt \in Backtraces :
                MallocFails(s, bt) \/ \E a \in DOMAIN inuse : ReallocFails(a, s, bt)
           \/ \E g \in Tags : Tag(g)
  BY <1>4, OthersTyped
<1>5. CASE \E a \in DOMAIN inuse, bt \in FreeBacktraces : Free(a, bt)  BY <1>5, FreeTyped
<1>6. CASE \E on \in BOOLEAN : SetEnabled(on)  BY <1>6, SetEnabledTyped
<1>7. CASE \E i \in DOMAIN channel : Lose(i) \/ Reorder(i)  BY <1>7, NetworkTyped
<1>8. CASE ReadNext  BY <1>8, ReadNextTyped
<1> QED  BY <1>1, <1>2, <1>3, <1>4, <1>5, <1>6, <1>7, <1>8 DEF Next

(* Only memtraq.pl's reading adds to what has been read.                   *)
LEMMA OnlyReading ==
  ASSUME [Next]_vars
  PROVE  ReadNext \/ UNCHANGED <<analyzer, history>>
BY DEF Next, Malloc, Free, Realloc, MallocFails, ReallocFails, Tag, Log, SetEnabled,
       Lose, Reorder, vars

LEMMA StoryRead ==
  ASSUME Typed, StoryTyped, ReadNext
  PROVE  /\ Head(channel) \in Logs
         /\ StoryTyped'
<1> DEFINE r == Head(channel)
           n == Len(story)
<1>1. /\ channel # <<>> /\ seen' = seen \cup {r.serial} /\ lines' = lines + 1
      /\ story' = IF tracking THEN Append(story, r) ELSE story
  BY DEF ReadNext, Read, ReadSerial
<1>2. r \in Logs
  <2>1. r \in Sent(serial)  BY <1>1, HeadAndTail DEF Typed
  <2> QED  BY <2>1 DEF Sent, Logs
<1>3. /\ story \in Seq(Logs) /\ n \in Nat /\ lines \in Nat /\ n <= lines
      /\ \A i \in 1 .. n : story[i].serial \in seen'
  BY <1>1, LenProperties DEF StoryTyped, Typed
<1> HIDE DEF r
<1>4. CASE ~tracking  BY <1>1, <1>2, <1>3, <1>4 DEF StoryTyped, r
<1>5. CASE tracking
  <2>1. story' = Append(story, r)  BY <1>1, <1>5
  <2>2. /\ story' \in Seq(Logs) /\ Len(story') = n + 1 /\ story'[n + 1] = r
        /\ \A i \in 1 .. n : story'[i] = story[i]
    BY <1>2, <1>3, <2>1, Appended
  <2> HIDE DEF n
  <2>3. Len(story') <= lines'  BY <1>1, <1>3, <2>2
  <2>4. ASSUME NEW i \in 1 .. n + 1 PROVE story'[i].serial \in seen'
    <3>1. i \in 1 .. n \/ i = n + 1  BY <1>3
    <3> QED  BY <1>1, <1>3, <2>2, <3>1
  <2> QED  BY <1>2, <2>2, <2>3, <2>4 DEF StoryTyped, r
<1> QED  BY <1>4, <1>5

LEMMA StoryInit == Init => StoryTyped
<1> SUFFICES ASSUME Init PROVE StoryTyped  OBVIOUS
<1>1. story = <<>> /\ lines = 0  BY DEF Init, AInit
<1> QED  BY <1>1 DEF StoryTyped

LEMMA StoryNext == Typed /\ StoryTyped /\ [Next]_vars => StoryTyped'
<1> SUFFICES ASSUME Typed, StoryTyped, [Next]_vars PROVE StoryTyped'  OBVIOUS
<1>1. CASE ReadNext  BY <1>1, StoryRead
<1>2. CASE UNCHANGED <<analyzer, history>>
  BY <1>2 DEF StoryTyped, analyzer, serials, history
<1> QED  BY <1>1, <1>2, OnlyReading

LEMMA TypesFollow ==
  ASSUME Typed, StoryTyped
  PROVE  TypeOK
<1>1. channel \in Seq(Sent(serial)) /\ Len(channel) \in Nat /\ DOMAIN channel = 1 .. Len(channel)
  BY LenProperties DEF Typed
<1>2. \A i \in DOMAIN channel : channel[i].serial \in 1 .. serial
  BY <1>1, ElementOfSeq DEF Sent
<1>3. serial \in 1 .. MaxOps + 1 /\ lines <= serial  BY <1>1, Options DEF Typed
<1>4. {enabled, tracking} \subseteq BOOLEAN  BY DEF Typed
<1>5. Len(story) <= lines /\ \A i \in DOMAIN story : story[i].serial \in seen
  BY LenProperties DEF StoryTyped
<1> QED  BY <1>2, <1>3, <1>4, <1>5 DEF Typed, TypeOK

(* Every variable of the program, the network and memtraq.pl keeps a value *)
(* of its type, and each record has the fields that its kind needs.        *)
THEOREM TypedInvariant == Spec => [](Typed /\ StoryTyped)
BY TypedInit, TypedNext, StoryInit, StoryNext, PTL DEF Spec

(* Whatever is lost, reordered or left out of the log, the tables of       *)
(* memtraq.pl hold blocks and counts, and it reads no more records than    *)
(* were sent.                                                              *)
THEOREM TypeCorrect == Spec => []TypeOK
BY TypedInvariant, TypesFollow, PTL

-----------------------------------------------------------------------------
(* The count of lost records.                                              *)

(* Between the first record m and the last, n, something is missing if and *)
(* only if n is not where the number of records in between would put it.   *)
LEMMA Gap ==
  ASSUME NEW S \in SUBSET Nat, IsFiniteSet(S), NEW m \in S, \A y \in S : m <= y,
         NEW n \in Nat, \A y \in S : y < n
  PROVE  /\ n >= m + Cardinality(S)
         /\ n > m + Cardinality(S) <=> Gapped(S \cup {n}, n)
<1> DEFINE T == S \cup {n}
           k == Cardinality(S)
<1>1. IsFiniteSet(T) /\ Cardinality(T) = k + 1 /\ k \in Nat
  BY FS_AddElement, FS_CardinalityType
<1>2. m \in Nat /\ m < n /\ T \subseteq m .. n  OBVIOUS
<1>3. IsFiniteSet(m .. n) /\ Cardinality(m .. n) = n - m + 1  BY <1>2, FS_Interval
<1> HIDE DEF T, k
<1>4. k + 1 <= n - m + 1 /\ (k + 1 = n - m + 1 => T = m .. n)
  BY <1>1, <1>2, <1>3, FS_Subset
<1>5. T = m .. n => k + 1 = n - m + 1  BY <1>1, <1>3
<1>6. Gapped(T, n) <=> T # m .. n
  <2>1. ASSUME T = m .. n, NEW s \in 1 .. n, s \notin T, NEW x \in T, x < s PROVE FALSE
    <3>1. s \in m .. n  BY <1>2, <2>1
    <3> QED  BY <2>1, <3>1
  <2>2. ASSUME T # m .. n PROVE Gapped(T, n)
    <3>1. PICK s \in m .. n : s \notin T  BY <1>2, <2>2
    <3>2. m \in T  BY DEF T
    <3>3. m < s /\ s \in 1 .. n  BY <1>2, <3>1, <3>2
    <3> QED  BY <3>1, <3>2, <3>3 DEF Gapped
  <2> QED  BY <2>1, <2>2 DEF Gapped
<1>7. n >= m + k /\ (n > m + k <=> ~(k + 1 = n - m + 1))  BY <1>1, <1>2, <1>4
<1> QED  BY <1>4, <1>5, <1>6, <1>7 DEF T, k

LEMMA GapsBefore ==
  ASSUME NEW S \in SUBSET Nat, NEW n \in Nat, \A y \in S : y < n
  PROVE  {y \in S \cup {n} : Gapped(S \cup {n}, y)}
           = {y \in S : Gapped(S, y)} \cup (IF Gapped(S \cup {n}, n) THEN {n} ELSE {})
<1>1. ASSUME NEW y \in S PROVE Gapped(S \cup {n}, y) <=> Gapped(S, y)
  <2>1. ASSUME NEW s \in 1 .. y
        PROVE  /\ s \in S \cup {n} <=> s \in S
               /\ (\E x \in S \cup {n} : x < s) <=> (\E x \in S : x < s)
    <3>1. s \in Nat /\ s < n /\ ~(n < s)  OBVIOUS
    <3> QED  BY <3>1
  <2> QED  BY <2>1 DEF Gapped
<1> QED  BY <1>1

LEMMA CountedSame ==
  ASSUME Counted, UNCHANGED <<seen, lines, current_serial, logs_lost>>
  PROVE  Counted'
BY DEF Counted, Gapped

LEMMA CountedRead ==
  ASSUME Typed, Counted, NEW n \in Nat \ {0}, \A y \in seen : y < n,
         seen' = seen \cup {n}, lines' = lines + 1,
         current_serial' = IF current_serial = 0 THEN n ELSE current_serial + 1,
         logs_lost' = IF n > current_serial' THEN logs_lost + 1 ELSE logs_lost
  PROVE  Counted'
<1> DEFINE G == {y \in seen : Gapped(seen, y)}
           last == Gapped(seen \cup {n}, n)
<1>1. seen \in SUBSET Nat /\ IsFiniteSet(seen) /\ n \notin seen /\ lines \in Nat
      /\ current_serial \in Nat /\ logs_lost \in Nat
  <2>1. seen \subseteq 1 .. serial /\ serial \in Int  BY DEF Typed
  <2>2. IsFiniteSet(seen)
    <3>1. IsFiniteSet(1 .. serial)  BY <2>1, FS_Interval
    <3>2. seen \in SUBSET (1 .. serial)  BY <2>1
    <3> QED  BY <3>1, <3>2, FS_Subset
  <2> QED  BY <2>1, <2>2 DEF Typed
<1>2. Cardinality(seen') = lines'  BY <1>1, FS_AddElement DEF Counted
<1>3. /\ IsFiniteSet(G) /\ n \notin G /\ logs_lost = Cardinality(G)
  <2>1. G \in SUBSET seen  OBVIOUS
  <2> QED  BY <1>1, <2>1, FS_Subset DEF Counted
<1>4. {y \in seen' : Gapped(seen', y)} = G \cup (IF last THEN {n} ELSE {})
  BY <1>1, GapsBefore
<1> HIDE DEF G
<1>5. Cardinality(G \cup (IF last THEN {n} ELSE {})) = IF last THEN logs_lost + 1 ELSE logs_lost
  <2>1. CASE last
    <3>1. Cardinality(G \cup {n}) = logs_lost + 1  BY <1>3, FS_AddElement
    <3> QED  BY <2>1, <3>1
  <2>2. CASE ~last
    <3>1. G \cup {} = G  OBVIOUS
    <3> QED  BY <1>3, <2>2, <3>1
  <2> QED  BY <2>1, <2>2
<1> HIDE DEF last
<1>6. CASE seen = {}
  <2>1. current_serial = 0 /\ lines = 0
    BY <1>6, FS_EmptySet DEF Counted
  <2>2. current_serial' = n /\ logs_lost' = logs_lost /\ lines' = 1  BY <2>1
  <2>3. seen' = {n}  BY <1>6
  <2>4. ~last
    <3>1. \A s \in 1 .. n : ~(n < s)  OBVIOUS
    <3> QED  BY <1>6, <3>1 DEF last, Gapped
  <2>5. \A y \in seen' : n <= y  BY <2>3
  <2> QED  BY <1>2, <1>4, <1>5, <2>2, <2>3, <2>4, <2>5 DEF Counted
<1>7. CASE seen # {}
  <2>1. PICK m \in seen : (\A y \in seen : m <= y) /\ current_serial = m + lines - 1
    BY <1>7 DEF Counted
  <2>2. Cardinality(seen) = lines /\ current_serial # 0  BY <1>7 DEF Counted
  <2>3. n >= m + lines /\ (n > m + lines <=> last)  BY <1>1, <2>1, <2>2, Gap DEF last
  <2>4. m \in Nat /\ current_serial' = m + lines  BY <1>1, <2>1, <2>2
  <2>5. logs_lost' = IF last THEN logs_lost + 1 ELSE logs_lost  BY <2>3, <2>4
  <2>6. m \in seen' /\ \A y \in seen' : m <= y  BY <1>1, <2>1
  <2>7. current_serial' = m + lines' - 1 /\ current_serial' # 0  BY <1>1, <2>2, <2>4
  <2> QED  BY <1>2, <1>4, <1>5, <2>5, <2>6, <2>7 DEF Counted
<1> QED  BY <1>6, <1>7

(* What an operation adds is last, and what was sent before keeps its      *)
(* order.                                                                  *)
LEMMA SentMeans ==
  ASSUME Typed
  PROVE  /\ Len(channel) \in Nat /\ DOMAIN channel = 1 .. Len(channel)
         /\ \A i \in 1 .. Len(channel) : /\ channel[i] \in Sent(serial)
                                         /\ channel[i].serial \in 1 .. serial
         /\ \A y \in seen : y \in 1 .. serial
         /\ serial \in Nat
<1>1. channel \in Seq(Sent(serial))  BY DEF Typed
<1>2. \A i \in 1 .. Len(channel) : channel[i] \in Sent(serial)  BY <1>1, ElementOfSeq
<1> QED  BY <1>1, <1>2, LenProperties DEF Typed, Sent

\* An operation of the program that logs a record, or has no record.
Logged(r) == /\ channel' = Append(channel, [r EXCEPT !.serial = serial + 1])
             /\ serial' = serial + 1
Silent == UNCHANGED <<channel, serial>>

LEMMA RisingLog ==
  ASSUME Typed, Rising, NEW r \in Records, Logged(r), seen' = seen,
         r.ev \in {"malloc", "realloc"} => r.size \in Sizes /\ r.bt \in Backtraces
  PROVE  Rising'
<1> DEFINE q == [r EXCEPT !.serial = serial + 1]
           n == Len(channel)
<1>1. q \in Sent(serial + 1) /\ q.serial = serial + 1  BY SentMeans, Numbering
<1>2. channel' = Append(channel, q)  BY DEF Logged
<1>3. channel \in Seq(Sent(serial + 1))  BY SentMeans, SentGrows, SeqMonotonic DEF Typed
<1> HIDE DEF q
<1>4. /\ Len(channel') = n + 1 /\ channel'[n + 1] = q /\ n \in Nat
      /\ \A i \in 1 .. n : channel'[i] = channel[i]
  BY <1>1, <1>2, <1>3, Appended
<1>5. /\ \A i \in 1 .. n : channel[i].serial < serial + 1 /\ channel[i].serial \in Nat
      /\ \A y \in seen : y < serial + 1
  BY SentMeans
<1>6. /\ \A i, j \in 1 .. n : i < j => channel[i].serial < channel[j].serial
      /\ \A y \in seen, i \in 1 .. n : y < channel[i].serial
  BY DEF Rising
<1> HIDE DEF n
<1>7. ASSUME NEW i \in 1 .. n + 1, NEW j \in 1 .. n + 1, i < j
      PROVE  channel'[i].serial < channel'[j].serial
  <2>1. i \in 1 .. n  BY <1>4, <1>7
  <2>2. CASE j \in 1 .. n  BY <1>4, <1>6, <1>7, <2>1, <2>2
  <2>3. CASE j = n + 1  BY <1>1, <1>4, <1>5, <2>1, <2>3
  <2> QED  BY <1>4, <2>2, <2>3
<1>8. ASSUME NEW y \in seen, NEW i \in 1 .. n + 1 PROVE y < channel'[i].serial
  <2>1. CASE i \in 1 .. n  BY <1>4, <1>6, <2>1
  <2>2. CASE i = n + 1  BY <1>1, <1>4, <1>5, <2>2
  <2> QED  BY <1>4, <2>1, <2>2
<1> QED  BY <1>4, <1>7, <1>8 DEF Rising

LEMMA RisingLose ==
  ASSUME Typed, Rising, NEW i \in DOMAIN channel, channel' = RemoveAt(channel, i), seen' = seen
  PROVE  Rising'
<1> DEFINE n == Len(channel)
           from(j) == IF j < i THEN j ELSE j + 1
<1>1. i \in 1 .. n /\ n \in Nat  BY SentMeans
<1>2. /\ Len(channel') = n - 1
      /\ \A j \in 1 .. i - 1 : channel'[j] = channel[j]
      /\ \A j \in i .. n - 1 : channel'[j] = channel[j + 1]
  BY <1>1, Removed DEF Typed
<1>3. /\ \A j, k \in 1 .. n : j < k => channel[j].serial < channel[k].serial
      /\ \A y \in seen, j \in 1 .. n : y < channel[j].serial
  BY DEF Rising
<1> HIDE DEF n
<1>4. ASSUME NEW j \in 1 .. n - 1
      PROVE  from(j) \in 1 .. n /\ channel'[j] = channel[from(j)]
  <2>1. CASE j < i
    <3>1. j \in 1 .. i - 1 /\ j \in 1 .. n  BY <1>1, <2>1
    <3> QED  BY <1>2, <2>1, <3>1
  <2>2. CASE ~(j < i)
    <3>1. j \in i .. n - 1 /\ j + 1 \in 1 .. n  BY <1>1, <2>2
    <3> QED  BY <1>2, <2>2, <3>1
  <2> QED  BY <2>1, <2>2
<1>5. ASSUME NEW j \in 1 .. n - 1, NEW k \in 1 .. n - 1, j < k PROVE from(j) < from(k)
  BY <1>1, <1>5
<1> HIDE DEF from
<1>6. \A j, k \in 1 .. n - 1 : j < k => channel'[j].serial < channel'[k].serial
  BY <1>3, <1>4, <1>5
<1>7. \A y \in seen, j \in 1 .. n - 1 : y < channel'[j].serial  BY <1>3, <1>4
<1> QED  BY <1>2, <1>6, <1>7 DEF Rising

LEMMA RisingRead ==
  ASSUME Typed, Rising, channel # <<>>, channel' = Tail(channel),
         seen' = seen \cup {channel[1].serial}
  PROVE  Rising' /\ channel[1].serial \in Nat \ {0} /\ \A y \in seen : y < channel[1].serial
<1> DEFINE n == Len(channel)
<1>1. /\ n \in Nat \ {0} /\ Len(channel') = n - 1
      /\ \A i \in 1 .. n - 1 : channel'[i] = channel[i + 1]
  BY HeadAndTail DEF Typed
<1>2. /\ \A i, j \in 1 .. n : i < j => channel[i].serial < channel[j].serial
      /\ \A y \in seen, i \in 1 .. n : y < channel[i].serial
  BY DEF Rising
<1>3. \A i \in 1 .. n : channel[i].serial \in 1 .. serial  BY SentMeans
<1> HIDE DEF n
<1>4. 1 \in 1 .. n /\ \A i \in 1 .. n - 1 : i + 1 \in 1 .. n /\ 1 < i + 1  BY <1>1
<1>5. ASSUME NEW i \in 1 .. n - 1, NEW j \in 1 .. n - 1, i < j
      PROVE  channel'[i].serial < channel'[j].serial
  <2>1. i + 1 < j + 1  BY <1>5
  <2> QED  BY <1>1, <1>2, <1>4, <2>1
<1>6. ASSUME NEW y \in seen', NEW i \in 1 .. n - 1 PROVE y < channel'[i].serial
  <2>1. CASE y \in seen  BY <1>1, <1>2, <1>4, <2>1
  <2>2. CASE y = channel[1].serial  BY <1>1, <1>2, <1>4, <2>2
  <2> QED  BY <2>1, <2>2
<1>7. Rising'  BY <1>1, <1>5, <1>6 DEF Rising
<1>8. channel[1].serial \in Nat \ {0}  BY <1>3, <1>4
<1> QED  BY <1>2, <1>4, <1>7, <1>8

LEMMA RisingSame ==
  ASSUME Rising, UNCHANGED <<channel, seen>>
  PROVE  Rising'
BY DEF Rising

(* An operation logs its record, or none, which is a fault.                *)
LEMMA LogMeans ==
  ASSUME NEW r, NEW kinds, Log(r, kinds)
  PROVE  /\ UNCHANGED <<analyzer, enabled, seen>>
         /\ \/ Logged(r) /\ enabled /\ faults' = faults \cup kinds
            \/ Silent /\ faults' = faults \cup kinds \cup {"unlogged"}
BY DEF Log, Logged, Silent, Numbered, Fault, history

(* Every step of the program but SetEnabled.                               *)
LEMMA OperationMeans ==
  ASSUME Typed,
         \/ \E s \in Sizes, bt \in Backtraces, a \in Addresses : Malloc(a, s, bt)
         \/ \E s \in Sizes, bt \in Backtraces, a \in DOMAIN inuse, b \in Addresses :
              Realloc(a, b, s, bt)
         \/ \E s \in Sizes, bt \in Backtraces :
              MallocFails(s, bt) \/ \E a \in DOMAIN inuse : ReallocFails(a, s, bt)
         \/ \E g \in Tags : Tag(g)
         \/ \E a \in DOMAIN inuse, bt \in FreeBacktraces : Free(a, bt)
  PROVE  \E r, kinds : Performs(r, kinds)
BY MallocMeans, ReallocMeans, FailureMeans, TagMeans, FreeMeans

LEMMA SerialsLog ==
  ASSUME Typed, Serials, NEW r, NEW kinds, Performs(r, kinds)
  PROVE  Serials'
<1>1. /\ r \in Records /\ UNCHANGED <<analyzer, seen>>
      /\ r.ev \in {"malloc", "realloc"} => r.size \in Sizes /\ r.bt \in Backtraces
      /\ \/ Logged(r) /\ faults' = faults \cup kinds
         \/ Silent /\ faults' = faults \cup kinds \cup {"unlogged"}
  BY LogMeans DEF Performs
<1> SUFFICES ASSUME "reordered" \notin faults' PROVE Rising' /\ Counted'  BY DEF Serials
<1>2. Rising /\ Counted  BY <1>1 DEF Serials
<1>3. Counted'  BY <1>1, <1>2, CountedSame DEF analyzer, serials
<1>4. CASE Logged(r)  BY <1>1, <1>2, <1>3, <1>4, RisingLog
<1>5. CASE Silent  BY <1>1, <1>2, <1>3, <1>5, RisingSame DEF Silent
<1> QED  BY <1>1, <1>4, <1>5

LEMMA SerialsRead ==
  ASSUME Typed, Serials, ReadNext
  PROVE  Serials'
<1> DEFINE r == Head(channel)
<1>1. /\ channel # <<>> /\ channel' = Tail(channel) /\ seen' = seen \cup {r.serial}
      /\ faults' = faults /\ lines' = lines + 1
      /\ current_serial' = IF current_serial = 0 THEN r.serial ELSE current_serial + 1
      /\ logs_lost' = IF r.serial > current_serial' THEN logs_lost + 1 ELSE logs_lost
  BY DEF ReadNext, Read, ReadSerial
<1>2. r = channel[1]  BY <1>1, HeadAndTail DEF Typed
<1> SUFFICES ASSUME "reordered" \notin faults PROVE Rising' /\ Counted'  BY <1>1 DEF Serials
<1>3. Rising /\ Counted  BY DEF Serials
<1>4. Rising' /\ r.serial \in Nat \ {0} /\ \A y \in seen : y < r.serial
  BY <1>1, <1>2, <1>3, RisingRead
<1> HIDE DEF r
<1>5. Counted'  BY <1>1, <1>3, <1>4, CountedRead
<1> QED  BY <1>4, <1>5

LEMMA SerialsInit == Init => Serials
<1> SUFFICES ASSUME Init PROVE Rising /\ Counted  BY DEF Serials
<1>1. seen = {} /\ lines = 0 /\ current_serial = 0 /\ logs_lost = 0 /\ Len(channel) = 1
  BY DEF Init, AInit
<1>2. Rising
  <2>1. \A i, j \in 1 .. 1 : ~(i < j)  OBVIOUS
  <2> QED  BY <1>1, <2>1 DEF Rising
<1>3. Counted
  <2>1. {y \in seen : Gapped(seen, y)} = {}  BY <1>1
  <2> QED  BY <1>1, <2>1, FS_EmptySet DEF Counted
<1> QED  BY <1>2, <1>3

LEMMA SerialsNext == Typed /\ Serials /\ [Next]_vars => Serials'
<1> SUFFICES ASSUME Typed, Serials, [Next]_vars PROVE Serials'  OBVIOUS
<1>1. ASSUME UNCHANGED <<seen, lines, current_serial, logs_lost, channel, faults>>
      PROVE  Serials'
  BY <1>1, CountedSame, RisingSame DEF Serials
<1>2. CASE \E r, kinds : Performs(r, kinds)  BY <1>2, SerialsLog
<1>3. CASE \E on \in BOOLEAN : SetEnabled(on)
  BY <1>1, <1>3 DEF SetEnabled, analyzer, serials, history
<1>4. ASSUME NEW i \in DOMAIN channel, Lose(i) PROVE Serials'
  <2>1. /\ channel' = RemoveAt(channel, i) /\ faults' = faults \cup {"lost"}
        /\ UNCHANGED <<analyzer, seen>>
    BY <1>4 DEF Lose, Fault, history
  <2> SUFFICES ASSUME "reordered" \notin faults PROVE Rising' /\ Counted'  BY <2>1 DEF Serials
  <2>2. Counted'  BY <2>1, CountedSame DEF Serials, analyzer, serials
  <2>3. Rising'  BY <2>1, RisingLose DEF Serials
  <2> QED  BY <2>2, <2>3
<1>5. ASSUME NEW i \in DOMAIN channel, Reorder(i) PROVE Serials'
  BY <1>5 DEF Reorder, Fault, Serials
<1>6. CASE ReadNext  BY <1>6, SerialsRead
<1>7. CASE UNCHANGED vars  BY <1>1, <1>7 DEF vars, analyzer, serials, history
<1> QED  BY <1>2, <1>3, <1>4, <1>5, <1>6, <1>7, OperationMeans DEF Next

LEMMA GapsMean ==
  ASSUME Typed, Counted
  PROVE  logs_lost = 0 <=> \A x, y \in seen : x .. y \subseteq seen
<1> DEFINE G == {y \in seen : Gapped(seen, y)}
<1>1. seen \subseteq 1 .. serial /\ serial \in Nat  BY DEF Typed
<1>2. IsFiniteSet(G)
  <2>1. G \in SUBSET (1 .. serial)  BY <1>1
  <2>2. IsFiniteSet(1 .. serial)  BY <1>1, FS_Interval
  <2> QED  BY <2>1, <2>2, FS_Subset
<1>3. logs_lost = Cardinality(G)  BY DEF Counted
<1>4. logs_lost = 0 <=> G = {}
  <2> HIDE DEF G
  <2> QED  BY <1>2, <1>3, FS_EmptySet
<1>5. ASSUME G = {}, NEW x \in seen, NEW y \in seen, NEW z \in x .. y PROVE z \in seen
  <2>1. x \in Nat /\ y \in Nat /\ x >= 1 /\ z \in Nat  BY <1>1
  <2>2. ~Gapped(seen, y)  BY <1>5
  <2>3. z # x => x < z /\ z \in 1 .. y  BY <2>1
  <2> QED  BY <2>2, <2>3 DEF Gapped
<1>6. ASSUME \A x, y \in seen : x .. y \subseteq seen, NEW y \in seen PROVE ~Gapped(seen, y)
  <2> SUFFICES ASSUME NEW s \in 1 .. y, NEW x \in seen, x < s PROVE s \in seen
    BY DEF Gapped
  <2>1. s \in x .. y  BY <1>1
  <2> QED  BY <1>6, <2>1
<1> QED  BY <1>4, <1>5, <1>6

(* As long as the network does not reorder datagrams, however many of them *)
(* it loses, memtraq.pl says that none is lost if and only if it has read  *)
(* all those between the first and the last one that it read: each record  *)
(* advances the serial expected by one, so that after the first gap every  *)
(* record is ahead of it.                                                  *)
THEOREM LossesNoticed == Spec => []LossNoticed
<1>1. Typed /\ Serials => LossNoticed  BY GapsMean DEF Serials, LossNoticed
<1> QED  BY <1>1, SerialsInit, SerialsNext, TypedInvariant, PTL DEF Spec

-----------------------------------------------------------------------------
(* What one more record changes in what a log says.                        *)

\* Record j of log t put what is now in the entry of address a.
Filler(t, j, a) ==
  /\ j \in 1 .. Len(t) /\ Fills(t, j, a)
  /\ \A k \in j + 1 .. Len(t) : ~Fills(t, k, a) /\ ~Empties(t, k, a)

\* Log t is log s and record r.
Extends(s, r, t) == s \in Seq(Logs) /\ r \in Logs /\ t = Append(s, r)

LEMMA OneMore ==
  ASSUME NEW s, NEW r, NEW t, Extends(s, r, t)
  PROVE  /\ Len(s) \in Nat /\ Len(t) = Len(s) + 1
         /\ DOMAIN s = 1 .. Len(s) /\ DOMAIN t = 1 .. Len(s) + 1
         /\ t \in Seq(Logs) /\ t[Len(s) + 1] = r
         /\ \A i \in 1 .. Len(s) : t[i] = s[i] /\ s[i] \in Logs
<1>1. s \in Seq(Logs) /\ r \in Logs /\ t = Append(s, r)  BY DEF Extends
<1>2. /\ t \in Seq(Logs) /\ Len(t) = Len(s) + 1 /\ t[Len(s) + 1] = r
      /\ \A i \in 1 .. Len(s) : t[i] = s[i]
  BY <1>1, Appended
<1>3. \A i \in 1 .. Len(s) : s[i] \in Logs  BY <1>1, ElementOfSeq
<1> QED  BY <1>1, <1>2, <1>3, LenProperties

(* What the records before it say stays said.                              *)
LEMMA SameBefore ==
  ASSUME NEW s, NEW r, NEW t, Extends(s, r, t), NEW i \in 1 .. Len(s), NEW a
  PROVE  /\ Fills(t, i, a) <=> Fills(s, i, a)
         /\ Empties(t, i, a) <=> Empties(s, i, a)
BY OneMore DEF Fills, Empties

LEMMA ReleasesBefore ==
  ASSUME NEW s, NEW r, NEW t, Extends(s, r, t), NEW i \in 1 .. Len(s), NEW j \in 1 .. Len(s) + 1
  PROVE  Releases(t, i, j) <=> j \in 1 .. Len(s) /\ Releases(s, i, j)
<1>1. Len(s) \in Nat /\ t[i] = s[i]  BY OneMore
<1>2. j < i => j \in 1 .. Len(s) /\ \A k \in j + 1 .. i - 1 : k \in 1 .. Len(s)  BY <1>1
<1>3. j \in 1 .. Len(s) => (Fills(t, j, s[i].ptr) <=> Fills(s, j, s[i].ptr))  BY SameBefore
<1>4. \A k \in 1 .. Len(s) : /\ Fills(t, k, s[i].ptr) <=> Fills(s, k, s[i].ptr)
                             /\ Empties(t, k, s[i].ptr) <=> Empties(s, k, s[i].ptr)
  BY SameBefore
<1> QED  BY <1>1, <1>2, <1>3, <1>4 DEF Releases

LEMMA ReleasesNow ==
  ASSUME NEW s, NEW r, NEW t, Extends(s, r, t), NEW j \in 1 .. Len(s) + 1
  PROVE  Releases(t, Len(s) + 1, j) <=> r.ev \in {"free", "realloc"} /\ Filler(s, j, r.ptr)
<1> DEFINE n == Len(s)
<1>1. n \in Nat /\ t[n + 1] = r  BY OneMore
<1>2. \A k \in 1 .. n : /\ Fills(t, k, r.ptr) <=> Fills(s, k, r.ptr)
                        /\ Empties(t, k, r.ptr) <=> Empties(s, k, r.ptr)
  BY SameBefore
<1>3. (n + 1) - 1 = n /\ (j < n + 1 <=> j \in 1 .. n)  BY <1>1
<1>4. j \in 1 .. n => \A k \in j + 1 .. n : k \in 1 .. n  BY <1>1
<1> QED  BY <1>1, <1>2, <1>3, <1>4 DEF Releases, Filler

(* At most one record put what is in an entry.                             *)
LEMMA FillerOnce ==
  ASSUME NEW s \in Seq(Logs), NEW i, NEW j, NEW a, Filler(s, i, a), Filler(s, j, a)
  PROVE  i = j
<1>1. Len(s) \in Nat /\ i \in 1 .. Len(s) /\ j \in 1 .. Len(s)  BY LenProperties DEF Filler
<1>2. Fills(s, i, a) /\ Fills(s, j, a)  BY DEF Filler
<1>3. ~(i < j)
  <2> SUFFICES ASSUME i < j PROVE FALSE  OBVIOUS
  <2>1. j \in i + 1 .. Len(s)  BY <1>1
  <2> QED  BY <1>2, <2>1 DEF Filler
<1>4. ~(j < i)
  <2> SUFFICES ASSUME j < i PROVE FALSE  OBVIOUS
  <2>1. i \in j + 1 .. Len(s)  BY <1>1
  <2> QED  BY <1>2, <2>1 DEF Filler
<1> QED  BY <1>1, <1>3, <1>4

LEMMA FillerNow ==
  ASSUME NEW s, NEW r, NEW t, Extends(s, r, t), NEW a, NEW j
  PROVE  Filler(t, j, a) <=>
           \/ j = Len(s) + 1 /\ Fills(t, j, a)
           \/ Filler(s, j, a) /\ ~Fills(t, Len(s) + 1, a) /\ ~Empties(t, Len(s) + 1, a)
<1> DEFINE n == Len(s)
<1>1. n \in Nat /\ Len(t) = n + 1  BY OneMore
<1>2. \A k \in 1 .. n : /\ Fills(t, k, a) <=> Fills(s, k, a)
                        /\ Empties(t, k, a) <=> Empties(s, k, a)
  BY SameBefore
<1> HIDE DEF n
<1>3. CASE j = n + 1
  <2>1. j \in 1 .. n + 1 /\ j \notin 1 .. n /\ \A k \in j + 1 .. n + 1 : FALSE  BY <1>1, <1>3
  <2> QED  BY <1>1, <1>3, <2>1 DEF Filler, n
<1>4. CASE j \in 1 .. n
  <2>1. /\ j \in 1 .. n + 1 /\ j # n + 1
        /\ \A k : k \in j + 1 .. n + 1 <=> k \in j + 1 .. n \/ k = n + 1
        /\ \A k \in j + 1 .. n : k \in 1 .. n
    BY <1>1, <1>4
  <2> QED  BY <1>1, <1>2, <1>4, <2>1 DEF Filler, n
<1>5. CASE j \notin 1 .. n /\ j # n + 1
  <2>1. j \notin 1 .. n + 1  BY <1>1, <1>5
  <2> QED  BY <1>1, <1>5, <2>1 DEF Filler, n
<1> QED  BY <1>3, <1>4, <1>5

\* Table c has what the records of log t left in it.
Leaves(t, c) ==
  /\ \A a \in DOMAIN c : \E j \in 1 .. Len(t) : Filler(t, j, a)
  /\ \A a, j : Filler(t, j, a) => a \in DOMAIN c /\ c[a] = Block(t[j].size, t[j].bt)

(* A record that fills an entry, one that empties one, and any other.      *)
LEMMA LeavesPut ==
  ASSUME NEW s, NEW r, NEW t, Extends(s, r, t), NEW c, Leaves(s, c), NEW b,
         \A a : Fills(t, Len(s) + 1, a) <=> a = b,
         \A a : ~Empties(t, Len(s) + 1, a)
  PROVE  Leaves(t, Put(c, b, Block(r.size, r.bt)))
<1> DEFINE n == Len(s)
           d == Put(c, b, Block(r.size, r.bt))
<1>1. /\ n \in Nat /\ Len(t) = n + 1 /\ t[n + 1] = r
      /\ \A i \in 1 .. n : t[i] = s[i]
  BY OneMore
<1>2. \A a, j : Filler(t, j, a) <=> (j = n + 1 /\ a = b) \/ (Filler(s, j, a) /\ a # b)
  BY FillerNow
<1>3. /\ DOMAIN d = DOMAIN c \cup {b} /\ d[b] = Block(r.size, r.bt)
      /\ \A x \in DOMAIN c \ {b} : d[x] = c[x]
  BY DEF Put
<1> HIDE DEF d
<1>4. ASSUME NEW a \in DOMAIN d PROVE \E j \in 1 .. n + 1 : Filler(t, j, a)
  <2>1. CASE a = b  BY <1>1, <1>2, <2>1
  <2>2. CASE a # b
    <3>1. PICK j \in 1 .. n : Filler(s, j, a)  BY <1>3, <2>2 DEF Leaves
    <3> QED  BY <1>1, <1>2, <2>2, <3>1
  <2> QED  BY <2>1, <2>2
<1>5. ASSUME NEW a, NEW j, Filler(t, j, a)
      PROVE  a \in DOMAIN d /\ d[a] = Block(t[j].size, t[j].bt)
  <2>1. CASE j = n + 1 /\ a = b  BY <1>1, <1>3, <2>1
  <2>2. CASE Filler(s, j, a) /\ a # b
    <3>1. j \in 1 .. n  BY <2>2 DEF Filler
    <3>2. a \in DOMAIN c /\ c[a] = Block(s[j].size, s[j].bt)  BY <2>2 DEF Leaves
    <3> QED  BY <1>1, <1>3, <2>2, <3>1, <3>2
  <2> QED  BY <1>2, <1>5, <2>1, <2>2
<1> QED  BY <1>1, <1>4, <1>5 DEF Leaves, d

LEMMA LeavesDelete ==
  ASSUME NEW s, NEW r, NEW t, Extends(s, r, t), NEW c, Leaves(s, c), NEW b, NEW d,
         \A a : ~Fills(t, Len(s) + 1, a),
         \A a : Empties(t, Len(s) + 1, a) <=> a = b,
         DOMAIN d = DOMAIN c \ {b}, \A x \in DOMAIN d : d[x] = c[x]
  PROVE  Leaves(t, d)
<1> DEFINE n == Len(s)
<1>1. n \in Nat /\ Len(t) = n + 1 /\ \A i \in 1 .. n : t[i] = s[i]  BY OneMore
<1>2. \A a, j : Filler(t, j, a) <=> Filler(s, j, a) /\ a # b  BY FillerNow
<1>3. ASSUME NEW a \in DOMAIN d PROVE \E j \in 1 .. n + 1 : Filler(t, j, a)
  <2>1. PICK j \in 1 .. n : Filler(s, j, a)  BY DEF Leaves
  <2> QED  BY <1>1, <1>2, <2>1
<1>4. ASSUME NEW a, NEW j, Filler(t, j, a)
      PROVE  a \in DOMAIN d /\ d[a] = Block(t[j].size, t[j].bt)
  <2>1. Filler(s, j, a) /\ a # b  BY <1>2, <1>4
  <2>2. j \in 1 .. n  BY <2>1 DEF Filler
  <2>3. a \in DOMAIN c /\ c[a] = Block(s[j].size, s[j].bt)  BY <2>1 DEF Leaves
  <2> QED  BY <1>1, <2>1, <2>2, <2>3
<1> QED  BY <1>1, <1>3, <1>4 DEF Leaves

LEMMA LeavesAlone ==
  ASSUME NEW s, NEW r, NEW t, Extends(s, r, t), NEW c, Leaves(s, c),
         \A a : ~Fills(t, Len(s) + 1, a) /\ ~Empties(t, Len(s) + 1, a)
  PROVE  Leaves(t, c)
<1> DEFINE n == Len(s)
<1>1. n \in Nat /\ Len(t) = n + 1 /\ \A i \in 1 .. n : t[i] = s[i]  BY OneMore
<1>2. \A a, j : Filler(t, j, a) <=> Filler(s, j, a)  BY FillerNow
<1>3. \A a, j : Filler(s, j, a) => j \in 1 .. n  BY DEF Filler
<1>4. \A j \in 1 .. n : j \in 1 .. n + 1  BY <1>1
<1> QED  BY <1>1, <1>2, <1>3, <1>4 DEF Leaves

-----------------------------------------------------------------------------
(* Allocations, releases and frees of nothing, by callstack.               *)

LEMMA Inserted ==
  ASSUME NEW S, IsFiniteSet(S), NEW x, x \notin S
  PROVE  /\ IsFiniteSet(S \cup {x}) /\ Cardinality(S) \in Nat
         /\ Cardinality(S \cup {x}) = Cardinality(S) + 1
BY FS_AddElement, FS_CardinalityType

\* x is new to S, and the numbers e are f and an integer for x.
Inserts(S, f, x, e) ==
  /\ IsFiniteSet(S) /\ x \notin S /\ e[x] \in Int
  /\ \A y \in S : f[y] \in Int /\ e[y] = f[y]

LEMMA SumInserted ==
  ASSUME NEW S, NEW f, NEW x, NEW e, Inserts(S, f, x, e)
  PROVE  SumOver(f, S) \in Int /\ SumOver(e, S \cup {x}) = SumOver(f, S) + e[x]
<1>0. /\ IsFiniteSet(S) /\ x \notin S /\ e[x] \in Int
      /\ \A y \in S : f[y] \in Int /\ e[y] = f[y]
  BY DEF Inserts
<1>1. PICK T : T = S \cup {x}  OBVIOUS
<1>2. IsFiniteSet(T)  BY <1>0, <1>1, FS_AddElement
<1>3. x \in T /\ \A y \in T : e[y] \in Int  BY <1>0, <1>1
<1>4. /\ SumOver(e, T) \in Int /\ SumOver(e, T \ {x}) \in Int
      /\ SumOver(e, T) = e[x] + SumOver(e, T \ {x})
  <2>1. x \in T  BY <1>3
  <2>2. \A y \in T : e[y] \in Int  BY <1>3
  <2> QED  BY ONLY <1>2, <2>1, <2>2, SumTake
<1>5. T \ {x} = S  BY <1>0, <1>1
<1>6. SumOver(e, S) \in Int /\ SumOver(e, T) = e[x] + SumOver(e, S)  BY <1>4, <1>5
<1>7. SumOver(e, S) = SumOver(f, S)  BY <1>0, SumSame
<1>8. e[x] \in Int  BY <1>0
<1>9. SumOver(e, T) = SumOver(f, S) + e[x] /\ SumOver(f, S) \in Int
  BY ONLY <1>6, <1>7, <1>8
<1> QED  BY <1>1, <1>9

LEMMA FewRecords ==
  ASSUME NEW t \in Seq(Logs), NEW bt
  PROVE  /\ IsFiniteSet(Allocated(t, bt)) /\ IsFiniteSet(Released(t, bt))
         /\ IsFiniteSet(Unmatched(t, bt))
<1>1. DOMAIN t = 1 .. Len(t) /\ Len(t) \in Nat  BY LenProperties
<1>2. IsFiniteSet(DOMAIN t)  BY <1>1, FS_Interval
<1>3. IsFiniteSet((DOMAIN t) \X (DOMAIN t))  BY <1>2, FS_Product
<1>4. Allocated(t, bt) \in SUBSET DOMAIN t  BY DEF Allocated
<1>5. Unmatched(t, bt) \in SUBSET DOMAIN t  BY DEF Unmatched
<1>6. Released(t, bt) \in SUBSET ((DOMAIN t) \X (DOMAIN t))  BY DEF Released
<1>7. IsFiniteSet(Released(t, bt))  BY <1>3, <1>6, FS_Subset
<1> QED  BY <1>2, <1>4, <1>5, <1>7, FS_Subset

\* A release is by a record before the end, of what an earlier one put there.
LEMMA ReleasedMeans ==
  ASSUME NEW t, NEW bt, NEW p \in Released(t, bt)
  PROVE  /\ p[1] \in DOMAIN t /\ p[2] \in DOMAIN t /\ p = <<p[1], p[2]>>
         /\ t[p[2]].ev \in {"malloc", "realloc"}
BY DEF Released, Releases, Fills

LEMMA AllocatedNow ==
  ASSUME NEW s, NEW r, NEW t, Extends(s, r, t), NEW bt
  PROVE  Allocated(t, bt) = Allocated(s, bt)
           \cup (IF r.ev \in {"malloc", "realloc"} /\ r.bt = bt THEN {Len(s) + 1} ELSE {})
<1> DEFINE n == Len(s)
<1>1. /\ n \in Nat /\ DOMAIN s = 1 .. n /\ DOMAIN t = 1 .. n + 1 /\ t[n + 1] = r
      /\ \A i \in 1 .. n : t[i] = s[i]
  BY OneMore
<1> HIDE DEF n
<1>2. \A i : i \in 1 .. n + 1 <=> i \in 1 .. n \/ i = n + 1  BY <1>1
<1>3. n + 1 \notin 1 .. n  BY <1>1
<1> QED  BY <1>1, <1>2, <1>3 DEF Allocated, n

LEMMA ReleasedNow ==
  ASSUME NEW s, NEW r, NEW t, Extends(s, r, t), NEW bt, NEW p
  PROVE  p \in Released(t, bt) <=>
           \/ p \in Released(s, bt)
           \/ \E j \in 1 .. Len(s) : /\ p = <<Len(s) + 1, j>> /\ s[j].bt = bt
                                     /\ r.ev \in {"free", "realloc"} /\ Filler(s, j, r.ptr)
<1> DEFINE n == Len(s)
<1>1. /\ n \in Nat /\ DOMAIN s = 1 .. n /\ DOMAIN t = 1 .. n + 1
      /\ \A i \in 1 .. n : t[i] = s[i]
  BY OneMore
<1>2. \A i \in 1 .. n, j \in 1 .. n + 1 : Releases(t, i, j) <=> j \in 1 .. n /\ Releases(s, i, j)
  BY ReleasesBefore
<1>3. \A j \in 1 .. n + 1 :
        Releases(t, n + 1, j) <=> r.ev \in {"free", "realloc"} /\ Filler(s, j, r.ptr)
  BY ReleasesNow
<1>4. \A j : Filler(s, j, r.ptr) => j \in 1 .. n  BY DEF Filler
<1> HIDE DEF n
<1>5. (\A i \in 1 .. n : i \in 1 .. n + 1) /\ n + 1 \in 1 .. n + 1 /\ n + 1 \notin 1 .. n
  BY <1>1
<1>6. \A i \in 1 .. n + 1 : i \in 1 .. n \/ i = n + 1  BY <1>1
<1>7. ASSUME p \in Released(t, bt)
      PROVE  \/ p \in Released(s, bt)
             \/ \E j \in 1 .. n : /\ p = <<n + 1, j>> /\ s[j].bt = bt
                                  /\ r.ev \in {"free", "realloc"} /\ Filler(s, j, r.ptr)
  <2>1. PICK i \in 1 .. n + 1, j \in 1 .. n + 1 : p = <<i, j>>
    BY <1>1, <1>7 DEF Released
  <2>2. Releases(t, i, j) /\ t[j].bt = bt  BY <1>7, <2>1 DEF Released
  <2>3. CASE i \in 1 .. n
    <3>1. j \in 1 .. n /\ Releases(s, i, j) /\ s[j].bt = bt  BY <1>1, <1>2, <2>2, <2>3
    <3> QED  BY <1>1, <2>1, <2>3, <3>1 DEF Released
  <2>4. CASE i = n + 1
    <3>1. r.ev \in {"free", "realloc"} /\ Filler(s, j, r.ptr) /\ j \in 1 .. n
      BY <1>3, <1>4, <2>2, <2>4
    <3> QED  BY <1>1, <2>1, <2>2, <2>4, <3>1
  <2> QED  BY <1>6, <2>3, <2>4
<1>8. ASSUME p \in Released(s, bt) PROVE p \in Released(t, bt)
  <2>1. PICK i \in 1 .. n, j \in 1 .. n : p = <<i, j>>  BY <1>1, <1>8 DEF Released
  <2>2. Releases(s, i, j) /\ s[j].bt = bt  BY <1>8, <2>1 DEF Released
  <2>3. Releases(t, i, j) /\ t[j].bt = bt /\ i \in 1 .. n + 1 /\ j \in 1 .. n + 1
    BY <1>1, <1>2, <1>5, <2>2
  <2> QED  BY <1>1, <2>1, <2>3 DEF Released
<1>9. ASSUME NEW j \in 1 .. n, p = <<n + 1, j>>, s[j].bt = bt,
             r.ev \in {"free", "realloc"}, Filler(s, j, r.ptr)
      PROVE  p \in Released(t, bt)
  <2>1. j \in 1 .. n + 1 /\ t[j].bt = bt  BY <1>1, <1>5, <1>9
  <2>2. Releases(t, n + 1, j)  BY <1>3, <1>9, <2>1
  <2> QED  BY <1>1, <1>5, <1>9, <2>1, <2>2 DEF Released
<1> QED  BY <1>7, <1>8, <1>9 DEF n

LEMMA UnmatchedNow ==
  ASSUME NEW s, NEW r, NEW t, Extends(s, r, t), NEW bt
  PROVE  Unmatched(t, bt) = Unmatched(s, bt)
           \cup (IF r.ev = "free" /\ r.bt = bt /\ ~ \E j \in 1 .. Len(s) : Filler(s, j, r.ptr)
                 THEN {Len(s) + 1} ELSE {})
<1> DEFINE n == Len(s)
<1>1. /\ n \in Nat /\ DOMAIN s = 1 .. n /\ DOMAIN t = 1 .. n + 1 /\ t[n + 1] = r
      /\ \A i \in 1 .. n : t[i] = s[i]
  BY OneMore
<1>2. \A i \in 1 .. n, j \in 1 .. n + 1 : Releases(t, i, j) <=> j \in 1 .. n /\ Releases(s, i, j)
  BY ReleasesBefore
<1>3. \A j \in 1 .. n + 1 :
        Releases(t, n + 1, j) <=> r.ev \in {"free", "realloc"} /\ Filler(s, j, r.ptr)
  BY ReleasesNow
<1>4. \A j : Filler(s, j, r.ptr) => j \in 1 .. n  BY DEF Filler
<1> HIDE DEF n
<1>5. (\A i \in 1 .. n : i \in 1 .. n + 1) /\ n + 1 \in 1 .. n + 1 /\ n + 1 \notin 1 .. n
      /\ \A i \in 1 .. n + 1 : i \in 1 .. n \/ i = n + 1
  BY <1>1
<1>6. ASSUME NEW i \in 1 .. n PROVE i \in Unmatched(t, bt) <=> i \in Unmatched(s, bt)
  <2>1. (\A j \in 1 .. n + 1 : ~Releases(t, i, j)) <=> \A j \in 1 .. n : ~Releases(s, i, j)
    BY <1>2, <1>5
  <2> QED  BY <1>1, <1>5, <2>1 DEF Unmatched
<1>7. n + 1 \in Unmatched(t, bt) <=>
        r.ev = "free" /\ r.bt = bt /\ ~ \E j \in 1 .. n : Filler(s, j, r.ptr)
  BY <1>1, <1>3, <1>4, <1>5 DEF Unmatched
<1>8. Unmatched(t, bt) \subseteq 1 .. n + 1 /\ Unmatched(s, bt) \subseteq 1 .. n
  BY <1>1 DEF Unmatched
<1> QED  BY <1>5, <1>6, <1>7, <1>8 DEF n

-----------------------------------------------------------------------------
(* The accounts of the callstacks.                                         *)

\* Bytes of all the callstacks of h.
Held(h) == SumOver([bt \in Backtraces |-> h[bt].size], Backtraces)

LEMMA GainMeans ==
  ASSUME NEW h \in Hotspots, NEW bt \in Backtraces, NEW s \in Int
  PROVE  LET g == Gain(h, bt, s)
         IN \A x \in Backtraces :
              IF x = bt THEN /\ g[x].size = h[x].size + s
                             /\ g[x].allocs = h[x].allocs + 1 /\ g[x].frees = h[x].frees
                        ELSE g[x] = h[x]
BY DEF Gain, Hotspots

LEMMA ReleaseMeans ==
  ASSUME NEW h \in Hotspots, NEW bt \in Backtraces, NEW s \in Int
  PROVE  LET g == Release(h, bt, s)
         IN \A x \in Backtraces :
              IF x = bt THEN /\ g[x].size = h[x].size - s
                             /\ g[x].allocs = h[x].allocs /\ g[x].frees = h[x].frees + 1
                        ELSE g[x] = h[x]
BY DEF Release, Hotspots

LEMMA HeldChange ==
  ASSUME NEW h \in Hotspots, NEW g \in Hotspots, NEW bt \in Backtraces,
         \A x \in Backtraces \ {bt} : g[x] = h[x]
  PROVE  Held(g) = Held(h) - h[bt].size + g[bt].size
<1> DEFINE f == [x \in Backtraces |-> h[x].size]
           e == [x \in Backtraces |-> g[x].size]
<1>1. \A k \in Hotspots, x \in Backtraces : k[x].size \in Int  BY DEF Hotspots
<1>2. /\ \A x \in Backtraces : f[x] \in Int /\ e[x] \in Int
      /\ \A x \in Backtraces \ {bt} : f[x] = e[x]
      /\ f[bt] = h[bt].size /\ e[bt] = g[bt].size
  BY <1>1
<1> HIDE DEF f, e
<1>3. SumOver(e, Backtraces) = SumOver(f, Backtraces) - f[bt] + e[bt]
  BY <1>2, BacktraceAssumption, SumChange
<1> QED  BY <1>2, <1>3 DEF Held, f, e

LEMMA HeldTyped ==
  ASSUME NEW h \in Hotspots
  PROVE  Held(h) \in Int
<1>1. \A x \in Backtraces : h[x].size \in Int  BY DEF Hotspots
<1> QED  BY <1>1, BacktraceAssumption, SumType DEF Held

LEMMA GainHeld ==
  ASSUME NEW h \in Hotspots, NEW bt \in Backtraces, NEW s \in Int
  PROVE  Gain(h, bt, s) \in Hotspots /\ Held(Gain(h, bt, s)) = Held(h) + s
<1> DEFINE g == Gain(h, bt, s)
<1>1. g \in Hotspots  BY HotspotsTyped
<1>2. (\A x \in Backtraces \ {bt} : g[x] = h[x]) /\ g[bt].size = h[bt].size + s  BY GainMeans
<1> HIDE DEF g
<1>3. h[bt].size \in Int  BY DEF Hotspots
<1>4. Held(g) = Held(h) - h[bt].size + g[bt].size  BY <1>1, <1>2, HeldChange
<1>5. Held(h) \in Int  BY HeldTyped
<1>6. Held(g) = Held(h) + s  BY <1>2, <1>3, <1>4, <1>5
<1> QED  BY <1>1, <1>6 DEF g

LEMMA ReleaseHeld ==
  ASSUME NEW h \in Hotspots, NEW bt \in Backtraces, NEW s \in Int
  PROVE  Release(h, bt, s) \in Hotspots /\ Held(Release(h, bt, s)) = Held(h) - s
<1> DEFINE g == Release(h, bt, s)
<1>1. g \in Hotspots  BY HotspotsTyped
<1>2. (\A x \in Backtraces \ {bt} : g[x] = h[x]) /\ g[bt].size = h[bt].size - s  BY ReleaseMeans
<1> HIDE DEF g
<1>3. h[bt].size \in Int  BY DEF Hotspots
<1>4. Held(g) = Held(h) - h[bt].size + g[bt].size  BY <1>1, <1>2, HeldChange
<1>5. Held(h) \in Int  BY HeldTyped
<1>6. Held(g) = Held(h) - s  BY <1>2, <1>3, <1>4, <1>5
<1> QED  BY <1>1, <1>6 DEF g

\* The bytes that log t says callstack bt allocated, and those released of
\* its blocks.
Made(t, bt) == SumOver([j \in Allocated(t, bt) |-> t[j].size], Allocated(t, bt))
Gone(t, bt) == SumOver([p \in Released(t, bt) |-> t[p[2]].size], Released(t, bt))

\* The accounts h are those of the allocations of log s and the releases of t.
Charged(s, t, h) ==
  \A bt \in Backtraces : /\ h[bt].allocs = Cardinality(Allocated(s, bt))
                         /\ h[bt].frees = Cardinality(Released(t, bt))
                         /\ h[bt].size = Made(s, bt) - Gone(t, bt)

\* The frees u of no block are those of log t.
Strangers(t, u) == \A bt \in Stacks : u[bt] = Cardinality(Unmatched(t, bt))

LEMMA SizeKnown ==
  ASSUME NEW t \in Seq(Logs), NEW j \in 1 .. Len(t), t[j].ev \in {"malloc", "realloc"}
  PROVE  t[j].size \in Nat /\ t[j].bt \in Backtraces
<1>1. t[j] \in Logs  BY ElementOfSeq
<1> QED  BY <1>1 DEF Logs, Records

LEMMA BytesLogged ==
  ASSUME NEW t \in Seq(Logs), NEW bt
  PROVE  /\ Made(t, bt) \in Int /\ Gone(t, bt) \in Int
         /\ Cardinality(Allocated(t, bt)) \in Nat /\ Cardinality(Released(t, bt)) \in Nat
<1>1. IsFiniteSet(Allocated(t, bt)) /\ IsFiniteSet(Released(t, bt))  BY FewRecords
<1>2. DOMAIN t = 1 .. Len(t)  BY LenProperties
<1>3. Made(t, bt) \in Int
  <2> DEFINE f == [j \in Allocated(t, bt) |-> t[j].size]
  <2>1. \A j \in Allocated(t, bt) : f[j] \in Int  BY <1>2, SizeKnown DEF Allocated
  <2> HIDE DEF f
  <2> QED  BY <1>1, <2>1, SumType DEF Made, f
<1>4. Gone(t, bt) \in Int
  <2> DEFINE f == [p \in Released(t, bt) |-> t[p[2]].size]
  <2>1. \A p \in Released(t, bt) : f[p] \in Int  BY <1>2, ReleasedMeans, SizeKnown
  <2> HIDE DEF f
  <2> QED  BY <1>1, <2>1, SumType DEF Gone, f
<1> QED  BY <1>1, <1>3, <1>4, FS_CardinalityType

(* One more record adds its own bytes, if any, and takes away those of the *)
(* block that it releases, if any.                                         *)
LEMMA MadeNow ==
  ASSUME NEW s, NEW r, NEW t, Extends(s, r, t), NEW bt
  PROVE  IF r.ev \in {"malloc", "realloc"} /\ r.bt = bt
         THEN /\ Made(t, bt) = Made(s, bt) + r.size
              /\ Cardinality(Allocated(t, bt)) = Cardinality(Allocated(s, bt)) + 1
         ELSE /\ Made(t, bt) = Made(s, bt)
              /\ Allocated(t, bt) = Allocated(s, bt)
<1> DEFINE n == Len(s)
           A == Allocated(s, bt)
           f == [j \in A |-> s[j].size]
<1>1. /\ n \in Nat /\ DOMAIN s = 1 .. n /\ t[n + 1] = r /\ s \in Seq(Logs)
      /\ \A i \in 1 .. n : t[i] = s[i]
  BY OneMore DEF Extends
<1>2. IsFiniteSet(A)  BY <1>1, FewRecords
<1>3. A \subseteq 1 .. n /\ n + 1 \notin A  BY <1>1 DEF Allocated
<1>4. \A j \in A : f[j] \in Int /\ f[j] = t[j].size  BY <1>1, <1>3, SizeKnown DEF Allocated
<1>5. Made(s, bt) = SumOver(f, A)  BY DEF Made
<1>6. CASE r.ev \in {"malloc", "realloc"} /\ r.bt = bt
  <2> DEFINE m == n + 1
             e == [j \in A \cup {m} |-> t[j].size]
  <2>1. Allocated(t, bt) = A \cup {m}  BY <1>6, AllocatedNow
  <2>2. r.size \in Int  BY <1>6 DEF Extends, Logs, Records
  <2>3. (\A j \in A : f[j] \in Int /\ e[j] = f[j]) /\ e[m] = r.size /\ e[m] \in Int
    BY <1>1, <1>4, <2>2
  <2>4. Made(t, bt) = SumOver(e, A \cup {m})  BY <2>1 DEF Made
  <2>5. m \notin A  BY <1>3
  <2> HIDE DEF A, f, e, m, n
  <2>6. SumOver(f, A) \in Int /\ SumOver(e, A \cup {m}) = SumOver(f, A) + e[m]
    <3>1. Inserts(A, f, m, e)  BY <1>2, <2>3, <2>5 DEF Inserts
    <3> QED  BY <3>1, SumInserted
  <2>7. Cardinality(A \cup {m}) = Cardinality(A) + 1  BY <1>2, <2>5, Inserted
  <2> QED  BY <1>5, <1>6, <2>1, <2>3, <2>4, <2>6, <2>7 DEF A
<1>7. CASE ~(r.ev \in {"malloc", "realloc"} /\ r.bt = bt)
  <2>0. Allocated(t, bt)
          = A \cup (IF r.ev \in {"malloc", "realloc"} /\ r.bt = bt THEN {n + 1} ELSE {})
    BY AllocatedNow
  <2>1. Allocated(t, bt) = A  BY <1>7, <2>0
  <2>2. [j \in A |-> t[j].size] = f  BY <1>4
  <2> QED  BY <1>5, <1>7, <2>1, <2>2 DEF Made
<1> QED  BY <1>6, <1>7

LEMMA GoneNow ==
  ASSUME NEW s, NEW r, NEW t, Extends(s, r, t), NEW bt, NEW j,
         r.ev \in {"free", "realloc"}, Filler(s, j, r.ptr)
  PROVE  IF s[j].bt = bt
         THEN /\ Gone(t, bt) = Gone(s, bt) + s[j].size
              /\ Cardinality(Released(t, bt)) = Cardinality(Released(s, bt)) + 1
         ELSE /\ Gone(t, bt) = Gone(s, bt)
              /\ Released(t, bt) = Released(s, bt)
<1> DEFINE n == Len(s)
           q == <<n + 1, j>>
           R == Released(s, bt)
           f == [p \in R |-> s[p[2]].size]
<1>1. /\ n \in Nat /\ DOMAIN s = 1 .. n /\ s \in Seq(Logs)
      /\ \A i \in 1 .. n : t[i] = s[i]
  BY OneMore DEF Extends
<1>2. j \in 1 .. n /\ s[j].ev \in {"malloc", "realloc"}  BY DEF Filler, Fills
<1>3. s[j].size \in Int  BY <1>1, <1>2, SizeKnown
<1>4. IsFiniteSet(R)  BY <1>1, FewRecords
<1>5. \A p \in R : p[1] \in 1 .. n /\ p[2] \in 1 .. n /\ s[p[2]].ev \in {"malloc", "realloc"}
  BY <1>1, ReleasedMeans
<1>6. q \notin R
  <2>1. q[1] = n + 1 /\ n + 1 \notin 1 .. n  BY <1>1
  <2> QED  BY <1>5, <2>1
<1>7. \A p \in R : f[p] \in Int /\ f[p] = t[p[2]].size  BY <1>1, <1>5, SizeKnown
<1>8. Gone(s, bt) = SumOver(f, R)  BY DEF Gone
<1>9. Released(t, bt) = R \cup (IF s[j].bt = bt THEN {q} ELSE {})
  <2>1. \A k \in 1 .. n : Filler(s, k, r.ptr) => k = j  BY <1>1, FillerOnce
  <2>2. ASSUME NEW p
        PROVE  p \in Released(t, bt) <=> p \in R \/ (p = q /\ s[j].bt = bt)
    BY <1>2, <2>1, ReleasedNow
  <2> QED  BY <2>2
<1>10. CASE s[j].bt = bt
  <2> DEFINE e == [p \in R \cup {q} |-> t[p[2]].size]
  <2>1. Released(t, bt) = R \cup {q}  BY <1>9, <1>10
  <2>2. q[2] = j  OBVIOUS
  <2>3. (\A p \in R : f[p] \in Int /\ e[p] = f[p]) /\ e[q] = s[j].size
    BY <1>1, <1>2, <1>7, <2>2
  <2>4. Gone(t, bt) = SumOver(e, R \cup {q})  BY <2>1 DEF Gone
  <2> HIDE DEF R, f, e, q, n
  <2>5. SumOver(f, R) \in Int /\ SumOver(e, R \cup {q}) = SumOver(f, R) + e[q]
    <3>1. Inserts(R, f, q, e)  BY <1>3, <1>4, <1>6, <2>3 DEF Inserts
    <3> QED  BY <3>1, SumInserted
  <2>6. Cardinality(R \cup {q}) = Cardinality(R) + 1  BY <1>4, <1>6, Inserted
  <2> QED  BY <1>8, <1>10, <2>1, <2>3, <2>4, <2>5, <2>6 DEF R
<1>11. CASE s[j].bt # bt
  <2>1. Released(t, bt) = R  BY <1>9, <1>11
  <2>2. [p \in R |-> t[p[2]].size] = f  BY <1>7
  <2> QED  BY <1>8, <1>11, <2>1, <2>2 DEF Gone
<1> QED  BY <1>10, <1>11

LEMMA GoneSame ==
  ASSUME NEW s, NEW r, NEW t, Extends(s, r, t), NEW bt,
         ~(r.ev \in {"free", "realloc"} /\ \E j \in 1 .. Len(s) : Filler(s, j, r.ptr))
  PROVE  Gone(t, bt) = Gone(s, bt) /\ Released(t, bt) = Released(s, bt)
<1>1. /\ DOMAIN s = 1 .. Len(s) /\ s \in Seq(Logs)
      /\ \A i \in 1 .. Len(s) : t[i] = s[i]
  BY OneMore DEF Extends
<1>2. Released(t, bt) = Released(s, bt)
  <2>1. ASSUME NEW p PROVE p \in Released(t, bt) <=> p \in Released(s, bt)  BY ReleasedNow
  <2> QED  BY <2>1
<1>3. \A p \in Released(s, bt) : t[p[2]].size = s[p[2]].size  BY <1>1, ReleasedMeans
<1>4. [p \in Released(s, bt) |-> t[p[2]].size] = [p \in Released(s, bt) |-> s[p[2]].size]
  BY <1>3
<1> QED  BY <1>2, <1>4 DEF Gone

(* What is released is charged to the callstack that allocated it.         *)
LEMMA ChargedRelease ==
  ASSUME NEW s, NEW r, NEW t, Extends(s, r, t), NEW h \in Hotspots, Charged(s, s, h),
         NEW j, r.ev \in {"free", "realloc"}, Filler(s, j, r.ptr)
  PROVE  /\ s[j].bt \in Backtraces /\ s[j].size \in Nat
         /\ Charged(s, t, Release(h, s[j].bt, s[j].size))
<1> DEFINE g == Release(h, s[j].bt, s[j].size)
<1>1. s \in Seq(Logs) /\ j \in 1 .. Len(s) /\ s[j].ev \in {"malloc", "realloc"}
  BY DEF Extends, Filler, Fills
<1>2. s[j].bt \in Backtraces /\ s[j].size \in Nat  BY <1>1, SizeKnown
<1>3. \A x \in Backtraces :
        IF x = s[j].bt THEN /\ g[x].size = h[x].size - s[j].size
                            /\ g[x].allocs = h[x].allocs /\ g[x].frees = h[x].frees + 1
                       ELSE g[x] = h[x]
  BY <1>2, ReleaseMeans
<1> HIDE DEF g
<1>4. ASSUME NEW x \in Backtraces
      PROVE  /\ g[x].allocs = Cardinality(Allocated(s, x))
             /\ g[x].frees = Cardinality(Released(t, x))
             /\ g[x].size = Made(s, x) - Gone(t, x)
  <2>1. /\ h[x].allocs = Cardinality(Allocated(s, x))
        /\ h[x].frees = Cardinality(Released(s, x))
        /\ h[x].size = Made(s, x) - Gone(s, x)
    BY DEF Charged
  <2>2. Made(s, x) \in Int /\ Gone(s, x) \in Int  BY <1>1, BytesLogged
  <2>3. IF s[j].bt = x
        THEN /\ Gone(t, x) = Gone(s, x) + s[j].size
             /\ Cardinality(Released(t, x)) = Cardinality(Released(s, x)) + 1
        ELSE Gone(t, x) = Gone(s, x) /\ Released(t, x) = Released(s, x)
    BY GoneNow
  <2>4. CASE s[j].bt = x  BY <1>2, <1>3, <2>1, <2>2, <2>3, <2>4
  <2>5. CASE s[j].bt # x  BY <1>3, <2>1, <2>3, <2>5
  <2> QED  BY <2>4, <2>5
<1> QED  BY <1>2, <1>4 DEF Charged, g

LEMMA ChargedNoRelease ==
  ASSUME NEW s, NEW r, NEW t, Extends(s, r, t), NEW h, Charged(s, s, h),
         ~(r.ev \in {"free", "realloc"} /\ \E j \in 1 .. Len(s) : Filler(s, j, r.ptr))
  PROVE  Charged(s, t, h)
<1>1. \A bt \in Backtraces : Gone(t, bt) = Gone(s, bt) /\ Released(t, bt) = Released(s, bt)
  BY GoneSame
<1> QED  BY <1>1 DEF Charged

LEMMA ChargedGain ==
  ASSUME NEW s, NEW r, NEW t, Extends(s, r, t), NEW h \in Hotspots, Charged(s, t, h),
         r.ev \in {"malloc", "realloc"}
  PROVE  Charged(t, t, Gain(h, r.bt, r.size))
<1> DEFINE g == Gain(h, r.bt, r.size)
<1>1. r.bt \in Backtraces /\ r.size \in Nat  BY DEF Extends, Logs, Records
<1>2. \A x \in Backtraces :
        IF x = r.bt THEN /\ g[x].size = h[x].size + r.size
                         /\ g[x].allocs = h[x].allocs + 1 /\ g[x].frees = h[x].frees
                    ELSE g[x] = h[x]
  BY <1>1, GainMeans
<1> HIDE DEF g
<1>3. s \in Seq(Logs) /\ t \in Seq(Logs)  BY OneMore DEF Extends
<1>4. ASSUME NEW x \in Backtraces
      PROVE  /\ g[x].allocs = Cardinality(Allocated(t, x))
             /\ g[x].frees = Cardinality(Released(t, x))
             /\ g[x].size = Made(t, x) - Gone(t, x)
  <2>1. /\ h[x].allocs = Cardinality(Allocated(s, x))
        /\ h[x].frees = Cardinality(Released(t, x))
        /\ h[x].size = Made(s, x) - Gone(t, x)
    BY DEF Charged
  <2>2. Made(s, x) \in Int /\ Gone(t, x) \in Int  BY <1>3, BytesLogged
  <2>3. IF r.ev \in {"malloc", "realloc"} /\ r.bt = x
        THEN /\ Made(t, x) = Made(s, x) + r.size
             /\ Cardinality(Allocated(t, x)) = Cardinality(Allocated(s, x)) + 1
        ELSE Made(t, x) = Made(s, x) /\ Allocated(t, x) = Allocated(s, x)
    BY MadeNow
  <2>4. CASE r.bt = x  BY <1>1, <1>2, <2>1, <2>2, <2>3, <2>4
  <2>5. CASE r.bt # x  BY <1>2, <2>1, <2>3, <2>5
  <2> QED  BY <2>4, <2>5
<1> QED  BY <1>4 DEF Charged, g

LEMMA ChargedNoGain ==
  ASSUME NEW s, NEW r, NEW t, Extends(s, r, t), NEW h, Charged(s, t, h),
         r.ev \notin {"malloc", "realloc"}
  PROVE  Charged(t, t, h)
<1>1. \A bt \in Backtraces : Made(t, bt) = Made(s, bt) /\ Allocated(t, bt) = Allocated(s, bt)
  BY MadeNow
<1> QED  BY <1>1 DEF Charged

LEMMA StrangersSame ==
  ASSUME NEW s, NEW r, NEW t, Extends(s, r, t), NEW u, Strangers(s, u),
         ~(r.ev = "free" /\ ~ \E j \in 1 .. Len(s) : Filler(s, j, r.ptr))
  PROVE  Strangers(t, u)
<1>1. ASSUME NEW bt \in Stacks PROVE Unmatched(t, bt) = Unmatched(s, bt)
  <2>1. Unmatched(t, bt) = Unmatched(s, bt)
          \cup (IF r.ev = "free" /\ r.bt = bt /\ ~ \E j \in 1 .. Len(s) : Filler(s, j, r.ptr)
                THEN {Len(s) + 1} ELSE {})
    BY UnmatchedNow
  <2>2. ~(r.ev = "free" /\ r.bt = bt /\ ~ \E j \in 1 .. Len(s) : Filler(s, j, r.ptr))
    OBVIOUS
  <2> QED  BY <2>1, <2>2
<1> QED  BY <1>1 DEF Strangers

LEMMA StrangersMore ==
  ASSUME NEW s, NEW r, NEW t, Extends(s, r, t), NEW u \in [Stacks -> Nat], Strangers(s, u),
         r.ev = "free", ~ \E j \in 1 .. Len(s) : Filler(s, j, r.ptr)
  PROVE  Strangers(t, [u EXCEPT ![r.bt] = @ + 1])
<1> DEFINE v == [u EXCEPT ![r.bt] = @ + 1]
           n == Len(s)
<1>1. r.bt \in Stacks /\ s \in Seq(Logs) /\ n \in Nat /\ DOMAIN s = 1 .. n
  BY OneMore DEF Extends, Logs, Records
<1>2. v[r.bt] = u[r.bt] + 1 /\ \A x \in Stacks \ {r.bt} : v[x] = u[x]  BY <1>1
<1> HIDE DEF v
<1>3. ASSUME NEW x \in Stacks PROVE v[x] = Cardinality(Unmatched(t, x))
  <2>1. /\ IsFiniteSet(Unmatched(s, x)) /\ u[x] = Cardinality(Unmatched(s, x))
        /\ n + 1 \notin Unmatched(s, x)
    <3>1. Unmatched(s, x) \subseteq 1 .. n /\ n + 1 \notin 1 .. n  BY <1>1 DEF Unmatched
    <3> QED  BY <1>1, <3>1, FewRecords DEF Strangers
  <2>2. Unmatched(t, x) = Unmatched(s, x) \cup (IF r.bt = x THEN {n + 1} ELSE {})
    BY UnmatchedNow
  <2> HIDE DEF n
  <2>3. Cardinality(Unmatched(s, x) \cup {n + 1}) = Cardinality(Unmatched(s, x)) + 1
    BY <2>1, Inserted
  <2>4. CASE r.bt = x  BY <1>2, <2>1, <2>2, <2>3, <2>4
  <2>5. CASE r.bt # x
    <3>1. Unmatched(t, x) = Unmatched(s, x)  BY <2>2, <2>5
    <3> QED  BY <1>2, <2>1, <2>5, <3>1
  <2> QED  BY <2>4, <2>5
<1> QED  BY <1>3 DEF Strangers, v

\* The entries of the table, the accounts and the frees of no block are those
\* that the records read while tracking say.
Accounts ==
  /\ total = Held(hotspots)
  /\ Leaves(story, chunks)
  /\ Charged(story, story, hotspots)
  /\ Strangers(story, unknown_frees)

LEMMA AccountsMean ==
  ASSUME Typed, Accounts
  PROVE  AccountsAgree
<1>1. DOMAIN unknown_frees = Stacks  BY DEF Typed
<1>2. total = SumOver([bt \in Backtraces |-> hotspots[bt].size], Backtraces)
  BY DEF Accounts, Held
<1>3. \A bt \in DOMAIN unknown_frees : unknown_frees[bt] = Cardinality(Unmatched(story, bt))
  BY <1>1 DEF Accounts, Strangers
<1>4. \A bt \in Backtraces :
        /\ hotspots[bt].allocs = Cardinality(Allocated(story, bt))
        /\ hotspots[bt].frees = Cardinality(Released(story, bt))
        /\ hotspots[bt].size = Made(story, bt) - Gone(story, bt)
  BY DEF Accounts, Charged
<1> QED  BY <1>2, <1>3, <1>4 DEF AccountsAgree, Made, Gone

LEMMA AccountsInit == Init => Accounts
<1> SUFFICES ASSUME Init PROVE Accounts  OBVIOUS
<1>1. /\ story = <<>> /\ total = 0 /\ chunks = <<>>
      /\ hotspots = [bt \in Backtraces |-> [allocs |-> 0, frees |-> 0, size |-> 0]]
      /\ unknown_frees = [bt \in Stacks |-> 0]
  BY DEF Init, AInit, Stacks
<1>2. DOMAIN story = {} /\ DOMAIN chunks = {} /\ \A j \in 1 .. Len(story) : FALSE  BY <1>1
<1>3. Held(hotspots) = 0
  <2> DEFINE f == [bt \in Backtraces |-> hotspots[bt].size]
  <2>1. \A x \in Backtraces : f[x] = 0  BY <1>1
  <2> HIDE DEF f
  <2>2. SumOver(f, Backtraces) = 0  BY <2>1, BacktraceAssumption, SumZero
  <2> QED  BY <2>2 DEF Held, f
<1>4. Leaves(story, chunks)
  <2>1. \A a, j : ~Filler(story, j, a)  BY <1>2 DEF Filler
  <2> QED  BY <1>2, <2>1 DEF Leaves
<1>5. ASSUME NEW bt
      PROVE Allocated(story, bt) = {} /\ Released(story, bt) = {} /\ Unmatched(story, bt) = {}
  BY <1>2 DEF Allocated, Released, Unmatched
<1>6. IsFiniteSet({}) /\ Cardinality({}) = 0  BY FS_EmptySet
<1>7. \A f : SumOver(f, {}) = 0  BY <1>6, SumZero
<1>8. \A bt : Made(story, bt) = 0 /\ Gone(story, bt) = 0  BY <1>5, <1>7 DEF Made, Gone
<1>9. Charged(story, story, hotspots)
  <2>1. \A bt \in Backtraces :
          hotspots[bt].allocs = 0 /\ hotspots[bt].frees = 0 /\ hotspots[bt].size = 0
    BY <1>1
  <2>2. \A bt : /\ Cardinality(Allocated(story, bt)) = 0
               /\ Cardinality(Released(story, bt)) = 0
    BY <1>5, <1>6
  <2>3. ASSUME NEW bt \in Backtraces
        PROVE  /\ hotspots[bt].allocs = Cardinality(Allocated(story, bt))
               /\ hotspots[bt].frees = Cardinality(Released(story, bt))
               /\ hotspots[bt].size = Made(story, bt) - Gone(story, bt)
    <3>1. Made(story, bt) = 0 /\ Gone(story, bt) = 0  BY <1>8
    <3>2. hotspots[bt].size = 0  BY <2>1
    <3>3. hotspots[bt].size = Made(story, bt) - Gone(story, bt)  BY ONLY <3>1, <3>2
    <3> QED  BY <2>1, <2>2, <3>3, Zenon
  <2> QED  BY <2>3, Zenon DEF Charged
<1>10. Strangers(story, unknown_frees)  BY <1>1, <1>5, <1>6 DEF Strangers
<1> QED  BY <1>1, <1>3, <1>4, <1>9, <1>10 DEF Accounts

(* A record is read.  The table says which record its free or realloc is   *)
(* about.                                                                  *)
LEMMA FoundInTable ==
  ASSUME NEW t, NEW c, Leaves(t, c), NEW a
  PROVE  /\ a \in DOMAIN c => \E j \in 1 .. Len(t) :
                                Filler(t, j, a) /\ c[a] = Block(t[j].size, t[j].bt)
         /\ a \notin DOMAIN c => ~ \E j \in 1 .. Len(t) : Filler(t, j, a)
BY DEF Leaves

LEMMA AccountsRead ==
  ASSUME Typed, StoryTyped, Accounts, NEW r \in Logs, Read(r), tracking,
         story' = Append(story, r)
  PROVE  Accounts'
<1> DEFINE n == Len(story)
<1>1. PICK s, t : s = story /\ t = story'  OBVIOUS
<1>2. Extends(s, r, t)  BY <1>1 DEF Extends, StoryTyped
<1>3. /\ total = Held(hotspots) /\ Leaves(s, chunks)
      /\ Charged(s, s, hotspots) /\ Strangers(s, unknown_frees)
  BY <1>1 DEF Accounts
<1>4. t[Len(s) + 1] = r  BY <1>2, OneMore
<1>5. /\ r.size \in Int /\ r.bt \in Stacks
      /\ r.ev \in {"start", "tag", "malloc", "free", "realloc"}
      /\ r.ev \in {"malloc", "realloc"} => r.bt \in Backtraces
  BY DEF Logs, Records
<1>6. hotspots \in Hotspots /\ unknown_frees \in [Stacks -> Nat] /\ total \in Int  BY DEF Typed
<1>7. Held(hotspots) \in Int  BY <1>6, HeldTyped
<1> SUFFICES /\ total' = Held(hotspots') /\ Leaves(t, chunks')
             /\ Charged(t, t, hotspots') /\ Strangers(t, unknown_frees')
  BY <1>1 DEF Accounts
<1>8. CASE r.ev \in {"start", "tag"}
  <2>1. UNCHANGED <<total, hotspots, chunks, unknown_frees>>
    BY <1>8 DEF Read, ReadStart, ReadTag, Skip, ReadMalloc, ReadFree, ReadRealloc, tables
  <2>2. \A a : ~Fills(t, Len(s) + 1, a) /\ ~Empties(t, Len(s) + 1, a)
    BY <1>4, <1>8 DEF Fills, Empties
  <2>3. Leaves(t, chunks)  BY <1>2, <1>3, <2>2, LeavesAlone
  <2>4. Charged(s, t, hotspots)  BY <1>2, <1>3, <1>8, ChargedNoRelease
  <2>5. Charged(t, t, hotspots)  BY <1>2, <1>8, <2>4, ChargedNoGain
  <2>6. Strangers(t, unknown_frees)  BY <1>2, <1>3, <1>8, StrangersSame
  <2> QED  BY <1>3, <2>1, <2>3, <2>5, <2>6
<1>9. CASE r.ev = "malloc"
  <2>1. ReadMalloc(r)
    BY <1>9 DEF Read, ReadStart, ReadTag, Skip, ReadFree, ReadRealloc
  <2>2. /\ chunks' = Put(chunks, r.ptr, Block(r.size, r.bt))
        /\ hotspots' = Gain(hotspots, r.bt, r.size)
        /\ total' = total + r.size /\ unknown_frees' = unknown_frees
    BY <2>1 DEF ReadMalloc
  <2>3. /\ \A a : Fills(t, Len(s) + 1, a) <=> a = r.ptr
        /\ \A a : ~Empties(t, Len(s) + 1, a)
    BY <1>4, <1>9 DEF Fills, Empties
  <2>4. Leaves(t, chunks')  BY <1>2, <1>3, <2>2, <2>3, LeavesPut
  <2>5. Charged(s, t, hotspots)  BY <1>2, <1>3, <1>9, ChargedNoRelease
  <2>6. Charged(t, t, hotspots')  BY <1>2, <1>6, <1>9, <2>2, <2>5, ChargedGain
  <2>7. Strangers(t, unknown_frees)  BY <1>2, <1>3, <1>9, StrangersSame
  <2>8. Held(hotspots') = Held(hotspots) + r.size  BY <1>5, <1>6, <1>9, <2>2, GainHeld
  <2> QED  BY <1>3, <2>2, <2>4, <2>6, <2>7, <2>8
<1>10. CASE r.ev = "free"
  <2>1. ReadFree(r)
    BY <1>10 DEF Read, ReadStart, ReadTag, Skip, ReadMalloc, ReadRealloc
  <2>2. /\ \A a : ~Fills(t, Len(s) + 1, a)
        /\ \A a : Empties(t, Len(s) + 1, a) <=> a = r.ptr
    BY <1>4, <1>10 DEF Fills, Empties
  <2>3. CASE FreeKnown(r)
    <3>1. /\ r.ptr \in DOMAIN chunks /\ total' = total - chunks[r.ptr].size
          /\ unknown_frees' = unknown_frees /\ chunks' = Delete(chunks, r.ptr)
          /\ hotspots' = Release(hotspots, chunks[r.ptr].backtrace, chunks[r.ptr].size)
      BY <2>3 DEF FreeKnown, Known
    <3>2. PICK j \in 1 .. Len(s) :
             Filler(s, j, r.ptr) /\ chunks[r.ptr] = Block(s[j].size, s[j].bt)
      BY <1>3, <3>1, FoundInTable
    <3>3. /\ total' = total - s[j].size
          /\ hotspots' = Release(hotspots, s[j].bt, s[j].size)
      BY <3>1, <3>2 DEF Block
    <3>4. /\ s[j].bt \in Backtraces /\ s[j].size \in Nat
          /\ Charged(s, t, hotspots')
      BY <1>2, <1>3, <1>6, <1>10, <3>2, <3>3, ChargedRelease
    <3>5. Charged(t, t, hotspots')  BY <1>2, <1>10, <3>4, ChargedNoGain
    <3>6. Strangers(t, unknown_frees)  BY <1>2, <1>3, <3>2, StrangersSame
    <3>7. Held(hotspots') = Held(hotspots) - s[j].size  BY <1>6, <3>3, <3>4, ReleaseHeld
    <3>8. DOMAIN chunks' = DOMAIN chunks \ {r.ptr} /\ \A x \in DOMAIN chunks' : chunks'[x] = chunks[x]
      BY <3>1 DEF Delete
    <3>9. Leaves(t, chunks')  BY <1>2, <1>3, <2>2, <3>8, LeavesDelete
    <3> QED  BY <1>3, <3>1, <3>3, <3>5, <3>6, <3>7, <3>9
  <2>4. CASE FreeUnknown(r)
    <3>1. /\ r.ptr \notin DOMAIN chunks
          /\ unknown_frees' = [unknown_frees EXCEPT ![r.bt] = @ + 1]
          /\ UNCHANGED <<total, hotspots, chunks>>
      BY <2>4 DEF FreeUnknown, Known
    <3>2. ~ \E j \in 1 .. Len(s) : Filler(s, j, r.ptr)  BY <1>3, <3>1, FoundInTable
    <3>3. Charged(s, t, hotspots)  BY <1>2, <1>3, <3>2, ChargedNoRelease
    <3>4. Charged(t, t, hotspots)  BY <1>2, <1>10, <3>3, ChargedNoGain
    <3>5. Strangers(t, unknown_frees')  BY <1>2, <1>3, <1>6, <1>10, <3>1, <3>2, StrangersMore
    <3>6. DOMAIN chunks = DOMAIN chunks \ {r.ptr} /\ \A x \in DOMAIN chunks : chunks[x] = chunks[x]
      BY <3>1
    <3>7. Leaves(t, chunks)  BY <1>2, <1>3, <2>2, <3>6, LeavesDelete
    <3> QED  BY <1>3, <3>1, <3>4, <3>5, <3>7
  <2> QED  BY <2>1, <2>3, <2>4 DEF ReadFree
<1>11. CASE r.ev = "realloc"
  <2>1. ReadRealloc(r)
    BY <1>11 DEF Read, ReadStart, ReadTag, Skip, ReadMalloc, ReadFree
  <2>2. /\ chunks' = Put(chunks, r.new, Block(r.size, r.bt))
        /\ unknown_frees' = unknown_frees
        /\ ReallocKnown(r) \/ ReallocUnknown(r)
    BY <2>1 DEF ReadRealloc
  <2>3. /\ \A a : Fills(t, Len(s) + 1, a) <=> a = r.new
        /\ \A a : ~Empties(t, Len(s) + 1, a)
    BY <1>4, <1>11 DEF Fills, Empties
  <2>4. Leaves(t, chunks')  BY <1>2, <1>3, <2>2, <2>3, LeavesPut
  <2>5. Strangers(t, unknown_frees)  BY <1>2, <1>3, <1>11, StrangersSame
  <2>6. r.bt \in Backtraces  BY <1>5, <1>11
  <2>7. CASE ReallocKnown(r)
    <3>1. /\ r.ptr \in DOMAIN chunks /\ total' = total - chunks[r.ptr].size + r.size
          /\ hotspots' = Gain(Release(hotspots, chunks[r.ptr].backtrace, chunks[r.ptr].size),
                              r.bt, r.size)
      BY <2>7 DEF ReallocKnown, Known
    <3>2. PICK j \in 1 .. Len(s) :
             Filler(s, j, r.ptr) /\ chunks[r.ptr] = Block(s[j].size, s[j].bt)
      BY <1>3, <3>1, FoundInTable
    <3>3. PICK h : h = Release(hotspots, s[j].bt, s[j].size)  OBVIOUS
    <3>4. total' = total - s[j].size + r.size /\ hotspots' = Gain(h, r.bt, r.size)
      BY <3>1, <3>2, <3>3 DEF Block
    <3>5. s[j].bt \in Backtraces /\ s[j].size \in Nat /\ Charged(s, t, h)
      BY <1>2, <1>3, <1>6, <1>11, <3>2, <3>3, ChargedRelease
    <3>6. h \in Hotspots /\ Held(h) = Held(hotspots) - s[j].size
      BY <1>6, <3>3, <3>5, ReleaseHeld
    <3>7. Charged(t, t, hotspots')  BY <1>2, <1>11, <3>4, <3>5, <3>6, ChargedGain
    <3>8. Held(hotspots') = Held(h) + r.size  BY <1>5, <2>6, <3>4, <3>6, GainHeld
    <3>9. total' = Held(hotspots')  BY <1>3, <1>5, <1>7, <3>4, <3>5, <3>6, <3>8
    <3> QED  BY <2>2, <2>4, <2>5, <3>7, <3>9
  <2>8. CASE ReallocUnknown(r)
    <3>1. /\ r.ptr \notin DOMAIN chunks
          /\ hotspots' = Gain(hotspots, r.bt, r.size) /\ total' = total + r.size
      BY <2>8 DEF ReallocUnknown, Known
    <3>2. ~ \E j \in 1 .. Len(s) : Filler(s, j, r.ptr)  BY <1>3, <3>1, FoundInTable
    <3>3. Charged(s, t, hotspots)  BY <1>2, <1>3, <3>2, ChargedNoRelease
    <3>4. Charged(t, t, hotspots')  BY <1>2, <1>6, <1>11, <3>1, <3>3, ChargedGain
    <3>5. Held(hotspots') = Held(hotspots) + r.size  BY <1>5, <1>6, <2>6, <3>1, GainHeld
    <3> QED  BY <1>3, <2>2, <2>4, <2>5, <3>1, <3>4, <3>5
  <2> QED  BY <2>2, <2>7, <2>8
<1> QED  BY <1>5, <1>8, <1>9, <1>10, <1>11

LEMMA AccountsNext == Typed /\ StoryTyped /\ Accounts /\ [Next]_vars => Accounts'
<1> SUFFICES ASSUME Typed, StoryTyped, Accounts, [Next]_vars PROVE Accounts'  OBVIOUS
<1>1. CASE ReadNext
  <2> DEFINE r == Head(channel)
  <2>1. /\ r \in Logs /\ Read(r)
        /\ story' = IF tracking THEN Append(story, r) ELSE story
    BY <1>1, StoryRead DEF ReadNext
  <2> HIDE DEF r
  <2>2. CASE tracking  BY <2>1, <2>2, AccountsRead
  <2>3. CASE ~tracking
    <3>1. UNCHANGED <<story, total, hotspots, chunks, unknown_frees>>
      BY <2>1, <2>3
      DEF Read, ReadStart, ReadTag, Skip, ReadMalloc, ReadFree, ReadRealloc, tables
    <3> QED  BY <3>1 DEF Accounts
  <2> QED  BY <2>2, <2>3
<1>2. CASE UNCHANGED <<analyzer, history>>
  BY <1>2 DEF analyzer, tables, history, Accounts
<1> QED  BY <1>1, <1>2, OnlyReading

(* Whatever was lost, reordered or left out of the log, each callstack is  *)
(* charged with what the records read say that it allocated, and is        *)
(* relieved of what they say was released of its own blocks, whichever     *)
(* callstack released it; the bytes in use are those of all callstacks;    *)
(* and the frees reported as unknown are those of no block in the log.     *)
THEOREM AccountsAlwaysAgree == Spec => []AccountsAgree
<1>1. Spec => []Accounts  BY AccountsInit, AccountsNext, TypedInvariant, PTL DEF Spec
<1> QED  BY <1>1, AccountsMean, TypedInvariant, PTL

-----------------------------------------------------------------------------
(* The totals of a table of blocks.                                        *)

LEMMA BlockTyped ==
  ASSUME NEW b \in Blocks
  PROVE  b.size \in Int /\ b.backtrace \in Backtraces
<1>1. b.size \in Sizes /\ b.backtrace \in Backtraces  BY DEF Blocks
<1>2. b.size \in Nat  BY <1>1, SizeAssumption
<1> QED  BY <1>1, <1>2

LEMMA BytesTake ==
  ASSUME NEW u, NEW S, IsFiniteSet(S), \A x \in S : u[x].size \in Int, NEW a \in S
  PROVE  Bytes(u, S) = u[a].size + Bytes(u, S \ {a})
<1> DEFINE f == [x \in S |-> u[x].size]
           e == [x \in S \ {a} |-> u[x].size]
<1>1. /\ \A x \in S : f[x] \in Int
      /\ \A x \in S \ {a} : f[x] = e[x]
      /\ f[a] = u[a].size
  OBVIOUS
<1> HIDE DEF f, e
<1>2. SumOver(f, S) = f[a] + SumOver(f, S \ {a})  BY <1>1, SumTake
<1>3. SumOver(f, S \ {a}) = SumOver(e, S \ {a})
  <2>1. IsFiniteSet(S \ {a})  BY FS_Subset
  <2> QED  BY <1>1, <2>1, SumSame
<1> QED  BY <1>1, <1>2, <1>3 DEF Bytes, f, e

LEMMA BytesSame ==
  ASSUME NEW u, NEW v, NEW S, \A x \in S : u[x] = v[x]
  PROVE  Bytes(u, S) = Bytes(v, S)
<1>1. [x \in S |-> u[x].size] = [x \in S |-> v[x].size]  OBVIOUS
<1> QED  BY <1>1 DEF Bytes

LEMMA BytesTyped ==
  ASSUME NEW u, NEW S, IsFiniteSet(S), \A x \in S : u[x].size \in Int
  PROVE  Bytes(u, S) \in Int
<1> DEFINE f == [x \in S |-> u[x].size]
<1>1. \A x \in S : f[x] \in Int  OBVIOUS
<1> HIDE DEF f
<1>2. SumOver(f, S) \in Int  BY <1>1, SumType
<1> QED  BY <1>2 DEF Bytes, f

(* Tables u and v are the same but for the block that u has at a.          *)
Without(u, v, a) ==
  /\ \A x \in DOMAIN u : u[x] \in Blocks
  /\ a \in DOMAIN u /\ DOMAIN v = DOMAIN u \ {a}
  /\ \A x \in DOMAIN v : v[x] = u[x]

LEMMA WithoutBytes ==
  ASSUME NEW u, NEW v, NEW a, Without(u, v, a), IsFiniteSet(DOMAIN u)
  PROVE  /\ Bytes(v, DOMAIN v) \in Int
         /\ Bytes(u, DOMAIN u) = u[a].size + Bytes(v, DOMAIN v)
         /\ \A bt : LET k == IF u[a].backtrace = bt THEN 1 ELSE 0
                        s == IF u[a].backtrace = bt THEN u[a].size ELSE 0
                    IN /\ Bytes(v, From(v, bt)) \in Int
                       /\ Cardinality(From(v, bt)) \in Nat
                       /\ Bytes(u, From(u, bt)) = s + Bytes(v, From(v, bt))
                       /\ Cardinality(From(u, bt)) = k + Cardinality(From(v, bt))
<1>1. /\ \A x \in DOMAIN u : u[x].size \in Int
      /\ a \in DOMAIN u /\ DOMAIN v = DOMAIN u \ {a}
      /\ \A x \in DOMAIN v : v[x] = u[x] /\ v[x].size \in Int
  BY BlockTyped DEF Without
<1>2. IsFiniteSet(DOMAIN v)  BY <1>1, FS_Subset
<1>3. Bytes(v, DOMAIN v) \in Int  BY <1>1, <1>2, BytesTyped
<1>4. Bytes(u, DOMAIN u) = u[a].size + Bytes(v, DOMAIN v)
  <2>1. Bytes(u, DOMAIN u) = u[a].size + Bytes(u, DOMAIN v)  BY <1>1, BytesTake
  <2>2. Bytes(u, DOMAIN v) = Bytes(v, DOMAIN v)  BY <1>1, BytesSame
  <2> QED  BY <2>1, <2>2
<1>5. ASSUME NEW bt
      PROVE  /\ Bytes(v, From(v, bt)) \in Int /\ Cardinality(From(v, bt)) \in Nat
             /\ u[a].backtrace = bt =>
                  /\ Bytes(u, From(u, bt)) = u[a].size + Bytes(v, From(v, bt))
                  /\ Cardinality(From(u, bt)) = 1 + Cardinality(From(v, bt))
             /\ u[a].backtrace # bt =>
                  /\ Bytes(u, From(u, bt)) = Bytes(v, From(v, bt))
                  /\ From(u, bt) = From(v, bt)
  <2> DEFINE R == From(u, bt)
             S == From(v, bt)
  <2>1. /\ R \subseteq DOMAIN u /\ S \subseteq DOMAIN v /\ S = R \ {a}
        /\ a \in R <=> u[a].backtrace = bt
        /\ \A x \in S : v[x] = u[x] /\ v[x].size \in Int
        /\ \A x \in R : u[x].size \in Int
    BY <1>1 DEF From
  <2>2. IsFiniteSet(R) /\ IsFiniteSet(S)  BY <1>1, <1>2, <2>1, FS_Subset
  <2> HIDE DEF R, S
  <2>3. Bytes(v, S) \in Int /\ Cardinality(S) \in Nat  BY <2>1, <2>2, BytesTyped, FS_CardinalityType
  <2>4. Bytes(u, S) = Bytes(v, S)  BY <2>1, BytesSame
  <2>5. CASE a \in R
    <3>1. Bytes(u, R) = u[a].size + Bytes(u, R \ {a})  BY <2>1, <2>2, <2>5, BytesTake
    <3>2. Cardinality(R \ {a}) = Cardinality(R) - 1 /\ Cardinality(R) \in Nat
      BY <2>2, <2>5, FS_RemoveElement, FS_CardinalityType
    <3>3. Cardinality(R) = 1 + Cardinality(S)  BY <2>1, <3>2
    <3> QED  BY <2>1, <2>3, <2>4, <2>5, <3>1, <3>3 DEF R, S
  <2>6. CASE a \notin R
    <3>1. R = S  BY <2>1, <2>6
    <3> QED  BY <2>1, <2>3, <2>4, <2>6, <3>1 DEF R, S
  <2> QED  BY <2>5, <2>6
<1> QED  BY <1>3, <1>4, <1>5

(* A block more, and a block less.                                         *)
LEMMA TotalsMore ==
  ASSUME NEW u, NEW v, NEW a, Without(u, v, a), NEW t \in Int, NEW h \in Hotspots,
         Totals(t, h, v)
  PROVE  Totals(t + u[a].size, Gain(h, u[a].backtrace, u[a].size), u)
<1> DEFINE bt == u[a].backtrace
           s  == u[a].size
           g  == Gain(h, bt, s)
<1>1. bt \in Backtraces /\ s \in Int  BY BlockTyped DEF Without
<1>2. IsFiniteSet(DOMAIN u)
  <2>1. DOMAIN u = DOMAIN v \cup {a}  BY DEF Without
  <2> QED  BY <2>1, FS_AddElement DEF Totals
<1> HIDE DEF bt, s
<1>3. \A x \in Backtraces :
        /\ g[x].size = h[x].size + (IF bt = x THEN s ELSE 0)
        /\ g[x].allocs - g[x].frees = h[x].allocs - h[x].frees + (IF bt = x THEN 1 ELSE 0)
  <2>1. \A x \in Backtraces : h[x].size \in Int /\ h[x].allocs \in Int /\ h[x].frees \in Int
    BY DEF Hotspots
  <2>2. \A x \in Backtraces :
              IF x = bt THEN /\ g[x].size = h[x].size + s
                             /\ g[x].allocs = h[x].allocs + 1 /\ g[x].frees = h[x].frees
                        ELSE g[x] = h[x]
    BY <1>1, GainMeans
  <2> HIDE DEF g
  <2> QED  BY <1>1, <2>1, <2>2
<1> HIDE DEF g
<1>4. t = Bytes(v, DOMAIN v) /\ Bytes(u, DOMAIN u) = s + Bytes(v, DOMAIN v)
  BY <1>2, WithoutBytes DEF Totals, s
<1>5. ASSUME NEW x \in Backtraces
      PROVE  /\ g[x].size = Bytes(u, From(u, x))
             /\ g[x].allocs - g[x].frees = Cardinality(From(u, x))
  <2>1. /\ Bytes(v, From(v, x)) \in Int /\ Cardinality(From(v, x)) \in Nat
        /\ Bytes(u, From(u, x)) = (IF bt = x THEN s ELSE 0) + Bytes(v, From(v, x))
        /\ Cardinality(From(u, x)) = (IF bt = x THEN 1 ELSE 0) + Cardinality(From(v, x))
    BY <1>2, WithoutBytes DEF bt, s
  <2>2. /\ h[x].size = Bytes(v, From(v, x))
        /\ h[x].allocs - h[x].frees = Cardinality(From(v, x))
    BY DEF Totals
  <2> QED  BY <1>1, <1>3, <2>1, <2>2
<1>6. t + s = Bytes(u, DOMAIN u)  BY <1>1, <1>4
<1>7. Totals(t + s, g, u)  BY <1>2, <1>5, <1>6 DEF Totals
<1> QED  BY <1>7 DEF g, bt, s

LEMMA TotalsLess ==
  ASSUME NEW u, NEW v, NEW a, Without(u, v, a), NEW t \in Int, NEW h \in Hotspots,
         Totals(t, h, u)
  PROVE  Totals(t - u[a].size, Release(h, u[a].backtrace, u[a].size), v)
<1> DEFINE bt == u[a].backtrace
           s  == u[a].size
           g  == Release(h, bt, s)
<1>1. bt \in Backtraces /\ s \in Int  BY BlockTyped DEF Without
<1>2. IsFiniteSet(DOMAIN u) /\ IsFiniteSet(DOMAIN v)
  <2>1. DOMAIN v \subseteq DOMAIN u  BY DEF Without
  <2> QED  BY <2>1, FS_Subset DEF Totals
<1> HIDE DEF bt, s
<1>3. \A x \in Backtraces :
        /\ g[x].size = h[x].size - (IF bt = x THEN s ELSE 0)
        /\ g[x].allocs - g[x].frees = (h[x].allocs - h[x].frees) - (IF bt = x THEN 1 ELSE 0)
  <2>1. \A x \in Backtraces : h[x].size \in Int /\ h[x].allocs \in Int /\ h[x].frees \in Int
    BY DEF Hotspots
  <2>2. \A x \in Backtraces :
              IF x = bt THEN /\ g[x].size = h[x].size - s
                             /\ g[x].allocs = h[x].allocs /\ g[x].frees = h[x].frees + 1
                        ELSE g[x] = h[x]
    BY <1>1, ReleaseMeans
  <2> HIDE DEF g
  <2> QED  BY <1>1, <2>1, <2>2
<1> HIDE DEF g
<1>4. /\ t = Bytes(u, DOMAIN u) /\ Bytes(u, DOMAIN u) = s + Bytes(v, DOMAIN v)
      /\ Bytes(v, DOMAIN v) \in Int
  BY <1>2, WithoutBytes DEF Totals, s
<1>5. ASSUME NEW x \in Backtraces
      PROVE  /\ g[x].size = Bytes(v, From(v, x))
             /\ g[x].allocs - g[x].frees = Cardinality(From(v, x))
  <2>1. /\ Bytes(v, From(v, x)) \in Int /\ Cardinality(From(v, x)) \in Nat
        /\ Bytes(u, From(u, x)) = (IF bt = x THEN s ELSE 0) + Bytes(v, From(v, x))
        /\ Cardinality(From(u, x)) = (IF bt = x THEN 1 ELSE 0) + Cardinality(From(v, x))
    BY <1>2, WithoutBytes DEF bt, s
  <2>2. /\ h[x].size = Bytes(u, From(u, x))
        /\ h[x].allocs - h[x].frees = Cardinality(From(u, x))
    BY DEF Totals
  <2> QED  BY <1>1, <1>3, <2>1, <2>2
<1>6. t - s = Bytes(v, DOMAIN v)  BY <1>1, <1>4
<1>7. Totals(t - s, g, v)  BY <1>2, <1>5, <1>6 DEF Totals
<1> QED  BY <1>7 DEF g, bt, s

-----------------------------------------------------------------------------
(* What the records on their way say of the program's past.                *)

LEMMA MakesNumbered ==
  ASSUME NEW r \in Records, NEW n \in Nat, NEW s, NEW t, Makes(s, r, t),
         r.ev \in {"malloc", "realloc"} => r.size \in Sizes /\ r.bt \in Backtraces
  PROVE  Makes(s, [r EXCEPT !.serial = n + 1], t)
<1> DEFINE q == [r EXCEPT !.serial = n + 1]
<1>1. /\ q.ev = r.ev /\ q.ptr = r.ptr /\ q.new = r.new /\ q.size = r.size /\ q.bt = r.bt
  BY DEF Records
<1> HIDE DEF q
<1>2. Makes(s, q, t)  BY <1>1 DEF Makes
<1> QED  BY <1>2 DEF q

(* One more record, one more state.                                        *)
LEMMA BehindLog ==
  ASSUME Typed, NEW p, Behind(p), NEW r, Performs(r, {}), Logged(r), NEW t,
         t = inuse', Makes(inuse, r, t)
  PROVE  \E g : Behind(g)'
<1> DEFINE n == Len(channel)
           q == [r EXCEPT !.serial = serial + 1]
<1>1. /\ r \in Records /\ UNCHANGED analyzer
      /\ r.ev \in {"malloc", "realloc"} => r.size \in Sizes /\ r.bt \in Backtraces
  BY LogMeans DEF Performs
<1>2. q \in Sent(serial + 1)  BY <1>1, SentMeans, Numbering
<1>3. channel' = Append(channel, q) /\ channel \in Seq(Sent(serial + 1))
  BY SentMeans, SentGrows, SeqMonotonic DEF Typed, Logged
<1>4. Makes(inuse, q, t)  BY <1>1, SentMeans, MakesNumbered
<1> HIDE DEF q
<1>5. /\ n \in Nat /\ Len(channel') = n + 1 /\ channel'[n + 1] = q
      /\ \A i \in 1 .. n : channel'[i] = channel[i]
  BY <1>2, <1>3, Appended
<1>6. /\ Tells(p[0]) /\ p[n] = inuse
      /\ \A i \in 1 .. n : Makes(p[i - 1], channel[i], p[i])
  BY DEF Behind
<1> HIDE DEF n
<1>7. PICK g : g = [i \in 0 .. n + 1 |-> IF i <= n THEN p[i] ELSE t]  OBVIOUS
<1>8. /\ g[0] = p[0] /\ g[n + 1] = t /\ g[n] = p[n]
      /\ \A i \in 1 .. n : g[i] = p[i] /\ g[i - 1] = p[i - 1]
  BY <1>5, <1>7
<1>9. ASSUME NEW i \in 1 .. n + 1 PROVE Makes(g[i - 1], channel'[i], g[i])
  <2>1. CASE i \in 1 .. n  BY <1>5, <1>6, <1>8, <2>1
  <2>2. CASE i = n + 1
    <3>1. g[i - 1] = p[n] /\ channel'[i] = q /\ g[i] = t  BY <1>5, <1>8, <2>2
    <3> QED  BY <1>4, <1>6, <3>1
  <2> QED  BY <1>5, <2>1, <2>2
<1>10. Tells(g[0])'  BY <1>1, <1>6, <1>8 DEF Tells, Lists, analyzer, tables
<1>11. Behind(g)'  BY <1>5, <1>8, <1>9, <1>10 DEF Behind
<1> QED  BY <1>11

(* A record is read: the script has caught up with the next state.         *)
LEMMA BehindRead ==
  ASSUME Typed, NEW p, Behind(p), channel # <<>>, channel' = Tail(channel),
         Tells(p[0]) /\ Makes(p[0], channel[1], p[1]) => Tells(p[1])',
         UNCHANGED inuse
  PROVE  \E g : Behind(g)'
<1> DEFINE n == Len(channel)
<1>1. /\ n \in Nat \ {0} /\ Len(channel') = n - 1
      /\ \A i \in 1 .. n - 1 : channel'[i] = channel[i + 1]
  BY HeadAndTail DEF Typed
<1>2. /\ Tells(p[0]) /\ \A i \in 1 .. n : Makes(p[i - 1], channel[i], p[i])
      /\ p[n] = inuse
  BY DEF Behind
<1> HIDE DEF n
<1>3. Tells(p[1])'
  <2>1. 1 \in 1 .. n /\ 1 - 1 = 0  BY <1>1
  <2> QED  BY <1>2, <2>1
<1>4. PICK g : g = [i \in 0 .. n - 1 |-> p[i + 1]]  OBVIOUS
<1>5. /\ g[0] = p[1] /\ g[n - 1] = p[n]
      /\ \A i \in 1 .. n - 1 : g[i] = p[i + 1] /\ g[i - 1] = p[i]
  BY <1>1, <1>4
<1>6. ASSUME NEW i \in 1 .. n - 1 PROVE Makes(g[i - 1], channel'[i], g[i])
  <2>1. i + 1 \in 1 .. n /\ (i + 1) - 1 = i  BY <1>1
  <2>2. Makes(p[i], channel[i + 1], p[i + 1])  BY <1>2, <2>1
  <2> QED  BY <1>1, <1>5, <2>2
<1>7. Tells(g[0])'  BY <1>3, <1>5 DEF Tells
<1>8. Behind(g)'  BY <1>1, <1>2, <1>5, <1>6, <1>7 DEF Behind
<1> QED  BY <1>8

LEMMA BehindSame ==
  ASSUME NEW p, Behind(p), UNCHANGED <<analyzer, channel, inuse>>
  PROVE  Behind(p)'
BY DEF Behind, Tells, Lists, analyzer, tables

\* What Followed says apart from the past.
OnTime ==
  /\ tracking /\ logs_lost = 0
  /\ \A bt \in Stacks : unknown_frees[bt] = 0
  /\ serial = current_serial + Len(channel)
  /\ \A i \in 1 .. Len(channel) : channel[i].serial = current_serial + i

LEMMA FollowedParts ==
  /\ Followed <=> (Untouched => OnTime /\ \E p : Behind(p))
  /\ Followed' <=> (Untouched' => OnTime' /\ \E p : Behind(p)')
BY DEF Followed, OnTime

LEMMA OnTimeLog ==
  ASSUME Typed, OnTime, NEW r, NEW kinds, Performs(r, kinds), Logged(r)
  PROVE  OnTime'
<1> DEFINE n == Len(channel)
           q == [r EXCEPT !.serial = serial + 1]
<1>1. /\ r \in Records /\ UNCHANGED analyzer
      /\ r.ev \in {"malloc", "realloc"} => r.size \in Sizes /\ r.bt \in Backtraces
  BY LogMeans DEF Performs
<1>2. q \in Sent(serial + 1) /\ q.serial = serial + 1  BY <1>1, SentMeans, Numbering
<1>3. channel' = Append(channel, q) /\ channel \in Seq(Sent(serial + 1)) /\ serial' = serial + 1
  BY SentMeans, SentGrows, SeqMonotonic DEF Typed, Logged
<1> HIDE DEF q
<1>4. /\ n \in Nat /\ Len(channel') = n + 1 /\ channel'[n + 1] = q
      /\ \A i \in 1 .. n : channel'[i] = channel[i]
  BY <1>2, <1>3, Appended
<1>5. /\ serial = current_serial + n /\ \A i \in 1 .. n : channel[i].serial = current_serial + i
      /\ current_serial \in Nat /\ current_serial' = current_serial
  BY <1>1 DEF OnTime, Typed, analyzer, serials
<1> HIDE DEF n
<1>6. ASSUME NEW i \in 1 .. n + 1 PROVE channel'[i].serial = current_serial + i
  <2>1. CASE i \in 1 .. n  BY <1>4, <1>5, <2>1
  <2>2. CASE i = n + 1  BY <1>2, <1>4, <1>5, <2>2
  <2> QED  BY <1>4, <2>1, <2>2
<1>7. serial' = current_serial' + Len(channel')  BY <1>3, <1>4, <1>5
<1>8. tracking' /\ logs_lost' = 0 /\ \A bt \in Stacks : unknown_frees'[bt] = 0
  BY <1>1 DEF OnTime, analyzer, serials, tables
<1> QED  BY <1>4, <1>5, <1>6, <1>7, <1>8 DEF OnTime

(* An operation that logs its record and what it does to the blocks.       *)
LEMMA FollowedLog ==
  ASSUME Typed, Followed, NEW r, Performs(r, {}),
         Makes(inuse, r, inuse')
  PROVE  Followed'
<1>1. SUFFICES ASSUME Untouched' PROVE OnTime' /\ \E p : Behind(p)'  BY FollowedParts
<1>2. Logged(r) /\ Untouched
  BY <1>1, LogMeans DEF Performs, Untouched, analyzer, options
<1>3. OnTime /\ \E p : Behind(p)  BY <1>2, FollowedParts
<1>4. PICK p : Behind(p)  BY <1>3
<1>5. PICK t : t = inuse'  OBVIOUS
<1>6. \E g : Behind(g)'  BY <1>2, <1>4, <1>5, BehindLog
<1> QED  BY <1>2, <1>3, <1>6, OnTimeLog

LEMMA FollowedMalloc ==
  ASSUME Typed, Followed, NEW a \in Addresses, NEW s \in Sizes, NEW bt \in Backtraces,
         Malloc(a, s, bt)
  PROVE  Followed'
<1>1. PICK r : Performs(r, {}) /\ r.ev = "malloc" /\ r.ptr = a /\ r.size = s /\ r.bt = bt
  BY MallocMeans
<1>2. a \notin DOMAIN inuse /\ inuse' = Put(inuse, a, Block(s, bt))
  BY DEF Malloc, Unused
<1>3. Makes(inuse, r, inuse')
  BY <1>1, <1>2 DEF Makes
<1> QED  BY <1>1, <1>3, FollowedLog

LEMMA FollowedFree ==
  ASSUME Typed, Followed, NEW a \in DOMAIN inuse, NEW bt \in FreeBacktraces, Free(a, bt)
  PROVE  Followed'
<1>1. PICK r : Performs(r, {}) /\ r.ev = "free" /\ r.ptr = a  BY FreeMeans
<1>2. inuse' = Delete(inuse, a)  BY DEF Free
<1>3. Makes(inuse, r, inuse')
  BY <1>1, <1>2 DEF Makes
<1> QED  BY <1>1, <1>3, FollowedLog

LEMMA FollowedRealloc ==
  ASSUME Typed, Followed, NEW a \in DOMAIN inuse, NEW b \in Addresses, NEW s \in Sizes,
         NEW bt \in Backtraces, Realloc(a, b, s, bt)
  PROVE  Followed'
<1>1. PICK r : /\ Performs(r, {}) /\ r.ev = "realloc"
               /\ r.ptr = a /\ r.new = b /\ r.size = s /\ r.bt = bt
  BY ReallocMeans
<1>2. /\ b \notin DOMAIN inuse \ {a}
      /\ inuse' = Put(Delete(inuse, a), b, Block(s, bt))
  BY DEF Realloc, Unused
<1>3. Makes(inuse, r, inuse')
  BY <1>1, <1>2 DEF Makes
<1> QED  BY <1>1, <1>3, FollowedLog

LEMMA FollowedTag ==
  ASSUME Typed, Followed, NEW g \in Tags, Tag(g)
  PROVE  Followed'
<1>1. PICK r : Performs(r, {}) /\ r.ev = "tag"  BY TagMeans
<1>2. inuse' = inuse  BY DEF Tag
<1>3. Makes(inuse, r, inuse')
  BY <1>1, <1>2 DEF Makes
<1> QED  BY <1>1, <1>3, FollowedLog

LEMMA FollowedFailure ==
  ASSUME Typed, NEW r, Performs(r, {"failed"})
  PROVE  Followed'
BY LogMeans, FollowedParts DEF Performs, Untouched

-----------------------------------------------------------------------------
(* memtraq.pl reads the next of the records.                               *)

LEMMA TellsParts ==
  /\ \A s : Tells(s) <=> Lists(chunks, s) /\ Totals(total, hotspots, s)
  /\ \A s : Tells(s)' <=> Lists(chunks', s) /\ Totals(total', hotspots', s)
BY DEF Tells

\* A malloc takes s to t, and table c to one with the blocks of t.
Enters(c, s, r, t) ==
  /\ Lists(Put(c, r.ptr, Block(r.size, r.bt)), t)
  /\ r.ptr \in DOMAIN t /\ t[r.ptr] = Block(r.size, r.bt)
  /\ DOMAIN s = DOMAIN t \ {r.ptr}
  /\ \A x \in DOMAIN s : s[x] = t[x]

LEMMA ListsMalloc ==
  ASSUME NEW c, NEW s, NEW t, Lists(c, s), NEW r, r.ev = "malloc", Makes(s, r, t)
  PROVE  Enters(c, s, r, t)
<1> DEFINE b == Block(r.size, r.bt)
           d == Put(c, r.ptr, b)
<1>1. /\ r.ptr \notin DOMAIN s
      /\ t = Put(s, r.ptr, b)
  BY DEF Makes
<1> HIDE DEF b
<1>2. /\ DOMAIN t = DOMAIN s \cup {r.ptr} /\ t[r.ptr] = b
      /\ \A x \in DOMAIN s : t[x] = s[x]
  BY <1>1 DEF Put
<1>3. /\ DOMAIN d = DOMAIN c \cup {r.ptr} /\ d[r.ptr] = b
      /\ \A x \in DOMAIN c \ {r.ptr} : d[x] = c[x]
  BY DEF Put
<1> HIDE DEF d
<1>4. Lists(d, t)  BY <1>1, <1>2, <1>3 DEF Lists
<1> QED  BY <1>1, <1>2, <1>4 DEF Enters, b, d

\* A free takes s to t, and table c to one with the blocks of t.
Quits(c, s, r, t) ==
  /\ r.ptr \in DOMAIN c /\ r.ptr \in DOMAIN s /\ c[r.ptr] = s[r.ptr]
  /\ Lists(Delete(c, r.ptr), t)
  /\ DOMAIN t = DOMAIN s \ {r.ptr}
  /\ \A x \in DOMAIN t : t[x] = s[x]

LEMMA ListsFree ==
  ASSUME NEW c, NEW s, NEW t, Lists(c, s), NEW r, r.ev = "free", Makes(s, r, t)
  PROVE  Quits(c, s, r, t)
<1> DEFINE d == Delete(c, r.ptr)
<1>1. /\ r.ptr \in DOMAIN s /\ t = Delete(s, r.ptr)
  BY DEF Makes
<1>2. /\ DOMAIN t = DOMAIN s \ {r.ptr}
      /\ \A x \in DOMAIN t : t[x] = s[x]
  BY <1>1 DEF Delete
<1>3. /\ DOMAIN d = DOMAIN c \ {r.ptr}
      /\ \A x \in DOMAIN c \ {r.ptr} : d[x] = c[x]
  BY DEF Delete
<1> HIDE DEF d
<1>4. r.ptr \in DOMAIN c /\ c[r.ptr] = s[r.ptr]  BY <1>1 DEF Lists
<1>5. Lists(d, t)  BY <1>1, <1>2, <1>3 DEF Lists
<1> QED  BY <1>1, <1>2, <1>4, <1>5 DEF Quits, d

\* A realloc takes s to t, and table c to one with the blocks of t.  In
\* between, while the block has no address, the blocks are u.
Moves(c, s, r, t, u) ==
  /\ r.ptr \in DOMAIN c /\ r.ptr \in DOMAIN s /\ c[r.ptr] = s[r.ptr]
  /\ Lists(Put(c, r.new, Block(r.size, r.bt)), t)
  /\ r.new \in DOMAIN t /\ t[r.new] = Block(r.size, r.bt)
  /\ DOMAIN u = DOMAIN s \ {r.ptr} /\ DOMAIN u = DOMAIN t \ {r.new}
  /\ \A x \in DOMAIN u : u[x] = s[x] /\ u[x] = t[x]

LEMMA ListsRealloc ==
  ASSUME NEW c, NEW s, NEW t, Lists(c, s), NEW r, r.ev = "realloc", Makes(s, r, t),
         NEW u, u = Delete(s, r.ptr)
  PROVE  Moves(c, s, r, t, u)
<1> DEFINE b == Block(r.size, r.bt)
           d == Put(c, r.new, b)
<1>1. /\ r.ptr \in DOMAIN s /\ r.new \notin DOMAIN s \ {r.ptr}
      /\ t = Put(u, r.new, b)
  BY DEF Makes
<1> HIDE DEF b
<1>2. /\ DOMAIN u = DOMAIN s \ {r.ptr} /\ \A x \in DOMAIN u : u[x] = s[x]
  BY DEF Delete
<1>3. /\ DOMAIN t = DOMAIN u \cup {r.new} /\ t[r.new] = b
      /\ \A x \in DOMAIN u : t[x] = u[x]
  BY <1>1, <1>2 DEF Put
<1>4. /\ DOMAIN d = DOMAIN c \cup {r.new} /\ d[r.new] = b
      /\ \A x \in DOMAIN c \ {r.new} : d[x] = c[x]
  BY DEF Put
<1> HIDE DEF d
<1>5. r.ptr \in DOMAIN c /\ c[r.ptr] = s[r.ptr]  BY <1>1 DEF Lists
<1>6. Lists(d, t)
  <2>1. DOMAIN t \subseteq DOMAIN d  BY <1>2, <1>3, <1>4 DEF Lists
  <2>2. \A x \in DOMAIN t : d[x] = t[x]
    BY <1>1, <1>2, <1>3, <1>4 DEF Lists
  <2> QED  BY <2>1, <2>2 DEF Lists
<1> QED  BY <1>1, <1>2, <1>3, <1>5, <1>6 DEF Moves, b, d

LEMMA TellsRead ==
  ASSUME Typed, NEW s, NEW t, NEW r \in Sent(serial), Tells(s), Makes(s, r, t), Read(r),
         tracking, after = NoTag
  PROVE  Tells(t)' /\ tracking' /\ unknown_frees' = unknown_frees
<1>1. /\ r.ev \in {"start", "tag", "malloc", "free", "realloc"}
      /\ r.ev \in {"malloc", "realloc"} => r.size \in Sizes /\ r.bt \in Backtraces
  BY DEF Sent, Records
<1>2. /\ Lists(chunks, s) /\ Totals(total, hotspots, s)
      /\ hotspots \in Hotspots /\ total \in Int /\ before \in Tags \cup {NoTag}
      /\ \A a \in DOMAIN chunks : chunks[a] \in Blocks
      /\ \A a \in DOMAIN s : s[a] \in Blocks
  BY TellsParts DEF Typed, Lists
<1>3. r.ev \in {"malloc", "realloc"} => Block(r.size, r.bt) \in Blocks
  BY <1>1 DEF Block, Blocks
<1>4. CASE r.ev = "start"
  <2>1. ReadStart(r)  BY <1>4 DEF Read, ReadTag, Skip, ReadMalloc, ReadFree, ReadRealloc
  <2>2. s = t  BY <1>4 DEF Makes
  <2> QED  BY <1>2, <2>1, <2>2, TellsParts DEF ReadStart, tables
<1>5. CASE r.ev = "tag"
  <2>1. ReadTag(r)  BY <1>5 DEF Read, ReadStart, Skip, ReadMalloc, ReadFree, ReadRealloc
  <2>2. s = t  BY <1>5 DEF Makes
  <2>3. tracking'  BY <1>2, <2>1, Options DEF ReadTag, NameOf
  <2> QED  BY <1>2, <2>1, <2>2, <2>3, TellsParts DEF ReadTag, tables
<1>6. CASE r.ev = "malloc"
  <2>1. ReadMalloc(r)  BY <1>6 DEF Read, ReadStart, ReadTag, Skip, ReadFree, ReadRealloc
  <2> DEFINE b == Block(r.size, r.bt)
  <2>2. /\ chunks' = Put(chunks, r.ptr, b) /\ hotspots' = Gain(hotspots, b.backtrace, b.size)
        /\ total' = total + b.size /\ UNCHANGED <<tracking, unknown_frees>>
    BY <2>1 DEF ReadMalloc, Block
  <2>3. b \in Blocks  BY <1>3, <1>6
  <2>4. /\ Lists(chunks', t)
        /\ r.ptr \in DOMAIN t /\ t[r.ptr] = b
        /\ DOMAIN s = DOMAIN t \ {r.ptr}
        /\ \A x \in DOMAIN s : s[x] = t[x]
    <3>1. Enters(chunks, s, r, t)  BY <1>2, <1>6, ListsMalloc
    <3> QED  BY <2>2, <3>1 DEF Enters
  <2> HIDE DEF b
  <2>5. Without(t, s, r.ptr)
    <3>1. \A x \in DOMAIN t : t[x] \in Blocks  BY <1>2, <2>3, <2>4
    <3> QED  BY <2>4, <3>1 DEF Without
  <2>6. Totals(total', hotspots', t)  BY <1>2, <2>2, <2>4, <2>5, TotalsMore
  <2> QED  BY <2>2, <2>4, <2>6, TellsParts
<1>7. CASE r.ev = "free"
  <2>1. ReadFree(r)  BY <1>7 DEF Read, ReadStart, ReadTag, Skip, ReadMalloc, ReadRealloc
  <2> DEFINE b == s[r.ptr]
  <2>2. /\ r.ptr \in DOMAIN chunks /\ r.ptr \in DOMAIN s /\ chunks[r.ptr] = b
        /\ Lists(Delete(chunks, r.ptr), t)
        /\ DOMAIN t = DOMAIN s \ {r.ptr}
        /\ \A x \in DOMAIN t : t[x] = s[x]
    <3>1. Quits(chunks, s, r, t)
      <4> HIDE DEF b
      <4> QED  BY <1>2, <1>7, ListsFree
    <3> QED  BY <3>1 DEF Quits
  <2>3. FreeKnown(r) /\ tracking' = tracking  BY <2>1, <2>2 DEF ReadFree, FreeUnknown, Known
  <2>4. /\ chunks' = Delete(chunks, r.ptr) /\ hotspots' = Release(hotspots, b.backtrace, b.size)
        /\ total' = total - b.size /\ unknown_frees' = unknown_frees
    BY <2>2, <2>3 DEF FreeKnown
  <2>5. Without(s, t, r.ptr)  BY <1>2, <2>2 DEF Without
  <2>6. Totals(total', hotspots', t)  BY <1>2, <2>4, <2>5, TotalsLess
  <2> QED  BY <2>2, <2>3, <2>4, <2>6, TellsParts
<1>8. CASE r.ev = "realloc"
  <2>1. ReadRealloc(r)  BY <1>8 DEF Read, ReadStart, ReadTag, Skip, ReadMalloc, ReadFree
  <2> DEFINE b == Block(r.size, r.bt)
             o == s[r.ptr]
             h == Release(hotspots, o.backtrace, o.size)
  <2>0. PICK u : u = Delete(s, r.ptr)  OBVIOUS
  <2>2. /\ r.ptr \in DOMAIN chunks /\ r.ptr \in DOMAIN s /\ chunks[r.ptr] = o
        /\ Lists(Put(chunks, r.new, b), t)
        /\ r.new \in DOMAIN t /\ t[r.new] = b
        /\ DOMAIN u = DOMAIN s \ {r.ptr} /\ DOMAIN u = DOMAIN t \ {r.new}
        /\ \A x \in DOMAIN u : u[x] = s[x] /\ u[x] = t[x]
    <3>1. Moves(chunks, s, r, t, u)
      <4> HIDE DEF b, o, h
      <4> QED  BY <1>2, <1>8, <2>0, ListsRealloc
    <3> QED  BY <3>1 DEF Moves
  <2>3. ReallocKnown(r) /\ UNCHANGED <<tracking, unknown_frees>>
    BY <2>1, <2>2 DEF ReadRealloc, ReallocUnknown, Known
  <2>4. /\ chunks' = Put(chunks, r.new, b) /\ hotspots' = Gain(h, b.backtrace, b.size)
        /\ total' = (total - o.size) + b.size
    BY <2>1, <2>2, <2>3 DEF ReadRealloc, ReallocKnown, Block
  <2>5. b \in Blocks  BY <1>3, <1>8
  <2> HIDE DEF b
  <2>6. Without(s, u, r.ptr)  BY <1>2, <2>2 DEF Without
  <2>7. Without(t, u, r.new)
    <3>1. \A x \in DOMAIN t : t[x] \in Blocks  BY <1>2, <2>2, <2>5
    <3> QED  BY <2>2, <3>1 DEF Without
  <2>8. o.size \in Int /\ o.backtrace \in Backtraces  BY <1>2, <2>2, BlockTyped
  <2>9. h \in Hotspots /\ total - o.size \in Int  BY <1>2, <2>8, HotspotsTyped
  <2>10. Totals(total - o.size, h, u)  BY <1>2, <2>6, TotalsLess
  <2> HIDE DEF h, o
  <2>11. Totals(total', hotspots', t)  BY <2>2, <2>4, <2>7, <2>9, <2>10, TotalsMore
  <2> QED  BY <2>2, <2>3, <2>4, <2>11, TellsParts
<1> QED  BY <1>1, <1>4, <1>5, <1>6, <1>7, <1>8

LEMMA FollowedRead ==
  ASSUME Typed, Followed, ReadNext
  PROVE  Followed'
<1> DEFINE n == Len(channel)
           r == Head(channel)
<1>1. SUFFICES ASSUME Untouched' PROVE OnTime' /\ \E p : Behind(p)'  BY FollowedParts
<1>2. /\ Read(r) /\ channel # <<>> /\ channel' = Tail(channel)
      /\ UNCHANGED <<program, serial, faults, options>>
  BY DEF ReadNext, Read
<1>3. Untouched /\ after = NoTag /\ UNCHANGED inuse
  BY <1>1, <1>2 DEF Untouched, options, program
<1>4. OnTime /\ \E p : Behind(p)  BY <1>3, FollowedParts
<1>5. PICK p : Behind(p)  BY <1>4
<1>6. /\ r = channel[1] /\ r \in Sent(serial)
      /\ n \in Nat \ {0} /\ Len(channel') = n - 1
      /\ \A i \in 1 .. n - 1 : channel'[i] = channel[i + 1]
  BY <1>2, HeadAndTail DEF Typed
<1>7. Tells(p[0]) /\ Makes(p[0], r, p[1])
  <2>1. 1 \in 1 .. n /\ 1 - 1 = 0  BY <1>6
  <2>2. Tells(p[0]) /\ Makes(p[1 - 1], channel[1], p[1])  BY <1>5, <2>1 DEF Behind
  <2> QED  BY <1>6, <2>1, <2>2
<1> HIDE DEF n, r
<1>8. tracking  BY <1>4 DEF OnTime
<1>9. PICK s, t : s = p[0] /\ t = p[1]  OBVIOUS
<1>10. Tells(s) /\ Makes(s, r, t)  BY <1>7, <1>9
<1>11. Tells(t)' /\ tracking' /\ unknown_frees' = unknown_frees
  BY <1>2, <1>3, <1>6, <1>8, <1>10, TellsRead
<1>12. Tells(p[1])'  BY <1>9, <1>11
<1>13. /\ serial = current_serial + n /\ \A i \in 1 .. n : channel[i].serial = current_serial + i
       /\ logs_lost = 0 /\ current_serial \in Nat /\ serial' = serial
  BY <1>2, <1>4 DEF OnTime, Typed, n
<1>14. current_serial' = current_serial + 1 /\ logs_lost' = 0
  <2>1. r.serial = current_serial + 1  BY <1>6, <1>13
  <2>2. /\ current_serial' = IF current_serial = 0 THEN r.serial ELSE current_serial + 1
        /\ logs_lost' = IF r.serial > current_serial' THEN logs_lost + 1 ELSE logs_lost
    BY <1>2 DEF Read, ReadSerial
  <2>3. current_serial' = current_serial + 1  BY <2>1, <2>2
  <2> QED  BY <1>13, <2>1, <2>2, <2>3
<1>15. serial' = current_serial' + Len(channel')  BY <1>6, <1>13, <1>14
<1>16. \A i \in 1 .. n - 1 : channel'[i].serial = current_serial' + i
  <2> SUFFICES ASSUME NEW i \in 1 .. n - 1 PROVE channel'[i].serial = current_serial' + i
    OBVIOUS
  <2>1. i + 1 \in 1 .. n /\ channel'[i] = channel[i + 1]  BY <1>6
  <2> QED  BY <1>13, <1>14, <2>1
<1>17. OnTime'  BY <1>4, <1>6, <1>11, <1>14, <1>15, <1>16 DEF OnTime
<1>18. \E g : Behind(g)'  BY <1>2, <1>3, <1>5, <1>12, BehindRead
<1> QED  BY <1>17, <1>18

LEMMA FollowedInit == Init => Followed
<1> SUFFICES ASSUME Init, Untouched PROVE OnTime /\ \E p : Behind(p)  BY FollowedParts
<1>1. /\ channel = <<Start>> /\ serial = 1 /\ current_serial = 0 /\ logs_lost = 0
      /\ chunks = <<>> /\ inuse = <<>> /\ after = NoTag /\ total = 0
      /\ hotspots = [bt \in Backtraces |-> [allocs |-> 0, frees |-> 0, size |-> 0]]
  BY DEF Init, AInit, Untouched
<1>2. Start.serial = 1 /\ Start.ev = "start"  BY DEF Start, Record
<1> HIDE DEF Start
<1>3. Len(channel) = 1 /\ channel[1] = Start /\ DOMAIN chunks = {} /\ DOMAIN inuse = {}
  BY <1>1
<1>4. tracking /\ \A bt \in Stacks : unknown_frees[bt] = 0
  <2>1. tracking  BY <1>1, Zenon DEF Init, AInit
  <2> QED  BY <2>1 DEF Init, AInit, Stacks
<1>5. OnTime
  <2>1. \A i \in 1 .. 1 : i = 1 /\ 0 + i = 1  OBVIOUS
  <2> QED  BY <1>1, <1>2, <1>3, <1>4, <2>1 DEF OnTime
<1>6. PICK s : s = inuse  OBVIOUS
<1>8. Totals(total, hotspots, inuse)
  <2>1. IsFiniteSet({}) /\ Cardinality({}) = 0  BY FS_EmptySet
  <2>2. Bytes(inuse, {}) = 0
    <3> DEFINE f == [a \in {} |-> inuse[a].size]
    <3>1. \A x \in {} : f[x] = 0  OBVIOUS
    <3> HIDE DEF f
    <3>2. SumOver(f, {}) = 0  BY <2>1, <3>1, SumZero
    <3> QED  BY <3>2 DEF Bytes, f
  <2>3. \A bt : From(inuse, bt) = {}  BY <1>3 DEF From
  <2>4. \A bt \in Backtraces : hotspots[bt].size = 0 /\ hotspots[bt].allocs - hotspots[bt].frees = 0
    BY <1>1
  <2> QED  BY <1>1, <1>3, <2>1, <2>2, <2>3, <2>4 DEF Totals
<1>9. Tells(s)  BY <1>3, <1>6, <1>8 DEF Tells, Lists
<1>10. PICK p : p = [i \in 0 .. 1 |-> s]  OBVIOUS
<1>11. p[0] = s /\ p[1] = s /\ \A i \in 1 .. 1 : i = 1 /\ p[i - 1] = s  BY <1>10
<1>12. Makes(s, Start, s)  BY <1>2 DEF Makes
<1>13. Behind(p)  BY <1>3, <1>6, <1>9, <1>11, <1>12 DEF Behind
<1> QED  BY <1>5, <1>13

LEMMA FollowedNext == Typed /\ Followed /\ [Next]_vars => Followed'
<1> SUFFICES ASSUME Typed, Followed, [Next]_vars PROVE Followed'  OBVIOUS
<1>1. ASSUME UNCHANGED <<analyzer, inuse, serial, channel, faults>> PROVE Followed'
  <2>1. OnTime => OnTime'  BY <1>1 DEF OnTime, analyzer, serials, tables
  <2>2. \A p : Behind(p) => Behind(p)'  BY <1>1, BehindSame
  <2>3. Untouched' => Untouched  BY <1>1 DEF Untouched, analyzer, options
  <2> QED  BY <1>1, <2>1, <2>2, <2>3, FollowedParts
<1>2. CASE \E s \in Sizes, bt \in Backtraces, a \in Addresses : Malloc(a, s, bt)
  BY <1>2, FollowedMalloc
<1>3. CASE \E s \in Sizes, bt \in Backtraces, a \in DOMAIN inuse, b \in Addresses :
             Realloc(a, b, s, bt)
  BY <1>3, FollowedRealloc
<1>4. CASE \E s \in Sizes, bt \in Backtraces :
             MallocFails(s, bt) \/ \E a \in DOMAIN inuse : ReallocFails(a, s, bt)
  BY <1>4, FailureMeans, FollowedFailure
<1>5. CASE \E a \in DOMAIN inuse, bt \in FreeBacktraces : Free(a, bt)  BY <1>5, FollowedFree
<1>6. CASE \E g \in Tags : Tag(g)  BY <1>6, FollowedTag
<1>7. CASE \E on \in BOOLEAN : SetEnabled(on)  BY <1>1, <1>7 DEF SetEnabled
<1>8. CASE \E i \in DOMAIN channel : Lose(i) \/ Reorder(i)
  BY <1>8, FollowedParts DEF Lose, Reorder, Fault, Untouched
<1>9. CASE ReadNext  BY <1>9, FollowedRead
<1>10. CASE UNCHANGED vars  BY <1>1, <1>10 DEF vars, program
<1> QED  BY <1>2, <1>3, <1>4, <1>5, <1>6, <1>7, <1>8, <1>9, <1>10 DEF Next

(* While nothing is lost, reordered or left out, memtraq.pl is always at a *)
(* state of the program behind: its table and its totals are what that     *)
(* state makes them, and each record under way leads one state further, up *)
(* to the one that the program is in.                                      *)
THEOREM FollowedInvariant == Spec => []Followed
BY FollowedInit, FollowedNext, TypedInvariant, PTL DEF Spec

LEMMA AllRead ==
  ASSUME Followed, Complete
  PROVE  /\ OnTime /\ Totals(total, hotspots, inuse)
         /\ \A a \in DOMAIN inuse : a \in DOMAIN chunks /\ chunks[a] = inuse[a]
<1>1. Untouched /\ Len(channel) = 0  BY DEF Complete, Untouched
<1>2. OnTime /\ \E p : Behind(p)  BY <1>1, FollowedParts
<1>3. PICK p : Behind(p)  BY <1>2
<1>4. Tells(p[0]) /\ p[0] = inuse  BY <1>1, <1>3 DEF Behind
<1> QED  BY <1>2, <1>4 DEF Tells, Lists

(* When all that the program did was logged, arrived and has been read,    *)
(* every block in use is in the table of memtraq.pl, with its size and the *)
(* callstack that it comes from, and the totals, overall and per           *)
(* callstack, are those of these blocks.                                   *)
THEOREM ReportAlwaysComplete == Spec => []ReportComplete
<1>1. Followed => ReportComplete
  <2> SUFFICES ASSUME Followed, Complete PROVE BlocksReported /\ TotalsReported
    BY DEF ReportComplete
  <2>1. BlocksReported  BY AllRead DEF BlocksReported, Known
  <2>2. TotalsReported  BY AllRead DEF TotalsReported, Totals, Bytes, From
  <2> QED  BY <2>1, <2>2
<1> QED  BY <1>1, FollowedInvariant, PTL

(* And no record is reported as lost and no free as one of a block that    *)
(* nothing allocated.                                                      *)
THEOREM NothingFalse == Spec => []NoFalseAlarm
<1>1. Typed /\ Followed => NoFalseAlarm
  <2>1. Typed => DOMAIN unknown_frees = Stacks  BY DEF Typed
  <2> QED  BY <2>1, AllRead DEF OnTime, NoFalseAlarm
<1> QED  BY <1>1, TypedInvariant, FollowedInvariant, PTL
=============================================================================
