---------------------------- MODULE MemtraqProofs ---------------------------
(***************************************************************************)
(* Proofs about module Memtraq, for every number of threads, every heap    *)
(* and pool and every depth of recursion.                                  *)
(*                                                                         *)
(* What the blocks do needs no hypothesis.  What the levels do needs two,  *)
(* and so does what the log says: one thread at most runs before memtraq   *)
(* has initialised itself, and the calls on the log file do not allocate.  *)
(*                                                                         *)
(* Facts about stacks are stated about one sequence of calls, apart from   *)
(* the functions from threads to stacks and levels.                        *)
(***************************************************************************)
EXTENDS Memtraq, FiniteSetTheorems, SequenceTheorems, WellFoundedInduction, TLAPS

OneCold == \A t, u \in Cold : t = u
StdioQuiet == StdioMallocs = {}

-----------------------------------------------------------------------------
(* The inductive invariant, in parts.                                      *)

(* A call in progress: what its argument and result may be where it is.    *)
CallOK(c) ==
  /\ c.op \in {"malloc", "tag"} <=> c.p = NULL
  /\ c.pc = "lmm_realloc" <=> c.op = "realloc" /\ c.p \in Pool
  /\ c.pc \in {"enter", "body", "lmm_realloc"} \cup InitPcs \/ c.op \in {"free", "tag"} => c.q = NULL
  /\ c.op = "realloc" => c.q \in Heap \cup {NULL}

AllOK(s) == \A i \in DOMAIN s : CallOK(s[i])
CallsOK == \A t \in Threads : AllOK(stack[t])

\* In a stack all calls but the innermost are taking their backtrace, and
\* each that has entered has the level of its place.
Entering == {"fopen", "ready"}
Depth(s) ==
  IF s = <<>> THEN 0
  ELSE IF s[1].pc \in Entered \cup Entering THEN Len(s) ELSE Len(s) - 1
Waiting(s) == \A i \in DOMAIN s : i > 1 => s[i].pc = "backtrace"
Levelled(s) == \A i \in DOMAIN s : s[i].pc \in Entered => s[i].level = Len(s) - i + 1
Served(s) == \A i \in DOMAIN s :
  s[i].op = "malloc" =>
    /\ s[i].q # NULL => (s[i].q \in Pool <=> i < Len(s))
    /\ s[i].pc \in {"check", "backtrace", "write"} => i = Len(s)
StackOK(s, n) == Waiting(s) /\ Levelled(s) /\ Served(s) /\ n = Depth(s)
Nesting == \A t \in Threads : StackOK(stack[t], level[t])

\* Before the first record only the cold thread runs, and it is on its way
\* to write that record.
Before == {"enter", "lmm_realloc", "key", "fopen", "ready"}
After  == {"initlock", "initwrite"}
Lone(s) == s # <<>> /\ Tail(s) = <<>>
Booting ==
  /\ log = <<>> =>
       /\ \A t \in Threads : ~Idle(t) =>
            t \in Cold /\ Lone(stack[t]) /\ Top(t).pc \in IF initialized THEN After ELSE Before
       /\ initialized => \E t \in Threads : ~Idle(t)
  /\ log # <<>> => initialized /\ \A t \in Threads : \A l \in InitPcs : ~At(t, l)

Typed  == TypeOK /\ CallsOK
Levels == Typed /\ Nesting /\ Booting /\ OneInit

-----------------------------------------------------------------------------
(* Stacks as sequences.                                                    *)

LEMMA Pushed ==
  ASSUME NEW S, NEW s \in Seq(S), NEW c \in S
  PROVE  LET r == <<c>> \o s
         IN /\ r \in Seq(S) /\ r # <<>> /\ Len(r) = Len(s) + 1 /\ DOMAIN r = 1 .. Len(s) + 1
            /\ r[1] = c /\ \A i \in 1 .. Len(s) : r[i + 1] = s[i]
            /\ Tail(r) = s
OBVIOUS

LEMMA Lengths ==
  ASSUME NEW S, NEW s \in Seq(S)
  PROVE  Len(s) \in Nat /\ DOMAIN s = 1 .. Len(s) /\ (s = <<>> <=> Len(s) = 0)
         /\ \A i \in DOMAIN s : s[i] \in S
<1>1. Len(s) \in Nat /\ DOMAIN s = 1 .. Len(s) /\ s \in [1 .. Len(s) -> S]  BY LenProperties
<1>2. s = <<>> <=> Len(s) = 0  BY EmptySeq
<1> QED  BY <1>1, <1>2

LEMMA Popped ==
  ASSUME NEW S, NEW s \in Seq(S), s # <<>>
  PROVE  /\ Tail(s) \in Seq(S) /\ Len(s) = Len(Tail(s)) + 1 /\ s[1] \in S
         /\ \A i \in 1 .. Len(Tail(s)) : Tail(s)[i] = s[i + 1]
<1>1. Len(s) \in Nat /\ Len(s) # 0  BY Lengths
<1>2. Len(Tail(s)) = Len(s) - 1  BY HeadTailProperties
<1> QED  BY <1>1, <1>2, HeadTailProperties, Lengths

LEMMA Swapped ==
  ASSUME NEW S, NEW s \in Seq(S), s # <<>>, NEW c \in S
  PROVE  LET r == [s EXCEPT ![1] = c]
         IN /\ r \in Seq(S) /\ r # <<>> /\ Len(r) = Len(s)
            /\ r[1] = c /\ \A i \in 2 .. Len(s) : r[i] = s[i]
            /\ Tail(r) = Tail(s)
<1> DEFINE r == [s EXCEPT ![1] = c]
<1>1. Len(s) \in Nat /\ Len(s) # 0 /\ s \in [1 .. Len(s) -> S]  BY LenProperties, EmptySeq
<1>2. r \in [1 .. Len(s) -> S] /\ r[1] = c /\ \A i \in 2 .. Len(s) : r[i] = s[i]
  <2>1. 1 \in 1 .. Len(s) /\ \A i \in 2 .. Len(s) : i \in 1 .. Len(s) /\ i # 1  BY <1>1
  <2> QED  BY <1>1, <2>1, Zenon
<1>3. r \in Seq(S)  BY <1>1, <1>2, SeqDef
<1>4. Len(r) = Len(s)
  <2>1. DOMAIN r = 1 .. Len(r) /\ Len(r) \in Nat  BY <1>3, LenProperties
  <2>2. DOMAIN r = 1 .. Len(s)  BY <1>2
  <2> QED  BY <1>1, <2>1, <2>2
<1>5. r # <<>>  BY <1>1, <1>3, <1>4, EmptySeq
<1>6. Tail(r) = Tail(s)
  <2>1. /\ Tail(r) \in Seq(S) /\ Len(Tail(r)) = Len(s) - 1
        /\ \A i \in 1 .. Len(Tail(r)) : Tail(r)[i] = r[i + 1]
    BY <1>3, <1>4, <1>5, HeadTailProperties
  <2>2. /\ Tail(s) \in Seq(S) /\ Len(Tail(s)) = Len(s) - 1
        /\ \A i \in 1 .. Len(Tail(s)) : Tail(s)[i] = s[i + 1]
    BY HeadTailProperties
  <2>3. \A i \in 1 .. Len(Tail(s)) : Tail(r)[i] = Tail(s)[i]
    <3> SUFFICES ASSUME NEW i \in 1 .. Len(Tail(s)) PROVE Tail(r)[i] = Tail(s)[i]  OBVIOUS
    <3>1. i \in 1 .. Len(Tail(r)) /\ i + 1 \in 2 .. Len(s)  BY <1>1, <2>1, <2>2
    <3> QED  BY <1>2, <2>1, <2>2, <3>1
  <2> QED  BY <2>1, <2>2, <2>3, SeqEqual
<1> QED  BY <1>2, <1>3, <1>4, <1>5, <1>6

-----------------------------------------------------------------------------
(* What the three changes of a stack do to its part of the invariant.      *)

LEMMA PushKeepsCalls ==
  ASSUME NEW s \in Seq(Calls), NEW c \in Calls, AllOK(s), CallOK(c)
  PROVE  AllOK(<<c>> \o s)
<1> DEFINE r == <<c>> \o s
<1>1. /\ DOMAIN r = 1 .. Len(s) + 1 /\ r[1] = c /\ Len(s) \in Nat /\ DOMAIN s = 1 .. Len(s)
      /\ \A i \in 1 .. Len(s) : r[i + 1] = s[i]
  BY Pushed, Lengths
<1> HIDE DEF r
<1>2. ASSUME NEW i \in DOMAIN r PROVE CallOK(r[i])
  <2>1. CASE i = 1  BY <1>1, <2>1
  <2>2. CASE i # 1
    <3>1. i - 1 \in 1 .. Len(s) /\ (i - 1) + 1 = i  BY <1>1, <2>2
    <3>2. r[i] = s[i - 1]  BY <1>1, <3>1
    <3> QED  BY <1>1, <3>1, <3>2 DEF AllOK
  <2> QED  BY <2>1, <2>2
<1> QED  BY <1>2 DEF AllOK, r

LEMMA PopKeepsCalls ==
  ASSUME NEW s \in Seq(Calls), s # <<>>, AllOK(s)
  PROVE  AllOK(Tail(s)) /\ CallOK(s[1]) /\ s[1] \in Calls
<1>1. /\ Tail(s) \in Seq(Calls) /\ Len(s) = Len(Tail(s)) + 1
      /\ \A i \in 1 .. Len(Tail(s)) : Tail(s)[i] = s[i + 1]
  BY Popped
<1>2. /\ DOMAIN Tail(s) = 1 .. Len(Tail(s)) /\ Len(Tail(s)) \in Nat /\ DOMAIN s = 1 .. Len(s)
      /\ Len(s) \in Nat /\ Len(s) # 0
  BY <1>1, Lengths
<1>3. ASSUME NEW i \in DOMAIN Tail(s) PROVE CallOK(Tail(s)[i])
  <2>1. i + 1 \in DOMAIN s /\ Tail(s)[i] = s[i + 1]  BY <1>1, <1>2
  <2> QED  BY <2>1 DEF AllOK
<1>4. 1 \in DOMAIN s  BY <1>2
<1> QED  BY <1>3, <1>4, Lengths DEF AllOK

LEMMA SwapKeepsCalls ==
  ASSUME NEW s \in Seq(Calls), s # <<>>, NEW c \in Calls, AllOK(s), CallOK(c)
  PROVE  AllOK([s EXCEPT ![1] = c])
<1> DEFINE r == [s EXCEPT ![1] = c]
<1>1. r \in Seq(Calls) /\ Len(r) = Len(s) /\ r[1] = c /\ \A i \in 2 .. Len(s) : r[i] = s[i]
  BY Swapped
<1> HIDE DEF r
<1>2. DOMAIN r = 1 .. Len(s) /\ DOMAIN s = 1 .. Len(s) /\ Len(s) \in Nat  BY <1>1, Lengths
<1>3. ASSUME NEW i \in DOMAIN r PROVE CallOK(r[i])
  <2>1. CASE i = 1  BY <1>1, <2>1
  <2>2. CASE i # 1
    <3>1. i \in 2 .. Len(s)  BY <1>2, <2>2
    <3> QED  BY <1>1, <1>2, <3>1 DEF AllOK
  <2> QED  BY <2>1, <2>2
<1> QED  BY <1>3 DEF AllOK, r

(* A call starts outside of any other, or in the backtrace of the one      *)
(* before; it does not count until it has entered.                         *)
LEMMA PushKeepsLevel ==
  ASSUME NEW s \in Seq(Calls), NEW n, NEW c \in Calls, StackOK(s, n),
         s = <<>> \/ s[1].pc = "backtrace",
         c.pc \in {"enter", "lmm_realloc"}, c.q = NULL
  PROVE  StackOK(<<c>> \o s, n)
<1> DEFINE r == <<c>> \o s
<1>1. /\ r # <<>> /\ Len(r) = Len(s) + 1 /\ DOMAIN r = 1 .. Len(s) + 1
      /\ r[1] = c /\ \A i \in 1 .. Len(s) : r[i + 1] = s[i]
  BY Pushed
<1> HIDE DEF r
<1>2. DOMAIN s = 1 .. Len(s) /\ Len(s) \in Nat /\ (s = <<>> <=> Len(s) = 0)  BY Lengths
<1>3. c.pc \notin Entered \cup Entering  BY DEF Entered, Entering
<1>4. \A i \in DOMAIN r : i = 1 \/ (i - 1 \in DOMAIN s /\ r[i] = s[i - 1])
  <2> SUFFICES ASSUME NEW i \in DOMAIN r, i # 1 PROVE i - 1 \in DOMAIN s /\ r[i] = s[i - 1]
    OBVIOUS
  <2>1. i - 1 \in 1 .. Len(s) /\ (i - 1) + 1 = i  BY <1>1, <1>2
  <2> QED  BY <1>1, <1>2, <2>1
<1>5. Waiting(r)
  <2> SUFFICES ASSUME NEW i \in DOMAIN r, i > 1 PROVE r[i].pc = "backtrace"  BY DEF Waiting
  <2>1. i - 1 \in DOMAIN s /\ r[i] = s[i - 1] /\ s # <<>>  BY <1>1, <1>2, <1>4
  <2>2. CASE i - 1 = 1  BY <2>1, <2>2
  <2>3. CASE i - 1 > 1  BY <2>1, <2>3 DEF StackOK, Waiting
  <2> QED  BY <1>2, <2>1, <2>2, <2>3
<1>6. Levelled(r)
  <2> SUFFICES ASSUME NEW i \in DOMAIN r, r[i].pc \in Entered PROVE r[i].level = Len(r) - i + 1
    BY DEF Levelled
  <2>1. i - 1 \in DOMAIN s /\ r[i] = s[i - 1]  BY <1>1, <1>3, <1>4
  <2>2. s[i - 1].level = Len(s) - (i - 1) + 1  BY <2>1 DEF StackOK, Levelled
  <2> QED  BY <1>1, <1>2, <2>1, <2>2
<1>7. Served(r)
  <2> SUFFICES ASSUME NEW i \in DOMAIN r, r[i].op = "malloc"
               PROVE  /\ r[i].q # NULL => (r[i].q \in Pool <=> i < Len(r))
                      /\ r[i].pc \in {"check", "backtrace", "write"} => i = Len(r)
    BY DEF Served
  <2>1. CASE i = 1
    <3>1. r[i] = c  BY <1>1, <2>1
    <3> QED  BY <3>1
  <2>2. CASE i # 1
    <3>1. i - 1 \in DOMAIN s /\ r[i] = s[i - 1]  BY <1>4, <2>2
    <3>2. /\ s[i - 1].q # NULL => (s[i - 1].q \in Pool <=> i - 1 < Len(s))
          /\ s[i - 1].pc \in {"check", "backtrace", "write"} => i - 1 = Len(s)
      BY <3>1 DEF StackOK, Served
    <3>3. (i - 1 < Len(s) <=> i < Len(r)) /\ (i - 1 = Len(s) => i = Len(r))
      BY <1>1, <1>2, <3>1
    <3> QED  BY <3>1, <3>2, <3>3
  <2> QED  BY <2>1, <2>2
<1>8. n = Depth(r)
  <2>1. Depth(r) = Len(s)  BY <1>1, <1>2, <1>3 DEF Depth
  <2>2. CASE s = <<>>  BY <1>2, <2>1, <2>2 DEF StackOK, Depth
  <2>3. CASE s # <<>>  BY <2>1, <2>3 DEF StackOK, Depth, Entered
  <2> QED  BY <2>2, <2>3
<1> QED  BY <1>5, <1>6, <1>7, <1>8 DEF StackOK, r

(* A call that returns leaves the level at what it was before it entered.  *)
LEMMA PopKeepsLevel ==
  ASSUME NEW s \in Seq(Calls), NEW n, StackOK(s, n), s # <<>>,
         s[1].pc \in {"leave", "lmm_realloc"}
  PROVE  /\ StackOK(Tail(s), IF s[1].pc = "leave" THEN n - 1 ELSE n)
         /\ n \in Nat
         /\ s[1].pc = "leave" => n = Len(s) /\ n > 0
<1> DEFINE r == Tail(s)
<1>1. r \in Seq(Calls) /\ Len(s) = Len(r) + 1 /\ \A i \in 1 .. Len(r) : r[i] = s[i + 1]
  BY Popped
<1> HIDE DEF r
<1>2. /\ DOMAIN s = 1 .. Len(s) /\ Len(s) \in Nat
      /\ DOMAIN r = 1 .. Len(r) /\ Len(r) \in Nat /\ (r = <<>> <=> Len(r) = 0)
  BY <1>1, Lengths
<1>3. \A i \in DOMAIN r : i + 1 \in DOMAIN s /\ r[i] = s[i + 1]  BY <1>1, <1>2
<1>4. \A i \in DOMAIN r : r[i].pc = "backtrace"
  BY <1>2, <1>3 DEF StackOK, Waiting
<1>5. Waiting(r)  BY <1>4 DEF Waiting
<1>6. Levelled(r)
  <2> SUFFICES ASSUME NEW i \in DOMAIN r, r[i].pc \in Entered PROVE r[i].level = Len(r) - i + 1
    BY DEF Levelled
  <2>1. s[i + 1].level = Len(s) - (i + 1) + 1  BY <1>3 DEF StackOK, Levelled
  <2> QED  BY <1>1, <1>2, <1>3, <2>1
<1>7. Served(r)
  <2> SUFFICES ASSUME NEW i \in DOMAIN r, r[i].op = "malloc"
               PROVE  /\ r[i].q # NULL => (r[i].q \in Pool <=> i < Len(r))
                      /\ r[i].pc \in {"check", "backtrace", "write"} => i = Len(r)
    BY DEF Served
  <2>1. /\ s[i + 1].q # NULL => (s[i + 1].q \in Pool <=> i + 1 < Len(s))
        /\ s[i + 1].pc \in {"check", "backtrace", "write"} => i + 1 = Len(s)
    BY <1>3 DEF StackOK, Served
  <2>2. (i + 1 < Len(s) <=> i < Len(r)) /\ (i + 1 = Len(s) => i = Len(r))  BY <1>1, <1>2
  <2> QED  BY <1>3, <2>1, <2>2
<1>8. Depth(r) = Len(r)
  <2>1. CASE r = <<>>  BY <1>2, <2>1 DEF Depth
  <2>2. CASE r # <<>>
    <3>1. r[1].pc \in Entered  BY <1>2, <1>4, <2>2 DEF Entered
    <3> QED  BY <2>2, <3>1 DEF Depth
  <2> QED  BY <2>1, <2>2
<1>9. n = IF s[1].pc = "leave" THEN Len(s) ELSE Len(s) - 1
  <2>1. n = Depth(s)  BY DEF StackOK
  <2>2. CASE s[1].pc = "leave"  BY <2>1, <2>2 DEF Depth, Entered
  <2>3. CASE s[1].pc = "lmm_realloc"
    <3>1. s[1].pc \notin Entered \cup Entering /\ s[1].pc # "leave"
      BY <2>3 DEF Entered, Entering
    <3> QED  BY <2>1, <3>1 DEF Depth
  <2> QED  BY <2>2, <2>3
<1>10. n \in Nat /\ (s[1].pc = "leave" => n = Len(s) /\ n > 0)  BY <1>1, <1>2, <1>9
<1>11. Depth(r) = IF s[1].pc = "leave" THEN n - 1 ELSE n
  <2>1. CASE s[1].pc = "leave"  BY <1>1, <1>2, <1>8, <1>9, <2>1
  <2>2. CASE s[1].pc # "leave"  BY <1>1, <1>2, <1>8, <1>9, <2>2
  <2> QED  BY <2>1, <2>2
<1> QED  BY <1>5, <1>6, <1>7, <1>10, <1>11 DEF StackOK, r

(* The innermost call moves on.                                            *)
LEMMA SwapKeepsLevel ==
  ASSUME NEW s \in Seq(Calls), s # <<>>, NEW n, StackOK(s, n), NEW c \in Calls, NEW m,
         m = IF c.pc \in Entered \cup Entering THEN Len(s) ELSE Len(s) - 1,
         c.pc \in Entered => c.level = Len(s),
         c.op = "malloc" => /\ c.q # NULL => (c.q \in Pool <=> 1 < Len(s))
                            /\ c.pc \in {"check", "backtrace", "write"} => Len(s) = 1
  PROVE  StackOK([s EXCEPT ![1] = c], m)
<1> DEFINE r == [s EXCEPT ![1] = c]
<1>1. /\ r \in Seq(Calls) /\ r # <<>> /\ Len(r) = Len(s)
      /\ r[1] = c /\ \A i \in 2 .. Len(s) : r[i] = s[i]
  BY Swapped
<1> HIDE DEF r
<1>2. DOMAIN r = 1 .. Len(s) /\ DOMAIN s = 1 .. Len(s) /\ Len(s) \in Nat  BY <1>1, Lengths
<1>3. \A i \in DOMAIN r : i \in DOMAIN s /\ (i = 1 \/ (i > 1 /\ r[i] = s[i]))  BY <1>1, <1>2
<1>4. Waiting(r)  BY <1>3 DEF StackOK, Waiting
<1>5. Levelled(r)
  <2> SUFFICES ASSUME NEW i \in DOMAIN r, r[i].pc \in Entered PROVE r[i].level = Len(r) - i + 1
    BY DEF Levelled
  <2>1. CASE i = 1  BY <1>1, <1>2, <2>1
  <2>2. CASE i # 1  BY <1>1, <1>3, <2>2 DEF StackOK, Levelled
  <2> QED  BY <2>1, <2>2
<1>6. Served(r)
  <2> SUFFICES ASSUME NEW i \in DOMAIN r, r[i].op = "malloc"
               PROVE  /\ r[i].q # NULL => (r[i].q \in Pool <=> i < Len(r))
                      /\ r[i].pc \in {"check", "backtrace", "write"} => i = Len(r)
    BY DEF Served
  <2>1. CASE i = 1  BY <1>1, <2>1
  <2>2. CASE i # 1
    <3>1. r[i] = s[i] /\ i \in DOMAIN s  BY <1>3, <2>2
    <3> QED  BY <1>1, <3>1 DEF StackOK, Served
  <2> QED  BY <2>1, <2>2
<1>7. m = Depth(r)  BY <1>1 DEF Depth
<1> QED  BY <1>4, <1>5, <1>6, <1>7 DEF StackOK, r

-----------------------------------------------------------------------------
(* What the steps do to the stacks: one thread's changes, in one of four   *)
(* ways.                                                                   *)

Pcs == {"enter", "lmm_realloc"} \cup InitPcs \cup Entered

Becomes(t, r) == r \in Seq(Calls) /\ stack' = [stack EXCEPT ![t] = r]
Pushes(t, c) == c \in Calls /\ Becomes(t, <<c>> \o stack[t])
Pops(t)      == ~Idle(t) /\ Becomes(t, Tail(stack[t]))
Swaps(t, c)  == c \in Calls /\ ~Idle(t) /\ Becomes(t, [stack[t] EXCEPT ![1] = c])

Stacks == stack \in [Threads -> Seq(Calls)]

LEMMA Becoming ==
  ASSUME Stacks, NEW t \in Threads, NEW r, Becomes(t, r)
  PROVE  Stacks' /\ stack'[t] = r /\ \A u \in Threads \ {t} : stack'[u] = stack[u]
BY Zenon DEF Stacks, Becomes

LEMMA TopIsCall ==
  ASSUME Stacks, NEW t \in Threads, ~Idle(t)
  PROVE  Top(t) \in Calls /\ stack[t] \in Seq(Calls) /\ stack[t] # <<>>
<1>1. stack[t] \in Seq(Calls) /\ stack[t] # <<>>  BY DEF Stacks, Idle
<1>2. stack[t][1] \in Calls  BY <1>1, Popped
<1> QED  BY <1>1, <1>2 DEF Top

\* The record of a call with some fields changed.
LEMMA PcField ==
  ASSUME NEW c \in Calls, NEW l \in Pcs
  PROVE  LET d == [c EXCEPT !.pc = l]
         IN d \in Calls /\ d.pc = l /\ d.op = c.op /\ d.p = c.p /\ d.q = c.q /\ d.level = c.level
BY DEF Calls, Pcs

LEMMA ResultFields ==
  ASSUME NEW c \in Calls, NEW l \in Pcs, NEW q \in Addresses
  PROVE  LET d == [c EXCEPT !.q = q, !.pc = l]
         IN d \in Calls /\ d.pc = l /\ d.op = c.op /\ d.p = c.p /\ d.q = q /\ d.level = c.level
BY DEF Calls, Pcs

LEMMA NewCall ==
  ASSUME NEW op \in Ops, NEW p \in Addresses, NEW l \in Pcs
  PROVE  LET c == Call(op, p, l)
         IN c \in Calls /\ c.op = op /\ c.pc = l /\ c.p = p /\ c.q = NULL /\ c.level = 0
BY DEF Calls, Pcs, Call, Addresses

LEMMA GotoSwaps ==
  ASSUME Stacks, NEW t \in Threads, ~Idle(t), NEW l \in Pcs, Goto(t, l)
  PROVE  Swaps(t, [Top(t) EXCEPT !.pc = l])
<1> DEFINE c == [Top(t) EXCEPT !.pc = l]
<1>1. c \in Calls  BY TopIsCall, PcField
<1>2. stack' = [stack EXCEPT ![t] = [stack[t] EXCEPT ![1] = c]]
  BY DEF Goto, Top
<1>3. [stack[t] EXCEPT ![1] = c] \in Seq(Calls)  BY <1>1, TopIsCall, Swapped
<1> QED  BY <1>1, <1>2, <1>3 DEF Swaps, Becomes

LEMMA ResultSwaps ==
  ASSUME Stacks, NEW t \in Threads, ~Idle(t), NEW l \in Pcs, NEW q \in Addresses, Result(t, q, l)
  PROVE  Swaps(t, [Top(t) EXCEPT !.q = q, !.pc = l])
<1> DEFINE c == [Top(t) EXCEPT !.q = q, !.pc = l]
<1>1. c \in Calls  BY TopIsCall, ResultFields
<1>2. stack' = [stack EXCEPT ![t] = [stack[t] EXCEPT ![1] = c]]
  BY TopIsCall, Popped DEF Result, Top, Stacks
<1>3. [stack[t] EXCEPT ![1] = c] \in Seq(Calls)  BY <1>1, TopIsCall, Swapped
<1> QED  BY <1>1, <1>2, <1>3 DEF Swaps, Becomes

(* A library function that does not allocate moves on; one that does also  *)
(* calls malloc.                                                           *)
LEMMA LibraryBecomes ==
  ASSUME Stacks, NEW t \in Threads, ~Idle(t), NEW l \in Pcs, NEW name, Library(t, name, l)
  PROVE  LET c == [Top(t) EXCEPT !.pc = l]
             r == [stack[t] EXCEPT ![1] = c]
         IN /\ c \in Calls /\ r \in Seq(Calls) /\ r # <<>>
            /\ name \notin StdioMallocs => Swaps(t, c)
            /\ name \in StdioMallocs => Becomes(t, <<Call("malloc", NULL, "enter")>> \o r)
<1> DEFINE c == [Top(t) EXCEPT !.pc = l]
           r == [stack[t] EXCEPT ![1] = c]
           m == Call("malloc", NULL, "enter")
<1>1. c \in Calls  BY TopIsCall, PcField
<1>2. r \in Seq(Calls) /\ r # <<>>  BY <1>1, TopIsCall, Swapped
<1>3. m \in Calls  BY NewCall DEF Pcs, Ops, Addresses
<1>4. r = <<c>> \o Tail(stack[t])
  <2>1. Tail(r) = Tail(stack[t]) /\ r[1] = c  BY <1>1, TopIsCall, Swapped
  <2>2. r = <<Head(r)>> \o Tail(r) /\ Head(r) = r[1]  BY <1>2
  <2> QED  BY <2>1, <2>2
<1>5. <<m>> \o r \in Seq(Calls)  BY <1>2, <1>3, Pushed
<1>6. stack' = [stack EXCEPT ![t] =
          (IF name \in StdioMallocs THEN <<m>> ELSE <<>>) \o <<c>> \o Tail(stack[t])]
  BY DEF Library, Top, Stacks
<1>7. CASE name \in StdioMallocs
  <2>1. stack' = [stack EXCEPT ![t] = <<m>> \o <<c>> \o Tail(stack[t])]  BY <1>6, <1>7
  <2>2. <<m>> \o <<c>> \o Tail(stack[t]) = <<m>> \o r
    BY <1>1, <1>3, <1>4, TopIsCall, Popped
  <2> QED  BY <1>1, <1>2, <1>5, <1>7, <2>1, <2>2 DEF Becomes
<1>8. CASE name \notin StdioMallocs
  <2>1. stack' = [stack EXCEPT ![t] = <<>> \o <<c>> \o Tail(stack[t])]  BY <1>6, <1>8
  <2>2. <<>> \o <<c>> \o Tail(stack[t]) = r
    BY <1>1, <1>4, TopIsCall, Popped
  <2> QED  BY <1>1, <1>2, <1>8, <2>1, <2>2 DEF Becomes, Swaps
<1> QED  BY <1>7, <1>8

-----------------------------------------------------------------------------
(* Types, and what each call holds.                                        *)

LEMMA InitTyped == Init => Typed
<1> SUFFICES ASSUME Init PROVE Typed  OBVIOUS
<1>1. TypeOK
  <2>1. level \in [Threads -> Nat] /\ stack \in [Threads -> Seq(Calls)] /\ log \in Seq(Records)
    BY DEF Init
  <2>2. calls \in 0 .. MaxCalls /\ inner \in 0 .. MaxInner  BY BoundsAssumption DEF Init
  <2> QED  BY <2>1, <2>2 DEF Init, TypeOK
<1>2. ASSUME NEW t \in Threads PROVE AllOK(stack[t])
  <2>1. stack[t] = <<>>  BY DEF Init
  <2>2. DOMAIN <<>> = {}  OBVIOUS
  <2> QED  BY <2>1, <2>2 DEF AllOK
<1> QED  BY <1>1, <1>2 DEF Typed, CallsOK

LEMMA BecomesOK ==
  ASSUME TypeOK, CallsOK, NEW t \in Threads, NEW r, Becomes(t, r), AllOK(r)
  PROVE  Stacks' /\ CallsOK'
<1>1. Stacks  BY DEF TypeOK, Stacks
<1>2. Stacks' /\ stack'[t] = r /\ \A u \in Threads \ {t} : stack'[u] = stack[u]
  BY <1>1, Becoming
<1> QED  BY <1>2 DEF CallsOK

LEMMA TopIsOK ==
  ASSUME Typed, NEW t \in Threads, ~Idle(t)
  PROVE  /\ Stacks /\ Top(t) \in Calls /\ CallOK(Top(t)) /\ AllOK(stack[t])
         /\ stack[t] \in Seq(Calls) /\ stack[t] # <<>>
<1>1. Stacks /\ AllOK(stack[t])  BY DEF Typed, TypeOK, CallsOK, Stacks
<1>2. Top(t) \in Calls /\ stack[t] \in Seq(Calls) /\ stack[t] # <<>>  BY <1>1, TopIsCall
<1>3. CallOK(stack[t][1])  BY <1>1, <1>2, PopKeepsCalls
<1> QED  BY <1>1, <1>2, <1>3 DEF Top

LEMMA SwapsOK ==
  ASSUME Typed, NEW t \in Threads, NEW c, Swaps(t, c), CallOK(c)
  PROVE  Stacks' /\ CallsOK'
<1>1. AllOK([stack[t] EXCEPT ![1] = c])
  BY TopIsOK, SwapKeepsCalls DEF Swaps
<1> QED  BY <1>1, BecomesOK DEF Swaps, Typed

LEMMA PopsOK ==
  ASSUME Typed, NEW t \in Threads, Pops(t)
  PROVE  Stacks' /\ CallsOK'
<1>1. AllOK(Tail(stack[t]))
  BY TopIsOK, PopKeepsCalls DEF Pops
<1> QED  BY <1>1, BecomesOK DEF Pops, Typed

LEMMA PushesOK ==
  ASSUME Typed, NEW t \in Threads, NEW c, Pushes(t, c), CallOK(c)
  PROVE  Stacks' /\ CallsOK'
<1>1. stack[t] \in Seq(Calls) /\ AllOK(stack[t])  BY DEF Typed, TypeOK, CallsOK
<1>2. AllOK(<<c>> \o stack[t])  BY <1>1, PushKeepsCalls DEF Pushes
<1> QED  BY <1>2, BecomesOK DEF Pushes, Typed

(* Moving on leaves a call what it was, if its place allows its result.    *)
LEMMA GotoOK ==
  ASSUME Typed, NEW t \in Threads, ~Idle(t), NEW l \in Pcs, Goto(t, l),
         l # "lmm_realloc", Top(t).pc # "lmm_realloc",
         l \in {"enter", "body"} \cup InitPcs => Top(t).pc \in {"enter", "body"} \cup InitPcs
  PROVE  Stacks' /\ CallsOK'
<1> DEFINE c == [Top(t) EXCEPT !.pc = l]
<1>1. Swaps(t, c)  BY TopIsOK, GotoSwaps
<1>2. /\ c.pc = l /\ c.op = Top(t).op /\ c.p = Top(t).p /\ c.q = Top(t).q
  <2>1. Top(t) \in Calls  BY TopIsOK
  <2> QED  BY <2>1, PcField
<1> HIDE DEF c
<1>3. CallOK(c)  BY <1>2, TopIsOK DEF CallOK
<1> QED  BY <1>1, <1>3, SwapsOK

LEMMA ResultOK ==
  ASSUME Typed, NEW t \in Threads, ~Idle(t), NEW l \in Pcs, l \in {"check", "leave"},
         NEW q \in Addresses, Result(t, q, l), At(t, "body"),
         \/ Top(t).op = "malloc"
         \/ Top(t).op = "realloc" /\ q \in Heap \cup {NULL}
  PROVE  Stacks' /\ CallsOK'
<1> DEFINE c == [Top(t) EXCEPT !.q = q, !.pc = l]
<1>2. Swaps(t, c)  BY TopIsOK, ResultSwaps
<1>3. /\ c.pc = l /\ c.op = Top(t).op /\ c.p = Top(t).p /\ c.q = q
  <2>1. Top(t) \in Calls  BY TopIsOK
  <2> QED  BY <2>1 DEF Calls, Pcs
<1> HIDE DEF c
<1>4. CallOK(c)  BY <1>3, TopIsOK DEF CallOK, At, InitPcs
<1> QED  BY <1>2, <1>4, SwapsOK

LEMMA LibraryOK ==
  ASSUME Typed, NEW t \in Threads, NEW l \in {"ready", "initwrite"}, NEW name,
         Library(t, name, l), NEW k \in InitPcs, At(t, k)
  PROVE  Stacks' /\ CallsOK'
<1> DEFINE c == [Top(t) EXCEPT !.pc = l]
           r == [stack[t] EXCEPT ![1] = c]
           m == Call("malloc", NULL, "enter")
<1>1. l \in Pcs /\ ~Idle(t) /\ Top(t).pc = k  BY DEF Pcs, InitPcs, At
<1>2. /\ c \in Calls /\ r \in Seq(Calls)
      /\ name \notin StdioMallocs => Swaps(t, c)
      /\ name \in StdioMallocs => Becomes(t, <<m>> \o r)
  BY <1>1, TopIsOK, LibraryBecomes
<1>3. CallOK(c)
  <2>1. c.pc = l /\ c.op = Top(t).op /\ c.p = Top(t).p /\ c.q = Top(t).q
    <3>1. Top(t) \in Calls  BY <1>1, TopIsOK
    <3> QED  BY <1>1, <3>1, PcField
  <2> HIDE DEF c
  <2>2. CallOK(Top(t)) /\ Top(t).pc \in InitPcs /\ l \in InitPcs
    BY <1>1, TopIsOK DEF InitPcs
  <2> QED  BY <2>1, <2>2 DEF CallOK, InitPcs
<1>4. AllOK(r)  BY <1>1, <1>2, <1>3, TopIsOK, SwapKeepsCalls
<1>5. m \in Calls /\ CallOK(m)
  BY NewCall DEF Pcs, Ops, Addresses, CallOK
<1>6. AllOK(<<m>> \o r)  BY <1>2, <1>4, <1>5, PushKeepsCalls
<1>7. CASE name \in StdioMallocs  BY <1>2, <1>6, <1>7, BecomesOK DEF Typed
<1>8. CASE name \notin StdioMallocs  BY <1>2, <1>3, <1>8, SwapsOK
<1> QED  BY <1>7, <1>8

LEMMA StartOK ==
  ASSUME Typed, NEW t \in Threads, NEW op \in Ops, NEW p \in Addresses, Start(t, op, p),
         op \in {"malloc", "tag"} <=> p = NULL
  PROVE  Stacks' /\ CallsOK'
<1> DEFINE l == IF op = "realloc" /\ lmm_valid(p) THEN "lmm_realloc" ELSE "enter"
           c == Call(op, p, l)
<1>1. l \in Pcs /\ (l = "lmm_realloc" <=> op = "realloc" /\ p \in Pool)  BY DEF Pcs, lmm_valid
<1> HIDE DEF l
<1>2. c \in Calls /\ c.op = op /\ c.p = p /\ c.pc = l /\ c.q = NULL  BY <1>1, NewCall
<1>3. stack' = [stack EXCEPT ![t] = <<c>> \o stack[t]]  BY DEF Start, Push, l
<1> HIDE DEF c
<1>4. CallOK(c)  BY <1>1, <1>2, AddressAssumption DEF CallOK
<1>5. Pushes(t, c)
  BY <1>2, <1>3, Pushed DEF Pushes, Becomes, Typed, TypeOK
<1> QED  BY <1>4, <1>5, PushesOK DEF Typed

LEMMA RecordOK ==
  ASSUME Typed, NEW t \in Threads, ~Idle(t), Write(t)
  PROVE  log' \in Seq(Records)
<1>1. Record(t) \in Records
  BY TopIsOK DEF Record, Records, Calls
<1> QED  BY <1>1 DEF Write, Typed, TypeOK

LEMMA ReturnedOK ==
  ASSUME NEW c \in Calls, CallOK(c)
  PROVE  Returned(c) \subseteq Heap \cup Pool
BY DEF Returned, CallOK, Calls, Addresses

LEMMA CallerTyped ==
  ASSUME Typed, NEW t \in Threads, Caller(t)
  PROVE  Typed'
<1> DEFINE Counted == /\ calls' \in 0 .. MaxCalls /\ inner' \in 0 .. MaxInner
<1>1. FromApplication(t) => Counted
  BY BoundsAssumption DEF FromApplication, Typed, TypeOK
<1>2. FromBacktrace(t) => Counted
  BY BoundsAssumption DEF FromBacktrace, Typed, TypeOK
<1> HIDE DEF Counted
<1>3. ASSUME NEW op \in Ops, NEW p \in Addresses, Start(t, op, p), Counted, stolen' \in BOOLEAN,
             op \in {"malloc", "tag"} <=> p = NULL
      PROVE  Typed'
  <2>1. Stacks' /\ CallsOK'  BY <1>3, StartOK
  <2> QED  BY <1>3, <2>1 DEF Start, Typed, TypeOK, Stacks, Counted, heaps
<1>4. CASE CallMalloc(t)
  <2>1. Start(t, "malloc", NULL) /\ Counted /\ stolen' \in BOOLEAN
    BY <1>1, <1>2, <1>4 DEF CallMalloc, Typed, TypeOK
  <2> QED  BY <1>3, <2>1 DEF Ops, Addresses
<1>5. ASSUME NEW op \in {"free", "realloc"}, NEW p \in owned, CallOn(t, op, p)
      PROVE  Typed'
  <2>1. Start(t, op, p) /\ Counted /\ stolen' \in BOOLEAN
    BY <1>1, <1>2, <1>5 DEF CallOn, Typed, TypeOK
  <2>2. p \in Addresses /\ p # NULL  BY AddressAssumption DEF Typed, TypeOK, Addresses
  <2> QED  BY <1>3, <2>1, <2>2 DEF Ops
<1>6. CASE memtraq_tag(t)
  <2>1. Start(t, "tag", NULL) /\ Counted /\ stolen' \in BOOLEAN
    BY <1>1, <1>6 DEF memtraq_tag, Typed, TypeOK
  <2> QED  BY <1>3, <2>1 DEF Ops, Addresses
<1>7. ASSUME NEW on \in BOOLEAN, SetEnabled(t, on) PROVE Typed'
  BY <1>1, <1>7 DEF SetEnabled, Typed, TypeOK, CallsOK, heaps, Counted
<1> QED  BY <1>4, <1>5, <1>6, <1>7 DEF Caller

LEMMA InitStepsTyped ==
  ASSUME Typed, NEW t \in Threads,
         \/ Enter(t) \/ InitKey(t) \/ InitFopen(t) \/ InitReady(t) \/ InitLock(t) \/ InitWrite(t)
  PROVE  Typed'
<1> USE DEF Typed
<1>1. CASE Enter(t)
  <2>1. ~Idle(t) /\ Top(t).pc = "enter"  BY <1>1 DEF Enter, At
  <2>2. CASE ~initialized
    <3>1. Goto(t, "key") /\ UNCHANGED level  BY <1>1, <2>2 DEF Enter
    <3>2. Stacks' /\ CallsOK'  BY <2>1, <3>1, GotoOK DEF Pcs, InitPcs
    <3> QED  BY <1>1, <3>1, <3>2 DEF Enter, TypeOK, Stacks, heaps, bounds
  <2>3. CASE initialized
    <3> DEFINE c == [Top(t) EXCEPT !.pc = "body", !.level = level[t] + 1]
    <3>1. /\ level' = [level EXCEPT ![t] = @ + 1]
          /\ stack' = [stack EXCEPT ![t][1].pc = "body", ![t][1].level = level[t] + 1]
      BY <1>1, <2>3 DEF Enter
    <3>2. level[t] + 1 \in Nat /\ level' \in [Threads -> Nat]  BY <3>1 DEF TypeOK
    <3>3. Top(t) \in Calls /\ CallOK(Top(t))  BY <2>1, TopIsOK
    <3>4. /\ c \in Calls /\ c.pc = "body" /\ c.op = Top(t).op /\ c.p = Top(t).p
          /\ c.q = Top(t).q
      BY <3>2, <3>3 DEF Calls, Entered
    <3>5. stack' = [stack EXCEPT ![t] = [stack[t] EXCEPT ![1] = c]]
      BY <2>1, <3>1, TopIsOK, Popped DEF Top, Stacks
    <3>6. Swaps(t, c)
      BY <2>1, <3>4, <3>5, TopIsOK, Swapped DEF Swaps, Becomes
    <3> HIDE DEF c
    <3>7. CallOK(c)  BY <2>1, <3>3, <3>4 DEF CallOK
    <3>8. Stacks' /\ CallsOK'  BY <3>6, <3>7, SwapsOK
    <3> QED  BY <1>1, <3>2, <3>8 DEF Enter, TypeOK, Stacks, heaps, bounds
  <2> QED  BY <2>2, <2>3 DEF TypeOK
<1>2. CASE InitKey(t)
  <2>1. Stacks' /\ CallsOK'  BY <1>2, GotoOK DEF InitKey, At, Pcs, InitPcs
  <2> QED  BY <1>2, <2>1 DEF InitKey, TypeOK, Stacks, heaps, bounds
<1>3. CASE InitFopen(t)
  <2>1. Stacks' /\ CallsOK'  BY <1>3, LibraryOK DEF InitFopen, InitPcs
  <2> QED  BY <1>3, <2>1 DEF InitFopen, TypeOK, Stacks, heaps, bounds
<1>4. CASE InitReady(t)
  <2>1. Stacks' /\ CallsOK'  BY <1>4, GotoOK DEF InitReady, At, Pcs, InitPcs
  <2> QED  BY <1>4, <2>1 DEF InitReady, TypeOK, Stacks, heaps, bounds
<1>5. CASE InitLock(t)
  <2>1. Stacks' /\ CallsOK'  BY <1>5, LibraryOK DEF InitLock, InitPcs
  <2> QED  BY <1>5, <2>1, SettingsAssumption DEF InitLock, TypeOK, Stacks, heaps, bounds
<1>6. CASE InitWrite(t)
  <2>1. Stacks' /\ CallsOK'  BY <1>6, GotoOK DEF InitWrite, At, Pcs, InitPcs
  <2>2. InitRecord(t) \in Records  BY DEF InitRecord, Records, Addresses
  <2>3. log' \in Seq(Records)  BY <1>6, <2>2 DEF InitWrite, TypeOK
  <2> QED  BY <1>6, <2>1, <2>3 DEF InitWrite, TypeOK, Stacks, heaps, bounds
<1> QED  BY <1>1, <1>2, <1>3, <1>4, <1>5, <1>6

LEMMA OperationsTyped ==
  ASSUME Typed, NEW t \in Threads,
         Malloc(t) \/ Free(t) \/ Realloc(t) \/ LmmRealloc(t) \/ Tag(t)
  PROVE  Typed'
<1> USE DEF Typed
<1> DEFINE p == Top(t).p
<1>1. {"check", "leave"} \subseteq Pcs  BY DEF Pcs, Entered
<1>2. CASE Malloc(t)
  <2>1. At(t, "body") /\ Top(t).op = "malloc" /\ ~Idle(t)  BY <1>2 DEF Malloc, At
  <2>2. PICK q \in Addresses :
          /\ \/ heap' = heap /\ q \in Pool \cup {NULL} /\ pool' = (pool \cup {q}) \ {NULL}
             \/ pool' = pool /\ q \in Heap \cup {NULL} /\ heap' = (heap \cup {q}) \ {NULL}
          /\ Result(t, q, "leave") \/ Result(t, q, "check")
    BY <1>2 DEF Malloc, Addresses
  <2>3. Stacks' /\ CallsOK'  BY <1>1, <2>1, <2>2, ResultOK
  <2>4. heap' \subseteq Heap /\ pool' \subseteq Pool  BY <2>2 DEF TypeOK
  <2> QED  BY <1>2, <2>3, <2>4 DEF Malloc, TypeOK, Stacks, bounds
<1>3. CASE Free(t)
  <2>1. At(t, "body") /\ ~Idle(t) /\ (Goto(t, "leave") \/ Goto(t, "check"))
    BY <1>3 DEF Free, At
  <2>2. Stacks' /\ CallsOK'  BY <1>1, <2>1, GotoOK DEF At, InitPcs
  <2> QED  BY <1>3, <2>2 DEF Free, TypeOK, Stacks, bounds
<1>4. CASE Realloc(t)
  <2>1. At(t, "body") /\ Top(t).op = "realloc" /\ ~Idle(t)  BY <1>4 DEF Realloc, At
  <2>2. p \in Heap
    BY <2>1, TopIsOK DEF At, CallOK, Calls, Addresses
  <2>3. PICK q \in Heap \cup {NULL} :
          /\ heap' = IF q = NULL THEN heap ELSE (heap \ {p}) \cup {q}
          /\ Result(t, q, "check")
    BY <1>4, <2>2 DEF Realloc
  <2>4. Stacks' /\ CallsOK'  BY <1>1, <2>1, <2>3, ResultOK DEF Addresses
  <2>5. heap' \subseteq Heap  BY <2>3 DEF TypeOK
  <2> QED  BY <1>4, <2>4, <2>5 DEF Realloc, TypeOK, Stacks, bounds
<1>5. CASE LmmRealloc(t)
  <2>1. ~Idle(t)  BY <1>5 DEF LmmRealloc, At
  <2>2. Pops(t)
    BY <1>5, <2>1, TopIsOK, Popped DEF LmmRealloc, Pops, Becomes, Stacks
  <2>3. Stacks' /\ CallsOK'  BY <2>2, PopsOK
  <2>4. pool' \subseteq Pool /\ owned' \subseteq Heap \cup Pool  BY <1>5 DEF LmmRealloc, TypeOK
  <2> QED  BY <1>5, <2>3, <2>4 DEF LmmRealloc, TypeOK, Stacks, bounds
<1>6. CASE Tag(t)
  <2>1. Stacks' /\ CallsOK'  BY <1>1, <1>6, GotoOK DEF Tag, At, InitPcs
  <2> QED  BY <1>6, <2>1 DEF Tag, TypeOK, Stacks, heaps, bounds
<1> QED  BY <1>2, <1>3, <1>4, <1>5, <1>6

LEMMA LoggingTyped ==
  ASSUME Typed, NEW t \in Threads,
         Check(t) \/ Backtrace(t) \/ LogWrite(t) \/ Leave(t)
  PROVE  Typed'
<1> USE DEF Typed
<1>1. {"leave", "backtrace", "write"} \subseteq Pcs  BY DEF Pcs, Entered
<1>2. CASE Check(t)
  <2>1. /\ At(t, "check") /\ ~Idle(t)
        /\ UNCHANGED log \/ Write(t)
        /\ Goto(t, "leave") \/ Goto(t, "backtrace")
    BY <1>2 DEF Check, At
  <2>2. Stacks' /\ CallsOK'  BY <1>1, <2>1, GotoOK DEF At, InitPcs
  <2>3. log' \in Seq(Records)  BY <2>1, RecordOK DEF TypeOK
  <2> QED  BY <1>2, <2>2, <2>3 DEF Check, TypeOK, Stacks, heaps, bounds
<1>3. CASE Backtrace(t)
  <2>1. Stacks' /\ CallsOK'  BY <1>1, <1>3, GotoOK DEF Backtrace, At, InitPcs
  <2> QED  BY <1>3, <2>1 DEF Backtrace, TypeOK, Stacks, heaps, bounds
<1>4. CASE LogWrite(t)
  <2>1. Stacks' /\ CallsOK'  BY <1>1, <1>4, GotoOK DEF LogWrite, At, InitPcs
  <2>2. log' \in Seq(Records)  BY <1>4, RecordOK DEF LogWrite, At
  <2> QED  BY <1>4, <2>1, <2>2 DEF LogWrite, TypeOK, Stacks, heaps, bounds
<1>5. CASE Leave(t)
  <2>1. ~Idle(t)  BY <1>5 DEF Leave, At
  <2>2. Pops(t)
    BY <1>5, <2>1, TopIsOK, Popped DEF Leave, Pops, Becomes, Stacks
  <2>3. Stacks' /\ CallsOK'  BY <2>2, PopsOK
  <2>4. owned' \subseteq Heap \cup Pool
    BY <1>5, <2>1, TopIsOK, ReturnedOK DEF Leave, TypeOK
  <2>5. level' \in [Threads -> Nat]  BY <1>5 DEF Leave, TypeOK
  <2> QED  BY <1>5, <2>3, <2>4, <2>5 DEF Leave, TypeOK, Stacks, heaps, bounds
<1> QED  BY <1>2, <1>3, <1>4, <1>5

LEMMA StepTyped == Typed /\ [Next]_vars => Typed'
<1>1. ASSUME Typed, NEW t \in Threads, Caller(t) \/ Step(t) PROVE Typed'
  BY <1>1, CallerTyped, InitStepsTyped, OperationsTyped, LoggingTyped DEF Step
<1>2. ASSUME Typed, UNCHANGED vars PROVE Typed'
  BY <1>2 DEF vars, heaps, bounds, Typed, TypeOK, CallsOK
<1> QED  BY <1>1, <1>2 DEF Next, Finished

(* Every variable of the wrappers keeps a value of its type, and every     *)
(* call in progress an argument and a result that its place allows: what   *)
(* do_realloc passes to the C library is never a block of the pool.        *)
THEOREM TypeCorrect == Spec => [](TypeOK /\ CallsOK)
<1> QED  BY InitTyped, StepTyped, PTL DEF Spec, Typed

-----------------------------------------------------------------------------
(* Who holds what.                                                         *)

HeldBy(s) == UNION {InHand(s[i]) : i \in DOMAIN s}
Apart(s)  == \A i, j \in DOMAIN s : i # j => InHand(s[i]) \cap InHand(s[j]) = {}

InUse == heap \cup pool

Owners ==
  /\ InUse = owned \cup UNION {HeldBy(stack[t]) : t \in Threads}
  /\ \A t \in Threads :
       /\ owned \cap HeldBy(stack[t]) = {}
       /\ \A u \in Threads \ {t} : HeldBy(stack[u]) \cap HeldBy(stack[t]) = {}
       /\ Apart(stack[t])

LEMMA OwnersConserve == Owners <=> Conserved
<1> DEFINE U == UNION {HeldBy(stack[t]) : t \in Threads}
           V == UNION {InFlight[t] : t \in Threads}
<1>1. \A t \in Threads : InFlight[t] = HeldBy(stack[t])  BY DEF InFlight, HeldBy
<1>2. U = V  BY <1>1
<1>3. \A t \in Threads : Apart(stack[t]) <=>
        \A i, j \in DOMAIN stack[t] : i # j => InHand(stack[t][i]) \cap InHand(stack[t][j]) = {}
  BY DEF Apart
<1> HIDE DEF U, V
<1>4. Owners <=>
        /\ InUse = owned \cup U
        /\ \A t \in Threads :
             /\ owned \cap HeldBy(stack[t]) = {}
             /\ \A u \in Threads \ {t} : HeldBy(stack[u]) \cap HeldBy(stack[t]) = {}
             /\ Apart(stack[t])
  BY DEF Owners, U
<1>5. Conserved <=>
        /\ InUse = owned \cup V
        /\ \A t \in Threads :
             /\ owned \cap InFlight[t] = {}
             /\ \A u \in Threads \ {t} : InFlight[u] \cap InFlight[t] = {}
             /\ Apart(stack[t])
  BY <1>3 DEF Conserved, InUse, V
<1> QED  BY <1>1, <1>2, <1>4, <1>5

(* A stack holds what its innermost call holds and what the others do.     *)
LEMMA TopHolds ==
  ASSUME NEW s \in Seq(Calls), s # <<>>
  PROVE  /\ HeldBy(s) = InHand(s[1]) \cup HeldBy(Tail(s))
         /\ Apart(s) <=> Apart(Tail(s)) /\ InHand(s[1]) \cap HeldBy(Tail(s)) = {}
<1> DEFINE r == Tail(s)
<1>1. /\ r \in Seq(Calls) /\ Len(s) = Len(r) + 1 /\ \A i \in 1 .. Len(r) : r[i] = s[i + 1]
  BY Popped
<1>2. Len(r) \in Nat /\ DOMAIN r = 1 .. Len(r) /\ DOMAIN s = 1 .. Len(s)  BY <1>1, Lengths
<1> HIDE DEF r
<1>3. 1 \in DOMAIN s /\ \A i \in DOMAIN r : i + 1 \in DOMAIN s /\ i + 1 # 1  BY <1>1, <1>2
<1>4. \A i \in DOMAIN s : i = 1 \/ (i - 1 \in DOMAIN r /\ s[i] = r[i - 1])  BY <1>1, <1>2
<1>5. \A i \in DOMAIN r : r[i] = s[i + 1]  BY <1>1, <1>2
<1>6. HeldBy(s) = InHand(s[1]) \cup HeldBy(r)
  <2>1. ASSUME NEW a PROVE a \in HeldBy(s) <=> \E i \in DOMAIN s : a \in InHand(s[i])
    BY DEF HeldBy
  <2>2. ASSUME NEW a PROVE a \in HeldBy(r) <=> \E i \in DOMAIN r : a \in InHand(r[i])
    BY DEF HeldBy
  <2>3. ASSUME NEW a, NEW i \in DOMAIN r, a \in InHand(r[i]) PROVE a \in HeldBy(s)
    BY <1>3, <1>5, <2>1, <2>3
  <2>4. ASSUME NEW a, NEW i \in DOMAIN s, a \in InHand(s[i]), i # 1 PROVE a \in HeldBy(r)
    BY <1>4, <2>2, <2>4
  <2>5. ASSUME NEW a PROVE a \in HeldBy(s) <=> a \in InHand(s[1]) \/ a \in HeldBy(r)
    BY <1>3, <2>1, <2>2, <2>3, <2>4
  <2> QED  BY <2>5
<1>7. ASSUME Apart(s) PROVE Apart(r) /\ InHand(s[1]) \cap HeldBy(r) = {}
  <2>1. ASSUME NEW i \in DOMAIN r, NEW j \in DOMAIN r, i # j
        PROVE  InHand(r[i]) \cap InHand(r[j]) = {}
    <3>1. i + 1 # j + 1  BY <1>2, <2>1
    <3> QED  BY <1>3, <1>5, <1>7, <3>1 DEF Apart
  <2>2. \A i \in DOMAIN r : InHand(s[1]) \cap InHand(r[i]) = {}
    BY <1>3, <1>5, <1>7 DEF Apart
  <2> QED  BY <2>1, <2>2 DEF Apart, HeldBy
<1>8. ASSUME Apart(r), InHand(s[1]) \cap HeldBy(r) = {} PROVE Apart(s)
  <2>1. \A i \in DOMAIN r : InHand(s[1]) \cap InHand(r[i]) = {}  BY <1>8 DEF HeldBy
  <2>2. ASSUME NEW i \in DOMAIN s, NEW j \in DOMAIN s, i # j
        PROVE  InHand(s[i]) \cap InHand(s[j]) = {}
    <3>1. CASE i = 1  BY <1>4, <2>1, <2>2, <3>1
    <3>2. CASE j = 1  BY <1>4, <2>1, <2>2, <3>2
    <3>3. CASE i # 1 /\ j # 1
      <4>1. i - 1 # j - 1  BY <1>2, <2>2
      <4> QED  BY <1>4, <1>8, <3>3, <4>1 DEF Apart
    <3> QED  BY <3>1, <3>2, <3>3
  <2> QED  BY <2>2 DEF Apart
<1> QED  BY <1>6, <1>7, <1>8 DEF r

(* One thread's step lets go of the blocks in gone and takes those in      *)
(* came, from the heaps' point of view; among what the callers and the     *)
(* thread hold, blocks only change hands.                                  *)
LEMMA Transfer ==
  ASSUME Owners, Stacks, NEW t \in Threads, NEW r, Becomes(t, r), NEW gone, NEW came,
         gone \subseteq owned \cup HeldBy(stack[t]),
         InUse' = (InUse \ gone) \cup came,
         came \cap InUse \subseteq gone,
         owned' \cup HeldBy(r) = ((owned \cup HeldBy(stack[t])) \ gone) \cup came,
         owned' \cap HeldBy(r) = {}, Apart(r)
  PROVE  Owners'
<1> DEFINE H(u) == HeldBy(stack[u])
           K(u) == HeldBy(stack'[u])
           Others == UNION {H(u) : u \in Threads \ {t}}
<1>1. stack'[t] = r /\ \A u \in Threads \ {t} : stack'[u] = stack[u]  BY Becoming
<1>2. K(t) = HeldBy(r) /\ \A u \in Threads \ {t} : K(u) = H(u) /\ Apart(stack'[u])
  BY <1>1 DEF Owners
<1>3. /\ UNION {H(u) : u \in Threads} = H(t) \cup Others
      /\ UNION {K(u) : u \in Threads} = K(t) \cup Others
  BY <1>2
<1>4. InUse = owned \cup H(t) \cup Others  BY <1>3 DEF Owners
<1>5. (owned \cup H(t)) \cap Others = {}  BY DEF Owners
<1>6. \A u \in Threads \ {t} : H(u) \subseteq Others  OBVIOUS
<1>7. \A u \in Threads \ {t} : \A v \in Threads \ {t, u} : H(v) \cap H(u) = {}  BY DEF Owners
<1>8. InUse' = owned' \cup (K(t) \cup Others) /\ (owned' \cup K(t)) \cap Others = {}
  BY <1>2, <1>4, <1>5
<1>9. Apart(stack'[t])  BY <1>1
<1>10. owned' \cap K(t) = {}  BY <1>2
<1> HIDE DEF H, K, Others
<1>11. \A u \in Threads :
         /\ owned' \cap K(u) = {}
         /\ \A v \in Threads \ {u} : K(v) \cap K(u) = {}
         /\ Apart(stack'[u])
  BY <1>2, <1>6, <1>7, <1>8, <1>9, <1>10
<1>12. InUse' = owned' \cup UNION {K(u) : u \in Threads}  BY <1>3, <1>8
<1> QED  BY <1>11, <1>12 DEF Owners, K

(* The same when only the innermost call changes, and the callers' blocks  *)
(* do not.                                                                 *)
LEMMA Exchange ==
  ASSUME Owners, Stacks, NEW t \in Threads, NEW c, Swaps(t, c), NEW gone, NEW came,
         gone \subseteq InHand(Top(t)),
         InUse' = (InUse \ gone) \cup came,
         came \cap InUse \subseteq gone,
         owned' = owned,
         InHand(c) = (InHand(Top(t)) \ gone) \cup came
  PROVE  Owners'
<1> DEFINE s == stack[t]
           r == [s EXCEPT ![1] = c]
           rest == HeldBy(Tail(s))
<1>1. s \in Seq(Calls) /\ s # <<>> /\ c \in Calls  BY TopIsCall DEF Swaps
<1>2. r \in Seq(Calls) /\ r # <<>> /\ r[1] = c /\ Tail(r) = Tail(s)  BY <1>1, Swapped
<1>3. /\ HeldBy(s) = InHand(Top(t)) \cup rest
      /\ Apart(s) <=> Apart(Tail(s)) /\ InHand(Top(t)) \cap rest = {}
  BY <1>1, TopHolds DEF Top
<1>4. /\ HeldBy(r) = InHand(c) \cup rest
      /\ Apart(r) <=> Apart(Tail(s)) /\ InHand(c) \cap rest = {}
  BY <1>2, TopHolds
<1>5. Becomes(t, r)  BY DEF Swaps
<1>6. Apart(s) /\ owned \cap HeldBy(s) = {} /\ HeldBy(s) \subseteq InUse /\ owned \subseteq InUse
  BY DEF Owners
<1> HIDE DEF s, r, rest
<1>7. came \cap rest = {} /\ came \cap owned = {}  BY <1>3, <1>6
<1>8. Apart(r)  BY <1>3, <1>4, <1>6, <1>7
<1>9. owned' \cap HeldBy(r) = {}  BY <1>3, <1>4, <1>6, <1>7
<1>10. gone \subseteq owned \cup HeldBy(s)  BY <1>3
<1>11. owned' \cup HeldBy(r) = ((owned \cup HeldBy(s)) \ gone) \cup came
  BY <1>3, <1>4, <1>6
<1> QED  BY <1>5, <1>8, <1>9, <1>10, <1>11, Transfer DEF s

LEMMA Unchanging ==
  ASSUME Owners, Stacks, NEW t \in Threads, NEW c, Swaps(t, c),
         InHand(c) = InHand(Top(t)), InUse' = InUse, owned' = owned
  PROVE  Owners'
<1>1. /\ {} \subseteq InHand(Top(t)) /\ InUse' = (InUse \ {}) \cup {} /\ {} \cap InUse \subseteq {}
      /\ InHand(c) = (InHand(Top(t)) \ {}) \cup {}
  OBVIOUS
<1> DEFINE none == {}
<1> HIDE DEF none
<1>2. /\ none \subseteq InHand(Top(t)) /\ InUse' = (InUse \ none) \cup none
      /\ none \cap InUse \subseteq none
      /\ InHand(c) = (InHand(Top(t)) \ none) \cup none
  BY <1>1 DEF none
<1> QED  BY <1>2, Exchange

(* A call takes over a block of the callers, and hands back what it holds. *)
LEMMA HandOver ==
  ASSUME Owners, Stacks, NEW t \in Threads, NEW c, Pushes(t, c),
         InHand(c) \subseteq owned, owned' = owned \ InHand(c), InUse' = InUse
  PROVE  Owners'
<1> DEFINE s == stack[t]
           r == <<c>> \o s
<1>1. s \in Seq(Calls) /\ c \in Calls  BY DEF Stacks, Pushes
<1>2. r \in Seq(Calls) /\ r # <<>> /\ r[1] = c /\ Tail(r) = s  BY <1>1, Pushed
<1>4. Becomes(t, r)  BY DEF Pushes
<1>5. Apart(s) /\ owned \cap HeldBy(s) = {}  BY DEF Owners
<1> HIDE DEF s, r
<1>3. /\ HeldBy(r) = InHand(c) \cup HeldBy(s)
      /\ Apart(r) <=> Apart(s) /\ InHand(c) \cap HeldBy(s) = {}
  BY <1>2, TopHolds
<1>6. Apart(r) /\ owned' \cap HeldBy(r) = {}  BY <1>3, <1>5
<1>7. owned' \cup HeldBy(r) = ((owned \cup HeldBy(s)) \ {}) \cup {}  BY <1>3
<1>8. InUse' = (InUse \ {}) \cup {} /\ {} \cap InUse \subseteq {} /\ {} \subseteq owned \cup HeldBy(s)
  OBVIOUS
<1> QED  BY <1>4, <1>6, <1>7, <1>8, Transfer DEF s

LEMMA HandBack ==
  ASSUME Owners, Stacks, NEW t \in Threads, Pops(t), NEW gone, NEW came,
         gone \subseteq InHand(Top(t)),
         InUse' = (InUse \ gone) \cup came,
         came \cap InUse \subseteq gone,
         owned' = owned \cup (InHand(Top(t)) \ gone) \cup came
  PROVE  Owners'
<1> DEFINE s == stack[t]
           r == Tail(s)
<1>1. s \in Seq(Calls) /\ s # <<>>  BY TopIsCall DEF Pops
<1>2. /\ HeldBy(s) = InHand(Top(t)) \cup HeldBy(r)
      /\ Apart(s) <=> Apart(r) /\ InHand(Top(t)) \cap HeldBy(r) = {}
  BY <1>1, TopHolds DEF Top
<1>3. Becomes(t, r)  BY DEF Pops
<1>4. Apart(s) /\ owned \cap HeldBy(s) = {} /\ HeldBy(s) \subseteq InUse /\ owned \subseteq InUse
  BY DEF Owners
<1> HIDE DEF s, r
<1>5. Apart(r) /\ owned' \cap HeldBy(r) = {}  BY <1>2, <1>4
<1>6. gone \subseteq owned \cup HeldBy(s)  BY <1>2
<1>7. owned' \cup HeldBy(r) = ((owned \cup HeldBy(s)) \ gone) \cup came  BY <1>2, <1>4
<1> QED  BY <1>3, <1>5, <1>6, <1>7, Transfer DEF s

(* What a call holds until its operation, and afterwards.                  *)
Early == {"enter", "body", "lmm_realloc"} \cup InitPcs
LEMMA Hands ==
  ASSUME NEW c \in Calls, CallOK(c)
  PROVE  /\ c.pc \in Early => InHand(c) = {c.p} \ {NULL}
         /\ c.pc \notin Early => InHand(c) = Returned(c)
         /\ c.op \in {"malloc", "tag"} /\ c.pc \in Early => InHand(c) = {}
         /\ c.op \notin {"malloc", "tag"} /\ c.pc \in Early => InHand(c) = {c.p}
         /\ c.op \in {"free", "tag"} /\ c.pc \notin Early => InHand(c) = {}
BY DEF InHand, CallOK, Early, Returned

(* Moving on, other than past the operation, changes nothing.              *)
LEMMA GotoHolds ==
  ASSUME Typed, Owners, NEW t \in Threads, NEW l \in Pcs, Goto(t, l), ~Idle(t),
         l \in Early <=> Top(t).pc \in Early,
         l # "lmm_realloc", Top(t).pc # "lmm_realloc",
         InUse' = InUse, owned' = owned
  PROVE  Owners'
<1> DEFINE c == [Top(t) EXCEPT !.pc = l]
<1>1. Swaps(t, c) /\ Stacks  BY TopIsOK, GotoSwaps
<1>2. Top(t) \in Calls /\ CallOK(Top(t))  BY TopIsOK
<1>3. c \in Calls /\ c.pc = l /\ c.op = Top(t).op /\ c.p = Top(t).p /\ c.q = Top(t).q
  BY <1>2, PcField
<1> HIDE DEF c
<1>4. InHand(c) = InHand(Top(t))
  <2>1. Returned(c) = Returned(Top(t))  BY <1>3 DEF Returned
  <2>2. CASE l \in Early
    <3>1. InHand(c) = {c.p} \ {NULL}  BY <1>3, <2>2 DEF InHand, Early
    <3> QED  BY <1>2, <1>3, <2>2, <3>1, Hands
  <2>3. CASE l \notin Early
    <3>1. CallOK(c)  BY <1>2, <1>3, <2>3 DEF CallOK, Early
    <3> QED  BY <1>2, <1>3, <2>1, <2>3, <3>1, Hands
  <2> QED  BY <2>2, <2>3
<1> HIDE DEF c
<1> QED  BY <1>1, <1>4, Unchanging

LEMMA StartHolds ==
  ASSUME Typed, Owners, NEW t \in Threads, NEW op \in Ops, NEW p \in owned \cup {NULL},
         Start(t, op, p), op \in {"malloc", "tag"} <=> p = NULL
  PROVE  Owners'
<1> DEFINE l == IF op = "realloc" /\ lmm_valid(p) THEN "lmm_realloc" ELSE "enter"
           c == Call(op, p, l)
<1>1. p \in Addresses /\ owned \subseteq Heap \cup Pool  BY DEF Typed, TypeOK, Addresses
<1>2. l \in Pcs /\ l \in Early /\ (l = "lmm_realloc" <=> op = "realloc" /\ p \in Pool)
  BY DEF Pcs, lmm_valid, Early
<1> HIDE DEF l
<1>3. c \in Calls /\ c.op = op /\ c.p = p /\ c.pc = l /\ c.q = NULL  BY <1>1, <1>2, NewCall
<1>4. stack' = [stack EXCEPT ![t] = <<c>> \o stack[t]]  BY DEF Start, Push, l
<1> HIDE DEF c
<1>5. CallOK(c)  BY <1>2, <1>3, AddressAssumption DEF CallOK
<1>6. InHand(c) = {p} \ {NULL}  BY <1>2, <1>3, <1>5, Hands
<1>7. Pushes(t, c) /\ Stacks
  BY <1>3, <1>4, Pushed DEF Pushes, Becomes, Typed, TypeOK, Stacks
<1>8. InHand(c) \subseteq owned /\ owned' = owned \ InHand(c)
  BY <1>1, <1>6, AddressAssumption DEF Start
<1>9. InUse' = InUse  BY DEF Start, heaps, InUse
<1> QED  BY <1>7, <1>8, <1>9, HandOver

LEMMA LibraryHolds ==
  ASSUME Typed, Owners, NEW t \in Threads, NEW l \in {"ready", "initwrite"}, NEW name,
         Library(t, name, l), NEW k \in InitPcs, At(t, k), InUse' = InUse, owned' = owned
  PROVE  Owners'
<1> DEFINE c == [Top(t) EXCEPT !.pc = l]
           s == stack[t]
           r == [s EXCEPT ![1] = c]
           m == Call("malloc", NULL, "enter")
<1>1. /\ l \in Pcs /\ l \in Early /\ ~Idle(t) /\ Top(t).pc = k /\ k \in Early
      /\ l # "lmm_realloc" /\ k # "lmm_realloc"
  BY DEF Pcs, InitPcs, At, Early
<1>2. /\ c \in Calls /\ r \in Seq(Calls) /\ r # <<>>
      /\ name \notin StdioMallocs => Swaps(t, c)
      /\ name \in StdioMallocs => Becomes(t, <<m>> \o r)
  BY <1>1, TopIsOK, LibraryBecomes
<1>3. /\ Top(t) \in Calls /\ CallOK(Top(t)) /\ Stacks /\ s \in Seq(Calls) /\ s # <<>>
  BY <1>1, TopIsOK
<1>4. c.pc = l /\ c.op = Top(t).op /\ c.p = Top(t).p /\ c.q = Top(t).q
  BY <1>1, <1>3, PcField
<1>5. m \in Calls /\ m.pc = "enter" /\ m.p = NULL
  BY NewCall DEF Pcs, Ops, Addresses
<1>6. r[1] = c /\ Tail(r) = Tail(s)  BY <1>2, <1>3, Swapped
<1>7. Top(t) = s[1]  BY DEF Top
<1> HIDE DEF c, m, r
<1>8. InHand(c) = InHand(Top(t))
  BY <1>1, <1>4 DEF InHand, Early
<1>9. InHand(m) = {}  BY <1>5 DEF InHand
<1>10. CASE name \in StdioMallocs
  <2> DEFINE rr == <<m>> \o r
  <2>1. rr \in Seq(Calls) /\ rr # <<>> /\ rr[1] = m /\ Tail(rr) = r  BY <1>2, <1>5, Pushed
  <2>2. Becomes(t, rr)  BY <1>2, <1>10
  <2> HIDE DEF rr
  <2>3. /\ HeldBy(rr) = InHand(m) \cup HeldBy(r)
        /\ Apart(rr) <=> Apart(r) /\ InHand(m) \cap HeldBy(r) = {}
    BY <2>1, TopHolds
  <2>4. /\ HeldBy(r) = InHand(c) \cup HeldBy(Tail(s))
        /\ Apart(r) <=> Apart(Tail(s)) /\ InHand(c) \cap HeldBy(Tail(s)) = {}
    BY <1>2, <1>6, TopHolds
  <2>5. /\ HeldBy(s) = InHand(Top(t)) \cup HeldBy(Tail(s))
        /\ Apart(s) <=> Apart(Tail(s)) /\ InHand(Top(t)) \cap HeldBy(Tail(s)) = {}
    BY <1>3, <1>7, TopHolds
  <2>6. /\ HeldBy(rr) = HeldBy(s)
        /\ Apart(s) => Apart(rr)
    BY <1>8, <1>9, <2>3, <2>4, <2>5
  <2>7. Apart(s) /\ owned \cap HeldBy(s) = {}  BY DEF Owners
  <2> HIDE DEF s
  <2>8. Apart(rr) /\ owned' \cap HeldBy(rr) = {}  BY <2>6, <2>7
  <2>9. owned' \cup HeldBy(rr) = ((owned \cup HeldBy(s)) \ {}) \cup {}  BY <2>6
  <2>10. InUse' = (InUse \ {}) \cup {} /\ {} \cap InUse \subseteq {} /\ {} \subseteq owned \cup HeldBy(s)
    OBVIOUS
  <2> QED  BY <1>3, <2>2, <2>8, <2>9, <2>10, Transfer DEF s
<1>11. CASE name \notin StdioMallocs
  <2>1. Swaps(t, c)  BY <1>2, <1>11
  <2> QED  BY <1>3, <1>8, <2>1, Unchanging
<1> QED  BY <1>10, <1>11

LEMMA CallerHolds ==
  ASSUME Typed, Owners, NEW t \in Threads, Caller(t)
  PROVE  Owners'
<1>1. CASE CallMalloc(t)
  <2>1. Start(t, "malloc", NULL)  BY <1>1 DEF CallMalloc
  <2> QED  BY <2>1, StartHolds DEF Ops
<1>2. ASSUME NEW op \in {"free", "realloc"}, NEW p \in owned, CallOn(t, op, p)
      PROVE  Owners'
  <2>1. Start(t, op, p)  BY <1>2 DEF CallOn
  <2>2. p # NULL  BY AddressAssumption DEF Typed, TypeOK
  <2> QED  BY <2>1, <2>2, StartHolds DEF Ops
<1>3. CASE memtraq_tag(t)
  <2>1. Start(t, "tag", NULL)  BY <1>3 DEF memtraq_tag
  <2> QED  BY <2>1, StartHolds DEF Ops
<1>4. ASSUME NEW on \in BOOLEAN, SetEnabled(t, on) PROVE Owners'
  BY <1>4 DEF SetEnabled, Owners, InUse, heaps
<1> QED  BY <1>1, <1>2, <1>3, <1>4 DEF Caller

LEMMA InitStepsHold ==
  ASSUME Typed, Owners, NEW t \in Threads,
         \/ Enter(t) \/ InitKey(t) \/ InitFopen(t) \/ InitReady(t) \/ InitLock(t) \/ InitWrite(t)
  PROVE  Owners'
<1>1. {"enter", "key", "fopen", "initlock"} \subseteq Pcs \cap Early
  BY DEF Pcs, Early, InitPcs
<1>2. CASE Enter(t)
  <2>1. ~Idle(t) /\ Top(t).pc = "enter" /\ InUse' = InUse /\ owned' = owned
    BY <1>2 DEF Enter, At, InUse, heaps
  <2>2. CASE ~initialized
    <3>1. Goto(t, "key")  BY <1>2, <2>2 DEF Enter
    <3> QED  BY <1>1, <2>1, <3>1, GotoHolds
  <2>3. CASE initialized
    <3> DEFINE c == [Top(t) EXCEPT !.pc = "body", !.level = level[t] + 1]
    <3>1. stack' = [stack EXCEPT ![t][1].pc = "body", ![t][1].level = level[t] + 1]
      BY <1>2, <2>3 DEF Enter
    <3>2. Top(t) \in Calls /\ Stacks /\ level[t] + 1 \in Nat
      BY <2>1, TopIsOK DEF Typed, TypeOK
    <3>3. /\ c \in Calls /\ c.pc = "body"
          /\ c.op = Top(t).op /\ c.p = Top(t).p /\ c.q = Top(t).q
      <4>1. "body" \in Pcs  BY DEF Pcs, Entered
      <4> QED  BY <3>2, <4>1 DEF Calls, Pcs
    <3>4. stack' = [stack EXCEPT ![t] = [stack[t] EXCEPT ![1] = c]]
      BY <2>1, <3>1, TopIsOK, Popped DEF Top, Stacks
    <3>5. [stack[t] EXCEPT ![1] = c] \in Seq(Calls)
      BY <2>1, <3>3, TopIsOK, Swapped
    <3>6. Swaps(t, c)  BY <2>1, <3>3, <3>4, <3>5 DEF Swaps, Becomes
    <3> HIDE DEF c
    <3>7. InHand(c) = InHand(Top(t))  BY <2>1, <3>3 DEF InHand
    <3> QED  BY <2>1, <3>2, <3>6, <3>7, Unchanging
  <2> QED  BY <2>2, <2>3
<1>3. CASE InitKey(t)
  <2>1. ~Idle(t) /\ Top(t).pc = "key" /\ InUse' = InUse /\ owned' = owned /\ Goto(t, "fopen")
    BY <1>3 DEF InitKey, At, InUse, heaps
  <2> QED  BY <1>1, <2>1, GotoHolds
<1>4. CASE InitFopen(t)
  <2>1. At(t, "fopen") /\ InUse' = InUse /\ owned' = owned /\ Library(t, "fopen", "ready")
    BY <1>4 DEF InitFopen, InUse, heaps
  <2> QED  BY <2>1, LibraryHolds DEF InitPcs
<1>5. CASE InitReady(t)
  <2>1. ~Idle(t) /\ Top(t).pc = "ready" /\ InUse' = InUse /\ owned' = owned /\ Goto(t, "initlock")
    BY <1>5 DEF InitReady, At, InUse, heaps
  <2>2. "ready" \in Early  BY DEF Early, InitPcs
  <2> QED  BY <1>1, <2>1, <2>2, GotoHolds
<1>6. CASE InitLock(t)
  <2>1. At(t, "initlock") /\ InUse' = InUse /\ owned' = owned /\ Library(t, "fwrite", "initwrite")
    BY <1>6 DEF InitLock, InUse, heaps
  <2> QED  BY <2>1, LibraryHolds DEF InitPcs
<1>7. CASE InitWrite(t)
  <2>1. ~Idle(t) /\ Top(t).pc = "initwrite" /\ InUse' = InUse /\ owned' = owned /\ Goto(t, "enter")
    BY <1>7 DEF InitWrite, At, InUse, heaps
  <2>2. "initwrite" \in Early  BY DEF Early, InitPcs
  <2> QED  BY <1>1, <2>1, <2>2, GotoHolds
<1> QED  BY <1>2, <1>3, <1>4, <1>5, <1>6, <1>7

(* The call that returns from its operation with q has let go of gone and  *)
(* holds came.                                                             *)
LEMMA ResultHolds ==
  ASSUME Typed, Owners, NEW t \in Threads, At(t, "body"), NEW l \in {"check", "leave"},
         NEW q \in Addresses, Result(t, q, l), NEW gone, NEW came,
         \/ /\ Top(t).op = "malloc" /\ gone = {} /\ came = {q} \ {NULL}
         \/ /\ Top(t).op = "realloc" /\ q # NULL /\ q \in Heap
            /\ gone = {Top(t).p} /\ came = {q}
         \/ /\ Top(t).op = "realloc" /\ q = NULL /\ gone = {} /\ came = {},
         InUse' = (InUse \ gone) \cup came,
         came \cap InUse \subseteq gone,
         owned' = owned
  PROVE  Owners'
<1> DEFINE c == [Top(t) EXCEPT !.q = q, !.pc = l]
<1>1. ~Idle(t) /\ Top(t).pc = "body" /\ l \in Pcs  BY DEF At, Pcs, Entered
<1>2. Top(t) \in Calls /\ CallOK(Top(t)) /\ Stacks  BY <1>1, TopIsOK
<1>3. Swaps(t, c)  BY <1>1, <1>2, ResultSwaps
<1>4. c \in Calls /\ c.pc = l /\ c.op = Top(t).op /\ c.p = Top(t).p /\ c.q = q
  BY <1>1, <1>2 DEF Calls, Pcs
<1> HIDE DEF c
<1>5. /\ Top(t).op = "malloc" => InHand(Top(t)) = {}
      /\ Top(t).op = "realloc" => InHand(Top(t)) = {Top(t).p}
  BY <1>1, <1>2, Hands DEF Early
<1>6. l \notin Early  BY DEF Early, InitPcs
<1>7. Top(t).op \in {"malloc", "realloc"} => InHand(c) = Returned(c)
  BY <1>4, <1>6 DEF InHand, Early
<1>8. CASE Top(t).op = "malloc"
  <2>1. Returned(c) = {q} \ {NULL}  BY <1>4, <1>8 DEF Returned
  <2>2. InHand(c) = (InHand(Top(t)) \ gone) \cup came  BY <1>5, <1>7, <1>8, <2>1
  <2>3. gone \subseteq InHand(Top(t))  BY <1>8
  <2> QED  BY <1>2, <1>3, <2>2, <2>3, Exchange
<1>9. CASE Top(t).op = "realloc"
  <2>1. Returned(c) = IF q = NULL THEN {Top(t).p} ELSE {q} \ {NULL}
    BY <1>4, <1>9 DEF Returned
  <2>2. InHand(c) = (InHand(Top(t)) \ gone) \cup came  BY <1>5, <1>7, <1>9, <2>1
  <2>3. gone \subseteq InHand(Top(t))  BY <1>5, <1>9
  <2> QED  BY <1>2, <1>3, <2>2, <2>3, Exchange
<1> QED  BY <1>8, <1>9

LEMMA OperationsHold ==
  ASSUME Typed, Owners, NEW t \in Threads,
         Malloc(t) \/ Free(t) \/ Realloc(t) \/ LmmRealloc(t) \/ Tag(t)
  PROVE  Owners'
<1> DEFINE p == Top(t).p
<1>0. heap \subseteq Heap /\ pool \subseteq Pool  BY DEF Typed, TypeOK
<1>1. CASE Malloc(t)
  <2>1. At(t, "body") /\ Top(t).op = "malloc" /\ owned' = owned  BY <1>1 DEF Malloc
  <2>2. PICK q \in Addresses, l \in {"check", "leave"} :
          /\ \/ heap' = heap /\ q \in (Pool \ pool) \cup {NULL} /\ pool' = (pool \cup {q}) \ {NULL}
             \/ pool' = pool /\ q \in (Heap \ heap) \cup {NULL} /\ heap' = (heap \cup {q}) \ {NULL}
          /\ Result(t, q, l)
    BY <1>1 DEF Malloc, Addresses
  <2> DEFINE gone == {}
             came == {q} \ {NULL}
  <2>3. /\ InUse' = (InUse \ gone) \cup came
        /\ came \cap InUse \subseteq gone
    BY <1>0, <2>2, AddressAssumption DEF InUse
  <2>4. Top(t).op = "malloc" /\ gone = {} /\ came = {q} \ {NULL}  BY <2>1
  <2> HIDE DEF gone, came
  <2> QED  BY <2>1, <2>2, <2>3, <2>4, ResultHolds
<1>2. CASE Free(t)
  <2>1. At(t, "body") /\ ~Idle(t) /\ Top(t).op = "free" /\ owned' = owned
    BY <1>2 DEF Free, At
  <2>2. PICK l \in {"leave", "check"} : Goto(t, l)  BY <1>2 DEF Free
  <2> DEFINE c == [Top(t) EXCEPT !.pc = l]
  <2>3. Top(t) \in Calls /\ CallOK(Top(t)) /\ Stacks  BY <2>1, TopIsOK
  <2>4. l \in Pcs /\ l \notin Early /\ "body" \in Early  BY DEF Pcs, Entered, Early, InitPcs
  <2>5. Swaps(t, c)  BY <2>1, <2>2, <2>3, <2>4, GotoSwaps
  <2>6. c.pc = l /\ c.op = "free"  BY <2>1, <2>3, <2>4, PcField
  <2> HIDE DEF c
  <2>7. InHand(c) = {} /\ InHand(Top(t)) = {p}
    BY <2>1, <2>3, <2>4, <2>6, Hands DEF At, InHand, Early
  <2>8. InUse' = (InUse \ {p}) \cup {} /\ {} \cap InUse \subseteq {p}
    BY <1>2 DEF Free, InUse
  <2>9. /\ {p} \subseteq InHand(Top(t))
        /\ InHand(c) = (InHand(Top(t)) \ {p}) \cup {}
    BY <2>7
  <2> QED  BY <2>1, <2>3, <2>5, <2>8, <2>9, Exchange
<1>3. CASE Realloc(t)
  <2>1. At(t, "body") /\ ~Idle(t) /\ Top(t).op = "realloc" /\ owned' = owned /\ pool' = pool
    BY <1>3 DEF Realloc, At
  <2>2. p \in Heap  BY <2>1, TopIsOK DEF At, CallOK, Calls, Addresses
  <2>3. PICK q \in (Heap \ heap) \cup {NULL, p} :
          /\ heap' = IF q = NULL THEN heap ELSE (heap \ {p}) \cup {q}
          /\ Result(t, q, "check")
    BY <1>3 DEF Realloc
  <2>4. q \in Addresses /\ (q # NULL => q \in Heap)  BY <2>2, <2>3 DEF Addresses
  <2>5. CASE q = NULL
    <3>1. InUse' = (InUse \ {}) \cup {} /\ {} \cap InUse \subseteq {}
      BY <2>1, <2>3, <2>5 DEF InUse
    <3> QED  BY <2>1, <2>3, <2>4, <2>5, <3>1, ResultHolds
  <2>6. CASE q # NULL
    <3>1. p \notin Pool /\ q \notin Pool  BY <2>2, <2>4, <2>6, AddressAssumption
    <3>2. InUse' = (InUse \ {p}) \cup {q} /\ {q} \cap InUse \subseteq {p}
      BY <1>0, <2>1, <2>3, <2>6, <3>1 DEF InUse
    <3> QED  BY <2>1, <2>3, <2>4, <2>6, <3>2, ResultHolds
  <2> QED  BY <2>5, <2>6
<1>4. CASE LmmRealloc(t)
  <2>1. ~Idle(t) /\ Top(t).pc = "lmm_realloc"  BY <1>4 DEF LmmRealloc, At
  <2>2. Top(t) \in Calls /\ CallOK(Top(t)) /\ Stacks  BY <2>1, TopIsOK
  <2>3. Pops(t)
    BY <1>4, <2>1, TopIsOK, Popped DEF LmmRealloc, Pops, Becomes, Stacks
  <2>4. p \in Pool /\ InHand(Top(t)) = {p}
    BY <2>1, <2>2, Hands DEF CallOK, Early
  <2>5. PICK q \in (Pool \ pool) \cup {NULL} :
          /\ pool'  = (pool \ {p}) \cup ({q} \ {NULL})
          /\ owned' = owned \cup ({q} \ {NULL})
    BY <1>4 DEF LmmRealloc
  <2> DEFINE came == {q} \ {NULL}
  <2>6. heap' = heap  BY <1>4 DEF LmmRealloc
  <2>7. /\ InUse' = (InUse \ {p}) \cup came
        /\ came \cap InUse \subseteq {p}
    BY <1>0, <2>4, <2>5, <2>6, AddressAssumption DEF InUse
  <2>8. {p} \subseteq InHand(Top(t)) /\ owned' = owned \cup (InHand(Top(t)) \ {p}) \cup came
    BY <2>4, <2>5
  <2> HIDE DEF came
  <2> QED  BY <2>2, <2>3, <2>7, <2>8, HandBack
<1>5. CASE Tag(t)
  <2>1. /\ At(t, "body") /\ ~Idle(t) /\ Top(t).op = "tag" /\ Goto(t, "check")
        /\ InUse' = InUse /\ owned' = owned
    BY <1>5 DEF Tag, At, InUse, heaps
  <2> DEFINE c == [Top(t) EXCEPT !.pc = "check"]
  <2>2. Top(t) \in Calls /\ CallOK(Top(t)) /\ Stacks  BY <2>1, TopIsOK
  <2>3. "check" \in Pcs /\ "check" \notin Early /\ "body" \in Early
    BY DEF Pcs, Entered, Early, InitPcs
  <2>4. Swaps(t, c)  BY <2>1, <2>2, <2>3, GotoSwaps
  <2>5. c \in Calls /\ c.pc = "check" /\ c.op = "tag" /\ c.p = Top(t).p /\ c.q = Top(t).q
    BY <2>1, <2>2, <2>3, PcField
  <2> HIDE DEF c
  <2>6. CallOK(c)  BY <2>1, <2>2, <2>5 DEF CallOK, At, InitPcs
  <2>7. InHand(c) = InHand(Top(t))
    BY <2>1, <2>2, <2>3, <2>5, <2>6, Hands DEF At
  <2> QED  BY <2>1, <2>2, <2>4, <2>7, Unchanging
<1> QED  BY <1>1, <1>2, <1>3, <1>4, <1>5

LEMMA LoggingHolds ==
  ASSUME Typed, Owners, NEW t \in Threads,
         Check(t) \/ Backtrace(t) \/ LogWrite(t) \/ Leave(t)
  PROVE  Owners'
<1>1. /\ {"leave", "backtrace", "write"} \subseteq Pcs
      /\ {"check", "backtrace", "write", "leave"} \cap Early = {}
  BY DEF Pcs, Entered, Early, InitPcs
<1>2. ASSUME Check(t) \/ Backtrace(t) \/ LogWrite(t) PROVE Owners'
  <2>1. /\ ~Idle(t) /\ Top(t).pc \in {"check", "backtrace", "write"}
        /\ InUse' = InUse /\ owned' = owned
    BY <1>2 DEF Check, Backtrace, LogWrite, At, InUse, heaps
  <2>2. PICK l \in {"leave", "backtrace", "write"} : Goto(t, l)
    BY <1>2 DEF Check, Backtrace, LogWrite
  <2> QED  BY <1>1, <2>1, <2>2, GotoHolds
<1>3. CASE Leave(t)
  <2>1. ~Idle(t) /\ Top(t).pc = "leave" /\ InUse' = InUse
    BY <1>3 DEF Leave, At, InUse, heaps
  <2>2. Top(t) \in Calls /\ CallOK(Top(t)) /\ Stacks  BY <2>1, TopIsOK
  <2>3. Pops(t)
    BY <1>3, <2>1, TopIsOK, Popped DEF Leave, Pops, Becomes, Stacks
  <2>4. InHand(Top(t)) = Returned(Top(t))  BY <1>1, <2>1, <2>2, Hands
  <2>5. owned' = owned \cup (InHand(Top(t)) \ {}) \cup {}
    BY <1>3, <2>4 DEF Leave
  <2>6. InUse' = (InUse \ {}) \cup {} /\ {} \cap InUse \subseteq {} /\ {} \subseteq InHand(Top(t))
    BY <2>1
  <2> QED  BY <2>2, <2>3, <2>5, <2>6, HandBack
<1> QED  BY <1>2, <1>3

LEMMA InitOwners == Init => Owners
<1> SUFFICES ASSUME Init PROVE Owners  OBVIOUS
<1>1. \A t \in Threads : HeldBy(stack[t]) = {} /\ Apart(stack[t])
  <2>1. DOMAIN <<>> = {}  OBVIOUS
  <2> QED  BY <2>1 DEF Init, HeldBy, Apart
<1>2. InUse = {} /\ owned = {}  BY DEF Init, InUse
<1> QED  BY <1>1, <1>2 DEF Owners

LEMMA StepOwners == Typed /\ Owners /\ [Next]_vars => Owners'
<1>1. ASSUME Typed, Owners, NEW t \in Threads, Caller(t) \/ Step(t) PROVE Owners'
  BY <1>1, CallerHolds, InitStepsHold, OperationsHold, LoggingHolds DEF Step
<1>2. ASSUME Owners, UNCHANGED vars PROVE Owners'
  BY <1>2 DEF vars, heaps, Owners, InUse
<1> QED  BY <1>1, <1>2 DEF Next, Finished

(* No step of any wrapper loses a block or gives it a second owner: every  *)
(* block in use in either heap is held by the callers or by one call, also *)
(* while realloc moves it or fails, and however calls nest.                *)
THEOREM BlocksConserved == Spec => []Conserved
<1>1. Typed /\ Owners /\ [Next]_vars => (Typed /\ Owners)'  BY StepTyped, StepOwners
<1>2. Init => Typed /\ Owners  BY InitTyped, InitOwners
<1>3. Typed /\ Owners => Conserved  BY OwnersConserve
<1> QED  BY <1>1, <1>2, <1>3, PTL DEF Spec

-----------------------------------------------------------------------------
(* Levels.  One thread at most is cold, and the log file does not allocate. *)

(* What the innermost call says of its thread's level.                     *)
LEMMA TopLevel ==
  ASSUME NEW s \in Seq(Calls), NEW n, StackOK(s, n), s # <<>>
  PROVE  /\ Len(s) \in Nat \ {0}
         /\ n = IF s[1].pc \in Entered \cup Entering THEN Len(s) ELSE Len(s) - 1
         /\ s[1].pc \in Entered => s[1].level = Len(s)
         /\ s[1].op = "malloc" =>
              /\ s[1].q # NULL => (s[1].q \in Pool <=> 1 < Len(s))
              /\ s[1].pc \in {"check", "backtrace", "write"} => Len(s) = 1
<1>1. Len(s) \in Nat /\ Len(s) # 0 /\ DOMAIN s = 1 .. Len(s)  BY Lengths
<1>2. 1 \in DOMAIN s  BY <1>1
<1>3. n = IF s[1].pc \in Entered \cup Entering THEN Len(s) ELSE Len(s) - 1
  BY DEF StackOK, Depth
<1>4. s[1].pc \in Entered => s[1].level = Len(s)
  BY <1>1, <1>2 DEF StackOK, Levelled
<1>5. s[1].op = "malloc" =>
        /\ s[1].q # NULL => (s[1].q \in Pool <=> 1 < Len(s))
        /\ s[1].pc \in {"check", "backtrace", "write"} => 1 = Len(s)
  BY <1>2 DEF StackOK, Served
<1> QED  BY <1>1, <1>3, <1>4, <1>5

LEMMA TailWaits ==
  ASSUME NEW s \in Seq(Calls), s # <<>>, NEW n, StackOK(s, n)
  PROVE  Tail(s) = <<>> \/ Tail(s)[1].pc = "backtrace"
<1>1. /\ Tail(s) \in Seq(Calls) /\ Len(s) = Len(Tail(s)) + 1
      /\ \A i \in 1 .. Len(Tail(s)) : Tail(s)[i] = s[i + 1]
  BY Popped
<1> DEFINE r == Tail(s)
<1> HIDE DEF r
<1>2. Len(r) \in Nat /\ (r = <<>> <=> Len(r) = 0) /\ DOMAIN s = 1 .. Len(s)
  BY <1>1, Lengths DEF r
<1>3. r # <<>> => 1 \in 1 .. Len(r) /\ 2 \in DOMAIN s  BY <1>1, <1>2 DEF r
<1>4. r # <<>> => r[1] = s[2]  BY <1>1, <1>3 DEF r
<1> QED  BY <1>3, <1>4 DEF StackOK, Waiting, r

LEMMA BecomesNested ==
  ASSUME Stacks, Nesting, NEW t \in Threads, NEW r, Becomes(t, r), StackOK(r, level'[t]),
         \A u \in Threads \ {t} : level'[u] = level[u]
  PROVE  Nesting'
<1>1. stack'[t] = r /\ \A u \in Threads \ {t} : stack'[u] = stack[u]  BY Becoming
<1>2. ASSUME NEW u \in Threads PROVE StackOK(stack'[u], level'[u])
  <2>1. CASE u = t  BY <1>1, <2>1
  <2>2. CASE u # t
    <3>1. stack'[u] = stack[u] /\ level'[u] = level[u]  BY <1>1, <2>2
    <3> QED  BY <3>1 DEF Nesting
  <2> QED  BY <2>1, <2>2
<1> QED  BY <1>2 DEF Nesting

(* A call that moves on between places of one kind leaves the level alone. *)
LEMMA GotoNested ==
  ASSUME Typed, Nesting, NEW t \in Threads, ~Idle(t), NEW l \in Pcs, Goto(t, l), level' = level,
         l \in Entered <=> Top(t).pc \in Entered,
         l \in Entering <=> Top(t).pc \in Entering,
         Top(t).op = "malloc" /\ l \in {"check", "backtrace", "write"} =>
           Top(t).pc \in {"check", "backtrace", "write"}
  PROVE  Nesting'
<1> DEFINE c == [Top(t) EXCEPT !.pc = l]
           s == stack[t]
<1>1. Swaps(t, c) /\ Stacks  BY TopIsOK, GotoSwaps
<1>2. Top(t) \in Calls /\ s \in Seq(Calls) /\ s # <<>> /\ s[1] = Top(t)
  BY TopIsOK DEF Top
<1>3. /\ c \in Calls /\ c.pc = l /\ c.op = Top(t).op /\ c.q = Top(t).q
      /\ c.level = Top(t).level
  BY <1>2, PcField
<1>4. StackOK(s, level[t])  BY DEF Nesting
<1>5. Becomes(t, [s EXCEPT ![1] = c])  BY <1>1 DEF Swaps
<1> HIDE DEF c, s
<1>6. StackOK([s EXCEPT ![1] = c], level[t])
  <2>1. /\ level[t] = IF s[1].pc \in Entered \cup Entering THEN Len(s) ELSE Len(s) - 1
        /\ s[1].pc \in Entered => s[1].level = Len(s)
        /\ s[1].op = "malloc" =>
             /\ s[1].q # NULL => (s[1].q \in Pool <=> 1 < Len(s))
             /\ s[1].pc \in {"check", "backtrace", "write"} => Len(s) = 1
    BY <1>2, <1>4, TopLevel
  <2>2. level[t] = IF c.pc \in Entered \cup Entering THEN Len(s) ELSE Len(s) - 1
    BY <1>2, <1>3, <2>1
  <2>3. c.pc \in Entered => c.level = Len(s)  BY <1>2, <1>3, <2>1
  <2>4. c.op = "malloc" => /\ c.q # NULL => (c.q \in Pool <=> 1 < Len(s))
                           /\ c.pc \in {"check", "backtrace", "write"} => Len(s) = 1
    BY <1>2, <1>3, <2>1
  <2> QED  BY <1>2, <1>3, <1>4, <2>2, <2>3, <2>4, SwapKeepsLevel
<1> QED  BY <1>1, <1>5, <1>6, BecomesNested

LEMMA ResultNested ==
  ASSUME Typed, Nesting, NEW t \in Threads, At(t, "body"), NEW l \in {"check", "leave"},
         NEW q \in Addresses, Result(t, q, l), level' = level,
         Top(t).op = "malloc" =>
           \/ Nested(t) /\ q \in Pool \cup {NULL} /\ l = "leave"
           \/ ~Nested(t) /\ q \in Heap \cup {NULL}
  PROVE  Nesting'
<1> DEFINE c == [Top(t) EXCEPT !.q = q, !.pc = l]
           s == stack[t]
<1>1. ~Idle(t) /\ Top(t).pc = "body" /\ l \in Pcs /\ l \in Entered /\ "body" \in Entered
  BY DEF At, Pcs, Entered
<1>2. Top(t) \in Calls /\ s \in Seq(Calls) /\ s # <<>> /\ s[1] = Top(t) /\ Stacks
  BY <1>1, TopIsOK DEF Top
<1>3. Swaps(t, c)  BY <1>1, <1>2, ResultSwaps
<1>4. c \in Calls /\ c.pc = l /\ c.op = Top(t).op /\ c.q = q /\ c.level = Top(t).level
  BY <1>1, <1>2 DEF Calls, Pcs
<1>5. StackOK(s, level[t])  BY DEF Nesting
<1>6. Becomes(t, [s EXCEPT ![1] = c])  BY <1>3 DEF Swaps
<1> HIDE DEF c, s
<1>7. Len(s) \in Nat \ {0} /\ level[t] = Len(s) /\ Top(t).level = Len(s)
  BY <1>1, <1>2, <1>5, TopLevel
<1>8. c.op = "malloc" => /\ c.q # NULL => (c.q \in Pool <=> 1 < Len(s))
                         /\ c.pc \in {"check", "backtrace", "write"} => Len(s) = 1
  <2>1. Nested(t) <=> Len(s) > 1  BY <1>7 DEF Nested
  <2>2. CASE Top(t).op = "malloc" /\ Nested(t)
    <3>1. q \in Pool \cup {NULL} /\ l = "leave"  BY <2>2
    <3> QED  BY <1>4, <1>7, <2>1, <2>2, <3>1
  <2>3. CASE Top(t).op = "malloc" /\ ~Nested(t)
    <3>1. q \in Heap \cup {NULL} /\ (q # NULL => q \notin Pool)  BY <2>3, AddressAssumption
    <3>2. ~(Len(s) > 1)  BY <1>7, <2>3, Zenon DEF Nested
    <3>3. Len(s) = 1  BY <1>7, <3>2
    <3> QED  BY <1>4, <3>1, <3>3
  <2> QED  BY <1>4, <2>2, <2>3
<1>9. StackOK([s EXCEPT ![1] = c], level[t])
  <2>1. level[t] = IF c.pc \in Entered \cup Entering THEN Len(s) ELSE Len(s) - 1
    BY <1>1, <1>4, <1>7
  <2>2. c.pc \in Entered => c.level = Len(s)  BY <1>4, <1>7
  <2> QED  BY <1>2, <1>4, <1>5, <1>8, <2>1, <2>2, SwapKeepsLevel
<1> QED  BY <1>2, <1>6, <1>9, BecomesNested

LEMMA StartNested ==
  ASSUME Typed, Nesting, NEW t \in Threads, NEW op \in Ops, NEW p \in Addresses, Start(t, op, p),
         Idle(t) \/ At(t, "backtrace")
  PROVE  Nesting'
<1> DEFINE l == IF op = "realloc" /\ lmm_valid(p) THEN "lmm_realloc" ELSE "enter"
           c == Call(op, p, l)
           s == stack[t]
<1>1. l \in Pcs /\ l \in {"enter", "lmm_realloc"}  BY DEF Pcs
<1> HIDE DEF l
<1>2. c \in Calls /\ c.pc = l /\ c.q = NULL  BY <1>1, NewCall
<1>3. stack' = [stack EXCEPT ![t] = <<c>> \o s] /\ level' = level  BY DEF Start, Push, l
<1> HIDE DEF c
<1>4. s \in Seq(Calls) /\ Stacks /\ StackOK(s, level[t])
  BY DEF Typed, TypeOK, Stacks, Nesting
<1>5. s = <<>> \/ s[1].pc = "backtrace"  BY DEF Idle, At, Top
<1> HIDE DEF s
<1>6. Becomes(t, <<c>> \o s)  BY <1>2, <1>3, <1>4, Pushed DEF Becomes
<1>7. StackOK(<<c>> \o s, level[t])  BY <1>1, <1>2, <1>4, <1>5, PushKeepsLevel
<1> QED  BY <1>3, <1>4, <1>6, <1>7, BecomesNested

(* A call returns: leave takes back the one that enter added.              *)
LEMMA PopsNested ==
  ASSUME Typed, Nesting, NEW t \in Threads, Pops(t),
         \/ At(t, "leave") /\ level' = [level EXCEPT ![t] = @ - 1]
         \/ At(t, "lmm_realloc") /\ level' = level
  PROVE  Nesting'
<1> DEFINE s == stack[t]
<1>1. s \in Seq(Calls) /\ s # <<>> /\ s[1] = Top(t) /\ Stacks
  BY TopIsOK DEF Pops, Top
<1>2. level \in [Threads -> Nat] /\ StackOK(s, level[t])  BY DEF Typed, TypeOK, Nesting
<1>3. Becomes(t, Tail(s))  BY DEF Pops
<1>4. Top(t).pc \in {"leave", "lmm_realloc"}
      /\ (Top(t).pc = "leave" <=> At(t, "leave"))
  BY DEF At
<1> HIDE DEF s
<1>5. StackOK(Tail(s), IF s[1].pc = "leave" THEN level[t] - 1 ELSE level[t])
  BY <1>1, <1>2, <1>4, PopKeepsLevel
<1>6. level'[t] = IF s[1].pc = "leave" THEN level[t] - 1 ELSE level[t]
  BY <1>1, <1>2, <1>4 DEF At
<1>7. \A u \in Threads \ {t} : level'[u] = level[u]  BY <1>2
<1> QED  BY <1>1, <1>3, <1>5, <1>6, <1>7, BecomesNested

(* What booting says of a call in progress.                                *)
LEMMA Warm ==
  ASSUME Booting, NEW t \in Threads, ~Idle(t), Top(t).pc \notin Before \cup After
  PROVE  log # <<>> /\ initialized
BY DEF Booting

LEMMA Boots ==
  ASSUME Booting, Typed, OneCold, NEW t \in Threads, NEW l \in InitPcs, At(t, l)
  PROVE  /\ log = <<>> /\ t \in Cold /\ Lone(stack[t])
         /\ l \in IF initialized THEN After ELSE Before
         /\ \A u \in Threads \ {t} : Idle(u)
<1>1. ~Idle(t) /\ Top(t).pc = l  BY DEF At
<1>2. log = <<>>  BY DEF Booting
<1>3. t \in Cold /\ Lone(stack[t]) /\ l \in IF initialized THEN After ELSE Before
  BY <1>1, <1>2 DEF Booting
<1>4. ASSUME NEW u \in Threads, ~Idle(u) PROVE u = t
  <2>1. u \in Cold  BY <1>2, <1>4 DEF Booting
  <2> QED  BY <1>3, <2>1 DEF OneCold
<1> QED  BY <1>2, <1>3, <1>4

LEMMA LoneLength ==
  ASSUME NEW s \in Seq(Calls), s # <<>>, NEW c \in Calls
  PROVE  /\ Lone(s) => Len(s) = 1 /\ Lone([s EXCEPT ![1] = c])
         /\ Lone(<<c>>)
<1>1. Len(Tail(s)) = Len(s) - 1 /\ Len(s) \in Nat  BY HeadTailProperties
<1>2. Tail(s) = <<>> => Len(s) = 1
  <2>1. Len(<<>>) = 0  OBVIOUS
  <2>2. Tail(s) = <<>> => Len(Tail(s)) = 0  BY <2>1, Zenon
  <2> QED  BY <1>1, <2>2
<1>3. [s EXCEPT ![1] = c] # <<>> /\ Tail([s EXCEPT ![1] = c]) = Tail(s)  BY Swapped
<1> QED  BY <1>2, <1>3 DEF Lone

(* A step of a thread once the first record is written.                    *)
LEMMA WarmBoots ==
  ASSUME Booting, Stacks, NEW t \in Threads, NEW r, Becomes(t, r), r = <<>> \/ r[1].pc \notin InitPcs,
         log # <<>>, log' # <<>>, initialized' = initialized
  PROVE  Booting'
<1>1. stack'[t] = r /\ \A u \in Threads \ {t} : stack'[u] = stack[u]  BY Becoming
<1>2. initialized'  BY DEF Booting
<1>3. ASSUME NEW u \in Threads, NEW l \in InitPcs PROVE ~At(u, l)'
  <2>1. ~At(u, l)  BY DEF Booting
  <2>2. CASE u = t  BY <1>1, <1>3, <2>2 DEF At, Idle, Top
  <2>3. CASE u # t
    <3>1. stack'[u] = stack[u]  BY <1>1, <2>3
    <3> QED  BY <2>1, <3>1 DEF At, Idle, Top
  <2> QED  BY <2>2, <2>3
<1> QED  BY <1>2, <1>3 DEF Booting

(* A step of the thread that initialises memtraq, until the first record.  *)
LEMMA ColdBoots ==
  ASSUME Booting, Stacks, NEW t \in Threads, NEW r, Becomes(t, r), log' = <<>>,
         \A u \in Threads \ {t} : Idle(u),
         \/ r = <<>> /\ ~initialized'
         \/ t \in Cold /\ Lone(r) /\ r[1].pc \in IF initialized' THEN After ELSE Before
  PROVE  Booting'
<1>1. stack'[t] = r /\ \A u \in Threads \ {t} : stack'[u] = stack[u]  BY Becoming
<1>2. ASSUME NEW u \in Threads, ~Idle(u)' PROVE u = t /\ r # <<>>
  BY <1>1, <1>2 DEF Idle
<1>3. r # <<>> => ~Idle(t)'  BY <1>1 DEF Idle
<1>4. Top(t)' = r[1]  BY <1>1 DEF Top
<1>5. ASSUME NEW u \in Threads, ~Idle(u)'
      PROVE  u \in Cold /\ Lone(stack'[u]) /\ Top(u)'.pc \in IF initialized' THEN After ELSE Before
  BY <1>1, <1>2, <1>4, <1>5
<1>6. initialized' => \E u \in Threads : ~Idle(u)'  BY <1>3 DEF Lone
<1> QED  BY <1>5, <1>6 DEF Booting

LEMMA GotoWarm ==
  ASSUME Typed, Booting, NEW t \in Threads, ~Idle(t), NEW l \in Pcs, Goto(t, l),
         l \notin InitPcs, log # <<>>, log' # <<>>, initialized' = initialized
  PROVE  Booting'
<1> DEFINE c == [Top(t) EXCEPT !.pc = l]
           r == [stack[t] EXCEPT ![1] = c]
<1>1. Swaps(t, c) /\ Stacks /\ Top(t) \in Calls /\ stack[t] \in Seq(Calls) /\ stack[t] # <<>>
  BY TopIsOK, GotoSwaps
<1>2. c \in Calls /\ c.pc = l  BY <1>1, PcField
<1>3. Becomes(t, r)  BY <1>1 DEF Swaps
<1> HIDE DEF c
<1>4. r[1] = c  BY <1>1, <1>2, Swapped
<1> HIDE DEF r
<1> QED  BY <1>1, <1>2, <1>3, <1>4, WarmBoots

(* The record that a call writes is not the first one.                     *)
LEMMA WriteKeepsOne ==
  ASSUME Typed, NEW t \in Threads, ~Idle(t), log # <<>>, OneInit, Write(t)
  PROVE  OneInit' /\ log' # <<>>
<1>1. log \in Seq(Records) /\ Record(t).ev \in Ops /\ Record(t) \in Records
  BY TopIsOK DEF Typed, TypeOK, Record, Calls, Records
<1>2. log' = Append(log, Record(t))  BY DEF Write
<1>3. Record(t).ev # "init"  BY <1>1 DEF Ops
<1> DEFINE e == Record(t)
<1> HIDE DEF e
<1>4. /\ Len(log) \in Nat /\ Len(log) # 0 /\ DOMAIN log = 1 .. Len(log)
      /\ log' \in Seq(Records) /\ Len(log') = Len(log) + 1 /\ DOMAIN log' = 1 .. Len(log) + 1
      /\ log'[Len(log) + 1] = e
      /\ \A i \in 1 .. Len(log) : log'[i] = log[i]
  BY <1>1, <1>2 DEF e
<1>5. ASSUME NEW i \in DOMAIN log' PROVE log'[i].ev = "init" <=> i = 1
  <2>1. CASE i \in 1 .. Len(log)  BY <1>4, <2>1 DEF OneInit
  <2>2. CASE i = Len(log) + 1
    <3>1. log'[i] = e /\ i # 1  BY <1>4, <2>2
    <3> QED  BY <1>3, <3>1 DEF e
  <2> QED  BY <1>4, <2>1, <2>2
<1>6. log' # <<>>  BY <1>4
<1> QED  BY <1>5, <1>6 DEF OneInit

(* The invariant, step by step.                                            *)

LEMMA SameOne ==
  ASSUME OneInit, log' = log
  PROVE  OneInit'
BY DEF OneInit

\* A thread that runs while another initialises memtraq is that other one.
LEMMA FirstCall ==
  ASSUME Booting, OneCold, NEW t \in Threads, Idle(t), t \in Cold, log = <<>>
  PROVE  ~initialized /\ \A u \in Threads \ {t} : Idle(u)
<1>1. ASSUME NEW u \in Threads, ~Idle(u) PROVE FALSE
  <2>1. u \in Cold  BY <1>1 DEF Booting
  <2>2. u = t  BY <2>1 DEF OneCold
  <2> QED  BY <1>1, <2>2
<1> QED  BY <1>1 DEF Booting

LEMMA StartLevels ==
  ASSUME Levels, OneCold, NEW t \in Threads, NEW op \in Ops, NEW p \in Addresses,
         Start(t, op, p), FromApplication(t) \/ FromBacktrace(t)
  PROVE  (Nesting /\ Booting /\ OneInit)'
<1> USE DEF Levels
<1>1. Idle(t) \/ At(t, "backtrace")  BY DEF FromApplication, FromBacktrace
<1>2. Nesting'  BY <1>1, StartNested
<1>3. log' = log /\ initialized' = initialized  BY DEF Start
<1> DEFINE l == IF op = "realloc" /\ lmm_valid(p) THEN "lmm_realloc" ELSE "enter"
           c == Call(op, p, l)
           s == stack[t]
<1>4. l \in Pcs /\ l \in {"enter", "lmm_realloc"}  BY DEF Pcs
<1>5. stack' = [stack EXCEPT ![t] = <<c>> \o s]  BY DEF Start, Push
<1> HIDE DEF l
<1>6. c \in Calls /\ c.pc = l  BY <1>4, NewCall
<1> HIDE DEF c
<1>7. Stacks /\ s \in Seq(Calls)  BY DEF Typed, TypeOK, Stacks
<1> DEFINE r == <<c>> \o s
<1>8. r \in Seq(Calls) /\ r # <<>> /\ r[1] = c /\ Tail(r) = s  BY <1>6, <1>7, Pushed
<1>9. Becomes(t, r)  BY <1>5, <1>8 DEF Becomes
<1> HIDE DEF r
<1>10. Booting'
  <2>1. CASE log # <<>>
    <3>1. r[1].pc \notin InitPcs  BY <1>4, <1>6, <1>8 DEF InitPcs
    <3> QED  BY <1>3, <1>7, <1>9, <2>1, <3>1, WarmBoots
  <2>2. CASE log = <<>>
    <3>1. Idle(t) /\ t \in Cold
      <4>1. ~FromBacktrace(t)
        BY <2>2, Warm DEF FromBacktrace, At, Before, After
      <4> QED  BY <2>2, <4>1 DEF FromApplication
    <3>2. ~initialized /\ \A u \in Threads \ {t} : Idle(u)  BY <2>2, <3>1, FirstCall
    <3>3. Lone(r)  BY <1>8, <3>1 DEF Lone, Idle
    <3>4. r[1].pc \in Before  BY <1>4, <1>6, <1>8 DEF Before
    <3> QED  BY <1>3, <1>7, <1>9, <2>2, <3>1, <3>2, <3>3, <3>4, ColdBoots
  <2> QED  BY <2>1, <2>2
<1> QED  BY <1>2, <1>3, <1>10, SameOne

LEMMA CallerLevels ==
  ASSUME Levels, OneCold, NEW t \in Threads, Caller(t)
  PROVE  (Nesting /\ Booting /\ OneInit)'
<1>1. CASE CallMalloc(t)
  BY <1>1, StartLevels DEF CallMalloc, Ops, Addresses
<1>2. ASSUME NEW op \in {"free", "realloc"}, NEW p \in owned, CallOn(t, op, p)
      PROVE  (Nesting /\ Booting /\ OneInit)'
  <2>1. Start(t, op, p) /\ (FromApplication(t) \/ FromBacktrace(t))  BY <1>2 DEF CallOn
  <2>2. p \in Addresses  BY DEF Levels, Typed, TypeOK, Addresses
  <2> QED  BY <2>1, <2>2, StartLevels DEF Ops
<1>3. CASE memtraq_tag(t)
  BY <1>3, StartLevels DEF memtraq_tag, Ops, Addresses
<1>4. ASSUME NEW on \in BOOLEAN, SetEnabled(t, on) PROVE (Nesting /\ Booting /\ OneInit)'
  BY <1>4 DEF SetEnabled, Levels, Nesting, Booting, OneInit, Idle, At, Top
<1> QED  BY <1>1, <1>2, <1>3, <1>4 DEF Caller

(* A step of do_init moves the one call of the one cold thread to l.       *)
LEMMA BootStep ==
  ASSUME Levels, OneCold, NEW t \in Threads, NEW k, At(t, k), NEW l \in Pcs, Goto(t, l),
         log = <<>>, t \in Cold, Lone(stack[t]), \A u \in Threads \ {t} : Idle(u),
         level' \in [Threads -> Nat],
         level'[t] = IF l \in Entering THEN 1 ELSE 0, l \notin Entered,
         \A u \in Threads \ {t} : level'[u] = 0,
         Top(t).q = NULL
  PROVE  /\ Nesting'
         /\ log' = <<>> /\ (l \in IF initialized' THEN After ELSE Before) => Booting'
<1> USE DEF Levels
<1> DEFINE c == [Top(t) EXCEPT !.pc = l]
           s == stack[t]
           r == [s EXCEPT ![1] = c]
<1>1. ~Idle(t)  BY DEF At
<1>2. Swaps(t, c) /\ Stacks  BY <1>1, TopIsOK, GotoSwaps
<1>3. Top(t) \in Calls /\ s \in Seq(Calls) /\ s # <<>>  BY <1>1, TopIsOK
<1>4. c \in Calls /\ c.pc = l /\ c.op = Top(t).op /\ c.q = NULL  BY <1>3, PcField
<1>5. Becomes(t, r) /\ StackOK(s, level[t])  BY <1>2 DEF Swaps, Nesting
<1> HIDE DEF c
<1>6. r[1] = c  BY <1>3, <1>4, Swapped
<1>7. Len(s) = 1 /\ Lone(r)  BY <1>3, <1>4, LoneLength
<1>8. StackOK(r, level'[t])
  <2>1. level'[t] = IF c.pc \in Entered \cup Entering THEN Len(s) ELSE Len(s) - 1
    BY <1>4, <1>7
  <2>2. c.pc \notin Entered /\ c.pc \notin {"check", "backtrace", "write"}  BY <1>4 DEF Entered
  <2> HIDE DEF s
  <2> QED  BY <1>3, <1>4, <1>5, <2>1, <2>2, SwapKeepsLevel
<1>9. \A u \in Threads \ {t} : level[u] = 0
  <2> SUFFICES ASSUME NEW u \in Threads \ {t} PROVE level[u] = 0  OBVIOUS
  <2>1. stack[u] = <<>> /\ StackOK(stack[u], level[u])  BY DEF Idle, Nesting
  <2> QED  BY <2>1 DEF StackOK, Depth
<1> HIDE DEF r, s
<1>10. Nesting'  BY <1>2, <1>5, <1>8, <1>9, BecomesNested
<1>11. ASSUME log' = <<>>, l \in IF initialized' THEN After ELSE Before PROVE Booting'
  BY <1>2, <1>4, <1>5, <1>6, <1>7, <1>11, ColdBoots
<1> QED  BY <1>10, <1>11

LEMMA EnterLevels ==
  ASSUME Levels, OneCold, NEW t \in Threads, Enter(t)
  PROVE  (Nesting /\ Booting /\ OneInit)'
<1> USE DEF Levels
<1>1. At(t, "enter") /\ ~Idle(t) /\ Top(t).pc = "enter" /\ initialized' = initialized /\ log' = log
  BY DEF Enter, At
<1>2. Top(t) \in Calls /\ CallOK(Top(t)) /\ Stacks  BY <1>1, TopIsOK
<1>3. CASE ~initialized
  <2>1. Goto(t, "key") /\ level' = level  BY <1>3 DEF Enter
  <2>2. "key" \in Pcs /\ {"enter", "key"} \cap (Entered \cup Entering) = {}
        /\ "key" \notin {"check", "backtrace", "write"}
    BY DEF Pcs, InitPcs, Entered, Entering
  <2>3. Nesting'  BY <1>1, <2>1, <2>2, GotoNested
  <2>4. log = <<>>  BY <1>3 DEF Booting
  <2>5. t \in Cold /\ Lone(stack[t])  BY <1>1, <2>4 DEF Booting
  <2>6. \A u \in Threads \ {t} : Idle(u)
    BY <2>4, <2>5 DEF Booting, OneCold
  <2> DEFINE c == [Top(t) EXCEPT !.pc = "key"]
             s == stack[t]
             r == [s EXCEPT ![1] = c]
  <2>7. Swaps(t, c) /\ s \in Seq(Calls) /\ s # <<>> /\ c \in Calls /\ c.pc = "key"
    BY <1>1, <1>2, <2>1, <2>2, TopIsOK, GotoSwaps, PcField
  <2>8. Becomes(t, r)  BY <2>7 DEF Swaps
  <2> HIDE DEF c
  <2> HIDE DEF s
  <2>9. r[1] = c /\ Lone(r)
    <3>1. Lone(s)  BY <2>5 DEF s
    <3>2. r[1] = c  BY <2>7, Swapped
    <3> QED  BY <2>7, <3>1, <3>2, LoneLength
  <2> HIDE DEF r
  <2>10. Booting'
    BY <1>1, <1>2, <1>3, <2>4, <2>5, <2>6, <2>7, <2>8, <2>9, ColdBoots DEF Before
  <2> QED  BY <1>1, <2>3, <2>10, SameOne
<1>4. CASE initialized
  <2> DEFINE s == stack[t]
             n == level[t] + 1
             c == [Top(t) EXCEPT !.pc = "body", !.level = n]
             r == [s EXCEPT ![1] = c]
  <2>1. /\ level' = [level EXCEPT ![t] = @ + 1]
        /\ stack' = [stack EXCEPT ![t][1].pc = "body", ![t][1].level = n]
    BY <1>4 DEF Enter
  <2>2. log # <<>>
    BY <1>1, <1>4 DEF Booting, After
  <2>3. s \in Seq(Calls) /\ s # <<>> /\ s[1] = Top(t) /\ level \in [Threads -> Nat] /\ n \in Nat
    BY <1>1, TopIsOK DEF Top, Typed, TypeOK
  <2>4. stack' = [stack EXCEPT ![t] = r]
    BY <1>2, <2>1, <2>3 DEF Top, Stacks
  <2>5. level'[t] = n /\ \A u \in Threads \ {t} : level'[u] = level[u]  BY <2>1, <2>3
  <2>6. StackOK(s, level[t])  BY DEF Nesting
  <2> HIDE DEF n
  <2>7. c \in Calls /\ c.pc = "body" /\ c.level = n /\ c.op = Top(t).op /\ c.q = Top(t).q
    <3>1. "body" \in Pcs  BY DEF Pcs, Entered
    <3> QED  BY <1>2, <2>3, <3>1 DEF Calls, Pcs
  <2> HIDE DEF c
  <2>8. r \in Seq(Calls) /\ r[1] = c  BY <2>3, <2>7, Swapped
  <2>9. Becomes(t, r)  BY <2>4, <2>8 DEF Becomes
  <2> HIDE DEF s
  <2>10. StackOK(r, n)
    <3>1. /\ Len(s) \in Nat \ {0}
          /\ level[t] = IF s[1].pc \in Entered \cup Entering THEN Len(s) ELSE Len(s) - 1
          /\ s[1].op = "malloc" => (s[1].q # NULL => (s[1].q \in Pool <=> 1 < Len(s)))
      BY <2>3, <2>6, TopLevel
    <3>2. s[1].pc \notin Entered \cup Entering /\ "body" \in Entered
          /\ "body" \notin {"check", "backtrace", "write"}
      BY <1>1, <2>3 DEF Entered, Entering
    <3>3. n = Len(s)
      <4>1. level[t] = Len(s) - 1  BY <3>1, <3>2
      <4> QED  BY <3>1, <4>1 DEF n
    <3>4. n = IF c.pc \in Entered \cup Entering THEN Len(s) ELSE Len(s) - 1  BY <2>7, <3>2, <3>3
    <3>5. c.op = "malloc" => /\ c.q # NULL => (c.q \in Pool <=> 1 < Len(s))
                             /\ c.pc \in {"check", "backtrace", "write"} => Len(s) = 1
      BY <2>3, <2>7, <3>1, <3>2
    <3>6. c.pc \in Entered => c.level = Len(s)  BY <2>7, <3>3
    <3> QED  BY <2>3, <2>6, <2>7, <3>4, <3>5, <3>6, SwapKeepsLevel
  <2> HIDE DEF r
  <2>11. Nesting'  BY <1>2, <2>5, <2>9, <2>10, BecomesNested
  <2>12. Booting'
    <3>1. r[1].pc \notin InitPcs  BY <2>7, <2>8 DEF InitPcs
    <3> QED  BY <1>1, <1>2, <2>2, <2>9, <3>1, WarmBoots
  <2> QED  BY <1>1, <2>11, <2>12, SameOne
<1> QED  BY <1>3, <1>4

LEMMA BootLevels ==
  ASSUME Levels, OneCold, StdioQuiet, NEW t \in Threads,
         InitKey(t) \/ InitFopen(t) \/ InitReady(t) \/ InitLock(t)
  PROVE  (Nesting /\ Booting /\ OneInit)'
<1> USE DEF Levels
<1>1. PICK k \in InitPcs, l \in InitPcs :
        /\ At(t, k) /\ Goto(t, l) /\ log' = log
        /\ level' \in [Threads -> Nat]
        /\ \/ k = "key" /\ l = "fopen" /\ initialized' = initialized
              /\ level' = [u \in Threads |-> IF u = t THEN 1 ELSE 0]
           \/ k = "fopen" /\ l = "ready" /\ initialized' = initialized /\ level' = level
           \/ k = "ready" /\ l = "initlock" /\ initialized' = TRUE
              /\ level' = [level EXCEPT ![t] = 0]
           \/ k = "initlock" /\ l = "initwrite" /\ initialized' = initialized /\ level' = level
  <2>1. level \in [Threads -> Nat]  BY DEF Typed, TypeOK
  <2>2. ASSUME NEW k \in InitPcs, At(t, k), NEW l \in Pcs, NEW name, Library(t, name, l)
        PROVE  Goto(t, l)
    <3>1. ~Idle(t)  BY <2>2 DEF At
    <3>2. Swaps(t, [Top(t) EXCEPT !.pc = l])
      BY <2>2, <3>1, TopIsOK, LibraryBecomes DEF StdioQuiet
    <3>3. stack' = [stack EXCEPT ![t] = [stack[t] EXCEPT ![1] = [Top(t) EXCEPT !.pc = l]]]
      BY <3>2 DEF Swaps, Becomes
    <3> QED  BY <3>3, TopIsOK DEF Goto, Top, Stacks
  <2>3. {"key", "fopen", "ready", "initlock", "initwrite"} = InitPcs /\ InitPcs \subseteq Pcs
    BY DEF Pcs, InitPcs
  <2>4. CASE InitKey(t)
    <3>1. At(t, "key") /\ Goto(t, "fopen") /\ log' = log /\ initialized' = initialized
          /\ level' = [u \in Threads |-> IF u = t THEN 1 ELSE 0]
      BY <2>4 DEF InitKey
    <3>2. level' \in [Threads -> Nat]  BY <3>1
    <3> QED  BY <2>3, <3>1, <3>2
  <2>5. CASE InitFopen(t)
    <3>1. At(t, "fopen") /\ Library(t, "fopen", "ready") /\ UNCHANGED <<log, initialized, level>>
      BY <2>5 DEF InitFopen
    <3>2. Goto(t, "ready")  BY <2>2, <2>3, <3>1
    <3> QED  BY <2>1, <2>3, <3>1, <3>2
  <2>6. CASE InitReady(t)
    <3>1. At(t, "ready") /\ Goto(t, "initlock") /\ log' = log /\ initialized' = TRUE
          /\ level' = [level EXCEPT ![t] = 0]
      BY <2>6 DEF InitReady
    <3>2. level' \in [Threads -> Nat]  BY <2>1, <3>1
    <3> QED  BY <2>3, <3>1, <3>2
  <2>7. CASE InitLock(t)
    <3>1. At(t, "initlock") /\ Library(t, "fwrite", "initwrite") /\ UNCHANGED <<log, initialized, level>>
      BY <2>7 DEF InitLock
    <3>2. Goto(t, "initwrite")  BY <2>2, <2>3, <3>1
    <3> QED  BY <2>1, <2>3, <3>1, <3>2
  <2> QED  BY <2>4, <2>5, <2>6, <2>7
<1>2. ~Idle(t) /\ Top(t).pc = k  BY <1>1 DEF At
<1>3. /\ log = <<>> /\ t \in Cold /\ Lone(stack[t])
      /\ k \in IF initialized THEN After ELSE Before
      /\ \A u \in Threads \ {t} : Idle(u)
  BY <1>1, Boots
<1>4. Top(t) \in Calls /\ CallOK(Top(t)) /\ Top(t).q = NULL
  <2>1. Top(t) \in Calls /\ CallOK(Top(t))  BY <1>2, TopIsOK
  <2> QED  BY <1>1, <1>2, <2>1 DEF CallOK
<1>5. \A u \in Threads \ {t} : level[u] = 0
  <2> SUFFICES ASSUME NEW u \in Threads \ {t} PROVE level[u] = 0  OBVIOUS
  <2>1. stack[u] = <<>> /\ StackOK(stack[u], level[u])  BY <1>3 DEF Idle, Nesting
  <2> QED  BY <2>1 DEF StackOK, Depth
<1>6. level[t] = IF k \in Entering THEN 1 ELSE 0
  <2> DEFINE s == stack[t]
  <2>1. s \in Seq(Calls) /\ s # <<>> /\ s[1] = Top(t) /\ StackOK(s, level[t])
    BY <1>2, TopIsOK DEF Top, Nesting
  <2>2. Len(s) = 1  BY <1>3, <1>4, <2>1, LoneLength
  <2> HIDE DEF s
  <2>3. k \notin Entered  BY <1>1 DEF InitPcs, Entered
  <2>4. level[t] = IF s[1].pc \in Entered \cup Entering THEN Len(s) ELSE Len(s) - 1
    BY <2>1, TopLevel
  <2> QED  BY <1>2, <2>1, <2>2, <2>3, <2>4
<1>7. /\ l \in Pcs /\ l \notin Entered
      /\ level'[t] = IF l \in Entering THEN 1 ELSE 0
      /\ \A u \in Threads \ {t} : level'[u] = 0
  <2>1. l \in Pcs /\ l \notin Entered  BY <1>1 DEF InitPcs, Pcs, Entered
  <2>2. level \in [Threads -> Nat]  BY DEF Typed, TypeOK
  <2> QED  BY <1>1, <1>5, <1>6, <2>1, <2>2 DEF Entering
<1>8. l \in IF initialized' THEN After ELSE Before
  BY <1>1, <1>3 DEF After, Before
<1> QED  BY <1>1, <1>3, <1>4, <1>7, <1>8, BootStep, SameOne

LEMMA InitWriteLevels ==
  ASSUME Levels, OneCold, NEW t \in Threads, InitWrite(t)
  PROVE  (Nesting /\ Booting /\ OneInit)'
<1> USE DEF Levels
<1>1. /\ At(t, "initwrite") /\ Goto(t, "enter") /\ level' = level /\ initialized' = initialized
      /\ log' = Append(log, InitRecord(t)) /\ ~Idle(t) /\ Top(t).pc = "initwrite"
  BY DEF InitWrite, At
<1>2. "initwrite" \in InitPcs /\ "enter" \in Pcs  BY DEF InitPcs, Pcs
<1>3. /\ log = <<>> /\ "initwrite" \in IF initialized THEN After ELSE Before
      /\ \A u \in Threads \ {t} : Idle(u)
  BY <1>1, <1>2, Boots
<1>4. initialized  BY <1>3 DEF Before
<1>5. Nesting'
  <2>1. {"enter", "initwrite"} \cap (Entered \cup Entering) = {}
    BY DEF Entered, Entering
  <2> QED  BY <1>1, <1>2, <2>1, GotoNested
<1>6. log' = <<InitRecord(t)>>  BY <1>1, <1>3
<1>7. OneInit' /\ log' # <<>>
  <2>1. InitRecord(t).ev = "init"  BY DEF InitRecord
  <2> QED  BY <1>6, <2>1 DEF OneInit
<1>8. Booting'
  <2> DEFINE c == [Top(t) EXCEPT !.pc = "enter"]
             r == [stack[t] EXCEPT ![1] = c]
  <2>1. Swaps(t, c) /\ Stacks /\ stack[t] \in Seq(Calls) /\ stack[t] # <<>> /\ Top(t) \in Calls
    BY <1>1, <1>2, TopIsOK, GotoSwaps
  <2>2. c \in Calls /\ c.pc = "enter"  BY <1>2, <2>1, PcField
  <2>3. Becomes(t, r)  BY <2>1 DEF Swaps
  <2> HIDE DEF c
  <2>4. r[1] = c  BY <2>1, <2>2, Swapped
  <2> HIDE DEF r
  <2>5. stack'[t] = r /\ \A u \in Threads \ {t} : stack'[u] = stack[u]  BY <2>1, <2>3, Becoming
  <2>6. ASSUME NEW u \in Threads, NEW l \in InitPcs PROVE ~At(u, l)'
    <3>1. CASE u = t  BY <2>2, <2>4, <2>5, <3>1 DEF At, Idle, Top, InitPcs
    <3>2. CASE u # t  BY <1>3, <2>5, <3>2 DEF At, Idle
    <3> QED  BY <3>1, <3>2
  <2> QED  BY <1>1, <1>4, <1>7, <2>6 DEF Booting
<1> QED  BY <1>5, <1>7, <1>8

LEMMA OperationLevels ==
  ASSUME Levels, OneCold, NEW t \in Threads,
         Malloc(t) \/ Free(t) \/ Realloc(t) \/ LmmRealloc(t) \/ Tag(t)
  PROVE  (Nesting /\ Booting /\ OneInit)'
<1> USE DEF Levels
<1>1. level' = level /\ initialized' = initialized /\ log' = log
  BY DEF Malloc, Free, Realloc, LmmRealloc, Tag
<1>2. /\ {"check", "leave"} \subseteq Pcs /\ {"check", "leave", "body"} \subseteq Entered
      /\ {"check", "leave", "body"} \cap (InitPcs \cup Entering \cup Before \cup After) = {}
  BY DEF Pcs, Entered, InitPcs, Entering, Before, After
<1>3. ASSUME At(t, "body") PROVE ~Idle(t) /\ Top(t).pc = "body" /\ log # <<>>
  <2>1. ~Idle(t) /\ Top(t).pc = "body"  BY <1>3 DEF At
  <2> QED  BY <1>2, <2>1, Warm
<1>4. ASSUME NEW q \in Addresses, NEW l \in {"check", "leave"}, Result(t, q, l), At(t, "body")
      PROVE  Booting'
  <2> DEFINE c == [Top(t) EXCEPT !.q = q, !.pc = l]
             r == [stack[t] EXCEPT ![1] = c]
  <2>1. Swaps(t, c) /\ Stacks /\ stack[t] \in Seq(Calls) /\ stack[t] # <<>> /\ Top(t) \in Calls
    BY <1>2, <1>3, <1>4, TopIsOK, ResultSwaps
  <2>2. c \in Calls /\ c.pc = l  BY <1>2, <1>4, <2>1 DEF Calls, Pcs
  <2>3. Becomes(t, r)  BY <2>1 DEF Swaps
  <2> HIDE DEF c
  <2>4. r[1] = c  BY <2>1, <2>2, Swapped
  <2> HIDE DEF r
  <2>5. r[1].pc \notin InitPcs  BY <1>2, <2>2, <2>4
  <2> QED  BY <1>1, <1>3, <1>4, <2>1, <2>3, <2>5, WarmBoots
<1>5. CASE Malloc(t)
  <2>1. At(t, "body") /\ Top(t).op = "malloc"  BY <1>5 DEF Malloc
  <2>2. PICK q \in Addresses, l \in {"check", "leave"} :
          /\ Result(t, q, l)
          /\ \/ Nested(t) /\ q \in Pool \cup {NULL} /\ l = "leave"
             \/ ~Nested(t) /\ q \in Heap \cup {NULL}
    BY <1>5 DEF Malloc, Addresses
  <2>3. Nesting'  BY <1>1, <2>1, <2>2, ResultNested
  <2> QED  BY <1>1, <1>4, <2>1, <2>2, <2>3, SameOne
<1>6. ASSUME Free(t) \/ Tag(t) PROVE (Nesting /\ Booting /\ OneInit)'
  <2>1. At(t, "body") /\ Top(t).op # "malloc"  BY <1>6 DEF Free, Tag
  <2>2. PICK l \in {"check", "leave"} : Goto(t, l)  BY <1>6 DEF Free, Tag
  <2>3. Nesting'  BY <1>1, <1>2, <1>3, <2>1, <2>2, GotoNested
  <2>4. Booting'  BY <1>1, <1>2, <1>3, <2>1, <2>2, GotoWarm
  <2> QED  BY <1>1, <2>3, <2>4, SameOne
<1>7. CASE Realloc(t)
  <2>1. At(t, "body") /\ Top(t).op = "realloc"  BY <1>7 DEF Realloc
  <2>2. Top(t).p \in Addresses
    BY <1>3, <2>1, TopIsOK DEF Calls
  <2>3. PICK q \in Addresses : Result(t, q, "check")
    BY <1>7, <2>2 DEF Realloc, Addresses
  <2>4. Nesting'  BY <1>1, <2>1, <2>3, ResultNested
  <2> QED  BY <1>1, <1>4, <2>1, <2>3, <2>4, SameOne
<1>8. CASE LmmRealloc(t)
  <2>1. At(t, "lmm_realloc") /\ ~Idle(t) /\ Top(t).pc = "lmm_realloc"
    BY <1>8 DEF LmmRealloc, At
  <2>2. Pops(t) /\ Stacks /\ stack[t] \in Seq(Calls) /\ stack[t] # <<>>
    BY <1>8, <2>1, TopIsOK, Popped DEF LmmRealloc, Pops, Becomes, Stacks
  <2>3. Nesting'  BY <1>1, <2>1, <2>2, PopsNested
  <2> DEFINE r == Tail(stack[t])
  <2>4. Becomes(t, r)  BY <2>2 DEF Pops
  <2>5. CASE log # <<>>
    <3>1. r = <<>> \/ r[1].pc \notin InitPcs
      BY <2>2, TailWaits DEF Nesting, InitPcs
    <3> HIDE DEF r
    <3> QED  BY <1>1, <2>2, <2>3, <2>4, <2>5, <3>1, WarmBoots, SameOne
  <2>6. CASE log = <<>>
    <3>1. t \in Cold /\ Lone(stack[t]) /\ "lmm_realloc" \in IF initialized THEN After ELSE Before
      BY <2>1, <2>6 DEF Booting
    <3>2. ~initialized  BY <3>1 DEF After
    <3>3. \A u \in Threads \ {t} : Idle(u)  BY <2>6, <3>1 DEF Booting, OneCold
    <3>4. r = <<>>  BY <3>1 DEF Lone
    <3> HIDE DEF r
    <3> QED  BY <1>1, <2>2, <2>3, <2>4, <2>6, <3>2, <3>3, <3>4, ColdBoots, SameOne
  <2> QED  BY <2>5, <2>6
<1> QED  BY <1>5, <1>6, <1>7, <1>8

LEMMA LoggingLevels ==
  ASSUME Levels, NEW t \in Threads,
         Check(t) \/ Backtrace(t) \/ LogWrite(t) \/ Leave(t)
  PROVE  (Nesting /\ Booting /\ OneInit)'
<1> USE DEF Levels
<1>1. /\ {"leave", "backtrace", "write"} \subseteq Pcs
      /\ {"leave", "backtrace", "write", "check"} \subseteq Entered
      /\ {"leave", "backtrace", "write", "check"} \cap (InitPcs \cup Entering \cup Before \cup After) = {}
  BY DEF Pcs, Entered, InitPcs, Entering, Before, After
<1>2. ASSUME Check(t) \/ Backtrace(t) \/ LogWrite(t) PROVE (Nesting /\ Booting /\ OneInit)'
  <2>1. /\ ~Idle(t) /\ Top(t).pc \in {"check", "backtrace", "write"}
        /\ level' = level /\ initialized' = initialized
        /\ log' = log \/ Write(t)
    BY <1>2 DEF Check, Backtrace, LogWrite, At
  <2>2. PICK l \in {"leave", "backtrace", "write"} : Goto(t, l)
    BY <1>2 DEF Check, Backtrace, LogWrite
  <2>3. log # <<>>  BY <1>1, <2>1, Warm
  <2>4. OneInit' /\ log' # <<>>
    BY <2>1, <2>3, WriteKeepsOne, SameOne
  <2>5. Nesting'  BY <1>1, <2>1, <2>2, GotoNested
  <2>6. Booting'  BY <1>1, <2>1, <2>2, <2>3, <2>4, GotoWarm
  <2> QED  BY <2>4, <2>5, <2>6
<1>3. CASE Leave(t)
  <2>1. /\ At(t, "leave") /\ ~Idle(t) /\ Top(t).pc = "leave"
        /\ log' = log /\ initialized' = initialized /\ level' = [level EXCEPT ![t] = @ - 1]
    BY <1>3 DEF Leave, At
  <2>2. Pops(t) /\ Stacks /\ stack[t] \in Seq(Calls) /\ stack[t] # <<>>
    BY <1>3, <2>1, TopIsOK, Popped DEF Leave, Pops, Becomes, Stacks
  <2>3. Nesting'  BY <2>1, <2>2, PopsNested
  <2> DEFINE r == Tail(stack[t])
  <2>4. Becomes(t, r)  BY <2>2 DEF Pops
  <2>5. log # <<>>  BY <1>1, <2>1, Warm
  <2>6. r = <<>> \/ r[1].pc \notin InitPcs
    BY <2>2, TailWaits DEF Nesting, InitPcs
  <2> HIDE DEF r
  <2> QED  BY <2>1, <2>2, <2>3, <2>4, <2>5, <2>6, WarmBoots, SameOne
<1> QED  BY <1>2, <1>3

LEMMA InitLevels == Init => Nesting /\ Booting /\ OneInit
<1> SUFFICES ASSUME Init PROVE Nesting /\ Booting /\ OneInit  OBVIOUS
<1>1. \A t \in Threads : stack[t] = <<>> /\ level[t] = 0  BY DEF Init
<1>2. StackOK(<<>>, 0)
  BY DEF StackOK, Waiting, Levelled, Served, Depth
<1>3. log = <<>> /\ ~initialized  BY DEF Init
<1>4. OneInit  BY <1>3 DEF OneInit
<1> QED  BY <1>1, <1>2, <1>3, <1>4 DEF Nesting, Booting, Idle

LEMMA StepLevels ==
  ASSUME OneCold, StdioQuiet
  PROVE  Levels /\ [Next]_vars => Levels'
<1>1. ASSUME Levels, NEW t \in Threads, Caller(t) \/ Step(t)
      PROVE  (Nesting /\ Booting /\ OneInit)'
  BY <1>1, CallerLevels, EnterLevels, BootLevels, InitWriteLevels, OperationLevels, LoggingLevels
  DEF Step
<1>2. ASSUME Levels, UNCHANGED vars PROVE (Nesting /\ Booting /\ OneInit)'
  BY <1>2 DEF vars, Levels, Nesting, Booting, OneInit, Idle, At, Top
<1>3. Levels /\ [Next]_vars => (Nesting /\ Booting /\ OneInit)'
  BY <1>1, <1>2 DEF Next, Finished
<1> QED  BY <1>3, StepTyped DEF Levels

LEMMA LevelsHold ==
  ASSUME OneCold, StdioQuiet
  PROVE  Spec => []Levels
<1>1. Levels /\ [Next]_vars => Levels'  BY StepLevels
<1>2. Init => Levels  BY InitTyped, InitLevels DEF Levels
<1> QED  BY <1>1, <1>2, PTL DEF Spec

-----------------------------------------------------------------------------
(* What follows for every run.                                             *)

LEMMA FromTwo ==
  ASSUME NEW k \in Nat, k # 0
  PROVE  Cardinality(2 .. k) = k - 1
<1>1. Cardinality(2 .. k) = IF 2 > k THEN 0 ELSE k - 2 + 1  BY FS_Interval
<1>2. CASE k = 1  BY <1>1, <1>2
<1>3. CASE k > 1
  <2>1. ~(2 > k)  BY <1>3
  <2> QED  BY <1>1, <2>1
<1> QED  BY <1>2, <1>3

LEMMA Balanced ==
  ASSUME NEW s \in Seq(Calls), NEW n, StackOK(s, n)
  PROVE  n = Cardinality({i \in DOMAIN s : s[i].pc \in Entered})
             + Cardinality({i \in DOMAIN s : s[i].pc \in {"fopen", "ready"}})
<1> DEFINE E == {i \in DOMAIN s : s[i].pc \in Entered}
           F == {i \in DOMAIN s : s[i].pc \in {"fopen", "ready"}}
<1>1. DOMAIN s = 1 .. Len(s) /\ Len(s) \in Nat /\ (s = <<>> <=> Len(s) = 0)  BY Lengths
<1>2. \A i \in DOMAIN s : i > 1 => i \in E /\ i \notin F
  BY DEF StackOK, Waiting, Entered
<1>3. E \subseteq 1 .. Len(s) /\ F \subseteq 1 .. Len(s)  BY <1>1
<1>4. /\ 1 \in E <=> s # <<>> /\ s[1].pc \in Entered
      /\ 1 \in F <=> s # <<>> /\ s[1].pc \in Entering
  BY <1>1 DEF Entering
<1>5. \A i \in E : i = 1 \/ i > 1  BY <1>1, <1>3
<1>6. n = Depth(s)  BY DEF StackOK
<1>7. Entered \cap Entering = {}  BY DEF Entered, Entering
<1> HIDE DEF E, F
<1>8. \A i \in 2 .. Len(s) : i \in E /\ i \notin F  BY <1>1, <1>2
<1>9. CASE s # <<>> /\ s[1].pc \in Entered
  <2>1. \A i \in 1 .. Len(s) : i \in E /\ i \notin F
    <3>1. 1 \in E /\ 1 \notin F  BY <1>4, <1>7, <1>9
    <3> QED  BY <1>1, <1>8, <3>1
  <2>2. E = 1 .. Len(s) /\ F = {}  BY <1>3, <2>1
  <2>3. Cardinality(E) = Len(s) /\ Cardinality(F) = 0
    BY <1>1, <2>2, FS_Interval, FS_EmptySet
  <2>4. Depth(s) = Len(s)  BY <1>9 DEF Depth
  <2>5. n = Cardinality(E) + Cardinality(F)  BY <1>1, <1>6, <2>3, <2>4
  <2> QED  BY <2>5 DEF E, F
<1>10. CASE s # <<>> /\ s[1].pc \notin Entered
  <2>1. 1 \notin E  BY <1>4, <1>10
  <2>2. E = 2 .. Len(s)
    <3>1. E \subseteq 2 .. Len(s)  BY <1>1, <1>3, <2>1
    <3> QED  BY <1>8, <3>1
  <2>3. Len(s) \in Nat /\ Len(s) # 0  BY <1>1, <1>10
  <2>4. Cardinality(E) = Len(s) - 1
    <3>1. Cardinality(2 .. Len(s)) = Len(s) - 1  BY <2>3, FromTwo
    <3> QED  BY <2>2, <3>1
  <2>5. CASE s[1].pc \in Entering
    <3>1. F = {1}
      <4>1. 1 \in F  BY <1>4, <1>10, <2>5
      <4>2. F \subseteq {1}  BY <1>1, <1>3, <1>8
      <4> QED  BY <4>1, <4>2
    <3>2. Cardinality(F) = 1  BY <3>1, FS_Singleton
    <3>3. Depth(s) = Len(s)  BY <1>10, <2>5 DEF Depth
    <3>4. n = Cardinality(E) + Cardinality(F)  BY <1>6, <2>3, <2>4, <3>2, <3>3
    <3> QED  BY <3>4 DEF E, F
  <2>6. CASE s[1].pc \notin Entering
    <3>1. F = {}
      <4>1. 1 \notin F  BY <1>4, <2>6
      <4> QED  BY <1>1, <1>3, <1>8, <4>1
    <3>2. Cardinality(F) = 0  BY <3>1, FS_EmptySet
    <3>3. Depth(s) = Len(s) - 1  BY <1>10, <2>6 DEF Depth
    <3>4. n = Cardinality(E) + Cardinality(F)  BY <1>6, <2>3, <2>4, <3>2, <3>3
    <3> QED  BY <3>4 DEF E, F
  <2> QED  BY <2>5, <2>6
<1>11. CASE s = <<>>
  <2>1. E = {} /\ F = {}  BY <1>1, <1>3, <1>11
  <2> QED  BY <1>6, <1>11, <2>1, FS_EmptySet DEF Depth, E, F
<1> QED  BY <1>9, <1>10, <1>11

LEMMA LevelsMean ==
  ASSUME Levels
  PROVE  LevelsBalanced /\ InnerFromPool /\ OneInit /\ AssertionHolds
<1> USE DEF Levels
<1>1. \A t \in Threads : stack[t] \in Seq(Calls) /\ StackOK(stack[t], level[t])
  BY DEF Typed, TypeOK, Nesting
<1>2. LevelsBalanced
  <2> SUFFICES ASSUME NEW t \in Threads
      PROVE  level[t] = Cardinality({i \in DOMAIN stack[t] : stack[t][i].pc \in Entered})
                        + Cardinality({i \in DOMAIN stack[t] : stack[t][i].pc \in {"fopen", "ready"}})
    BY DEF LevelsBalanced
  <2> QED  BY <1>1, Balanced
<1>3. InnerFromPool  BY <1>1 DEF StackOK, Served, InnerFromPool
<1>4. ASSUME NEW t \in Threads, At(t, "leave") PROVE level[t] > 0
  <2>1. ~Idle(t) /\ Top(t).pc = "leave"  BY <1>4 DEF At
  <2> DEFINE s == stack[t]
  <2>2. s # <<>> /\ s[1].pc = "leave" /\ s \in Seq(Calls) /\ StackOK(s, level[t])
    BY <1>1, <2>1 DEF Idle, Top
  <2> HIDE DEF s
  <2>3. level[t] = Len(s) /\ Len(s) > 0  BY <2>2, PopKeepsLevel
  <2> QED  BY <2>3
<1> QED  BY <1>2, <1>3, <1>4 DEF AssertionHolds

(* enter and leave always cancel: a thread's level is the number of calls  *)
(* it is inside of, so that nested_level says what it is meant to say.     *)
THEOREM LevelsAlwaysBalanced ==
  ASSUME OneCold, StdioQuiet
  PROVE  Spec => []LevelsBalanced
BY LevelsHold, LevelsMean, PTL

(* A malloc from inside the backtrace of another call gets its memory from *)
(* the internal pool, one from the application gets it from libc.          *)
THEOREM InnerAlwaysFromPool ==
  ASSUME OneCold, StdioQuiet
  PROVE  Spec => []InnerFromPool
BY LevelsHold, LevelsMean, PTL

(* do_init runs to its end once, and its record is the log's first.        *)
THEOREM InitializedOnce ==
  ASSUME OneCold, StdioQuiet
  PROVE  Spec => []OneInit
BY LevelsHold, LevelsMean, PTL

(* The assertion in leave () never fires.                                  *)
THEOREM LeaveNeverAborts ==
  ASSUME OneCold, StdioQuiet
  PROVE  Spec => []AssertionHolds
BY LevelsHold, LevelsMean, PTL

(* Which steps write a record of thread t, and where t then is.            *)
LEMMA Writers ==
  ASSUME Typed, [Next]_vars, NEW t \in Threads, Wrote(t)
  PROVE  At(t, "check") \/ At(t, "write")
<1>1. log \in Seq(Records) /\ Len(log) \in Nat  BY DEF Typed, TypeOK
<1>2. log' # log  BY <1>1 DEF Wrote
<1>3. PICK u \in Threads : InitWrite(u) \/ Check(u) \/ LogWrite(u)
  <2>1. ~(UNCHANGED vars)  BY <1>2 DEF vars
  <2>2. PICK u \in Threads : Caller(u) \/ Step(u)  BY <2>1 DEF Next, Finished
  <2>3. ~Caller(u)
    BY <1>2 DEF Caller, CallMalloc, CallOn, memtraq_tag, SetEnabled, Start
  <2>4. ~(Enter(u) \/ InitKey(u) \/ InitFopen(u) \/ InitReady(u) \/ InitLock(u))
    BY <1>2 DEF Enter, InitKey, InitFopen, InitReady, InitLock
  <2>5. ~(Malloc(u) \/ Free(u) \/ Realloc(u) \/ LmmRealloc(u) \/ Tag(u) \/ Backtrace(u) \/ Leave(u))
    BY <1>2 DEF Malloc, Free, Realloc, LmmRealloc, Tag, Backtrace, Leave
  <2> QED  BY <2>2, <2>3, <2>4, <2>5 DEF Step
<1>4. CASE InitWrite(u)
  <2> DEFINE e == InitRecord(u)
  <2>1. log' = Append(log, e) /\ e \in Records /\ e.ev = "init"
    BY <1>4 DEF InitWrite, InitRecord, Records, Addresses
  <2> HIDE DEF e
  <2>2. log'[Len(log')] = e  BY <1>1, <2>1
  <2> QED  BY <2>1, <2>2 DEF Wrote
<1>5. CASE Check(u) \/ LogWrite(u)
  <2>1. Write(u) /\ (At(u, "check") \/ At(u, "write")) /\ ~Idle(u)
    BY <1>2, <1>5 DEF Check, LogWrite, At
  <2> DEFINE e == Record(u)
  <2>2. e \in Records /\ e.by = u
    BY <2>1, TopIsOK DEF Record, Calls, Records
  <2>3. log' = Append(log, e)  BY <2>1 DEF Write
  <2> HIDE DEF e
  <2>4. log'[Len(log')] = e  BY <1>1, <2>2, <2>3
  <2>5. u = t  BY <2>2, <2>4 DEF Wrote
  <2> QED  BY <2>1, <2>5
<1> QED  BY <1>3, <1>4, <1>5

(* No allocation that memtraq makes while it handles another call ends up  *)
(* in the log: a thread that records an allocation is at level one.        *)
THEOREM InnerNeverRecorded ==
  ASSUME OneCold, StdioQuiet
  PROVE  Spec => InnerUnrecorded
<1>1. ASSUME Levels, [Next]_vars, NEW t \in Threads, Wrote(t), Top(t).op = "malloc"
      PROVE  level[t] = 1
  <2>1. At(t, "check") \/ At(t, "write")  BY <1>1, Writers DEF Levels
  <2> DEFINE s == stack[t]
  <2>2. /\ s \in Seq(Calls) /\ s # <<>> /\ s[1].pc \in {"check", "write"} /\ s[1].op = "malloc"
        /\ StackOK(s, level[t])
    BY <1>1, <2>1 DEF Levels, Typed, TypeOK, Nesting, At, Idle, Top
  <2>3. s[1].pc \in Entered  BY <2>2 DEF Entered
  <2> HIDE DEF s
  <2> QED  BY <2>2, <2>3, TopLevel
<1>2. Levels /\ [Next]_vars =>
        [\A t \in Threads : Wrote(t) /\ Top(t).op = "malloc" => level[t] = 1]_vars
  BY <1>1
<1> QED  BY <1>2, LevelsHold, PTL DEF Spec, InnerUnrecorded

-----------------------------------------------------------------------------
(* The log's balance.  A record, or a call in progress that has done its   *)
(* operation and not written its record yet, gains an address or loses it. *)

Kinds == {"gain", "lose"}
Counts(x, op, p, q, a) ==
  IF x = "gain" THEN q = a /\ op \in {"malloc", "realloc"}
  ELSE p = a /\ (op = "free" \/ (op = "realloc" /\ q # NULL))

Unwritten == {"check", "backtrace", "write"}
Owes(x, c, a) == c.pc \in Unwritten /\ Counts(x, c.op, c.p, c.q, a)

\* A call has the same place from the outermost one on as long as it lasts.
Owing(x, s, a)  == {n \in 1 .. Len(s) : Owes(x, s[Len(s) + 1 - n], a)}
Unlogged(x, a)  == {w \in Threads \X Nat : w[2] \in Owing(x, stack[w[1]], a)}
CountsIn(l, x, a) == {i \in DOMAIN l : Counts(x, l[i].ev, l[i].p, l[i].q, a)}
Logged(x, a)    == CountsIn(log, x, a)
Count(x, a)     == Cardinality(Logged(x, a)) + Cardinality(Unlogged(x, a))

Enabling ==
  /\ log # <<>> => enabled
  /\ \A t \in Threads : At(t, "initwrite") => enabled
Settled(a) ==
  /\ \A x \in Kinds : IsFiniteSet(Unlogged(x, a))
  /\ Count("gain", a) = Count("lose", a) + IF a \in heap THEN 1 ELSE 0
Balance   == \A a \in Heap : Settled(a)
Following == switch = "none" /\ StartEnabled => Enabling /\ Balance

LEMMA TopOwes ==
  ASSUME NEW s \in Seq(Calls), s # <<>>, NEW x, NEW a,
         NEW c, c = s[1], NEW rest, rest = Tail(s), NEW n, n = Len(s)
  PROVE  /\ Owing(x, s, a) = Owing(x, rest, a) \cup IF Owes(x, c, a) THEN {n} ELSE {}
         /\ n \notin Owing(x, rest, a)
         /\ n \in Nat
<1> DEFINE r == Tail(s)
           k == Len(r)
<1>1. /\ r \in Seq(Calls) /\ Len(s) = k + 1 /\ \A i \in 1 .. k : r[i] = s[i + 1]
  BY Popped
<1>2. k \in Nat  BY <1>1, Lengths
<1> HIDE DEF r, k
<1>3. Owing(x, s, a) = {m \in 1 .. k + 1 : Owes(x, s[k + 1 + 1 - m], a)}  BY <1>1 DEF Owing
<1>4. Owing(x, r, a) = {m \in 1 .. k : Owes(x, r[k + 1 - m], a)}  BY DEF Owing, k
<1>5. ASSUME NEW m \in 1 .. k PROVE r[k + 1 - m] = s[k + 1 + 1 - m]
  <2>1. k + 1 - m \in 1 .. k /\ (k + 1 - m) + 1 = k + 1 + 1 - m  BY <1>2
  <2> QED  BY <1>1, <2>1
<1>6. k + 1 + 1 - (k + 1) = 1  BY <1>2
<1>7. 1 .. k + 1 = (1 .. k) \cup {k + 1} /\ k + 1 \notin 1 .. k  BY <1>2
<1>8. ASSUME NEW m \in 1 .. k PROVE m \in Owing(x, s, a) <=> m \in Owing(x, r, a)
  BY <1>3, <1>4, <1>5, <1>7
<1>9. k + 1 \in Owing(x, s, a) <=> Owes(x, s[1], a)
  BY <1>3, <1>6, <1>7
<1>10. Owing(x, s, a) \subseteq 1 .. k + 1 /\ Owing(x, r, a) \subseteq 1 .. k  BY <1>3, <1>4
<1>11. k + 1 \notin Owing(x, r, a)  BY <1>7, <1>10
<1>12. CASE Owes(x, s[1], a)
  <2>1. Owing(x, s, a) = Owing(x, r, a) \cup {k + 1}  BY <1>7, <1>8, <1>9, <1>10, <1>12
  <2> QED  BY <1>1, <1>2, <1>11, <1>12, <2>1 DEF r
<1>13. CASE ~Owes(x, s[1], a)
  <2>1. Owing(x, s, a) = Owing(x, r, a)  BY <1>7, <1>8, <1>9, <1>10, <1>11, <1>13
  <2> QED  BY <1>1, <1>2, <1>11, <1>13, <2>1 DEF r
<1> QED  BY <1>12, <1>13

(* What one thread's step does to the records still owed.                  *)
LEMMA OwedBy ==
  ASSUME Stacks, NEW t \in Threads, NEW r, Becomes(t, r), NEW x, NEW a
  PROVE  /\ Owing(x, r, a) = Owing(x, stack[t], a) => Unlogged(x, a)' = Unlogged(x, a)
         /\ \A n \in Nat :
              /\ /\ n \notin Owing(x, stack[t], a)
                 /\ Owing(x, r, a) = Owing(x, stack[t], a) \cup {n}
                 => /\ Unlogged(x, a)' = Unlogged(x, a) \cup {<<t, n>>}
                    /\ <<t, n>> \notin Unlogged(x, a)
              /\ /\ n \notin Owing(x, r, a)
                 /\ Owing(x, stack[t], a) = Owing(x, r, a) \cup {n}
                 => /\ Unlogged(x, a) = Unlogged(x, a)' \cup {<<t, n>>}
                    /\ <<t, n>> \notin Unlogged(x, a)'
<1> DEFINE S(u) == Owing(x, stack[u], a)
           R(u) == Owing(x, stack'[u], a)
<1>1. stack'[t] = r /\ \A u \in Threads \ {t} : stack'[u] = stack[u]  BY Becoming
<1>2. R(t) = Owing(x, r, a) /\ \A u \in Threads \ {t} : R(u) = S(u)  BY <1>1
<1>3. Unlogged(x, a) = {w \in Threads \X Nat : w[2] \in S(w[1])}  BY DEF Unlogged
<1>4. Unlogged(x, a)' = {w \in Threads \X Nat : w[2] \in R(w[1])}  BY DEF Unlogged, Owing
<1> DEFINE U == Unlogged(x, a)
           V == Unlogged(x, a)'
<1>5. ASSUME NEW u \in Threads, NEW n \in Nat
      PROVE  (<<u, n>> \in U <=> n \in S(u)) /\ (<<u, n>> \in V <=> n \in R(u))
  BY <1>3, <1>4
<1>6. U \subseteq Threads \X Nat /\ V \subseteq Threads \X Nat  BY <1>3, <1>4
<1> HIDE DEF S, R, U, V
<1>7. ASSUME R(t) = S(t) PROVE V = U
  <2>1. ASSUME NEW u \in Threads PROVE R(u) = S(u)  BY <1>2, <1>7
  <2>2. ASSUME NEW u \in Threads, NEW n \in Nat PROVE <<u, n>> \in U <=> <<u, n>> \in V
    BY <1>5, <2>1
  <2> QED  BY <1>6, <2>2
<1>8. ASSUME NEW n \in Nat, n \notin S(t), R(t) = S(t) \cup {n}
      PROVE  V = U \cup {<<t, n>>} /\ <<t, n>> \notin U
  <2>1. ASSUME NEW u \in Threads, NEW m \in Nat
        PROVE  <<u, m>> \in V <=> <<u, m>> \in U \/ <<u, m>> = <<t, n>>
    <3>1. CASE u = t  BY <1>5, <1>8, <3>1
    <3>2. CASE u # t  BY <1>2, <1>5, <3>2
    <3> QED  BY <3>1, <3>2
  <2>2. <<t, n>> \in Threads \X Nat  OBVIOUS
  <2>3. V = U \cup {<<t, n>>}  BY <1>6, <2>1, <2>2
  <2> QED  BY <1>5, <1>8, <2>3
<1>9. ASSUME NEW n \in Nat, n \notin R(t), S(t) = R(t) \cup {n}
      PROVE  U = V \cup {<<t, n>>} /\ <<t, n>> \notin V
  <2>1. ASSUME NEW u \in Threads, NEW m \in Nat
        PROVE  <<u, m>> \in U <=> <<u, m>> \in V \/ <<u, m>> = <<t, n>>
    <3>1. CASE u = t  BY <1>5, <1>9, <3>1
    <3>2. CASE u # t  BY <1>2, <1>5, <3>2
    <3> QED  BY <3>1, <3>2
  <2>2. <<t, n>> \in Threads \X Nat  OBVIOUS
  <2>3. U = V \cup {<<t, n>>}  BY <1>6, <2>1, <2>2
  <2> QED  BY <1>5, <1>9, <2>3
<1> QED  BY <1>2, <1>7, <1>8, <1>9 DEF S, U, V
(* A step adds d to what has been counted, whether logged or still owed.   *)
Changes(x, a, d) ==
  IsFiniteSet(Unlogged(x, a)) =>
    /\ IsFiniteSet(Unlogged(x, a))'
    /\ Count(x, a) \in Nat
    /\ Count(x, a)' = Count(x, a) + d

LEMMA AppendCounts ==
  ASSUME NEW l \in Seq(Records), NEW e \in Records, NEW x, NEW a
  PROVE  /\ IsFiniteSet(CountsIn(l, x, a))
         /\ Counts(x, e.ev, e.p, e.q, a) =>
              Cardinality(CountsIn(Append(l, e), x, a)) = Cardinality(CountsIn(l, x, a)) + 1
         /\ ~Counts(x, e.ev, e.p, e.q, a) => CountsIn(Append(l, e), x, a) = CountsIn(l, x, a)
<1> DEFINE m == Append(l, e)
           k == Len(l)
           C == CountsIn(l, x, a)
           D == CountsIn(m, x, a)
<1>1. /\ k \in Nat /\ DOMAIN l = 1 .. k /\ DOMAIN m = 1 .. k + 1
      /\ m[k + 1] = e /\ \A i \in 1 .. k : m[i] = l[i]
  OBVIOUS
<1>2. C \subseteq 1 .. k /\ D \subseteq 1 .. k + 1  BY <1>1 DEF CountsIn
<1> HIDE DEF m, k
<1>3. k + 1 \in D <=> Counts(x, e.ev, e.p, e.q, a)  BY <1>1 DEF CountsIn
<1>4. \A i \in 1 .. k : i \in D <=> i \in C  BY <1>1 DEF CountsIn
<1> HIDE DEF C, D
<1>5. k + 1 \notin 1 .. k /\ 1 .. k + 1 = (1 .. k) \cup {k + 1}  BY <1>1
<1>6. IsFiniteSet(C)
  <2>1. IsFiniteSet(1 .. k)  BY <1>1, FS_Interval
  <2> QED  BY <1>2, <2>1, FS_Subset
<1>7. ASSUME Counts(x, e.ev, e.p, e.q, a) PROVE Cardinality(D) = Cardinality(C) + 1
  <2>1. D = C \cup {k + 1} /\ k + 1 \notin C  BY <1>2, <1>3, <1>4, <1>5, <1>7
  <2> QED  BY <1>6, <2>1, FS_AddElement
<1>8. ASSUME ~Counts(x, e.ev, e.p, e.q, a) PROVE D = C
  BY <1>2, <1>3, <1>4, <1>5, <1>8
<1> QED  BY <1>6, <1>7, <1>8 DEF C, D, m

(* Nothing is logged, and the step leaves what is owed or adds to it.      *)
LEMMA Unwrote ==
  ASSUME Typed, NEW t \in Threads, NEW r, Becomes(t, r), NEW x, NEW a, log' = log
  PROVE  /\ Owing(x, r, a) = Owing(x, stack[t], a) => Changes(x, a, 0)
         /\ \A n \in Nat :
              /\ n \notin Owing(x, stack[t], a)
              /\ Owing(x, r, a) = Owing(x, stack[t], a) \cup {n}
              => Changes(x, a, 1)
<1>1. Stacks /\ log \in Seq(Records)  BY DEF Typed, TypeOK, Stacks
<1> DEFINE U == Unlogged(x, a)
           V == Unlogged(x, a)'
           C == Logged(x, a)
<1>2. Logged(x, a)' = C  BY DEF Logged, CountsIn
<1>3. Count(x, a) = Cardinality(C) + Cardinality(U)  BY DEF Count
<1>4. Count(x, a)' = Cardinality(C) + Cardinality(V)  BY <1>2 DEF Count
<1>5. IsFiniteSet(C)
  <2>1. PICK e \in Records : TRUE
    <3>1. InitRecord(t) \in Records  BY DEF InitRecord, Records, Addresses
    <3> QED  BY <3>1
  <2> QED  BY <1>1, <2>1, AppendCounts DEF Logged
<1>6. Cardinality(C) \in Nat /\ (IsFiniteSet(U) => Cardinality(U) \in Nat)
  BY <1>5, FS_CardinalityType
<1> HIDE DEF U, V, C
<1>7. ASSUME Owing(x, r, a) = Owing(x, stack[t], a) PROVE Changes(x, a, 0)
  <2>1. V = U  BY <1>1, <1>7, OwedBy DEF U, V
  <2> QED  BY <1>3, <1>4, <1>6, <2>1 DEF Changes, U, V
<1>8. ASSUME NEW n \in Nat, n \notin Owing(x, stack[t], a),
             Owing(x, r, a) = Owing(x, stack[t], a) \cup {n}
      PROVE  Changes(x, a, 1)
  <2>1. V = U \cup {<<t, n>>} /\ <<t, n>> \notin U  BY <1>1, <1>8, OwedBy DEF U, V
  <2>2. IsFiniteSet(U) => IsFiniteSet(V) /\ Cardinality(V) = Cardinality(U) + 1
    BY <2>1, FS_AddElement
  <2> QED  BY <1>3, <1>4, <1>6, <2>2 DEF Changes, U, V
<1> QED  BY <1>7, <1>8

LEMMA SettledStep ==
  ASSUME NEW a, NEW g \in {0, 1}, NEW l \in {0, 1},
         Settled(a), Changes("gain", a, g), Changes("lose", a, l),
         g + (IF a \in heap THEN 1 ELSE 0) = l + (IF a \in heap' THEN 1 ELSE 0)
  PROVE  Settled(a)'
<1> DEFINE h == IF a \in heap THEN 1 ELSE 0
           k == IF a \in heap' THEN 1 ELSE 0
<1>1. h \in {0, 1} /\ k \in {0, 1} /\ g + h = l + k  OBVIOUS
<1>2. \A x \in Kinds : IsFiniteSet(Unlogged(x, a))  BY DEF Settled
<1>3. Count("gain", a) = Count("lose", a) + h  BY DEF Settled
<1> HIDE DEF h, k
<1>4. /\ IsFiniteSet(Unlogged("gain", a))' /\ IsFiniteSet(Unlogged("lose", a))'
      /\ Count("gain", a) \in Nat /\ Count("gain", a)' = Count("gain", a) + g
      /\ Count("lose", a) \in Nat /\ Count("lose", a)' = Count("lose", a) + l
  BY <1>2 DEF Changes, Kinds
<1>5. Count("gain", a)' = Count("lose", a)' + k
  BY <1>1, <1>3, <1>4
<1>6. \A x \in Kinds : IsFiniteSet(Unlogged(x, a))'  BY <1>4 DEF Kinds
<1> QED  BY <1>5, <1>6 DEF Settled, k
(* The innermost call moves on without a record written: it owes what it   *)
(* did before, or the record of the operation it has just done.            *)
LEMMA SwapChanges ==
  ASSUME Typed, NEW t \in Threads, NEW c, Swaps(t, c), log' = log, NEW x, NEW a
  PROVE  /\ (Owes(x, c, a) <=> Owes(x, Top(t), a)) => Changes(x, a, 0)
         /\ Owes(x, c, a) /\ ~Owes(x, Top(t), a) => Changes(x, a, 1)
<1> DEFINE s == stack[t]
           r == [s EXCEPT ![1] = c]
<1>1. /\ s \in Seq(Calls) /\ s # <<>> /\ c \in Calls /\ Becomes(t, r) /\ s[1] = Top(t)
  BY TopIsOK DEF Swaps, Top
<1>2. r \in Seq(Calls) /\ r # <<>> /\ Len(r) = Len(s) /\ r[1] = c /\ Tail(r) = Tail(s)
  BY <1>1, Swapped
<1> HIDE DEF s, r
<1>3. /\ Owing(x, s, a) = Owing(x, Tail(s), a) \cup IF Owes(x, s[1], a) THEN {Len(s)} ELSE {}
      /\ Owing(x, r, a) = Owing(x, Tail(s), a) \cup IF Owes(x, c, a) THEN {Len(s)} ELSE {}
      /\ Len(s) \notin Owing(x, Tail(s), a) /\ Len(s) \in Nat
  <2>1. /\ Owing(x, s, a) = Owing(x, Tail(s), a) \cup IF Owes(x, s[1], a) THEN {Len(s)} ELSE {}
        /\ Len(s) \notin Owing(x, Tail(s), a) /\ Len(s) \in Nat
    BY <1>1, TopOwes, Zenon
  <2>2. c = r[1] /\ Tail(s) = Tail(r) /\ Len(s) = Len(r)  BY <1>2
  <2>3. Owing(x, r, a) = Owing(x, Tail(s), a) \cup IF Owes(x, c, a) THEN {Len(s)} ELSE {}
    BY <1>2, <2>2, TopOwes, Zenon
  <2> QED  BY <2>1, <2>3
<1>4. ASSUME Owes(x, c, a) <=> Owes(x, Top(t), a) PROVE Changes(x, a, 0)
  <2>1. Owing(x, r, a) = Owing(x, s, a)  BY <1>1, <1>3, <1>4
  <2> QED  BY <1>1, <2>1, Unwrote DEF s
<1>5. ASSUME Owes(x, c, a), ~Owes(x, Top(t), a) PROVE Changes(x, a, 1)
  <2>1. Owing(x, r, a) = Owing(x, s, a) \cup {Len(s)} /\ Len(s) \notin Owing(x, s, a)
    BY <1>1, <1>3, <1>5
  <2> QED  BY <1>1, <1>3, <2>1, Unwrote DEF s
<1> QED  BY <1>4, <1>5

(* A call begins, or returns once its record is written.                   *)
LEMMA PushChanges ==
  ASSUME Typed, NEW t \in Threads, NEW c, Pushes(t, c), log' = log, NEW x, NEW a, ~Owes(x, c, a)
  PROVE  Changes(x, a, 0)
<1> DEFINE s == stack[t]
           r == <<c>> \o s
<1>1. s \in Seq(Calls) /\ c \in Calls /\ Becomes(t, r)  BY DEF Pushes, Typed, TypeOK
<1>2. r \in Seq(Calls) /\ r # <<>> /\ r[1] = c /\ Tail(r) = s  BY <1>1, Pushed
<1> HIDE DEF s, r
<1>3. Owing(x, r, a) = Owing(x, s, a)
  <2>1. Owing(x, r, a) = Owing(x, Tail(r), a) \cup IF Owes(x, r[1], a) THEN {Len(r)} ELSE {}
    BY <1>2, TopOwes, Zenon
  <2> QED  BY <1>2, <2>1
<1> QED  BY <1>1, <1>3, Unwrote DEF s

LEMMA PopChanges ==
  ASSUME Typed, NEW t \in Threads, Pops(t), log' = log, NEW x, NEW a, ~Owes(x, Top(t), a)
  PROVE  Changes(x, a, 0)
<1> DEFINE s == stack[t]
           r == Tail(s)
<1>1. s \in Seq(Calls) /\ s # <<>> /\ Becomes(t, r) /\ s[1] = Top(t)
  BY TopIsOK DEF Pops, Top
<1> HIDE DEF s
<1>2. Owing(x, s, a) = Owing(x, r, a)
  <2>1. Owing(x, s, a) = Owing(x, Tail(s), a) \cup IF Owes(x, s[1], a) THEN {Len(s)} ELSE {}
    BY <1>1, TopOwes, Zenon
  <2> QED  BY <1>1, <2>1
<1> HIDE DEF r
<1> QED  BY <1>1, <1>2, Unwrote DEF s

(* A record is written: it counts for what the call that wrote it owed.    *)
LEMMA WriteChanges ==
  ASSUME Typed, NEW t \in Threads, NEW c, Swaps(t, c), NEW x, NEW a, NEW e \in Records,
         log' = Append(log, e), ~Owes(x, c, a),
         Counts(x, e.ev, e.p, e.q, a) <=> Owes(x, Top(t), a)
  PROVE  Changes(x, a, 0)
<1> DEFINE s == stack[t]
           r == [s EXCEPT ![1] = c]
<1>1. /\ s \in Seq(Calls) /\ s # <<>> /\ c \in Calls /\ Becomes(t, r) /\ s[1] = Top(t)
      /\ Stacks /\ log \in Seq(Records)
  BY TopIsOK DEF Swaps, Top, Typed, TypeOK
<1>2. r \in Seq(Calls) /\ r # <<>> /\ Len(r) = Len(s) /\ r[1] = c /\ Tail(r) = Tail(s)
  BY <1>1, Swapped
<1> HIDE DEF s, r
<1>3. /\ Owing(x, s, a) = Owing(x, r, a) \cup IF Owes(x, s[1], a) THEN {Len(s)} ELSE {}
      /\ Len(s) \notin Owing(x, r, a) /\ Len(s) \in Nat
  <2>1. /\ Owing(x, s, a) = Owing(x, Tail(s), a) \cup IF Owes(x, s[1], a) THEN {Len(s)} ELSE {}
        /\ Len(s) \notin Owing(x, Tail(s), a) /\ Len(s) \in Nat
    BY <1>1, TopOwes, Zenon
  <2>2. c = r[1] /\ Tail(s) = Tail(r) /\ Len(s) = Len(r)  BY <1>2
  <2>3. Owing(x, r, a) = Owing(x, Tail(s), a) \cup IF Owes(x, c, a) THEN {Len(s)} ELSE {}
    BY <1>2, <2>2, TopOwes, Zenon
  <2>4. Owing(x, r, a) = Owing(x, Tail(s), a)  BY <2>3
  <2> QED  BY <2>1, <2>4
<1> DEFINE U == Unlogged(x, a)
           V == Unlogged(x, a)'
           C == Logged(x, a)
           D == Logged(x, a)'
<1>4. /\ Count(x, a) = Cardinality(C) + Cardinality(U)
      /\ Count(x, a)' = Cardinality(D) + Cardinality(V)
  BY DEF Count
<1>5. D = CountsIn(Append(log, e), x, a)  BY DEF Logged
<1>6. /\ IsFiniteSet(C)
      /\ Owes(x, Top(t), a) => Cardinality(D) = Cardinality(C) + 1
      /\ ~Owes(x, Top(t), a) => D = C
  BY <1>1, <1>5, AppendCounts DEF Logged
<1>7. CASE Owes(x, Top(t), a)
  <2>1. Owing(x, s, a) = Owing(x, r, a) \cup {Len(s)}  BY <1>1, <1>3, <1>7
  <2>2. U = V \cup {<<t, Len(s)>>} /\ <<t, Len(s)>> \notin V
    BY <1>1, <1>3, <2>1, OwedBy DEF s
  <2> HIDE DEF U, V, C, D
  <2>3. ASSUME IsFiniteSet(U)
        PROVE  IsFiniteSet(V) /\ Cardinality(U) = Cardinality(V) + 1 /\ Cardinality(V) \in Nat
    <3>1. IsFiniteSet(V)  BY <2>2, <2>3, FS_Subset
    <3> QED  BY <2>2, <3>1, FS_AddElement, FS_CardinalityType
  <2>4. Cardinality(C) \in Nat  BY <1>6, FS_CardinalityType
  <2> QED  BY <1>4, <1>6, <1>7, <2>3, <2>4 DEF Changes, U, V
<1>8. CASE ~Owes(x, Top(t), a)
  <2>1. Owing(x, r, a) = Owing(x, s, a)  BY <1>1, <1>3, <1>8
  <2>2. V = U  BY <1>1, <2>1, OwedBy DEF s
  <2>3. D = C  BY <1>6, <1>8
  <2> HIDE DEF U, V, C, D
  <2>4. Cardinality(C) \in Nat /\ (IsFiniteSet(U) => Cardinality(U) \in Nat)
    BY <1>6, FS_CardinalityType
  <2> QED  BY <1>4, <2>2, <2>3, <2>4 DEF Changes, U, V
<1> QED  BY <1>7, <1>8
LEMMA SteadyBalance ==
  ASSUME Balance, heap' = heap, \A x \in Kinds : \A a \in Heap : Changes(x, a, 0)
  PROVE  Balance'
<1>1. ASSUME NEW a \in Heap PROVE Settled(a)'
  <2>1. Changes("gain", a, 0) /\ Changes("lose", a, 0) /\ Settled(a)  BY DEF Kinds, Balance
  <2>2. 0 + (IF a \in heap THEN 1 ELSE 0) = 0 + (IF a \in heap' THEN 1 ELSE 0)  OBVIOUS
  <2> QED  BY <2>1, <2>2, SettledStep
<1> QED  BY <1>1 DEF Balance

LEMMA SwapBalance ==
  ASSUME Typed, Balance, NEW t \in Threads, NEW c, Swaps(t, c), log' = log, heap' = heap,
         c.op = Top(t).op /\ c.p = Top(t).p /\ c.q = Top(t).q,
         c.pc \in Unwritten <=> Top(t).pc \in Unwritten
  PROVE  Balance'
<1>1. ASSUME NEW x \in Kinds, NEW a \in Heap PROVE Changes(x, a, 0)
  <2>1. Owes(x, c, a) <=> Owes(x, Top(t), a)  BY DEF Owes
  <2> QED  BY <2>1, SwapChanges
<1> QED  BY <1>1, SteadyBalance

LEMMA GotoBalance ==
  ASSUME Typed, Balance, NEW t \in Threads, ~Idle(t), NEW l \in Pcs, Goto(t, l),
         log' = log, heap' = heap, l \in Unwritten <=> Top(t).pc \in Unwritten
  PROVE  Balance'
<1> DEFINE c == [Top(t) EXCEPT !.pc = l]
<1>1. Swaps(t, c)  BY TopIsOK, GotoSwaps
<1>2. c.pc = l /\ c.op = Top(t).op /\ c.p = Top(t).p /\ c.q = Top(t).q
  <2>1. Top(t) \in Calls  BY TopIsOK
  <2> QED  BY <2>1, PcField
<1> HIDE DEF c
<1> QED  BY <1>1, <1>2, SwapBalance

(* The call moves on with its record written.                              *)
LEMMA WriteBalance ==
  ASSUME Typed, Balance, NEW t \in Threads, ~Idle(t), NEW l \in Pcs, Goto(t, l),
         Write(t), heap' = heap, l \notin Unwritten, Top(t).pc \in Unwritten
  PROVE  Balance'
<1> DEFINE c == [Top(t) EXCEPT !.pc = l]
           e == Record(t)
<1>1. Swaps(t, c)  BY TopIsOK, GotoSwaps
<1>2. Top(t) \in Calls  BY TopIsOK
<1>3. c.pc = l  BY <1>2, PcField
<1>4. log' = Append(log, e)  BY DEF Write
<1>5. e \in Records /\ e.ev = Top(t).op /\ e.p = Top(t).p /\ e.q = Top(t).q
  BY <1>2 DEF Record, Records, Calls
<1> HIDE DEF c, e
<1>6. ASSUME NEW x \in Kinds, NEW a \in Heap PROVE Changes(x, a, 0)
  <2>1. ~Owes(x, c, a)  BY <1>3 DEF Owes
  <2>2. Counts(x, e.ev, e.p, e.q, a) <=> Owes(x, Top(t), a)  BY <1>5 DEF Owes
  <2> QED  BY <1>1, <1>4, <1>5, <2>1, <2>2, WriteChanges
<1> QED  BY <1>6, SteadyBalance

LEMMA PushBalance ==
  ASSUME Typed, Balance, NEW t \in Threads, NEW c, Pushes(t, c), log' = log, heap' = heap,
         c.pc \notin Unwritten
  PROVE  Balance'
<1>1. ASSUME NEW x \in Kinds, NEW a \in Heap PROVE Changes(x, a, 0)
  <2>1. ~Owes(x, c, a)  BY DEF Owes
  <2> QED  BY <2>1, PushChanges
<1> QED  BY <1>1, SteadyBalance

LEMMA PopBalance ==
  ASSUME Typed, Balance, NEW t \in Threads, Pops(t), log' = log, heap' = heap,
         Top(t).pc \notin Unwritten
  PROVE  Balance'
<1>1. ASSUME NEW x \in Kinds, NEW a \in Heap PROVE Changes(x, a, 0)
  <2>1. ~Owes(x, Top(t), a)  BY DEF Owes
  <2> QED  BY <2>1, PopChanges
<1> QED  BY <1>1, SteadyBalance

(* An operation: gained and lost say what it did to the C library's heap,  *)
(* and its record will say the same.                                       *)
LEMMA OperationBalance ==
  ASSUME Typed, Balance, NEW t \in Threads, NEW c, Swaps(t, c), log' = log,
         NEW gained, NEW lost,
         Top(t).pc \notin Unwritten, c.pc \in Unwritten,
         \A a \in Heap : Counts("gain", c.op, c.p, c.q, a) <=> a \in gained,
         \A a \in Heap : Counts("lose", c.op, c.p, c.q, a) <=> a \in lost,
         lost \subseteq heap, gained \cap heap \subseteq lost,
         heap' = (heap \ lost) \cup gained
  PROVE  Balance'
<1>1. ASSUME NEW a \in Heap PROVE Settled(a)'
  <2> DEFINE g == IF a \in gained THEN 1 ELSE 0
             l == IF a \in lost THEN 1 ELSE 0
  <2>1. ~Owes("gain", Top(t), a) /\ ~Owes("lose", Top(t), a)  BY DEF Owes
  <2>2. (Owes("gain", c, a) <=> a \in gained) /\ (Owes("lose", c, a) <=> a \in lost)
    BY DEF Owes
  <2>3. Changes("gain", a, g)
    <3>1. CASE a \in gained
      <4>1. Changes("gain", a, 1)  BY <2>1, <2>2, <3>1, SwapChanges
      <4> QED  BY <3>1, <4>1
    <3>2. CASE a \notin gained
      <4>1. Changes("gain", a, 0)  BY <2>1, <2>2, <3>2, SwapChanges
      <4> QED  BY <3>2, <4>1
    <3> QED  BY <3>1, <3>2
  <2>4. Changes("lose", a, l)
    <3>1. CASE a \in lost
      <4>1. Changes("lose", a, 1)  BY <2>1, <2>2, <3>1, SwapChanges
      <4> QED  BY <3>1, <4>1
    <3>2. CASE a \notin lost
      <4>1. Changes("lose", a, 0)  BY <2>1, <2>2, <3>2, SwapChanges
      <4> QED  BY <3>2, <4>1
    <3> QED  BY <3>1, <3>2
  <2>5. g \in {0, 1} /\ l \in {0, 1}  OBVIOUS
  <2>6. g + (IF a \in heap THEN 1 ELSE 0) = l + (IF a \in heap' THEN 1 ELSE 0)
    <3>1. CASE a \in gained /\ a \in lost
      <4>1. a \in heap /\ a \in heap'  BY <3>1
      <4> QED  BY <3>1, <4>1
    <3>2. CASE a \in gained /\ a \notin lost
      <4>1. a \notin heap /\ a \in heap'  BY <3>2
      <4> QED  BY <3>2, <4>1
    <3>3. CASE a \notin gained /\ a \in lost
      <4>1. a \in heap /\ a \notin heap'  BY <3>3
      <4> QED  BY <3>3, <4>1
    <3>4. CASE a \notin gained /\ a \notin lost
      <4>1. a \in heap <=> a \in heap'  BY <3>4
      <4> QED  BY <3>4, <4>1
    <3> QED  BY <3>1, <3>2, <3>3, <3>4
  <2>7. Settled(a)  BY DEF Balance
  <2> HIDE DEF g, l
  <2> QED  BY <2>3, <2>4, <2>5, <2>6, <2>7, SettledStep
<1> QED  BY <1>1 DEF Balance

(* Logging stays enabled when no step but that of do_init enables it.      *)
LEMMA EnabledKept ==
  ASSUME Stacks, Enabling, NEW t \in Threads, NEW r, Becomes(t, r), enabled' = enabled,
         log = <<>> => log' = <<>>, r = <<>> \/ r[1].pc # "initwrite"
  PROVE  Enabling'
<1>1. stack'[t] = r /\ \A u \in Threads \ {t} : stack'[u] = stack[u]  BY Becoming
<1>2. ASSUME NEW u \in Threads, At(u, "initwrite")' PROVE enabled'
  <2>1. CASE u = t  BY <1>1, <1>2, <2>1 DEF At, Idle, Top
  <2>2. CASE u # t
    <3>1. stack'[u] = stack[u]  BY <1>1, <2>2
    <3>2. At(u, "initwrite")  BY <1>2, <3>1 DEF At, Idle, Top
    <3> QED  BY <3>2 DEF Enabling
  <2> QED  BY <2>1, <2>2
<1> QED  BY <1>2 DEF Enabling
LEMMA SwapEnabled ==
  ASSUME Typed, Enabling, NEW t \in Threads, NEW c, Swaps(t, c), enabled' = enabled,
         log = <<>> => log' = <<>>, c.pc # "initwrite"
  PROVE  Enabling'
<1> DEFINE r == [stack[t] EXCEPT ![1] = c]
<1>1. /\ stack[t] \in Seq(Calls) /\ stack[t] # <<>> /\ c \in Calls /\ Becomes(t, r) /\ Stacks
  BY TopIsOK DEF Swaps
<1>2. r[1] = c  BY <1>1, Swapped
<1> HIDE DEF r
<1> QED  BY <1>1, <1>2, EnabledKept

LEMMA GotoEnabled ==
  ASSUME Typed, Enabling, NEW t \in Threads, ~Idle(t), NEW l \in Pcs, Goto(t, l),
         enabled' = enabled, log = <<>> => log' = <<>>, l # "initwrite"
  PROVE  Enabling'
<1> DEFINE c == [Top(t) EXCEPT !.pc = l]
<1>1. Swaps(t, c) /\ Top(t) \in Calls  BY TopIsOK, GotoSwaps
<1>2. c.pc = l  BY <1>1, PcField
<1> HIDE DEF c
<1> QED  BY <1>1, <1>2, SwapEnabled

LEMMA CallerKept ==
  ASSUME Typed, Enabling, Balance, NEW t \in Threads, Caller(t), switch = "none", switch' = "none"
  PROVE  (Enabling /\ Balance)'
<1>1. ASSUME NEW op \in Ops, NEW p \in Addresses, Start(t, op, p) PROVE (Enabling /\ Balance)'
  <2> DEFINE l == IF op = "realloc" /\ lmm_valid(p) THEN "lmm_realloc" ELSE "enter"
             c == Call(op, p, l)
             s == stack[t]
  <2>1. l \in Pcs /\ l \notin Unwritten /\ l # "initwrite"  BY DEF Pcs, Unwritten
  <2>2. stack' = [stack EXCEPT ![t] = <<c>> \o s]  BY <1>1 DEF Start, Push
  <2> HIDE DEF l
  <2>3. c \in Calls /\ c.pc = l  BY <2>1, NewCall
  <2> HIDE DEF c
  <2>4. Stacks /\ s \in Seq(Calls)  BY DEF Typed, TypeOK, Stacks
  <2> DEFINE r == <<c>> \o s
  <2>5. r \in Seq(Calls) /\ r[1] = c  BY <2>3, <2>4, Pushed
  <2>6. Becomes(t, r) /\ Pushes(t, c)  BY <2>2, <2>3, <2>5 DEF Becomes, Pushes
  <2> HIDE DEF r, s
  <2>7. log' = log /\ heap' = heap /\ enabled' = enabled  BY <1>1 DEF Start, heaps
  <2>8. Balance'  BY <2>1, <2>3, <2>6, <2>7, PushBalance
  <2>9. Enabling'  BY <2>1, <2>3, <2>4, <2>5, <2>6, <2>7, EnabledKept
  <2> QED  BY <2>8, <2>9
<1>2. CASE CallMalloc(t)  BY <1>1, <1>2 DEF CallMalloc, Ops, Addresses
<1>3. ASSUME NEW op \in {"free", "realloc"}, NEW p \in owned, CallOn(t, op, p)
      PROVE  (Enabling /\ Balance)'
  <2>1. op \in Ops /\ p \in Addresses  BY DEF Ops, Typed, TypeOK, Addresses
  <2> QED  BY <1>1, <1>3, <2>1 DEF CallOn
<1>4. CASE memtraq_tag(t)  BY <1>1, <1>4 DEF memtraq_tag, Ops, Addresses
<1>5. ASSUME NEW on \in BOOLEAN, SetEnabled(t, on) PROVE FALSE
  BY <1>5 DEF SetEnabled
<1> QED  BY <1>2, <1>3, <1>4, <1>5 DEF Caller

(* do_init's record is about no block, and logging is enabled before it is *)
(* written.                                                                *)
LEMMA BootKept ==
  ASSUME Typed, Enabling, Balance, StdioQuiet, StartEnabled, NEW t \in Threads,
         \/ Enter(t) \/ InitKey(t) \/ InitFopen(t) \/ InitReady(t) \/ InitLock(t) \/ InitWrite(t)
  PROVE  (Enabling /\ Balance)'
<1>1. /\ InitPcs \cup {"enter", "body"} \subseteq Pcs
      /\ (InitPcs \cup {"enter", "body"}) \cap Unwritten = {}
      /\ {"key", "fopen", "ready", "initlock", "initwrite"} = InitPcs
  BY DEF Pcs, InitPcs, Unwritten, Entered
<1>2. ~Idle(t) /\ Top(t).pc \in InitPcs \cup {"enter", "body"}
  BY DEF Enter, InitKey, InitFopen, InitReady, InitLock, InitWrite, At, InitPcs
<1>3. heap' = heap
  BY DEF Enter, InitKey, InitFopen, InitReady, InitLock, InitWrite, heaps
<1>4. ASSUME NEW l \in {"key", "fopen", "initlock"}, Goto(t, l), log' = log, enabled' = enabled
      PROVE  (Enabling /\ Balance)'
  <2>1. l \in Pcs /\ l \notin Unwritten /\ Top(t).pc \notin Unwritten /\ l # "initwrite"
    BY <1>1, <1>2
  <2> QED  BY <1>2, <1>3, <1>4, <2>1, GotoBalance, GotoEnabled
<1>5. ASSUME NEW name, NEW l \in {"ready", "initwrite"}, Library(t, name, l), log' = log
      PROVE  /\ Balance'
             /\ l = "ready" /\ enabled' = enabled => Enabling'
  <2> DEFINE c == [Top(t) EXCEPT !.pc = l]
  <2>1. l \in Pcs /\ l \notin Unwritten /\ Top(t).pc \notin Unwritten  BY <1>1, <1>2
  <2>2. name \notin StdioMallocs  BY DEF StdioQuiet
  <2>3. Swaps(t, c) /\ Top(t) \in Calls  BY <1>2, <1>5, <2>1, <2>2, TopIsOK, LibraryBecomes
  <2>4. c.pc = l /\ c.op = Top(t).op /\ c.p = Top(t).p /\ c.q = Top(t).q
    BY <2>1, <2>3, PcField
  <2> HIDE DEF c
  <2>5. Balance'  BY <1>3, <1>5, <2>1, <2>3, <2>4, SwapBalance
  <2>6. l = "ready" /\ enabled' = enabled => Enabling'
    BY <1>5, <2>3, <2>4, SwapEnabled
  <2> QED  BY <2>5, <2>6
<1>6. CASE Enter(t)
  <2>1. log' = log /\ enabled' = enabled  BY <1>6 DEF Enter
  <2>2. CASE ~initialized
    <3>1. Goto(t, "key")  BY <1>6, <2>2 DEF Enter
    <3> QED  BY <1>4, <2>1, <3>1
  <2>3. CASE initialized
    <3> DEFINE c == [Top(t) EXCEPT !.pc = "body", !.level = level[t] + 1]
    <3>1. stack' = [stack EXCEPT ![t][1].pc = "body", ![t][1].level = level[t] + 1]
      BY <1>6, <2>3 DEF Enter
    <3>2. level[t] + 1 \in Nat  BY DEF Typed, TypeOK
    <3>3. Top(t) \in Calls  BY <1>2, TopIsOK
    <3>4. /\ c \in Calls /\ c.pc = "body" /\ c.op = Top(t).op /\ c.p = Top(t).p
          /\ c.q = Top(t).q
      BY <3>2, <3>3 DEF Calls, Entered
    <3>5. stack' = [stack EXCEPT ![t] = [stack[t] EXCEPT ![1] = c]]
      BY <1>2, <3>1, TopIsOK, Popped DEF Top, Stacks
    <3>6. Swaps(t, c)
      BY <1>2, <3>4, <3>5, TopIsOK, Swapped DEF Swaps, Becomes
    <3> HIDE DEF c
    <3>7. Balance'  BY <1>1, <1>2, <1>3, <2>1, <3>4, <3>6, SwapBalance
    <3>8. Enabling'  BY <2>1, <3>4, <3>6, SwapEnabled
    <3> QED  BY <3>7, <3>8
  <2> QED  BY <2>2, <2>3
<1>7. CASE InitKey(t)  BY <1>4, <1>7 DEF InitKey
<1>8. CASE InitFopen(t)  BY <1>5, <1>8 DEF InitFopen
<1>9. CASE InitReady(t)  BY <1>4, <1>9 DEF InitReady
<1>10. CASE InitLock(t)
  <2>1. Library(t, "fwrite", "initwrite") /\ log' = log  BY <1>10 DEF InitLock
  <2>2. enabled' = TRUE  BY <1>10 DEF InitLock, Typed, TypeOK
  <2> QED  BY <1>5, <2>1, <2>2 DEF Enabling
<1>11. CASE InitWrite(t)
  <2> DEFINE c == [Top(t) EXCEPT !.pc = "enter"]
             e == InitRecord(t)
  <2>1. Goto(t, "enter") /\ log' = Append(log, e) /\ enabled' = enabled /\ At(t, "initwrite")
    BY <1>11 DEF InitWrite
  <2>2. Swaps(t, c) /\ Top(t) \in Calls /\ Stacks
    BY <1>1, <1>2, <2>1, TopIsOK, GotoSwaps
  <2>3. c.pc = "enter"  BY <1>1, <2>2, PcField
  <2>4. e \in Records /\ e.ev = "init"  BY DEF InitRecord, Records, Addresses
  <2> HIDE DEF c, e
  <2>5. ASSUME NEW x \in Kinds, NEW a \in Heap PROVE Changes(x, a, 0)
    <3>1. ~Owes(x, c, a) /\ ~Owes(x, Top(t), a)  BY <1>1, <1>2, <2>3 DEF Owes
    <3>2. ~Counts(x, e.ev, e.p, e.q, a)  BY <2>4 DEF Counts
    <3> QED  BY <2>1, <2>2, <2>4, <3>1, <3>2, WriteChanges
  <2>6. Balance'  BY <1>3, <2>5, SteadyBalance
  <2>7. enabled'  BY <2>1 DEF Enabling
  <2> QED  BY <2>6, <2>7 DEF Enabling
<1> QED  BY <1>6, <1>7, <1>8, <1>9, <1>10, <1>11
(* A block that a call is about to release or to move is in use.           *)
LEMMA ArgumentInUse ==
  ASSUME Typed, Owners, NEW t \in Threads, At(t, "body"), Top(t).op \in {"free", "realloc"}
  PROVE  /\ Top(t).p \in Heap \cup Pool /\ Top(t).p \in heap \cup pool
         /\ Top(t).p \notin Pool => Top(t).p \in heap
<1>1. ~Idle(t) /\ Top(t).pc = "body"  BY DEF At
<1>2. /\ Top(t) \in Calls /\ CallOK(Top(t)) /\ stack[t] \in Seq(Calls) /\ stack[t] # <<>>
      /\ stack[t][1] = Top(t)
  BY <1>1, TopIsOK DEF Top
<1>3. InHand(Top(t)) = {Top(t).p} /\ Top(t).p # NULL
  BY <1>1, <1>2, Hands DEF Early, CallOK
<1>4. InHand(Top(t)) \subseteq HeldBy(stack[t])  BY <1>2, TopHolds
<1>5. HeldBy(stack[t]) \subseteq InUse  BY DEF Owners
<1>6. Top(t).p \in Addresses /\ pool \subseteq Pool  BY <1>2 DEF Calls, Typed, TypeOK
<1> QED  BY <1>3, <1>4, <1>5, <1>6 DEF InUse, Addresses

LEMMA OperationKept ==
  ASSUME Typed, Owners, Enabling, Balance, NEW t \in Threads,
         Malloc(t) \/ Free(t) \/ Realloc(t) \/ LmmRealloc(t) \/ Tag(t), Nesting
  PROVE  (Enabling /\ Balance)'
<1> DEFINE p == Top(t).p
<1>1. log' = log /\ enabled' = enabled  BY DEF Malloc, Free, Realloc, LmmRealloc, Tag
<1>2. /\ {"check", "leave", "body"} \subseteq Pcs
      /\ "check" \in Unwritten /\ {"leave", "body", "lmm_realloc"} \cap Unwritten = {}
  BY DEF Pcs, Entered, Unwritten
<1>3. heap \subseteq Heap /\ pool \subseteq Pool  BY DEF Typed, TypeOK
<1>4. ASSUME At(t, "body") PROVE ~Idle(t) /\ Top(t).pc = "body" /\ Top(t) \in Calls
  BY <1>4, TopIsOK DEF At
<1>5. ASSUME NEW q \in Addresses, NEW l \in {"check", "leave"}, Result(t, q, l), At(t, "body")
      PROVE  \E c : /\ Swaps(t, c) /\ c.pc = l /\ c.op = Top(t).op /\ c.p = p /\ c.q = q
                    /\ Enabling'
  <2> DEFINE c == [Top(t) EXCEPT !.q = q, !.pc = l]
  <2>1. ~Idle(t) /\ Top(t) \in Calls /\ Stacks  BY <1>4, <1>5, TopIsOK
  <2>2. l \in Pcs  BY <1>2
  <2>3. Swaps(t, c)  BY <1>5, <2>1, <2>2, ResultSwaps, Zenon
  <2>4. c.pc = l /\ c.op = Top(t).op /\ c.p = p /\ c.q = q  BY <2>1, <2>2 DEF Calls, Pcs
  <2> HIDE DEF c
  <2>5. Enabling'  BY <1>1, <2>3, <2>4, SwapEnabled
  <2> QED  BY <2>3, <2>4, <2>5
<1>6. CASE Malloc(t)
  <2>1. At(t, "body") /\ Top(t).op = "malloc"  BY <1>6 DEF Malloc
  <2>2. PICK q \in Addresses, l \in {"check", "leave"} :
          /\ Result(t, q, l)
          /\ \/ l = "leave" /\ heap' = heap
             \/ /\ l = "check" /\ q \in (Heap \ heap) \cup {NULL}
                /\ heap' = (heap \cup {q}) \ {NULL}
    BY <1>6 DEF Malloc, Addresses
  <2>3. PICK c : /\ Swaps(t, c) /\ c.pc = l /\ c.op = "malloc" /\ c.p = p /\ c.q = q /\ Enabling'
    BY <1>5, <2>1, <2>2
  <2>4. CASE l = "leave"
    <3>1. heap' = heap  BY <2>2, <2>4
    <3>2. ASSUME NEW x \in Kinds, NEW a \in Heap PROVE Changes(x, a, 0)
      <4>1. ~Owes(x, c, a) /\ ~Owes(x, Top(t), a)
        BY <1>2, <1>4, <2>1, <2>3, <2>4 DEF Owes
      <4> QED  BY <1>1, <2>3, <4>1, SwapChanges
    <3> QED  BY <2>3, <3>1, <3>2, SteadyBalance
  <2>5. CASE l = "check"
    <3> DEFINE gained == {q} \ {NULL}
               lost == {}
    <3>1. q \in (Heap \ heap) \cup {NULL} /\ heap' = (heap \cup {q}) \ {NULL}  BY <2>2, <2>5
    <3>2. /\ lost \subseteq heap /\ gained \cap heap \subseteq lost
          /\ heap' = (heap \ lost) \cup gained
      BY <1>3, <3>1, AddressAssumption
    <3>3. /\ \A a \in Heap : Counts("gain", c.op, c.p, c.q, a) <=> a \in gained
          /\ \A a \in Heap : Counts("lose", c.op, c.p, c.q, a) <=> a \in lost
      BY <2>3, AddressAssumption DEF Counts
    <3>4. Top(t).pc \notin Unwritten /\ c.pc \in Unwritten  BY <1>2, <1>4, <2>1, <2>3, <2>5
    <3> HIDE DEF gained, lost
    <3> QED  BY <1>1, <2>3, <3>2, <3>3, <3>4, OperationBalance
  <2> QED  BY <2>4, <2>5
<1>7. CASE Free(t)
  <2>1. At(t, "body") /\ Top(t).op = "free" /\ heap' = heap \ {p}  BY <1>7 DEF Free
  <2>2. p \in Heap \cup Pool /\ (p \notin Pool => p \in heap)  BY <2>1, ArgumentInUse
  <2>3. CASE p \in Pool
    <3>1. Goto(t, "leave")  BY <1>7, <2>3 DEF Free, lmm_valid
    <3>2. heap' = heap  BY <1>3, <2>1, <2>3, AddressAssumption
    <3> QED  BY <1>1, <1>2, <1>4, <2>1, <3>1, <3>2, GotoBalance, GotoEnabled
  <2>4. CASE p \notin Pool
    <3> DEFINE c == [Top(t) EXCEPT !.pc = "check"]
               gained == {}
               lost == {p}
    <3>1. Goto(t, "check")  BY <1>7, <2>4 DEF Free, lmm_valid
    <3>2. Swaps(t, c)  BY <1>2, <1>4, <2>1, <3>1, TopIsOK, GotoSwaps
    <3>3. c.pc = "check" /\ c.op = "free" /\ c.p = p /\ c.q = Top(t).q
      BY <1>2, <1>4, <2>1, PcField
    <3> HIDE DEF c
    <3>4. /\ lost \subseteq heap /\ gained \cap heap \subseteq lost
          /\ heap' = (heap \ lost) \cup gained
      BY <2>1, <2>2, <2>4
    <3>5. /\ \A a \in Heap : Counts("gain", c.op, c.p, c.q, a) <=> a \in gained
          /\ \A a \in Heap : Counts("lose", c.op, c.p, c.q, a) <=> a \in lost
      BY <3>3 DEF Counts
    <3>6. Top(t).pc \notin Unwritten /\ c.pc \in Unwritten  BY <1>2, <1>4, <2>1, <3>3
    <3> HIDE DEF gained, lost
    <3>7. Balance'  BY <1>1, <3>2, <3>4, <3>5, <3>6, OperationBalance
    <3>8. Enabling'  BY <1>1, <3>2, <3>3, SwapEnabled
    <3> QED  BY <3>7, <3>8
  <2> QED  BY <2>3, <2>4
<1>8. CASE Realloc(t)
  <2>1. At(t, "body") /\ Top(t).op = "realloc"  BY <1>8 DEF Realloc
  <2>2. p \in Heap  BY <1>4, <2>1, TopIsOK DEF CallOK, Calls, Addresses
  <2>3. p \in heap  BY <2>1, <2>2, ArgumentInUse, AddressAssumption
  <2>4. PICK q \in (Heap \ heap) \cup {NULL, p} :
          /\ heap' = IF q = NULL THEN heap ELSE (heap \ {p}) \cup {q}
          /\ Result(t, q, "check")
    BY <1>8 DEF Realloc
  <2>5. q \in Addresses  BY <2>2, <2>4 DEF Addresses
  <2>6. PICK c : /\ Swaps(t, c) /\ c.pc = "check" /\ c.op = "realloc" /\ c.p = p /\ c.q = q
                 /\ Enabling'
    BY <1>5, <2>1, <2>4, <2>5
  <2> DEFINE gained == {q} \ {NULL}
             lost == IF q = NULL THEN {} ELSE {p}
  <2>7. /\ lost \subseteq heap /\ gained \cap heap \subseteq lost
        /\ heap' = (heap \ lost) \cup gained
    BY <2>3, <2>4
  <2>8. /\ \A a \in Heap : Counts("gain", c.op, c.p, c.q, a) <=> a \in gained
        /\ \A a \in Heap : Counts("lose", c.op, c.p, c.q, a) <=> a \in lost
    BY <2>6, AddressAssumption DEF Counts
  <2>9. Top(t).pc \notin Unwritten /\ c.pc \in Unwritten  BY <1>2, <1>4, <2>1, <2>6
  <2> HIDE DEF gained, lost
  <2> QED  BY <1>1, <2>6, <2>7, <2>8, <2>9, OperationBalance
<1>9. CASE LmmRealloc(t)
  <2>1. ~Idle(t) /\ Top(t).pc = "lmm_realloc" /\ heap' = heap  BY <1>9 DEF LmmRealloc, At
  <2>2. Pops(t) /\ Stacks /\ stack[t] \in Seq(Calls) /\ stack[t] # <<>>
    BY <1>9, <2>1, TopIsOK, Popped DEF LmmRealloc, Pops, Becomes, Stacks
  <2>3. Balance'  BY <1>1, <1>2, <2>1, <2>2, PopBalance
  <2> DEFINE r == Tail(stack[t])
  <2>4. Becomes(t, r)  BY <2>2 DEF Pops
  <2>5. r = <<>> \/ r[1].pc # "initwrite"  BY <2>2, TailWaits DEF Nesting
  <2> HIDE DEF r
  <2>6. Enabling'  BY <1>1, <2>2, <2>4, <2>5, EnabledKept
  <2> QED  BY <2>3, <2>6
<1>10. CASE Tag(t)
  <2> DEFINE c == [Top(t) EXCEPT !.pc = "check"]
             none == {}
  <2>1. At(t, "body") /\ Top(t).op = "tag" /\ heap' = heap /\ Goto(t, "check")
    BY <1>10 DEF Tag, heaps
  <2>2. Swaps(t, c)  BY <1>2, <1>4, <2>1, TopIsOK, GotoSwaps
  <2>3. c.pc = "check" /\ c.op = "tag"  BY <1>2, <1>4, <2>1, PcField
  <2> HIDE DEF c
  <2>4. \A x \in Kinds : \A a \in Heap : Counts(x, c.op, c.p, c.q, a) <=> a \in none
    BY <2>3 DEF Counts
  <2>5. heap' = (heap \ none) \cup none /\ none \subseteq heap /\ none \cap heap \subseteq none
    BY <2>1
  <2>6. Top(t).pc \notin Unwritten /\ c.pc \in Unwritten  BY <1>2, <1>4, <2>1, <2>3
  <2> HIDE DEF none
  <2>7. Balance'  BY <1>1, <2>2, <2>4, <2>5, <2>6, OperationBalance DEF Kinds
  <2>8. Enabling'  BY <1>1, <2>2, <2>3, SwapEnabled
  <2> QED  BY <2>7, <2>8
<1> QED  BY <1>6, <1>7, <1>8, <1>9, <1>10

LEMMA LoggingKept ==
  ASSUME Levels, Enabling, Balance, NEW t \in Threads,
         Check(t) \/ Backtrace(t) \/ LogWrite(t) \/ Leave(t)
  PROVE  (Enabling /\ Balance)'
<1> USE DEF Levels
<1>1. /\ {"leave", "backtrace", "write"} \subseteq Pcs
      /\ Unwritten = {"check", "backtrace", "write"} /\ "leave" \notin Unwritten
      /\ {"leave", "backtrace", "write", "check"} \cap (Before \cup After) = {}
  BY DEF Pcs, Entered, Unwritten, Before, After
<1>2. /\ ~Idle(t) /\ Top(t).pc \in {"check", "backtrace", "write", "leave"}
      /\ heap' = heap /\ enabled' = enabled
  BY DEF Check, Backtrace, LogWrite, Leave, At, heaps
<1>3. log # <<>> /\ enabled  BY <1>1, <1>2, Warm DEF Enabling
<1>4. ASSUME Write(t), Goto(t, "leave"), Top(t).pc \in Unwritten PROVE (Enabling /\ Balance)'
  BY <1>1, <1>2, <1>3, <1>4, WriteBalance, GotoEnabled
<1>5. ASSUME log' = log, NEW l \in {"backtrace", "write"}, Goto(t, l), Top(t).pc \in Unwritten
      PROVE  (Enabling /\ Balance)'
  BY <1>1, <1>2, <1>3, <1>5, GotoBalance, GotoEnabled
<1>6. CASE Check(t)
  <2>1. Top(t).pc \in Unwritten  BY <1>1, <1>6 DEF Check, At
  <2>2. (Goto(t, "backtrace") /\ log' = log) \/ (Goto(t, "leave") /\ Write(t))
    BY <1>3, <1>6 DEF Check
  <2> QED  BY <1>4, <1>5, <2>1, <2>2
<1>7. CASE Backtrace(t)
  <2>1. Top(t).pc \in Unwritten  BY <1>1, <1>7 DEF Backtrace, At
  <2> QED  BY <1>5, <1>7, <2>1 DEF Backtrace
<1>8. CASE LogWrite(t)
  <2>1. Top(t).pc \in Unwritten  BY <1>1, <1>8 DEF LogWrite, At
  <2> QED  BY <1>4, <1>8, <2>1 DEF LogWrite
<1>9. CASE Leave(t)
  <2>1. Top(t).pc = "leave" /\ log' = log  BY <1>9 DEF Leave, At
  <2>2. Pops(t) /\ Stacks /\ stack[t] \in Seq(Calls) /\ stack[t] # <<>>
    BY <1>2, <1>9, TopIsOK, Popped DEF Leave, Pops, Becomes, Stacks
  <2>3. Balance'  BY <1>1, <1>2, <2>1, <2>2, PopBalance
  <2> DEFINE r == Tail(stack[t])
  <2>4. Becomes(t, r)  BY <2>2 DEF Pops
  <2>5. r = <<>> \/ r[1].pc # "initwrite"  BY <2>2, TailWaits DEF Nesting
  <2> HIDE DEF r
  <2>6. Enabling'  BY <1>2, <1>3, <2>1, <2>2, <2>4, <2>5, EnabledKept
  <2> QED  BY <2>3, <2>6
<1> QED  BY <1>6, <1>7, <1>8, <1>9
LEMMA StepFollowing ==
  ASSUME OneCold, StdioQuiet
  PROVE  Levels /\ Owners /\ Following /\ [Next]_vars => Following'
<1> SUFFICES ASSUME Levels, Owners, Following, [Next]_vars, switch' = "none", StartEnabled
             PROVE  (Enabling /\ Balance)'
  BY DEF Following
<1>1. CASE UNCHANGED vars
  <2>1. Enabling /\ Balance  BY <1>1 DEF Following, vars, bounds
  <2>2. log' = log /\ enabled' = enabled /\ heap' = heap /\ stack' = stack
    BY <1>1 DEF vars, heaps
  <2>3. Enabling'  BY <2>1, <2>2 DEF Enabling, At, Idle, Top
  <2>4. ASSUME NEW x, NEW a PROVE Unlogged(x, a)' = Unlogged(x, a) /\ Count(x, a)' = Count(x, a)
    <3>1. Unlogged(x, a)' = Unlogged(x, a)  BY <2>2 DEF Unlogged, Owing
    <3>2. Logged(x, a)' = Logged(x, a)  BY <2>2 DEF Logged, CountsIn
    <3> QED  BY <3>1, <3>2 DEF Count
  <2>5. \A a \in Heap : Settled(a)' <=> Settled(a)  BY <2>2, <2>4 DEF Settled
  <2>6. Balance'  BY <2>1, <2>5 DEF Balance
  <2> QED  BY <2>3, <2>6
<1>2. ASSUME NEW t \in Threads, Caller(t) \/ Step(t) PROVE (Enabling /\ Balance)'
  <2>1. switch = "none"
    <3>1. CASE Step(t)
      BY <3>1 DEF Step, Enter, InitKey, InitFopen, InitReady, InitLock, InitWrite, Malloc, Free,
        Realloc, LmmRealloc, Tag, Check, Backtrace, LogWrite, Leave, bounds
    <3>2. CASE Caller(t)
      BY <3>2 DEF Caller, CallMalloc, CallOn, memtraq_tag, SetEnabled, Start
    <3> QED  BY <1>2, <3>1, <3>2
  <2>2. Enabling /\ Balance /\ Typed /\ Nesting  BY <2>1 DEF Following, Levels
  <2> QED  BY <1>2, <2>1, <2>2, CallerKept, BootKept, OperationKept, LoggingKept DEF Step
<1> QED  BY <1>1, <1>2 DEF Next, Finished

LEMMA InitFollowing == Init => Following
<1> SUFFICES ASSUME Init PROVE Enabling /\ Balance  BY DEF Following
<1>1. log = <<>> /\ heap = {} /\ \A t \in Threads : stack[t] = <<>>  BY DEF Init
<1>2. Enabling  BY <1>1 DEF Enabling, At, Idle
<1>3. ASSUME NEW x \in Kinds, NEW a \in Heap PROVE Unlogged(x, a) = {} /\ Logged(x, a) = {}
  <2>1. 1 .. Len(<<>>) = {} /\ DOMAIN <<>> = {}  OBVIOUS
  <2>2. \A t \in Threads : Owing(x, stack[t], a) = {}  BY <1>1, <2>1 DEF Owing
  <2> QED  BY <1>1, <2>1, <2>2 DEF Unlogged, Logged, CountsIn
<1>4. ASSUME NEW a \in Heap PROVE Settled(a)
  <2>1. \A x \in Kinds : IsFiniteSet(Unlogged(x, a)) /\ Count(x, a) = 0
    BY <1>3, FS_EmptySet DEF Count
  <2>2. Count("gain", a) = 0 /\ Count("lose", a) = 0  BY <2>1 DEF Kinds
  <2> QED  BY <1>1, <2>1, <2>2 DEF Settled
<1> QED  BY <1>2, <1>4 DEF Balance

(* With no call in progress no record is owed.                             *)
LEMMA FollowingBalances == Typed /\ Following => LogBalances
<1> SUFFICES ASSUME Typed, Following, Quiet, switch = "none", StartEnabled, NEW a \in Heap
    PROVE  Cardinality({i \in DOMAIN log :
                          log[i].q = a /\ (log[i].ev = "malloc" \/ Moved(log[i]))})
             - Cardinality({i \in DOMAIN log :
                              log[i].p = a /\ (log[i].ev = "free" \/ Moved(log[i]))})
           = IF a \in heap THEN 1 ELSE 0
  BY DEF LogBalances, Times
<1> DEFINE G == {i \in DOMAIN log : log[i].q = a /\ (log[i].ev = "malloc" \/ Moved(log[i]))}
           L == {i \in DOMAIN log : log[i].p = a /\ (log[i].ev = "free" \/ Moved(log[i]))}
           h == IF a \in heap THEN 1 ELSE 0
<1>1. a # NULL  BY AddressAssumption
<1>2. G = Logged("gain", a)  BY <1>1 DEF Logged, CountsIn, Counts, Moved
<1>3. L = Logged("lose", a)  BY DEF Logged, CountsIn, Counts, Moved
<1>4. ASSUME NEW x PROVE Unlogged(x, a) = {}
  <2>1. \A t \in Threads : stack[t] = <<>>  BY DEF Quiet, Idle
  <2>2. 1 .. Len(<<>>) = {}  OBVIOUS
  <2>3. \A t \in Threads : Owing(x, stack[t], a) = {}  BY <2>1, <2>2 DEF Owing
  <2> QED  BY <2>3 DEF Unlogged
<1>5. Settled(a)  BY DEF Following, Balance
<1>6. log \in Seq(Records) /\ DOMAIN log = 1 .. Len(log) /\ Len(log) \in Nat
  BY DEF Typed, TypeOK
<1>7. IsFiniteSet(DOMAIN log)  BY <1>6, FS_Interval
<1>8. G \subseteq DOMAIN log /\ L \subseteq DOMAIN log  OBVIOUS
<1> HIDE DEF G, L
<1>9. Cardinality(G) \in Nat /\ Cardinality(L) \in Nat
  BY <1>7, <1>8, FS_Subset, FS_CardinalityType
<1>10. Cardinality(G) + 0 = Cardinality(L) + 0 + h
  BY <1>2, <1>3, <1>4, <1>5, FS_EmptySet DEF Settled, Count
<1>11. h \in {0, 1}  OBVIOUS
<1> HIDE DEF h
<1>12. Cardinality(G) - Cardinality(L) = h  BY <1>9, <1>10, <1>11
<1> QED  BY <1>12 DEF G, L, h

(* A reader who counts the records of each address can tell which blocks   *)
(* of the C library are in use, in whatever order the threads wrote them.  *)
THEOREM LogAlwaysBalances ==
  ASSUME OneCold, StdioQuiet
  PROVE  Spec => []LogBalances
<1>1. Following /\ Levels /\ Owners /\ [Next]_vars => (Following /\ Owners)'
  BY StepFollowing, StepOwners DEF Levels
<1>2. Init => Following /\ Owners  BY InitFollowing, InitOwners
<1>3. Following /\ Levels => LogBalances  BY FollowingBalances DEF Levels
<1> QED  BY <1>1, <1>2, <1>3, LevelsHold, PTL DEF Spec

-----------------------------------------------------------------------------
(* Reading the log in order.  A fold is a function on the sets of its      *)
(* places, of which the largest is read last; that there is one, and only  *)
(* one, is proved by looking at a smallest set without it.                 *)

Replayed(l) == FoldLeft(Replay, {}, l)

Reads(l, S, g) ==
  g = [s \in SUBSET S |-> IF s = {} THEN {} ELSE Replay(g[s \ {Max(s)}], l[Max(s)])]

LEMMA ReplayedMeans ==
  ASSUME NEW l
  PROVE  Replayed(l) = (CHOOSE g : Reads(l, DOMAIN l, g))[DOMAIN l]
BY DEF Replayed, FoldLeft, MapThenFoldSet, Reads

LEMMA Smallest ==
  ASSUME NEW S, IsFiniteSet(S), NEW T, T \subseteq SUBSET S, T # {}
  PROVE  \E s \in T : \A t \in T : t \subseteq s => t = s
<1>1. IsWellFoundedOn(StrictSubsetOrdering(S), SUBSET S)
  BY FS_StrictSubsetOrderingWellFounded, FS_FiniteSubsetsOfFinite
<1>2. PICK s \in T : \A t \in T : <<t, s>> \notin StrictSubsetOrdering(S)
  BY <1>1, WFMin
<1> QED  BY <1>2 DEF StrictSubsetOrdering

Places(S) == IsFiniteSet(S) /\ S \subseteq Int

LEMMA SomePlaces ==
  ASSUME NEW S, Places(S), NEW s \in SUBSET S
  PROVE  Places(s) /\ IsFiniteSet(s)
BY FS_Subset DEF Places

\* A set of integers that is finite and not empty has a largest member.
LEMMA LargestIn ==
  ASSUME NEW s, Places(s), s # {}
  PROVE  Max(s) \in s /\ \A i \in s : Max(s) >= i
<1> DEFINE T == {t \in SUBSET s : t # {} /\ ~ \E i \in t : \A j \in t : i >= j}
<1>1. SUFFICES ASSUME T # {} PROVE FALSE
  <2>1. SUFFICES \E i \in s : \A j \in s : i >= j  BY DEF Max
  <2> QED  BY <2>1
<1>2. PICK t \in T : \A v \in T : v \subseteq t => v = t
  <2>1. T \subseteq SUBSET s /\ IsFiniteSet(s)  BY DEF Places
  <2> HIDE DEF T
  <2> QED  BY <1>1, <2>1, Smallest
<1>3. PICK i \in t : TRUE  OBVIOUS
<1>4. i \in Int /\ t \subseteq Int  BY DEF Places
<1>5. CASE t \ {i} = {}
  <2>1. \A j \in t : i >= j  BY <1>4, <1>5
  <2> QED  BY <1>3, <2>1
<1>6. CASE t \ {i} # {}
  <2>1. PICK k \in t \ {i} : \A j \in t \ {i} : k >= j
    <3>1. t \ {i} \in SUBSET s /\ t \ {i} \notin T  BY <1>2, <1>3
    <3> QED  BY <1>6, <3>1
  <2>2. \A j \in t : (IF k >= i THEN k ELSE i) >= j  BY <1>4, <2>1
  <2> QED  BY <1>3, <2>1, <2>2
<1> QED  BY <1>5, <1>6

Agree(l, m, u) == \A i \in u : l[i] = m[i]

LEMMA ReadsOnce ==
  ASSUME NEW l, NEW S, Places(S), NEW g, Reads(l, S, g),
         NEW m, NEW R, NEW h, Reads(m, R, h),
         NEW u, u \subseteq S, u \subseteq R, Agree(l, m, u)
  PROVE  g[u] = h[u]
<1> DEFINE T == {t \in SUBSET u : g[t] # h[t]}
<1>1. SUFFICES ASSUME T # {} PROVE FALSE  OBVIOUS
<1>2. IsFiniteSet(u)  BY SomePlaces
<1>3. PICK t \in T : \A v \in T : v \subseteq t => v = t
  <2>1. T \subseteq SUBSET u  OBVIOUS
  <2> HIDE DEF T
  <2> QED  BY <1>1, <1>2, <2>1, Smallest
<1> DEFINE c == Max(t)
<1>4. /\ g[t] = IF t = {} THEN {} ELSE Replay(g[t \ {c}], l[c])
      /\ h[t] = IF t = {} THEN {} ELSE Replay(h[t \ {c}], m[c])
  BY DEF Reads
<1>5. t # {}  BY <1>4
<1>6. c \in t  BY <1>5, SomePlaces, LargestIn
<1> HIDE DEF c
<1>7. t \ {c} \notin T  BY <1>3, <1>6
<1>8. g[t \ {c}] = h[t \ {c}] /\ l[c] = m[c]  BY <1>6, <1>7 DEF Agree
<1> QED  BY <1>4, <1>5, <1>8

LEMMA ReadsExists ==
  ASSUME NEW l, NEW S, Places(S)
  PROVE  \E g : Reads(l, S, g)
<1> DEFINE T == {s \in SUBSET S : ~ \E g : Reads(l, s, g)}
<1>1. SUFFICES ASSUME T # {} PROVE FALSE  OBVIOUS
<1>2. PICK s \in T : \A v \in T : v \subseteq s => v = s
  <2>1. T \subseteq SUBSET S /\ IsFiniteSet(S)  BY DEF Places
  <2> HIDE DEF T
  <2> QED  BY <1>1, <2>1, Smallest
<1> DEFINE A(t) == CHOOSE g : Reads(l, t, g)
           g == [t \in SUBSET s |-> IF t = {} THEN {}
                                    ELSE Replay(A(t \ {Max(t)})[t \ {Max(t)}], l[Max(t)])]
<1>3. ASSUME NEW t \in SUBSET s, t # s
      PROVE  Reads(l, t, A(t)) /\ Places(t)
  <2>1. t \in SUBSET S /\ t \notin T /\ Places(t)  BY <1>2, <1>3, SomePlaces
  <2>2. \E h : Reads(l, t, h)  BY <2>1
  <2> QED  BY <2>1, <2>2
<1>4. ASSUME NEW t \in SUBSET s, t # {} PROVE Max(t) \in t
  BY <1>4, SomePlaces, LargestIn
<1>5. ASSUME NEW t \in SUBSET s, t # s PROVE g[t] = A(t)[t]
  <2>1. A(t)[t] = IF t = {} THEN {} ELSE Replay(A(t)[t \ {Max(t)}], l[Max(t)])
    <3> HIDE DEF A
    <3> QED  BY <1>3, <1>5 DEF Reads
  <2>2. CASE t # {}
    <3> DEFINE v == t \ {Max(t)}
    <3>1. v \in SUBSET s /\ v # s /\ v \subseteq t /\ Agree(l, l, v)  BY <1>5 DEF Agree
    <3>2. Reads(l, t, A(t)) /\ Places(t) /\ Reads(l, v, A(v))
      BY <1>3, <1>5, <3>1
    <3> HIDE DEF A, v
    <3>3. A(t)[v] = A(v)[v]  BY <3>1, <3>2, ReadsOnce
    <3> QED  BY <2>1, <2>2, <3>3 DEF v
  <2> QED  BY <2>1, <2>2
<1>6. ASSUME NEW t \in SUBSET s, t # {} PROVE g[t] = Replay(g[t \ {Max(t)}], l[Max(t)])
  <2>1. t \ {Max(t)} \in SUBSET s /\ t \ {Max(t)} # s  BY <1>4, <1>6
  <2> HIDE DEF A
  <2> QED  BY <1>5, <1>6, <2>1
<1>7. Reads(l, s, g)
  <2>1. g[{}] = {} /\ {} \in SUBSET s  OBVIOUS
  <2>2. g = [t \in SUBSET s |-> g[t]] /\ DOMAIN g = SUBSET s  OBVIOUS
  <2> HIDE DEF g
  <2>3. \A t \in SUBSET s : g[t] = IF t = {} THEN {} ELSE Replay(g[t \ {Max(t)}], l[Max(t)])
    BY <1>6, <2>1
  <2> QED  BY <2>2, <2>3 DEF Reads
<1> QED  BY <1>2, <1>7

LEMMA LastOf ==
  ASSUME NEW n \in Nat
  PROVE  Max(1 .. n + 1) = n + 1
<1> DEFINE S == 1 .. n + 1
           m == Max(S)
<1>1. Places(S) /\ n + 1 \in S /\ \A i \in S : i \in Int /\ i <= n + 1
  BY FS_Interval DEF Places
<1> HIDE DEF S
<1>2. m \in S /\ \A i \in S : m >= i  BY <1>1, LargestIn
<1> HIDE DEF m
<1>3. m \in Int /\ m <= n + 1 /\ m >= n + 1  BY <1>1, <1>2
<1>4. m = n + 1  BY <1>3
<1> QED  BY <1>4 DEF m, S

\* What reading a longer log yields.
LEMMA ReplayedFirst == Replayed(<<>>) = {}
<1>1. DOMAIN <<>> = {}  OBVIOUS
<1> DEFINE g == CHOOSE g : Reads(<<>>, {}, g)
<1>2. Replayed(<<>>) = g[{}]  BY <1>1, ReplayedMeans
<1>3. Reads(<<>>, {}, g)  BY ReadsExists, FS_EmptySet DEF Places
<1> HIDE DEF g
<1> QED  BY <1>2, <1>3 DEF Reads

LEMMA ReplayedNext ==
  ASSUME NEW l \in Seq(Records), NEW e \in Records, NEW m, m = Append(l, e)
  PROVE  Replayed(m) = Replay(Replayed(l), e)
<1> DEFINE n == Len(l)
           S == 1 .. n
           R == 1 .. n + 1
           g == CHOOSE g : Reads(l, S, g)
           h == CHOOSE h : Reads(m, R, h)
<1>1. /\ n \in Nat /\ DOMAIN l = S /\ DOMAIN m = R
      /\ m[n + 1] = e /\ \A i \in S : m[i] = l[i]
  OBVIOUS
<1>2. R # {} /\ R \ {n + 1} = S /\ S \subseteq R
  <2>1. R # {} /\ S \subseteq R /\ n + 1 \notin S  BY <1>1
  <2>2. \A i \in R : i \in S \/ i = n + 1  BY <1>1
  <2> HIDE DEF R, S
  <2>3. n + 1 \in R  BY <1>1, LastOf DEF R
  <2> QED  BY <2>1, <2>2, <2>3
<1>8. Places(S) /\ Places(R)  BY <1>1, FS_Interval DEF Places
<1>3. Max(R) = n + 1  BY <1>1, LastOf
<1>4. Replayed(l) = g[S] /\ Replayed(m) = h[R]  BY <1>1, ReplayedMeans
<1> HIDE DEF n, S, R
<1>5. Reads(l, S, g) /\ Reads(m, R, h)  BY <1>8, ReadsExists
<1> HIDE DEF g, h
<1>6. h[R] = Replay(h[S], m[n + 1])  BY <1>2, <1>3, <1>5 DEF Reads
<1>7. h[S] = g[S]
  <2>1. S \subseteq R /\ Agree(m, l, S)  BY <1>1, <1>2 DEF Agree
  <2> QED  BY <1>5, <1>8, <2>1, ReadsOnce
<1> QED  BY <1>1, <1>4, <1>6, <1>7

-----------------------------------------------------------------------------
(* One writer.  Unless an inner call takes a block of the C library, only  *)
(* the outermost call of a thread has a record to write, at most one.      *)

RecordOf(t, c) == [ev |-> c.op, by |-> t, p |-> c.p, q |-> c.q]

Debt(t, s) == IF s # <<>> /\ s[Len(s)].pc \in Unwritten THEN {RecordOf(t, s[Len(s)])} ELSE {}

Inside(c) == (c.op = "malloc" \/ c.p \in Pool) /\ c.pc \notin Unwritten
Aside(s)  == \A i \in DOMAIN s : i < Len(s) => Inside(s[i])

\* With one thread that has written or will, the log and the record that
\* it owes tell which blocks are in use.  k is stack, l the log, h the heap.
Signed(l, t)     == \E i \in DOMAIN l : l[i].by = t /\ l[i].ev # "init"
Writing(k, l, t) == Debt(t, k[t]) # {} \/ Signed(l, t)
Sole(k, l) == \A t, u \in Threads : Writing(k, l, t) /\ Writing(k, l, u) => t = u
Told(k, l, h) ==
  /\ (\A t \in Threads : Debt(t, k[t]) = {}) => h = Replayed(l)
  /\ \A t \in Threads : \A r \in Debt(t, k[t]) : h = Replay(Replayed(l), r)
Telling(k, l, h) == Sole(k, l) => Told(k, l, h)

Asides   == \A t \in Threads : Aside(stack[t])
Solitary ==
  ~stolen => Asides /\ (switch = "none" /\ StartEnabled => Telling(stack, log, heap))

(* What the changes of a stack do to its thread's debt.                    *)
LEMMA LastCall ==
  ASSUME NEW s \in Seq(Calls), s # <<>>
  PROVE  /\ Len(s) \in Nat \ {0} /\ DOMAIN s = 1 .. Len(s)
         /\ Aside(s) /\ s[1].pc \in Unwritten => Len(s) = 1
<1>1. Len(s) \in Nat \ {0} /\ DOMAIN s = 1 .. Len(s)  BY Lengths
<1>2. 1 \in DOMAIN s /\ (1 < Len(s) \/ Len(s) = 1)  BY <1>1
<1> QED  BY <1>1, <1>2 DEF Aside, Inside

LEMMA DebtPushed ==
  ASSUME NEW r \in Seq(Calls), r # <<>>, NEW s, s = Tail(r), NEW t,
         r[1].pc \notin Unwritten, Aside(s), s = <<>> \/ Inside(r[1])
  PROVE  Debt(t, r) = Debt(t, s) /\ Aside(r)
<1>1. /\ s \in Seq(Calls) /\ Len(r) = Len(s) + 1 /\ DOMAIN r = 1 .. Len(s) + 1
      /\ \A i \in 1 .. Len(s) : r[i + 1] = s[i]
  BY Popped, LastCall
<1>2. Len(s) \in Nat /\ DOMAIN s = 1 .. Len(s) /\ (s = <<>> <=> Len(s) = 0)  BY <1>1, Lengths
<1> DEFINE n == Len(s)
<1> HIDE DEF n
<1>3. Debt(t, r) = Debt(t, s)
  <2>1. CASE s = <<>>  BY <1>1, <1>2, <2>1 DEF Debt
  <2>2. CASE s # <<>>
    <3>1. Len(s) \in 1 .. Len(s)  BY <1>2, <2>2
    <3>2. r[Len(r)] = s[Len(s)]  BY <1>1, <3>1
    <3> QED  BY <1>1, <2>2, <3>2 DEF Debt
  <2> QED  BY <2>1, <2>2
<1>4. ASSUME NEW i \in DOMAIN r, i < Len(r) PROVE Inside(r[i])
  <2>1. CASE i = 1
    <3>1. s # <<>>  BY <1>1, <1>2, <1>4, <2>1
    <3> QED  BY <1>1, <2>1, <3>1
  <2>2. CASE i # 1
    <3>1. i - 1 \in 1 .. Len(s) /\ i - 1 < Len(s) /\ (i - 1) + 1 = i  BY <1>1, <1>2, <1>4, <2>2
    <3>2. r[i] = s[i - 1]  BY <1>1, <3>1
    <3> QED  BY <1>2, <3>1, <3>2 DEF Aside
  <2> QED  BY <2>1, <2>2
<1> QED  BY <1>3, <1>4 DEF Aside

LEMMA DebtPopped ==
  ASSUME NEW s \in Seq(Calls), s # <<>>, NEW r, r = Tail(s), NEW t,
         s[1].pc \notin Unwritten, Aside(s)
  PROVE  Debt(t, r) = Debt(t, s) /\ Aside(r)
<1>1. /\ r \in Seq(Calls) /\ Len(s) = Len(r) + 1 /\ \A i \in 1 .. Len(r) : r[i] = s[i + 1]
  BY Popped
<1>2. Len(r) \in Nat /\ DOMAIN r = 1 .. Len(r) /\ (r = <<>> <=> Len(r) = 0)  BY <1>1, Lengths
<1>3. DOMAIN s = 1 .. Len(s)  BY LastCall
<1>4. Debt(t, r) = Debt(t, s)
  <2>1. CASE r = <<>>
    <3>1. Len(s) = 1  BY <1>1, <1>2, <2>1
    <3> QED  BY <2>1, <3>1 DEF Debt
  <2>2. CASE r # <<>>
    <3>1. Len(r) \in 1 .. Len(r)  BY <1>2, <2>2
    <3>2. r[Len(r)] = s[Len(s)]  BY <1>1, <3>1
    <3> QED  BY <2>2, <3>2 DEF Debt
  <2> QED  BY <2>1, <2>2
<1>5. ASSUME NEW i \in DOMAIN r, i < Len(r) PROVE Inside(r[i])
  <2>1. i + 1 \in DOMAIN s /\ i + 1 < Len(s) /\ r[i] = s[i + 1]
    BY <1>1, <1>2, <1>3, <1>5
  <2> QED  BY <2>1 DEF Aside
<1> QED  BY <1>4, <1>5 DEF Aside

Swapping(t, s, r, c) ==
  /\ Len(s) = 1 \/ Inside(c) => Aside(r)
  /\ Len(s) # 1 => Debt(t, r) = Debt(t, s) /\ Inside(s[1])
  /\ Len(s) = 1 =>
       /\ Debt(t, s) = IF s[1].pc \in Unwritten THEN {RecordOf(t, s[1])} ELSE {}
       /\ Debt(t, r) = IF c.pc \in Unwritten THEN {RecordOf(t, c)} ELSE {}

LEMMA DebtSwapped ==
  ASSUME NEW s \in Seq(Calls), s # <<>>, NEW c \in Calls, NEW r, r = [s EXCEPT ![1] = c],
         NEW t, Aside(s)
  PROVE  Swapping(t, s, r, c)
<1>1. /\ r \in Seq(Calls) /\ r # <<>> /\ Len(r) = Len(s)
      /\ r[1] = c /\ \A i \in 2 .. Len(s) : r[i] = s[i]
  BY Swapped
<1>2. Len(s) \in Nat \ {0} /\ DOMAIN s = 1 .. Len(s) /\ DOMAIN r = 1 .. Len(s)
  BY <1>1, LastCall
<1>3. ASSUME Len(s) = 1 \/ Inside(c) PROVE Aside(r)
  <2>1. ASSUME NEW i \in DOMAIN r, i < Len(r) PROVE Inside(r[i])
    <3>1. CASE i = 1  BY <1>1, <1>2, <1>3, <2>1, <3>1
    <3>2. CASE i # 1
      <4>1. i \in 2 .. Len(s) /\ i \in DOMAIN s /\ i < Len(s)  BY <1>1, <1>2, <2>1, <3>2
      <4> QED  BY <1>1, <4>1 DEF Aside
    <3> QED  BY <3>1, <3>2
  <2> QED  BY <2>1 DEF Aside
<1>4. ASSUME Len(s) # 1 PROVE Debt(t, r) = Debt(t, s) /\ Inside(s[1])
  <2>1. Len(s) \in 2 .. Len(s) /\ 1 \in DOMAIN s /\ 1 < Len(s)  BY <1>2, <1>4
  <2>2. r[Len(r)] = s[Len(s)]  BY <1>1, <2>1
  <2> QED  BY <1>1, <2>1, <2>2 DEF Debt, Aside
<1>5. ASSUME Len(s) = 1
      PROVE  /\ Debt(t, s) = IF s[1].pc \in Unwritten THEN {RecordOf(t, s[1])} ELSE {}
             /\ Debt(t, r) = IF c.pc \in Unwritten THEN {RecordOf(t, c)} ELSE {}
  BY <1>1, <1>5 DEF Debt
<1> QED  BY <1>3, <1>4, <1>5 DEF Swapping

(* The log and the heap after a step that changes k only at t.             *)
LEMMA SignedMore ==
  ASSUME NEW l \in Seq(Records), NEW e \in Records, NEW m, m = Append(l, e), NEW t
  PROVE  Signed(m, t) <=> Signed(l, t) \/ (e.by = t /\ e.ev # "init")
<1> DEFINE n == Len(l)
<1>1. /\ n \in Nat /\ DOMAIN l = 1 .. n /\ DOMAIN m = 1 .. n + 1
      /\ m[n + 1] = e /\ \A i \in 1 .. n : m[i] = l[i]
  OBVIOUS
<1> HIDE DEF n
<1>2. 1 .. n + 1 = (1 .. n) \cup {n + 1}  BY <1>1
<1> QED  BY <1>1, <1>2 DEF Signed

LEMMA TellingSame ==
  ASSUME NEW k, NEW k2, NEW l, NEW l2, NEW h, Telling(k, l, h),
         \A u \in Threads : Debt(u, k2[u]) = Debt(u, k[u]),
         \A u \in Threads : Signed(l2, u) <=> Signed(l, u),
         Replayed(l2) = Replayed(l)
  PROVE  Telling(k2, l2, h)
BY DEF Telling, Sole, Told, Writing

\* An operation that has done e and owes its record.
LEMMA TellingOwes ==
  ASSUME NEW k, NEW k2, NEW l, NEW h, NEW h2, Telling(k, l, h), NEW t \in Threads, NEW e,
         \A u \in Threads \ {t} : Debt(u, k2[u]) = Debt(u, k[u]),
         Debt(t, k[t]) = {}, Debt(t, k2[t]) = {e}, h2 = Replay(h, e)
  PROVE  Telling(k2, l, h2)
<1> SUFFICES ASSUME Sole(k2, l) PROVE Told(k2, l, h2)  BY DEF Telling
<1>1. Writing(k2, l, t) /\ \A u \in Threads : Writing(k, l, u) => Writing(k2, l, u)
  BY DEF Writing
<1>2. Sole(k, l)  BY <1>1 DEF Sole
<1>3. \A u \in Threads \ {t} : ~Writing(k2, l, u)  BY <1>1 DEF Sole
<1>4. \A u \in Threads \ {t} : Debt(u, k2[u]) = {}  BY <1>3 DEF Writing
<1>5. \A u \in Threads : Debt(u, k[u]) = {}  BY <1>4
<1>6. h = Replayed(l)  BY <1>2, <1>5 DEF Telling, Told
<1>7. ASSUME NEW u \in Threads, NEW r \in Debt(u, k2[u]) PROVE h2 = Replay(Replayed(l), r)
  <2>1. u = t /\ r = e  BY <1>4, <1>7
  <2> QED  BY <1>6, <2>1
<1> QED  BY <1>7 DEF Told

\* The record that was owed is written.
LEMMA TellingWrites ==
  ASSUME NEW k, NEW k2, NEW l \in Seq(Records), NEW l2, NEW h, Telling(k, l, h),
         NEW t \in Threads, NEW e \in Records,
         \A u \in Threads \ {t} : Debt(u, k2[u]) = Debt(u, k[u]),
         Debt(t, k[t]) = {e}, Debt(t, k2[t]) = {},
         l2 = Append(l, e), e.by = t, e.ev # "init"
  PROVE  Telling(k2, l2, h)
<1> SUFFICES ASSUME Sole(k2, l2) PROVE Told(k2, l2, h)  BY DEF Telling
<1>1. \A u : Signed(l2, u) <=> Signed(l, u) \/ (e.by = u /\ e.ev # "init")  BY SignedMore
<1>2. Writing(k2, l2, t) /\ \A u \in Threads : Writing(k, l, u) => Writing(k2, l2, u)
  BY <1>1 DEF Writing
<1>3. Sole(k, l)  BY <1>2 DEF Sole
<1>4. h = Replay(Replayed(l), e)  BY <1>3 DEF Telling, Told
<1>5. h = Replayed(l2)  BY <1>4, ReplayedNext
<1>6. \A u \in Threads \ {t} : ~Writing(k2, l2, u)  BY <1>2 DEF Sole
<1>7. \A u \in Threads : Debt(u, k2[u]) = {}  BY <1>6 DEF Writing
<1> QED  BY <1>5, <1>7 DEF Told

(* What the steps do: the stacks keep their shape, and if the log and the  *)
(* debt told which blocks are in use they still do.                        *)
Steady == Asides' /\ \A u \in Threads : Debt(u, stack'[u]) = Debt(u, stack[u])
Keeps  == Asides' /\ (Enabling /\ Telling(stack, log, heap) => Telling(stack', log', heap'))

LEMMA BecomesSteady ==
  ASSUME Stacks, Asides, NEW t \in Threads, NEW r, Becomes(t, r), Aside(r),
         Debt(t, r) = Debt(t, stack[t])
  PROVE  Steady
<1>1. stack'[t] = r /\ \A u \in Threads \ {t} : stack'[u] = stack[u]  BY Becoming
<1>2. ASSUME NEW u \in Threads
      PROVE  Aside(stack'[u]) /\ Debt(u, stack'[u]) = Debt(u, stack[u])
  <2>1. CASE u = t  BY <1>1, <2>1
  <2>2. CASE u # t
    <3>1. stack'[u] = stack[u]  BY <1>1, <2>2
    <3> QED  BY <3>1 DEF Asides
  <2> QED  BY <2>1, <2>2
<1> QED  BY <1>2 DEF Steady, Asides

LEMMA SteadyKeeps ==
  ASSUME Steady, log' = log, heap' = heap
  PROVE  Keeps
BY TellingSame DEF Steady, Keeps

LEMMA PushSteady ==
  ASSUME Typed, Asides, NEW t \in Threads, NEW c, Pushes(t, c), c.pc \notin Unwritten,
         Idle(t) \/ Inside(c)
  PROVE  Steady
<1> DEFINE s == stack[t]
           r == <<c>> \o s
<1>1. Stacks /\ s \in Seq(Calls) /\ c \in Calls /\ Becomes(t, r) /\ Aside(s)
      /\ (s = <<>> \/ Inside(c))
  BY DEF Pushes, Typed, TypeOK, Stacks, Asides, Idle
<1>2. r \in Seq(Calls) /\ r # <<>> /\ r[1] = c /\ Tail(r) = s  BY <1>1, Pushed
<1> HIDE DEF s, r
<1>3. Debt(t, r) = Debt(t, s) /\ Aside(r)  BY <1>1, <1>2, DebtPushed
<1> QED  BY <1>1, <1>3, BecomesSteady DEF s

LEMMA PopSteady ==
  ASSUME Typed, Asides, NEW t \in Threads, Pops(t), Top(t).pc \notin Unwritten
  PROVE  Steady
<1> DEFINE s == stack[t]
           r == Tail(s)
<1>1. Stacks /\ s \in Seq(Calls) /\ s # <<>> /\ Becomes(t, r) /\ s[1] = Top(t) /\ Aside(s)
  BY TopIsOK DEF Pops, Top, Asides
<1> HIDE DEF r
<1>2. r = Tail(s)  BY DEF r
<1> HIDE DEF s
<1>3. Debt(t, r) = Debt(t, s) /\ Aside(r)  BY <1>1, <1>2, DebtPopped
<1> QED  BY <1>1, <1>3, BecomesSteady DEF s

LEMMA SwapSteady ==
  ASSUME Typed, Asides, NEW t \in Threads, NEW c, Swaps(t, c), c.op = Top(t).op, c.p = Top(t).p,
         c.pc \in Unwritten <=> Top(t).pc \in Unwritten, c.pc \in Unwritten => c.q = Top(t).q
  PROVE  Steady
<1> DEFINE s == stack[t]
           r == [s EXCEPT ![1] = c]
<1>1. /\ Stacks /\ s \in Seq(Calls) /\ s # <<>> /\ c \in Calls /\ Becomes(t, r)
      /\ s[1] = Top(t) /\ Aside(s)
  BY TopIsOK DEF Swaps, Top, Asides
<1> HIDE DEF r
<1>2. r = [s EXCEPT ![1] = c]  BY DEF r
<1> HIDE DEF s
<1>3. Swapping(t, s, r, c)  BY <1>1, <1>2, DebtSwapped
<1>4. Inside(s[1]) => Inside(c)  BY <1>1 DEF Inside
<1>5. c.pc \in Unwritten => RecordOf(t, c) = RecordOf(t, s[1])  BY <1>1 DEF RecordOf
<1>6. Debt(t, r) = Debt(t, s) /\ Aside(r)
  BY <1>1, <1>3, <1>4, <1>5 DEF Swapping
<1> QED  BY <1>1, <1>6, BecomesSteady DEF s

LEMMA GotoSteady ==
  ASSUME Typed, Asides, NEW t \in Threads, ~Idle(t), NEW l \in Pcs, Goto(t, l),
         l \in Unwritten <=> Top(t).pc \in Unwritten
  PROVE  Steady
<1> DEFINE c == [Top(t) EXCEPT !.pc = l]
<1>1. Swaps(t, c)  BY TopIsOK, GotoSwaps
<1>2. c.pc = l /\ c.op = Top(t).op /\ c.p = Top(t).p /\ c.q = Top(t).q
  <2>1. Top(t) \in Calls  BY TopIsOK
  <2> QED  BY <2>1, PcField
<1> HIDE DEF c
<1> QED  BY <1>1, <1>2, SwapSteady

\* The outermost call does its operation, writes its record or drops it.
LEMMA OuterSwaps ==
  ASSUME Typed, Asides, NEW t \in Threads, NEW c, Swaps(t, c), Len(stack[t]) = 1
  PROVE  /\ Asides'
         /\ \A u \in Threads \ {t} : Debt(u, stack'[u]) = Debt(u, stack[u])
         /\ Debt(t, stack[t]) = IF Top(t).pc \in Unwritten THEN {RecordOf(t, Top(t))} ELSE {}
         /\ Debt(t, stack'[t]) = IF c.pc \in Unwritten THEN {RecordOf(t, c)} ELSE {}
<1> DEFINE s == stack[t]
           r == [s EXCEPT ![1] = c]
<1>1. /\ Stacks /\ s \in Seq(Calls) /\ s # <<>> /\ c \in Calls /\ Becomes(t, r)
      /\ s[1] = Top(t) /\ Aside(s) /\ Len(s) = 1
  BY TopIsOK DEF Swaps, Top, Asides
<1> HIDE DEF r
<1>2. r = [s EXCEPT ![1] = c]  BY DEF r
<1> HIDE DEF s
<1>3. /\ Aside(r)
      /\ Debt(t, s) = IF s[1].pc \in Unwritten THEN {RecordOf(t, s[1])} ELSE {}
      /\ Debt(t, r) = IF c.pc \in Unwritten THEN {RecordOf(t, c)} ELSE {}
  <2>1. Swapping(t, s, r, c)  BY <1>1, <1>2, DebtSwapped
  <2> QED  BY <1>1, <2>1 DEF Swapping
<1>4. stack'[t] = r /\ \A u \in Threads \ {t} : stack'[u] = stack[u]  BY <1>1, Becoming
<1>5. Asides'
  <2>1. ASSUME NEW u \in Threads PROVE Aside(stack'[u])
    <3>1. CASE u = t  BY <1>3, <1>4, <3>1
    <3>2. CASE u # t
      <4>1. stack'[u] = stack[u]  BY <1>4, <3>2
      <4> QED  BY <4>1 DEF Asides
    <3> QED  BY <3>1, <3>2
  <2> QED  BY <2>1 DEF Asides
<1>6. ASSUME NEW u \in Threads \ {t} PROVE Debt(u, stack'[u]) = Debt(u, stack[u])
  <2>1. stack'[u] = stack[u]  BY <1>4
  <2> QED  BY <2>1
<1> QED  BY <1>1, <1>3, <1>4, <1>5, <1>6 DEF s

LEMMA OperationKeeps ==
  ASSUME Typed, Asides, NEW t \in Threads, NEW c, Swaps(t, c), Len(stack[t]) = 1,
         Top(t).pc \notin Unwritten, c.pc \in Unwritten,
         log' = log, heap' = Replay(heap, RecordOf(t, c))
  PROVE  Keeps
<1>1. /\ Asides'
      /\ \A u \in Threads \ {t} : Debt(u, stack'[u]) = Debt(u, stack[u])
      /\ Debt(t, stack[t]) = {} /\ Debt(t, stack'[t]) = {RecordOf(t, c)}
  BY OuterSwaps
<1>2. ASSUME Telling(stack, log, heap) PROVE Telling(stack', log', heap')
  BY <1>1, <1>2, TellingOwes
<1> QED  BY <1>1, <1>2 DEF Keeps

LEMMA WriteKeeps ==
  ASSUME Typed, Asides, NEW t \in Threads, NEW l \in Pcs, ~Idle(t), Goto(t, l), l \notin Unwritten,
         Top(t).pc \in Unwritten, Write(t), heap' = heap
  PROVE  Keeps
<1> DEFINE c == [Top(t) EXCEPT !.pc = l]
           e == RecordOf(t, Top(t))
<1>1. Swaps(t, c)  BY TopIsOK, GotoSwaps
<1>2. Top(t) \in Calls  BY TopIsOK
<1>3. c.pc = l  BY <1>2, PcField
<1>4. log' = Append(log, e)  BY DEF Write, Record, RecordOf
<1>5. e \in Records /\ e.ev # "init" /\ e.by = t
  BY <1>2 DEF RecordOf, Records, Calls, Ops
<1>6. Len(stack[t]) = 1
  <2>1. stack[t] \in Seq(Calls) /\ stack[t] # <<>> /\ Aside(stack[t]) /\ stack[t][1] = Top(t)
    BY TopIsOK DEF Asides, Top
  <2> QED  BY <2>1, LastCall
<1> HIDE DEF c, e
<1>7. /\ Asides'
      /\ \A u \in Threads \ {t} : Debt(u, stack'[u]) = Debt(u, stack[u])
      /\ Debt(t, stack[t]) = {e} /\ Debt(t, stack'[t]) = {}
  BY <1>1, <1>3, <1>6, OuterSwaps DEF e
<1>8. log \in Seq(Records)  BY DEF Typed, TypeOK
<1>9. ASSUME Telling(stack, log, heap) PROVE Telling(stack', log', heap')
  BY <1>4, <1>5, <1>7, <1>8, <1>9, TellingWrites
<1> QED  BY <1>7, <1>9 DEF Keeps

LEMMA CallerKeeps ==
  ASSUME Typed, Asides, NEW t \in Threads, Caller(t), ~stolen'
  PROVE  Keeps
<1>1. ASSUME NEW op \in Ops, NEW p \in Addresses, Start(t, op, p),
             Idle(t) \/ op = "malloc" \/ p \in Pool
      PROVE  Keeps
  <2> DEFINE l == IF op = "realloc" /\ lmm_valid(p) THEN "lmm_realloc" ELSE "enter"
             c == Call(op, p, l)
             s == stack[t]
  <2>1. l \in Pcs /\ l \notin Unwritten  BY DEF Pcs, Unwritten
  <2>2. stack' = [stack EXCEPT ![t] = <<c>> \o s]  BY <1>1 DEF Start, Push
  <2> HIDE DEF l
  <2>3. c \in Calls /\ c.pc = l /\ c.op = op /\ c.p = p  BY <2>1, NewCall
  <2> HIDE DEF c
  <2>4. s \in Seq(Calls)  BY DEF Typed, TypeOK
  <2>5. Pushes(t, c)  BY <2>2, <2>3, <2>4, Pushed DEF Becomes, Pushes
  <2>6. Idle(t) \/ Inside(c)  BY <1>1, <2>1, <2>3 DEF Inside
  <2>7. log' = log /\ heap' = heap  BY <1>1 DEF Start, heaps
  <2> QED  BY <2>1, <2>3, <2>5, <2>6, <2>7, PushSteady, SteadyKeeps
<1>2. CASE CallMalloc(t)  BY <1>1, <1>2 DEF CallMalloc, Ops, Addresses
<1>3. ASSUME NEW op \in {"free", "realloc"}, NEW p \in owned, CallOn(t, op, p) PROVE Keeps
  <2>1. op \in Ops /\ p \in Addresses  BY DEF Ops, Typed, TypeOK, Addresses
  <2>2. Idle(t) \/ p \in Pool  BY <1>3 DEF CallOn, lmm_valid
  <2> QED  BY <1>1, <1>3, <2>1, <2>2 DEF CallOn
<1>4. CASE memtraq_tag(t)
  BY <1>1, <1>4 DEF memtraq_tag, FromApplication, Ops, Addresses
<1>5. ASSUME NEW on \in BOOLEAN, SetEnabled(t, on) PROVE Keeps
  <2>1. stack' = stack /\ log' = log /\ heap' = heap  BY <1>5 DEF SetEnabled, heaps
  <2>2. Steady  BY <2>1 DEF Steady, Asides
  <2> QED  BY <2>1, <2>2, SteadyKeeps
<1> QED  BY <1>2, <1>3, <1>4, <1>5 DEF Caller

LEMMA BootKeeps ==
  ASSUME Typed, Asides, StdioQuiet, NEW t \in Threads,
         \/ Enter(t) \/ InitKey(t) \/ InitFopen(t) \/ InitReady(t) \/ InitLock(t) \/ InitWrite(t)
  PROVE  Keeps
<1>1. /\ InitPcs \cup {"enter", "body"} \subseteq Pcs
      /\ (InitPcs \cup {"enter", "body"}) \cap Unwritten = {}
      /\ {"key", "fopen", "ready", "initlock", "initwrite"} = InitPcs
  BY DEF Pcs, InitPcs, Unwritten, Entered
<1>2. ~Idle(t) /\ Top(t).pc \in InitPcs \cup {"enter", "body"}
  BY DEF Enter, InitKey, InitFopen, InitReady, InitLock, InitWrite, At, InitPcs
<1>3. heap' = heap
  BY DEF Enter, InitKey, InitFopen, InitReady, InitLock, InitWrite, heaps
<1>4. ASSUME NEW l \in InitPcs \cup {"enter"}, Goto(t, l) PROVE Steady
  <2>1. l \in Pcs /\ l \notin Unwritten /\ Top(t).pc \notin Unwritten  BY <1>1, <1>2
  <2> QED  BY <1>2, <1>4, <2>1, GotoSteady
<1>5. ASSUME NEW name, NEW l \in InitPcs, Library(t, name, l) PROVE Steady
  <2> DEFINE c == [Top(t) EXCEPT !.pc = l]
  <2>1. l \in Pcs /\ l \notin Unwritten /\ Top(t).pc \notin Unwritten  BY <1>1, <1>2
  <2>2. name \notin StdioMallocs  BY DEF StdioQuiet
  <2>3. Swaps(t, c) /\ Top(t) \in Calls  BY <1>2, <1>5, <2>1, <2>2, TopIsOK, LibraryBecomes
  <2>4. c.pc = l /\ c.op = Top(t).op /\ c.p = Top(t).p  BY <2>1, <2>3, PcField
  <2> HIDE DEF c
  <2> QED  BY <2>1, <2>3, <2>4, SwapSteady
<1>6. CASE Enter(t)
  <2>1. log' = log  BY <1>6 DEF Enter
  <2>2. CASE ~initialized
    <3>1. Goto(t, "key")  BY <1>6, <2>2 DEF Enter
    <3> QED  BY <1>1, <1>3, <1>4, <2>1, <3>1, SteadyKeeps
  <2>3. CASE initialized
    <3> DEFINE c == [Top(t) EXCEPT !.pc = "body", !.level = level[t] + 1]
    <3>1. stack' = [stack EXCEPT ![t][1].pc = "body", ![t][1].level = level[t] + 1]
      BY <1>6, <2>3 DEF Enter
    <3>2. level[t] + 1 \in Nat  BY DEF Typed, TypeOK
    <3>3. Top(t) \in Calls  BY <1>2, TopIsOK
    <3>4. c \in Calls /\ c.pc = "body" /\ c.op = Top(t).op /\ c.p = Top(t).p
      BY <3>2, <3>3 DEF Calls, Entered
    <3>5. stack' = [stack EXCEPT ![t] = [stack[t] EXCEPT ![1] = c]]
      BY <1>2, <3>1, TopIsOK, Popped DEF Top, Stacks
    <3>6. Swaps(t, c)
      BY <1>2, <3>4, <3>5, TopIsOK, Swapped DEF Swaps, Becomes
    <3> HIDE DEF c
    <3>7. Steady  BY <1>1, <1>2, <3>4, <3>6, SwapSteady
    <3> QED  BY <1>3, <2>1, <3>7, SteadyKeeps
  <2> QED  BY <2>2, <2>3
<1>7. CASE InitKey(t)  BY <1>1, <1>3, <1>4, <1>7, SteadyKeeps DEF InitKey
<1>8. CASE InitFopen(t)  BY <1>1, <1>3, <1>5, <1>8, SteadyKeeps DEF InitFopen
<1>9. CASE InitReady(t)  BY <1>1, <1>3, <1>4, <1>9, SteadyKeeps DEF InitReady
<1>10. CASE InitLock(t)  BY <1>1, <1>3, <1>5, <1>10, SteadyKeeps DEF InitLock
<1>11. CASE InitWrite(t)
  <2> DEFINE e == InitRecord(t)
  <2>1. Goto(t, "enter") /\ log' = Append(log, e)  BY <1>11 DEF InitWrite
  <2>2. e \in Records /\ e.ev = "init"  BY DEF InitRecord, Records, Addresses
  <2> HIDE DEF e
  <2>3. Steady  BY <1>4, <2>1
  <2>4. log \in Seq(Records)  BY DEF Typed, TypeOK
  <2>5. \A u \in Threads : Signed(log', u) <=> Signed(log, u)
    BY <2>1, <2>2, <2>4, SignedMore
  <2>6. Replayed(log') = Replayed(log)
    <3>1. Replayed(log') = Replay(Replayed(log), e)  BY <2>1, <2>2, <2>4, ReplayedNext
    <3> QED  BY <2>2, <3>1 DEF Replay, Moved
  <2> QED  BY <1>3, <2>3, <2>5, <2>6, TellingSame DEF Steady, Keeps
<1> QED  BY <1>6, <1>7, <1>8, <1>9, <1>10, <1>11

LEMMA OperationsKeep ==
  ASSUME Typed, Nesting, Asides, NEW t \in Threads,
         Malloc(t) \/ Free(t) \/ Realloc(t) \/ LmmRealloc(t) \/ Tag(t)
  PROVE  Keeps
<1> DEFINE p == Top(t).p
           s == stack[t]
<1>1. log' = log  BY DEF Malloc, Free, Realloc, LmmRealloc, Tag
<1>2. /\ {"check", "leave", "body"} \subseteq Pcs
      /\ "check" \in Unwritten /\ {"leave", "body", "lmm_realloc"} \cap Unwritten = {}
  BY DEF Pcs, Entered, Unwritten
<1>3. heap \subseteq Heap /\ pool \subseteq Pool  BY DEF Typed, TypeOK
<1>4. ASSUME At(t, "body")
      PROVE  /\ ~Idle(t) /\ Top(t).pc = "body" /\ Top(t) \in Calls /\ CallOK(Top(t))
             /\ Top(t).level = Len(s) /\ Len(s) \in Nat \ {0}
             /\ Len(s) = 1 \/ Top(t).op = "malloc" \/ p \in Pool
  <2>1. ~Idle(t) /\ Top(t).pc = "body"  BY <1>4 DEF At
  <2>2. /\ s \in Seq(Calls) /\ s # <<>> /\ s[1] = Top(t) /\ Aside(s) /\ StackOK(s, level[t])
        /\ Top(t) \in Calls /\ CallOK(Top(t))
    BY <2>1, TopIsOK DEF Asides, Nesting, Top
  <2> HIDE DEF s
  <2>3. Top(t).level = Len(s)  BY <2>1, <2>2, TopLevel DEF Entered
  <2>4. Len(s) \in Nat \ {0} /\ DOMAIN s = 1 .. Len(s)  BY <2>2, LastCall
  <2>5. Len(s) = 1 \/ Inside(s[1])
    <3>1. 1 \in DOMAIN s /\ (Len(s) = 1 \/ 1 < Len(s))  BY <2>4
    <3> QED  BY <2>2, <3>1 DEF Aside
  <2> QED  BY <2>1, <2>2, <2>3, <2>4, <2>5 DEF Inside
<1>5. ASSUME NEW q \in Addresses, NEW l \in {"check", "leave"}, Result(t, q, l), At(t, "body")
      PROVE  \E c : Swaps(t, c) /\ c.pc = l /\ c.op = Top(t).op /\ c.p = p /\ c.q = q
  <2> DEFINE c == [Top(t) EXCEPT !.q = q, !.pc = l]
  <2>1. ~Idle(t) /\ Top(t) \in Calls /\ Stacks  BY <1>4, <1>5, TopIsOK
  <2>2. l \in Pcs  BY <1>2
  <2>3. Swaps(t, c)  BY <1>5, <2>1, <2>2, ResultSwaps, Zenon
  <2>4. c.pc = l /\ c.op = Top(t).op /\ c.p = p /\ c.q = q  BY <2>1, <2>2 DEF Calls, Pcs
  <2> HIDE DEF c
  <2> QED  BY <2>3, <2>4
<1>6. CASE Malloc(t)
  <2>1. At(t, "body") /\ Top(t).op = "malloc"  BY <1>6 DEF Malloc
  <2>2. PICK q \in Addresses, l \in {"check", "leave"} :
          /\ Result(t, q, l)
          /\ \/ l = "leave" /\ heap' = heap
             \/ /\ l = "check" /\ ~Nested(t) /\ q \in (Heap \ heap) \cup {NULL}
                /\ heap' = (heap \cup {q}) \ {NULL}
    BY <1>6 DEF Malloc, Addresses
  <2>3. PICK c : Swaps(t, c) /\ c.pc = l /\ c.op = "malloc" /\ c.p = p /\ c.q = q
    BY <1>5, <2>1, <2>2
  <2>4. CASE l = "leave"
    <3>1. heap' = heap  BY <2>2, <2>4
    <3>2. Steady  BY <1>2, <1>4, <2>1, <2>3, <2>4, SwapSteady
    <3> QED  BY <1>1, <3>1, <3>2, SteadyKeeps
  <2>5. CASE l = "check"
    <3>1. Len(s) = 1
      <4>1. ~Nested(t) /\ ~Idle(t)  BY <1>4, <2>1, <2>2, <2>5
      <4>2. Top(t).level = Len(s) /\ Len(s) \in Nat /\ Len(s) # 0  BY <1>4, <2>1
      <4>3. ~(Len(s) > 1)
        <5> HIDE DEF s
        <5> QED  BY <4>1, <4>2, Zenon DEF Nested
      <4> DEFINE n == Len(s)
      <4>4. n \in Nat /\ n # 0 /\ ~(n > 1)  BY <4>2, <4>3
      <4> HIDE DEF n
      <4>5. n = 1  BY <4>4
      <4> QED  BY <4>5 DEF n
    <3>2. heap' = heap \cup ({q} \ {NULL})  BY <1>3, <2>2, <2>5, AddressAssumption
    <3>3. heap' = Replay(heap, RecordOf(t, c))  BY <2>3, <3>2 DEF Replay, Moved, RecordOf
    <3>4. Top(t).pc \notin Unwritten /\ c.pc \in Unwritten  BY <1>2, <1>4, <2>1, <2>3, <2>5
    <3> QED  BY <1>1, <2>3, <3>1, <3>3, <3>4, OperationKeeps
  <2> QED  BY <2>4, <2>5
<1>7. CASE Free(t)
  <2>1. At(t, "body") /\ Top(t).op = "free" /\ heap' = heap \ {p}  BY <1>7 DEF Free
  <2>2. CASE p \in Pool
    <3>1. Goto(t, "leave")  BY <1>7, <2>2 DEF Free, lmm_valid
    <3>2. heap' = heap  BY <1>3, <2>1, <2>2, AddressAssumption
    <3> QED  BY <1>1, <1>2, <1>4, <2>1, <3>1, <3>2, GotoSteady, SteadyKeeps
  <2>3. CASE p \notin Pool
    <3> DEFINE c == [Top(t) EXCEPT !.pc = "check"]
    <3>1. Goto(t, "check")  BY <1>7, <2>3 DEF Free, lmm_valid
    <3>2. Swaps(t, c)  BY <1>2, <1>4, <2>1, <3>1, TopIsOK, GotoSwaps
    <3>3. c.pc = "check" /\ c.op = "free" /\ c.p = p
      BY <1>2, <1>4, <2>1, PcField
    <3> HIDE DEF c
    <3>4. Len(s) = 1  BY <1>4, <2>1, <2>3
    <3>5. heap' = Replay(heap, RecordOf(t, c))  BY <2>1, <3>3 DEF Replay, Moved, RecordOf
    <3>6. Top(t).pc \notin Unwritten /\ c.pc \in Unwritten  BY <1>2, <1>4, <2>1, <3>3
    <3> QED  BY <1>1, <3>2, <3>4, <3>5, <3>6, OperationKeeps
  <2> QED  BY <2>2, <2>3
<1>8. CASE Realloc(t)
  <2>1. At(t, "body") /\ Top(t).op = "realloc"  BY <1>8 DEF Realloc
  <2>2. p \in Heap /\ p \notin Pool  BY <1>4, <2>1 DEF CallOK, Calls, Addresses
  <2>3. PICK q \in (Heap \ heap) \cup {NULL, p} :
          /\ heap' = IF q = NULL THEN heap ELSE (heap \ {p}) \cup {q}
          /\ Result(t, q, "check")
    BY <1>8 DEF Realloc
  <2>4. q \in Addresses  BY <2>2, <2>3 DEF Addresses
  <2>5. PICK c : Swaps(t, c) /\ c.pc = "check" /\ c.op = "realloc" /\ c.p = p /\ c.q = q
    BY <1>5, <2>1, <2>3, <2>4
  <2>6. Len(s) = 1  BY <1>4, <2>1, <2>2
  <2>7. heap' = Replay(heap, RecordOf(t, c))  BY <2>3, <2>5 DEF Replay, Moved, RecordOf
  <2>8. Top(t).pc \notin Unwritten /\ c.pc \in Unwritten  BY <1>2, <1>4, <2>1, <2>5
  <2> QED  BY <1>1, <2>5, <2>6, <2>7, <2>8, OperationKeeps
<1>9. CASE LmmRealloc(t)
  <2>1. ~Idle(t) /\ Top(t).pc = "lmm_realloc" /\ heap' = heap  BY <1>9 DEF LmmRealloc, At
  <2>2. Pops(t)
    BY <1>9, <2>1, TopIsOK, Popped DEF LmmRealloc, Pops, Becomes, Stacks
  <2> QED  BY <1>1, <1>2, <2>1, <2>2, PopSteady, SteadyKeeps
<1>10. CASE Tag(t)
  <2> DEFINE c == [Top(t) EXCEPT !.pc = "check"]
  <2>1. At(t, "body") /\ Top(t).op = "tag" /\ heap' = heap /\ Goto(t, "check")
    BY <1>10 DEF Tag, heaps
  <2>2. Swaps(t, c)  BY <1>2, <1>4, <2>1, TopIsOK, GotoSwaps
  <2>3. c.pc = "check" /\ c.op = "tag"  BY <1>2, <1>4, <2>1, PcField
  <2> HIDE DEF c
  <2>4. Len(s) = 1
    <3>1. p = NULL  BY <1>4, <2>1 DEF CallOK
    <3> QED  BY <1>4, <2>1, <3>1, AddressAssumption
  <2>5. heap' = Replay(heap, RecordOf(t, c))  BY <2>1, <2>3 DEF Replay, Moved, RecordOf
  <2>6. Top(t).pc \notin Unwritten /\ c.pc \in Unwritten  BY <1>2, <1>4, <2>1, <2>3
  <2> QED  BY <1>1, <2>2, <2>4, <2>5, <2>6, OperationKeeps
<1> QED  BY <1>6, <1>7, <1>8, <1>9, <1>10

LEMMA LoggingKeeps ==
  ASSUME Levels, Asides, NEW t \in Threads, Check(t) \/ Backtrace(t) \/ LogWrite(t) \/ Leave(t)
  PROVE  Keeps
<1> USE DEF Levels
<1>1. /\ {"leave", "backtrace", "write"} \subseteq Pcs
      /\ Unwritten = {"check", "backtrace", "write"} /\ "leave" \notin Unwritten
      /\ {"leave", "backtrace", "write", "check"} \cap (Before \cup After) = {}
  BY DEF Pcs, Entered, Unwritten, Before, After
<1>2. /\ ~Idle(t) /\ Top(t).pc \in {"check", "backtrace", "write", "leave"}
      /\ heap' = heap
  BY DEF Check, Backtrace, LogWrite, Leave, At, heaps
<1>3. log # <<>>  BY <1>1, <1>2, Warm
<1>4. ASSUME Write(t), Goto(t, "leave"), Top(t).pc \in Unwritten PROVE Keeps
  BY <1>1, <1>2, <1>4, WriteKeeps
<1>5. ASSUME log' = log, NEW l \in {"backtrace", "write"}, Goto(t, l), Top(t).pc \in Unwritten
      PROVE  Keeps
  BY <1>1, <1>2, <1>5, GotoSteady, SteadyKeeps
<1>6. ASSUME ~enabled, Goto(t, "leave"), Top(t).pc \in Unwritten PROVE Keeps
  <2> DEFINE c == [Top(t) EXCEPT !.pc = "leave"]
  <2>1. Swaps(t, c)  BY <1>1, <1>2, <1>6, TopIsOK, GotoSwaps
  <2>2. Len(stack[t]) = 1
    <3>1. /\ stack[t] \in Seq(Calls) /\ stack[t] # <<>> /\ Aside(stack[t])
          /\ stack[t][1] = Top(t)
      BY <1>2, TopIsOK DEF Asides, Top
    <3> QED  BY <1>6, <3>1, LastCall
  <2> HIDE DEF c
  <2>3. Asides'  BY <2>1, <2>2, OuterSwaps
  <2>4. ~Enabling  BY <1>3, <1>6 DEF Enabling
  <2> QED  BY <2>3, <2>4 DEF Keeps
<1>7. CASE Check(t)
  <2>1. Top(t).pc \in Unwritten  BY <1>1, <1>7 DEF Check, At
  <2>2. \/ Goto(t, "backtrace") /\ log' = log
        \/ Goto(t, "leave") /\ Write(t)
        \/ Goto(t, "leave") /\ ~enabled
    BY <1>7 DEF Check
  <2> QED  BY <1>4, <1>5, <1>6, <2>1, <2>2
<1>8. CASE Backtrace(t)
  <2>1. Top(t).pc \in Unwritten  BY <1>1, <1>8 DEF Backtrace, At
  <2> QED  BY <1>5, <1>8, <2>1 DEF Backtrace
<1>9. CASE LogWrite(t)
  <2>1. Top(t).pc \in Unwritten  BY <1>1, <1>9 DEF LogWrite, At
  <2> QED  BY <1>4, <1>9, <2>1 DEF LogWrite
<1>10. CASE Leave(t)
  <2>1. Top(t).pc = "leave" /\ log' = log  BY <1>10 DEF Leave, At
  <2>2. Pops(t)
    BY <1>2, <1>10, TopIsOK, Popped DEF Leave, Pops, Becomes, Stacks
  <2> QED  BY <1>1, <1>2, <2>1, <2>2, PopSteady, SteadyKeeps
<1> QED  BY <1>7, <1>8, <1>9, <1>10

LEMMA StepSolitary ==
  ASSUME StdioQuiet
  PROVE  Levels /\ Following /\ Solitary /\ [Next]_vars => Solitary'
<1> SUFFICES ASSUME Levels, Following, Solitary, [Next]_vars, ~stolen'
             PROVE  /\ Asides'
                    /\ switch' = "none" /\ StartEnabled => Telling(stack', log', heap')
  BY DEF Solitary
<1>1. CASE UNCHANGED vars
  <2>1. /\ stack' = stack /\ log' = log /\ heap' = heap /\ switch' = switch
        /\ stolen' = stolen
    BY <1>1 DEF vars, heaps, bounds
  <2> QED  BY <2>1 DEF Solitary, Asides
<1>2. ASSUME NEW t \in Threads, Caller(t) \/ Step(t)
      PROVE  /\ Asides'
             /\ switch' = "none" /\ StartEnabled => Telling(stack', log', heap')
  <2>1. ~stolen /\ (switch' = "none" => switch = "none")
    <3>1. CASE Step(t)
      BY <3>1 DEF Step, Enter, InitKey, InitFopen, InitReady, InitLock, InitWrite, Malloc, Free,
        Realloc, LmmRealloc, Tag, Check, Backtrace, LogWrite, Leave, bounds
    <3>2. CASE Caller(t)
      <4>1. switch' = "none" => switch = "none"
        BY <3>2 DEF Caller, CallMalloc, CallOn, memtraq_tag, SetEnabled, Start
      <4>2. ASSUME NEW op \in {"free", "realloc"}, NEW p \in owned, CallOn(t, op, p)
            PROVE  ~stolen
        <5>1. stolen' = (stolen \/ (~Idle(t) /\ ~lmm_valid(p)))  BY <4>2 DEF CallOn
        <5> QED  BY <5>1
      <4>3. CallMalloc(t) \/ memtraq_tag(t) \/ (\E on \in BOOLEAN : SetEnabled(t, on)) => ~stolen
        BY DEF CallMalloc, memtraq_tag, SetEnabled
      <4> QED  BY <3>2, <4>1, <4>2, <4>3 DEF Caller
    <3> QED  BY <1>2, <3>1, <3>2
  <2>2. Asides /\ Typed /\ Nesting  BY <2>1 DEF Solitary, Levels
  <2>3. Keeps
    BY <1>2, <2>2, CallerKeeps, BootKeeps, OperationsKeep, LoggingKeeps DEF Step
  <2>4. switch' = "none" /\ StartEnabled => Enabling /\ Telling(stack, log, heap)
    BY <2>1 DEF Solitary, Following
  <2> QED  BY <2>3, <2>4 DEF Keeps
<1> QED  BY <1>1, <1>2 DEF Next, Finished

LEMMA InitSolitary == Init => Solitary
<1> SUFFICES ASSUME Init PROVE Asides /\ Telling(stack, log, heap)  BY DEF Solitary
<1>1. log = <<>> /\ heap = {} /\ \A t \in Threads : stack[t] = <<>>  BY DEF Init
<1>2. DOMAIN <<>> = {}  OBVIOUS
<1>3. Asides  BY <1>1, <1>2 DEF Asides, Aside
<1>4. \A t \in Threads : Debt(t, stack[t]) = {}  BY <1>1 DEF Debt
<1>5. heap = Replayed(log)  BY <1>1, ReplayedFirst
<1> QED  BY <1>3, <1>4, <1>5 DEF Telling, Told

LEMMA SolitaryReplays == Solitary => ReplayAlone
<1> SUFFICES ASSUME Solitary, SingleWriter, Quiet, switch = "none", StartEnabled
             PROVE  Replayed(log) = heap
  BY DEF ReplayAlone, ReplayExact, Replayed
<1>1. Telling(stack, log, heap)  BY DEF Solitary, SingleWriter
<1>2. \A t \in Threads : Debt(t, stack[t]) = {}  BY DEF Quiet, Idle, Debt
<1>3. ASSUME NEW t \in Threads, NEW u \in Threads, Signed(log, t), Signed(log, u) PROVE t = u
  BY <1>3 DEF Signed, SingleWriter
<1>4. Sole(stack, log)  BY <1>2, <1>3 DEF Sole, Writing
<1> QED  BY <1>1, <1>2, <1>4 DEF Telling, Told

(* A reader who replays the log in order knows the blocks in use, if one   *)
(* thread wrote all of it and no inner call took a block of the C library. *)
THEOREM ReplayedAlone ==
  ASSUME OneCold, StdioQuiet
  PROVE  Spec => []ReplayAlone
<1>1. Following /\ Levels /\ Owners /\ [Next]_vars => (Following /\ Owners)'
  BY StepFollowing, StepOwners DEF Levels
<1>2. Solitary /\ Levels /\ Following /\ [Next]_vars => Solitary'  BY StepSolitary
<1>3. Init => Following /\ Owners /\ Solitary  BY InitFollowing, InitOwners, InitSolitary
<1>4. Solitary => ReplayAlone  BY SolitaryReplays
<1> QED  BY <1>1, <1>2, <1>3, <1>4, LevelsHold, PTL DEF Spec
=============================================================================
