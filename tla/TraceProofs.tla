---------------------------- MODULE TraceProofs -----------------------------
(***************************************************************************)
(* Proofs about module Trace, for every number of threads, every calls put *)
(* together from traces, locks and enter, and every environment.           *)
(***************************************************************************)
EXTENDS Trace, SequenceTheorems, TLAPS

Dos   == {"trace", "enter", "lock", "unlock", "trace_init", "initialized"}
Steps == [do : Dos, level : 0 .. 4, class : Classes]

Pcs == {"step", "start", "header", "put header", "body", "put body", "newline", "end"}
Printing == Pcs \ {"step", "start"}

-----------------------------------------------------------------------------
(* The invariants, in parts.                                               *)

\* A thread in the middle of a trace is at a step that traces.
Placed(s, a, l) ==
  /\ a \in 1 .. Len(s) + 1
  /\ l # "step" => a \in 1 .. Len(s) /\ s[a].do = "trace"

Typed ==
  /\ environment \in [Classes -> Int \cup {Unset}]
  /\ levels \in [Classes -> Int] /\ initialized \in BOOLEAN
  /\ trace_lock \in [owner : Threads \cup {Nobody}, depth : Nat]
  /\ lock \in Threads \cup {Nobody}
  /\ script \in [Threads -> Seq(Steps)] /\ at \in [Threads -> Nat]
  /\ pc \in [Threads -> Pcs] /\ class \in [Threads -> 1 .. 4]
  /\ \A t \in Threads : Placed(script[t], at[t], pc[t])

\* The lock is taken once, by the thread that prints.
Alone ==
  /\ trace_lock.depth = 0 <=> trace_lock.owner = Nobody
  /\ \A t \in Threads :
       /\ trace_lock.owner = t => pc[t] \in Printing
       /\ pc[t] \in Printing => trace_lock.owner = t /\ trace_lock.depth = 1

\* What is on stderr and in the buffer, from where that thread is.
Shown ==
  /\ trace_lock.owner = Nobody => stderr = <<>>
  /\ \A t \in Threads :
       /\ pc[t] \in {"header", "put header", "end"} => stderr = <<>>
       /\ pc[t] \in {"body", "put body"} => stderr = <<Text(t, "header")>>
       /\ pc[t] = "newline" => stderr = Paragraph(t)
       /\ pc[t] = "put header" => trace_buf = Text(t, "header")
       /\ pc[t] = "put body" => trace_buf = Text(t, "body")

Lines == Typed /\ Alone /\ Shown

-----------------------------------------------------------------------------
(* Scripts.                                                                *)

LEMMA FourClasses ==
  /\ Classes = {"HOOKS", "LMM", "MEMTRAQ", "MISC"}
  /\ Len(trace_classes) = 4
  /\ \A i \in 1 .. 4 : trace_classes[i] \in Classes
  /\ \A c \in Classes : \E i \in 1 .. 4 : trace_classes[i] = c
<1>1. Len(trace_classes) = 4 /\ DOMAIN trace_classes = 1 .. 4  BY DEF trace_classes
<1>2. /\ trace_classes[1] = "HOOKS" /\ trace_classes[2] = "LMM"
      /\ trace_classes[3] = "MEMTRAQ" /\ trace_classes[4] = "MISC"
  BY DEF trace_classes
<1>3. Classes = {trace_classes[i] : i \in 1 .. 4}  BY <1>1 DEF Classes
<1> HIDE DEF trace_classes
<1>4. 1 .. 4 = {1, 2, 3, 4}  OBVIOUS
<1>5. Classes = {"HOOKS", "LMM", "MEMTRAQ", "MISC"}  BY <1>2, <1>3, <1>4
<1> QED  BY <1>1, <1>3, <1>5

LEMMA InitScript ==
  /\ do_init \in Seq(Steps) /\ Len(do_init) = 3
  /\ do_init[1].do = "trace_init"
  /\ do_init[2].do = "trace" /\ do_init[2].level = 3
  /\ do_init[3].do = "initialized"
<1>1. TRACE(3, "MEMTRAQ") \in Steps /\ Do("trace_init") \in Steps /\ Do("initialized") \in Steps
  BY FourClasses DEF TRACE, Do, Steps, Dos
<1> QED  BY <1>1 DEF do_init, TRACE, Do

LEMMA CallScript ==
  ASSUME NEW c \in Calls
  PROVE  /\ c \in Seq(Steps)
         /\ \A i \in DOMAIN c : c[i].do \in {"trace", "enter", "lock", "unlock"}
                                /\ (c[i].do = "trace" => c[i].level > 0)
<1> DEFINE S == [do : {"trace", "enter", "lock", "unlock"}, level : 0 .. 4, class : Classes]
<1>1. c \in Seq(S) /\ \A i \in DOMAIN c : c[i].do = "trace" => c[i].level > 0
  BY CallsAssumption
<1>2. S \subseteq Steps  BY DEF Steps, Dos
<1>3. c \in Seq(Steps)  BY <1>1, <1>2, SeqMonotonic
<1>4. \A i \in DOMAIN c : c[i] \in S  BY <1>1, LenProperties
<1> QED  BY <1>1, <1>3, <1>4

(* do_init takes the place of step a.                                      *)
Splice(s, a) == SubSeq(s, 1, a - 1) \o do_init \o SubSeq(s, a + 1, Len(s))

LEMMA Spliced ==
  ASSUME NEW s \in Seq(Steps), NEW a \in 1 .. Len(s)
  PROVE  LET r == Splice(s, a)
         IN /\ r \in Seq(Steps) /\ Len(r) = Len(s) + 2 /\ Len(s) \in Nat
            /\ \A i \in 1 .. a - 1 : r[i] = s[i]
            /\ r[a] = do_init[1] /\ r[a + 1] = do_init[2] /\ r[a + 2] = do_init[3]
            /\ \A i \in a + 3 .. Len(s) + 2 : r[i] = s[i - 2]
<1> DEFINE x == SubSeq(s, 1, a - 1)
           y == do_init
           z == SubSeq(s, a + 1, Len(s))
           w == x \o y
<1>1. Len(s) \in Nat /\ \A i \in 1 .. Len(s) : s[i] \in Steps  BY LenProperties
<1>2. /\ x \in Seq(Steps) /\ Len(x) = a - 1
      /\ \A i \in 1 .. a - 1 : x[i] = s[i]
  <2>1. \A i \in 1 .. a - 1 : s[i] \in Steps  BY <1>1
  <2>2. /\ x \in Seq(Steps) /\ Len(x) = IF 1 <= a - 1 THEN (a - 1) - 1 + 1 ELSE 0
        /\ \A i \in 1 .. (a - 1) - 1 + 1 : x[i] = s[1 + i - 1]
    BY <1>1, <2>1, SubSeqProperties
  <2> HIDE DEF x
  <2> QED  BY <1>1, <2>2
<1>3. /\ z \in Seq(Steps) /\ Len(z) = Len(s) - a
      /\ \A i \in 1 .. Len(s) - a : z[i] = s[a + i]
  <2>1. \A i \in a + 1 .. Len(s) : s[i] \in Steps  BY <1>1
  <2>2. /\ z \in Seq(Steps) /\ Len(z) = IF a + 1 <= Len(s) THEN Len(s) - (a + 1) + 1 ELSE 0
        /\ \A i \in 1 .. Len(s) - (a + 1) + 1 : z[i] = s[(a + 1) + i - 1]
    BY <1>1, <2>1, SubSeqProperties
  <2> HIDE DEF z
  <2> QED  BY <1>1, <2>2
<1>4. y \in Seq(Steps) /\ Len(y) = 3  BY InitScript
<1> HIDE DEF x, y, z
<1>5. /\ w \in Seq(Steps) /\ Len(w) = a + 2
      /\ \A i \in 1 .. a + 2 : w[i] = IF i <= a - 1 THEN x[i] ELSE y[i - (a - 1)]
  <2>1. /\ w \in Seq(Steps) /\ Len(w) = Len(x) + Len(y)
        /\ \A i \in 1 .. Len(x) + Len(y) : w[i] = IF i <= Len(x) THEN x[i] ELSE y[i - Len(x)]
    BY <1>2, <1>4, ConcatProperties
  <2>2. Len(x) + Len(y) = a + 2  BY <1>1, <1>2, <1>4
  <2> HIDE DEF w
  <2> QED  BY <1>2, <2>1, <2>2
<1> HIDE DEF w
<1> DEFINE r == w \o z
<1>6. /\ r \in Seq(Steps) /\ Len(r) = Len(s) + 2
      /\ \A i \in 1 .. Len(s) + 2 : r[i] = IF i <= a + 2 THEN w[i] ELSE z[i - (a + 2)]
  BY <1>1, <1>3, <1>5, ConcatProperties
<1>7. r = Splice(s, a)  BY DEF r, w, x, y, z, Splice
<1> HIDE DEF r
<1>8. \A i \in 1 .. a - 1 : r[i] = s[i]
  <2> SUFFICES ASSUME NEW i \in 1 .. a - 1 PROVE r[i] = s[i]  OBVIOUS
  <2>1. i \in 1 .. Len(s) + 2 /\ i <= a + 2 /\ i \in 1 .. a + 2 /\ i <= a - 1  BY <1>1
  <2> QED  BY <1>2, <1>5, <1>6, <2>1
<1>9. r[a] = y[1] /\ r[a + 1] = y[2] /\ r[a + 2] = y[3]
  <2>1. \A i \in {a, a + 1, a + 2} : r[i] = y[i - (a - 1)]
    <3> SUFFICES ASSUME NEW i \in {a, a + 1, a + 2} PROVE r[i] = y[i - (a - 1)]  OBVIOUS
    <3>1. i \in 1 .. Len(s) + 2 /\ i <= a + 2 /\ i \in 1 .. a + 2 /\ ~(i <= a - 1)  BY <1>1
    <3> QED  BY <1>5, <1>6, <3>1
  <2>2. a - (a - 1) = 1 /\ (a + 1) - (a - 1) = 2 /\ (a + 2) - (a - 1) = 3  BY <1>1
  <2> QED  BY <2>1, <2>2
<1>10. \A i \in a + 3 .. Len(s) + 2 : r[i] = s[i - 2]
  <2> SUFFICES ASSUME NEW i \in a + 3 .. Len(s) + 2 PROVE r[i] = s[i - 2]  OBVIOUS
  <2>1. /\ i \in 1 .. Len(s) + 2 /\ ~(i <= a + 2) /\ i - (a + 2) \in 1 .. Len(s) - a
        /\ a + (i - (a + 2)) = i - 2
    BY <1>1
  <2> QED  BY <1>3, <1>6, <2>1
<1> QED  BY <1>1, <1>6, <1>7, <1>8, <1>9, <1>10 DEF y

-----------------------------------------------------------------------------
(* Types.                                                                  *)

LEMMA TypedMeans ==
  ASSUME Typed, NEW t \in Threads
  PROVE  /\ script[t] \in Seq(Steps) /\ Len(script[t]) \in Nat
         /\ DOMAIN script[t] = 1 .. Len(script[t])
         /\ at[t] \in 1 .. Len(script[t]) + 1 /\ at[t] \in Nat
         /\ pc[t] # "step" => at[t] \in 1 .. Len(script[t]) /\ Step(t).do = "trace"
         /\ \A i \in 1 .. Len(script[t]) : script[t][i] \in Steps
<1>1. script[t] \in Seq(Steps) /\ at[t] \in Nat /\ Placed(script[t], at[t], pc[t])  BY DEF Typed
<1> QED  BY <1>1, LenProperties DEF Placed, Step

LEMMA DoingMeans ==
  ASSUME Typed, NEW t \in Threads, NEW d, Doing(t, d)
  PROVE  pc[t] = "step" /\ at[t] \in 1 .. Len(script[t]) /\ Step(t).do = d /\ Step(t) \in Steps
<1>1. pc[t] = "step" /\ ~Idle(t) /\ Step(t).do = d  BY DEF Doing
<1>2. at[t] \in 1 .. Len(script[t])  BY <1>1, TypedMeans DEF Idle
<1> QED  BY <1>1, <1>2, TypedMeans DEF Step

(* A thread goes on to the next step of its script, or to another place in *)
(* this one.                                                               *)
LEMMA AdvanceTyped ==
  ASSUME Typed, NEW t \in Threads, Advance(t), at[t] \in 1 .. Len(script[t]),
         \/ pc' = pc /\ pc[t] = "step"
         \/ Goto(t, "step")
  PROVE  /\ script' \in [Threads -> Seq(Steps)] /\ at' \in [Threads -> Nat]
         /\ pc' \in [Threads -> Pcs]
         /\ \A u \in Threads : Placed(script[u], at[u], pc[u])'
<1>1. /\ script' = script /\ at' = [at EXCEPT ![t] = @ + 1]
      /\ at \in [Threads -> Nat] /\ script \in [Threads -> Seq(Steps)] /\ pc \in [Threads -> Pcs]
  BY DEF Advance, Typed
<1>2. at' \in [Threads -> Nat] /\ at'[t] = at[t] + 1 /\ \A u \in Threads \ {t} : at'[u] = at[u]
  BY <1>1
<1>3. pc' \in [Threads -> Pcs] /\ pc'[t] = "step" /\ \A u \in Threads \ {t} : pc'[u] = pc[u]
  BY <1>1 DEF Goto, Pcs
<1>4. ASSUME NEW u \in Threads PROVE Placed(script[u], at'[u], pc'[u])
  <2>1. CASE u = t
    <3>1. at[t] + 1 \in 1 .. Len(script[t]) + 1  BY TypedMeans
    <3> QED  BY <1>2, <1>3, <2>1, <3>1 DEF Placed
  <2>2. CASE u # t
    <3>1. Placed(script[u], at[u], pc[u])  BY DEF Typed
    <3> QED  BY <1>2, <1>3, <2>2, <3>1
  <2> QED  BY <2>1, <2>2
<1> QED  BY <1>1, <1>2, <1>3, <1>4

LEMMA GotoTyped ==
  ASSUME Typed, NEW t \in Threads, NEW l \in Pcs \ {"step"}, Goto(t, l),
         pc[t] # "step" \/ Doing(t, "trace"), script' = script, at' = at
  PROVE  /\ pc' \in [Threads -> Pcs]
         /\ \A u \in Threads : Placed(script[u], at[u], pc[u])'
<1>1. pc' = [pc EXCEPT ![t] = l] /\ pc \in [Threads -> Pcs]  BY DEF Goto, Typed
<1>2. pc' \in [Threads -> Pcs] /\ \A u \in Threads \ {t} : pc'[u] = pc[u]  BY <1>1
<1>3. ASSUME NEW u \in Threads PROVE Placed(script[u], at[u], pc'[u])
  <2>1. Placed(script[u], at[u], pc[u])  BY DEF Typed
  <2>2. CASE u = t
    <3>1. at[t] \in 1 .. Len(script[t]) /\ Step(t).do = "trace"
      BY TypedMeans, DoingMeans
    <3> QED  BY <2>1, <2>2, <3>1 DEF Placed, Step
  <2>3. CASE u # t  BY <1>2, <2>1, <2>3
  <2> QED  BY <2>2, <2>3
<1> QED  BY <1>2, <1>3

LEMMA CallTyped ==
  ASSUME Typed, NEW t \in Threads, Call(t)
  PROVE  Typed'
<1>1. PICK c \in Calls : script' = [script EXCEPT ![t] = c]  BY DEF Call
<1>2. /\ at' = [at EXCEPT ![t] = 1] /\ pc' = pc /\ pc[t] = "step"
  <2>1. pc[t] = "step"
    BY TypedMeans DEF Call, Idle
  <2> QED  BY <2>1 DEF Call
<1>3. c \in Seq(Steps) /\ Len(c) \in Nat  BY CallScript, LenProperties
<1>4. script \in [Threads -> Seq(Steps)] /\ at \in [Threads -> Nat]  BY DEF Typed
<1>5. script' \in [Threads -> Seq(Steps)] /\ script'[t] = c
      /\ \A u \in Threads \ {t} : script'[u] = script[u]
  BY <1>1, <1>3, <1>4, Zenon
<1>6. at' \in [Threads -> Nat] /\ at'[t] = 1 /\ \A u \in Threads \ {t} : at'[u] = at[u]
  BY <1>2, <1>4
<1>7. ASSUME NEW u \in Threads PROVE Placed(script'[u], at'[u], pc[u])
  <2>1. CASE u = t
    <3>1. 1 \in 1 .. Len(c) + 1  BY <1>3
    <3> QED  BY <1>2, <1>5, <1>6, <2>1, <3>1 DEF Placed
  <2>2. CASE u # t
    <3>1. Placed(script[u], at[u], pc[u])  BY DEF Typed
    <3> QED  BY <1>5, <1>6, <2>2, <3>1
  <2> QED  BY <2>1, <2>2
<1> QED  BY <1>2, <1>5, <1>6, <1>7 DEF Call, Typed, flags

LEMMA EnterTyped ==
  ASSUME Typed, NEW t \in Threads, Enter(t)
  PROVE  Typed'
<1>1. Doing(t, "enter") /\ pc' = pc  BY DEF Enter
<1>2. pc[t] = "step" /\ at[t] \in 1 .. Len(script[t]) /\ script[t] \in Seq(Steps)
  BY <1>1, DoingMeans, TypedMeans
<1>3. CASE initialized
  <2>1. Advance(t)  BY <1>3 DEF Enter
  <2>2. /\ script' \in [Threads -> Seq(Steps)] /\ at' \in [Threads -> Nat]
        /\ \A u \in Threads : Placed(script[u], at[u], pc[u])'
    BY <1>1, <1>2, <2>1, AdvanceTyped
  <2> QED  BY <1>1, <2>2 DEF Enter, Typed, flags, history
<1>4. CASE ~initialized
  <2> DEFINE r == Splice(script[t], at[t])
  <2>1. script' = [script EXCEPT ![t] = r] /\ at' = at  BY <1>4 DEF Enter, Splice
  <2>2. r \in Seq(Steps) /\ Len(r) = Len(script[t]) + 2 /\ Len(script[t]) \in Nat  BY <1>2, Spliced
  <2> HIDE DEF r
  <2>3. script \in [Threads -> Seq(Steps)]  BY DEF Typed
  <2>4. script' \in [Threads -> Seq(Steps)] /\ script'[t] = r
        /\ \A u \in Threads \ {t} : script'[u] = script[u]
    BY <2>1, <2>2, <2>3, Zenon
  <2>5. ASSUME NEW u \in Threads PROVE Placed(script'[u], at[u], pc[u])
    <3>1. CASE u = t
      <4>1. at[t] \in 1 .. Len(r) + 1  BY <1>2, <2>2
      <4> QED  BY <1>2, <2>4, <3>1, <4>1 DEF Placed
    <3>2. CASE u # t
      <4>1. Placed(script[u], at[u], pc[u])  BY DEF Typed
      <4> QED  BY <2>4, <3>2, <4>1
    <3> QED  BY <3>1, <3>2
  <2> QED  BY <1>1, <2>1, <2>4, <2>5 DEF Enter, Typed, flags, history
<1> QED  BY <1>3, <1>4

LEMMA SettingTyped ==
  ASSUME Typed, NEW c \in Classes
  PROVE  Setting(c) \in Int
BY DEF Setting, Typed

LEMMA RunTyped ==
  ASSUME Typed, NEW t \in Threads, Run(t), pc[t] = "end" => trace_lock.depth > 0
  PROVE  Typed'
<1>1. CASE Enter(t)  BY <1>1, EnterTyped
<1>2. CASE TraceInit(t)
  <2> DEFINE c == trace_classes[class[t]]
  <2>1. /\ Doing(t, "trace_init") /\ pc' = pc /\ levels' = [levels EXCEPT ![c] = Setting(c)]
        /\ class' = [class EXCEPT ![t] = (@ % 4) + 1]
        /\ IF class[t] = 4 THEN Advance(t) ELSE script' = script /\ at' = at
    BY <1>2, FourClasses DEF TraceInit, TraceInitNext
  <2>2. class \in [Threads -> 1 .. 4] /\ levels \in [Classes -> Int]  BY DEF Typed
  <2>3. class[t] \in 1 .. 4 /\ c \in Classes /\ Setting(c) \in Int
    BY <2>2, FourClasses, SettingTyped
  <2>4. class' \in [Threads -> 1 .. 4]
    <3>1. (class[t] % 4) + 1 \in 1 .. 4  BY <2>3
    <3> QED  BY <2>1, <2>2, <3>1
  <2> HIDE DEF c
  <2>5. levels' \in [Classes -> Int]  BY <2>1, <2>2, <2>3
  <2>6. pc[t] = "step" /\ at[t] \in 1 .. Len(script[t])  BY <2>1, DoingMeans
  <2>7. /\ script' \in [Threads -> Seq(Steps)] /\ at' \in [Threads -> Nat]
        /\ pc' \in [Threads -> Pcs]
        /\ \A u \in Threads : Placed(script[u], at[u], pc[u])'
    <3>1. CASE class[t] = 4  BY <2>1, <2>6, <3>1, AdvanceTyped
    <3>2. CASE class[t] # 4  BY <2>1, <3>2 DEF Typed
    <3> QED  BY <3>1, <3>2
  <2> QED  BY <1>2, <2>4, <2>5, <2>7 DEF TraceInit, Typed, history
<1>3. CASE Initialized(t) \/ Lock(t) \/ Unlock(t)
  <2>1. PICK d \in Dos : Doing(t, d) /\ Advance(t) /\ pc' = pc
    BY <1>3 DEF Initialized, Lock, Unlock, Dos
  <2>2. pc[t] = "step" /\ at[t] \in 1 .. Len(script[t])  BY <2>1, DoingMeans
  <2>3. /\ script' \in [Threads -> Seq(Steps)] /\ at' \in [Threads -> Nat]
        /\ pc' \in [Threads -> Pcs]
        /\ \A u \in Threads : Placed(script[u], at[u], pc[u])'
    BY <2>1, <2>2, AdvanceTyped
  <2> QED  BY <1>3, <2>3 DEF Initialized, Lock, Unlock, Typed, flags, history
<1>4. CASE Test(t)
  <2>1. Doing(t, "trace")  BY <1>4 DEF Test
  <2>2. pc[t] = "step" /\ at[t] \in 1 .. Len(script[t])  BY <2>1, DoingMeans
  <2>3. \/ Goto(t, "start") /\ script' = script /\ at' = at
        \/ Advance(t) /\ pc' = pc
    BY <1>4 DEF Test
  <2>4. /\ script' \in [Threads -> Seq(Steps)] /\ at' \in [Threads -> Nat]
        /\ pc' \in [Threads -> Pcs]
        /\ \A u \in Threads : Placed(script[u], at[u], pc[u])'
    <3>1. CASE Advance(t) /\ pc' = pc  BY <2>2, <3>1, AdvanceTyped
    <3>2. CASE Goto(t, "start") /\ script' = script /\ at' = at
      <4>1. "start" \in Pcs \ {"step"}  BY DEF Pcs
      <4> QED  BY <2>1, <3>2, <4>1, GotoTyped DEF Typed
    <3> QED  BY <2>3, <3>1, <3>2
  <2> QED  BY <1>4, <2>4 DEF Test, Typed, flags, history
<1>5. CASE TraceStart(t) \/ TraceFormat(t) \/ TracePut(t) \/ TraceNewline(t)
  <2>1. PICK l \in Pcs \ {"step"} : Goto(t, l)
    BY <1>5 DEF TraceStart, TraceFormat, TracePut, TraceNewline, Pcs
  <2>2. pc[t] # "step" /\ script' = script /\ at' = at
    BY <1>5 DEF TraceStart, TraceFormat, TracePut, TraceNewline
  <2>3. /\ pc' \in [Threads -> Pcs] /\ \A u \in Threads : Placed(script[u], at[u], pc[u])'
    BY <2>1, <2>2, GotoTyped
  <2>4. trace_lock' \in [owner : Threads \cup {Nobody}, depth : Nat]
    <3>1. trace_lock \in [owner : Threads \cup {Nobody}, depth : Nat]  BY DEF Typed
    <3>2. trace_lock.depth + 1 \in Nat  BY <3>1
    <3>3. CASE trace_lock' = [owner |-> t, depth |-> trace_lock.depth + 1]  BY <3>2, <3>3
    <3>4. CASE trace_lock' = trace_lock  BY <3>1, <3>4
    <3> QED  BY <1>5, <3>3, <3>4 DEF TraceStart, TraceFormat, TracePut, TraceNewline
  <2> QED  BY <1>5, <2>2, <2>3, <2>4
      DEF TraceStart, TraceFormat, TracePut, TraceNewline, Typed, flags, history
<1>6. CASE TraceEnd(t) /\ trace_lock.depth > 0
  <2>1. pc[t] = "end" /\ Goto(t, "step") /\ Advance(t)  BY <1>6 DEF TraceEnd
  <2>2. at[t] \in 1 .. Len(script[t])  BY <2>1, TypedMeans
  <2>3. /\ script' \in [Threads -> Seq(Steps)] /\ at' \in [Threads -> Nat]
        /\ pc' \in [Threads -> Pcs]
        /\ \A u \in Threads : Placed(script[u], at[u], pc[u])'
    BY <2>1, <2>2, AdvanceTyped
  <2>4. trace_lock' \in [owner : Threads \cup {Nobody}, depth : Nat]
    <3>1. trace_lock.depth - 1 \in Nat  BY <1>6 DEF Typed
    <3> QED  BY <1>6, <3>1 DEF TraceEnd
  <2> QED  BY <1>6, <2>3, <2>4 DEF TraceEnd, Typed, flags
<1>7. TraceEnd(t) => trace_lock.depth > 0  BY DEF TraceEnd
<1> QED  BY <1>1, <1>2, <1>3, <1>4, <1>5, <1>6, <1>7 DEF Run

-----------------------------------------------------------------------------
(* One thread prints at a time.                                            *)

LEMMA AppendTwice ==
  ASSUME NEW a, NEW b
  PROVE  Append(<<>>, a) = <<a>> /\ Append(<<a>>, b) = <<a, b>>
<1> DEFINE s == Append(<<a>>, b)
           q == <<a>>
           p == <<a, b>>
<1>1. q \in Seq({a, b}) /\ Len(q) = 1 /\ q[1] = a  OBVIOUS
<1>2. p \in Seq({a, b}) /\ Len(p) = 2 /\ p[1] = a /\ p[2] = b  OBVIOUS
<1> HIDE DEF p, q
<1>3. /\ s \in Seq({a, b}) /\ Len(s) = 2
      /\ \A i \in 1 .. 2 : s[i] = IF i <= 1 THEN q[i] ELSE b
  BY <1>1, AppendProperties DEF q
<1> HIDE DEF s
<1>4. s[1] = a /\ s[2] = b  BY <1>1, <1>3
<1>5. s = p  BY <1>2, <1>3, <1>4, SeqEqual
<1>6. Append(<<>>, a) = <<a>>  OBVIOUS
<1> QED  BY <1>5, <1>6 DEF s, p

LEMMA PrefixesOfTwo ==
  ASSUME NEW a, NEW b
  PROVE  \A s \in {<<>>, <<a>>, <<a, b>>} : IsPrefix(s, <<a, b>>)
<1> DEFINE p == <<a, b>>
           q == <<a>>
           s == SubSeq(p, 1, 1)
<1>1. q \in Seq({a, b}) /\ Len(q) = 1 /\ q[1] = a  OBVIOUS
<1>2. p \in Seq({a, b}) /\ Len(p) = 2 /\ p[1] = a  OBVIOUS
<1>3. Len(<<>>) = 0 /\ SubSeq(<<>>, 1, 0) = <<>> /\ SubSeq(p, 1, 0) = <<>>  BY <1>2
<1> HIDE DEF p, q
<1>4. s \in Seq({a, b}) /\ Len(s) = 1 /\ s[1] = p[1]  BY <1>2
<1> HIDE DEF s
<1>5. s = q  BY <1>1, <1>2, <1>4, SeqEqual
<1>6. SubSeq(q, 1, 1) = q  BY <1>1, SubSeqFull
<1>7. IsPrefix(<<>>, p)  BY <1>2, <1>3 DEF IsPrefix
<1>8. IsPrefix(q, p)  BY <1>1, <1>2, <1>5, <1>6 DEF IsPrefix, s
<1>9. IsPrefix(p, p)  BY <1>2 DEF IsPrefix
<1> QED  BY <1>7, <1>8, <1>9 DEF p, q

LEMMA Bounds ==
  ASSUME Lines
  PROVE  TypeOK
<1>1. \A t \in Threads : at[t] \in 1 .. Len(script[t]) + 1  BY DEF Lines, Typed, Placed
<1> QED  BY <1>1 DEF Lines, Typed, Alone, TypeOK

(* Steps that leave the lock, the buffer and stderr alone, and whose       *)
(* thread does not print.                                                  *)
LEMMA Quiet ==
  ASSUME Lines, Typed', NEW t \in Threads, pc[t] \notin Printing, pc'[t] \notin Printing,
         UNCHANGED <<trace_lock, trace_buf, stderr>>,
         \A u \in Threads \ {t} : pc'[u] = pc[u] /\ at'[u] = at[u]
  PROVE  Alone' /\ Shown'
<1>1. Alone'
  BY ThreadsAssumption DEF Lines, Alone
<1>2. ASSUME NEW u \in Threads
      PROVE  /\ pc'[u] \in {"header", "put header", "end"} => stderr' = <<>>
             /\ pc'[u] \in {"body", "put body"} => stderr' = <<Text(u, "header")'>>
             /\ pc'[u] = "newline" => stderr' = Paragraph(u)'
             /\ pc'[u] = "put header" => trace_buf' = Text(u, "header")'
             /\ pc'[u] = "put body" => trace_buf' = Text(u, "body")'
  <2>1. CASE u = t
    <3>1. pc'[u] \in {"step", "start"}  BY <2>1 DEF Typed, Printing
    <3> QED  BY <3>1
  <2>2. CASE u # t
    <3>1. pc'[u] = pc[u] /\ Text(u, "header")' = Text(u, "header") /\ Text(u, "body")' = Text(u, "body")
      BY <2>2 DEF Text
    <3>2. Paragraph(u)' = Paragraph(u)  BY <3>1 DEF Paragraph
    <3> QED  BY <3>1, <3>2 DEF Lines, Shown
  <2> QED  BY <2>1, <2>2
<1>3. trace_lock'.owner = Nobody => stderr' = <<>>  BY DEF Lines, Shown
<1> QED  BY <1>1, <1>2, <1>3 DEF Shown

(* A step of the thread that prints, before and after: no other does.      *)
LEMMA OthersSilent ==
  ASSUME Lines, NEW t \in Threads, trace_lock.owner \in {t, Nobody}, NEW u \in Threads \ {t}
  PROVE  pc[u] \in {"step", "start"}
<1>1. trace_lock.owner # u  BY ThreadsAssumption
<1>2. pc[u] \notin Printing /\ pc[u] \in Pcs  BY <1>1 DEF Lines, Alone, Typed
<1> QED  BY <1>2 DEF Printing

LEMMA RunAlone ==
  ASSUME Lines, Typed', NEW t \in Threads, Run(t)
  PROVE  Alone' /\ Shown'
<1> USE DEF Printing
<1>1. CASE Enter(t) \/ TraceInit(t) \/ Initialized(t) \/ Lock(t) \/ Unlock(t)
  <2>1. /\ pc[t] = "step" /\ pc' = pc /\ UNCHANGED <<trace_lock, trace_buf, stderr>>
    BY <1>1 DEF Enter, TraceInit, Initialized, Lock, Unlock, Doing
  <2>2. \A u \in Threads \ {t} : at'[u] = at[u]
    BY <1>1 DEF Enter, TraceInit, TraceInitNext, Initialized, Lock, Unlock, Advance, Lines, Typed
  <2> QED  BY <2>1, <2>2, Quiet
<1>2. CASE Test(t)
  <2>1. /\ pc[t] = "step" /\ UNCHANGED <<trace_lock, trace_buf, stderr>>
    BY <1>2 DEF Test, Doing
  <2>2. /\ pc'[t] \in {"step", "start"}
        /\ \A u \in Threads \ {t} : pc'[u] = pc[u] /\ at'[u] = at[u]
    BY <1>2 DEF Test, Doing, Goto, Advance, Lines, Typed
  <2> QED  BY <2>1, <2>2, Quiet
<1> DEFINE Silent == \A u \in Threads \ {t} : pc'[u] \in {"step", "start"}
<1>3. CASE TraceStart(t)
  <2>1. /\ pc[t] = "start" /\ trace_lock.owner \in {Nobody, t} /\ at' = at
        /\ trace_lock' = [owner |-> t, depth |-> trace_lock.depth + 1]
        /\ pc' = [pc EXCEPT ![t] = "header"] /\ stderr' = stderr
    BY <1>3 DEF TraceStart, Goto
  <2>2. trace_lock.owner = Nobody /\ trace_lock.depth = 0
    BY <2>1 DEF Lines, Alone
  <2>3. pc'[t] = "header" /\ Silent  BY <2>1, OthersSilent DEF Lines, Typed
  <2>4. trace_lock'.owner = t /\ trace_lock'.depth = 1  BY <2>1, <2>2
  <2>5. Alone'
    <3>1. trace_lock'.owner # Nobody /\ trace_lock'.depth # 0  BY <2>4, ThreadsAssumption
    <3>2. \A u \in Threads : pc'[u] \in Printing <=> u = t  BY <2>3 DEF Pcs
    <3> QED  BY <2>4, <3>1, <3>2 DEF Alone
  <2>6. stderr' = <<>>  BY <2>1, <2>2 DEF Lines, Shown
  <2>7. Shown'  BY <2>3, <2>6 DEF Shown
  <2> QED  BY <2>5, <2>7
<1>4. ASSUME pc[t] \in Printing
      PROVE  /\ trace_lock.owner = t /\ trace_lock.depth = 1
             /\ \A u \in Threads \ {t} : pc[u] \in {"step", "start"}
  <2>1. trace_lock.owner = t /\ trace_lock.depth = 1  BY <1>4 DEF Lines, Alone
  <2> QED  BY <2>1, OthersSilent
<1>5. ASSUME pc[t] \in Printing, NEW l \in Printing, Goto(t, l),
             trace_lock' = trace_lock
      PROVE  pc'[t] = l /\ Silent /\ Alone' /\ trace_lock'.owner # Nobody
  <2>1. pc'[t] = l /\ Silent  BY <1>4, <1>5 DEF Goto, Lines, Typed
  <2> QED  BY <1>4, <1>5, <2>1, ThreadsAssumption DEF Alone
<1>6. CASE TraceFormat(t)
  <2> DEFINE l == IF pc[t] = "header" THEN "put header" ELSE "put body"
  <2>1. /\ pc[t] \in {"header", "body"} /\ Goto(t, l) /\ trace_lock' = trace_lock
        /\ trace_buf' = Text(t, pc[t]) /\ stderr' = stderr /\ at' = at
    BY <1>6 DEF TraceFormat
  <2>2. l \in Printing /\ l # "step"  BY DEF Pcs
  <2>3. pc'[t] = l /\ Silent /\ Alone' /\ trace_lock'.owner # Nobody
    BY <1>5, <2>1, <2>2 DEF Pcs
  <2>4. \A part \in {"header", "body"} : Text(t, part)' = Text(t, part)  BY <2>1 DEF Text
  <2>5. CASE pc[t] = "header"
    <3>1. pc'[t] = "put header" /\ stderr' = <<>> /\ trace_buf' = Text(t, "header")'
      BY <2>1, <2>3, <2>4, <2>5 DEF Lines, Shown
    <3> QED  BY <2>3, <3>1 DEF Shown
  <2>6. CASE pc[t] = "body"
    <3>1. pc'[t] = "put body" /\ stderr' = <<Text(t, "header")'>> /\ trace_buf' = Text(t, "body")'
      BY <2>1, <2>3, <2>4, <2>6 DEF Lines, Shown
    <3> QED  BY <2>3, <3>1 DEF Shown
  <2> QED  BY <2>1, <2>5, <2>6
<1>7. CASE TracePut(t)
  <2> DEFINE l == IF pc[t] = "put header" THEN "body" ELSE "newline"
             h == Text(t, "header")
             b == Text(t, "body")
  <2>1. /\ pc[t] \in {"put header", "put body"} /\ Goto(t, l) /\ trace_lock' = trace_lock
        /\ stderr' = Append(stderr, trace_buf) /\ at' = at
    BY <1>7 DEF TracePut
  <2>2. l \in Printing  BY DEF Pcs
  <2>3. pc'[t] = l /\ Silent /\ Alone' /\ trace_lock'.owner # Nobody
    BY <1>5, <2>1, <2>2 DEF Pcs
  <2>4. h' = h /\ b' = b  BY <2>1 DEF Text
  <2>5. Paragraph(t)' = <<h, b>>  BY <2>4 DEF Paragraph
  <2>6. CASE pc[t] = "put header"
    <3>1. stderr = <<>> /\ trace_buf = h  BY <2>6 DEF Lines, Shown
    <3> HIDE DEF h
    <3>2. stderr' = <<h>>  BY <2>1, <3>1, AppendTwice
    <3>3. pc'[t] = "body" /\ stderr' = <<h'>>  BY <2>3, <2>4, <2>6, <3>2
    <3> QED  BY <2>3, <3>3 DEF Shown, h
  <2>7. CASE pc[t] = "put body"
    <3>1. stderr = <<h>> /\ trace_buf = b  BY <2>7 DEF Lines, Shown
    <3> HIDE DEF h, b
    <3>2. stderr' = <<h, b>>  BY <2>1, <3>1, AppendTwice
    <3>3. pc'[t] = "newline" /\ stderr' = Paragraph(t)'  BY <2>3, <2>5, <2>7, <3>2
    <3> QED  BY <2>3, <3>3 DEF Shown
  <2> QED  BY <2>1, <2>6, <2>7
<1>8. CASE TraceNewline(t)
  <2>1. pc[t] = "newline" /\ Goto(t, "end") /\ trace_lock' = trace_lock /\ stderr' = <<>>
    BY <1>8 DEF TraceNewline
  <2>2. pc'[t] = "end" /\ Silent /\ Alone' /\ trace_lock'.owner # Nobody
    BY <1>5, <2>1 DEF Pcs
  <2> QED  BY <2>1, <2>2 DEF Shown
<1>9. CASE TraceEnd(t)
  <2>1. /\ pc[t] = "end" /\ pc' = [pc EXCEPT ![t] = "step"] /\ stderr' = stderr
        /\ trace_lock' = [owner |-> IF trace_lock.depth > 1 THEN t ELSE Nobody,
                          depth |-> trace_lock.depth - 1]
    BY <1>9 DEF TraceEnd, Goto
  <2>2. trace_lock.depth = 1 /\ \A u \in Threads \ {t} : pc[u] \in {"step", "start"}
    BY <1>4, <2>1 DEF Pcs
  <2>3. trace_lock'.owner = Nobody /\ trace_lock'.depth = 0  BY <2>1, <2>2
  <2>4. \A u \in Threads : pc'[u] \in {"step", "start"}
    BY <2>1, <2>2 DEF Lines, Typed
  <2>5. Alone'  BY <2>3, <2>4, ThreadsAssumption DEF Alone
  <2>6. stderr' = <<>>  BY <2>1 DEF Lines, Shown
  <2> QED  BY <2>4, <2>5, <2>6 DEF Shown
<1> QED  BY <1>1, <1>2, <1>3, <1>6, <1>7, <1>8, <1>9 DEF Run

LEMMA LinesInit == Init => Lines
<1> SUFFICES ASSUME Init PROVE Lines  OBVIOUS
<1>1. Typed
  <2>1. <<>> \in Seq(Steps) /\ Len(<<>>) = 0 /\ 1 \in 1 .. 4  OBVIOUS
  <2>2. \A t \in Threads : Placed(script[t], at[t], pc[t])  BY <2>1 DEF Init, Placed
  <2>3. environment \in [Classes -> Int \cup {Unset}]  BY EnvironmentAssumption DEF Init
  <2>4. pc \in [Threads -> Pcs] /\ class \in [Threads -> 1 .. 4]  BY <2>1 DEF Init, Pcs
  <2>5. script \in [Threads -> Seq(Steps)] /\ at \in [Threads -> Nat]  BY <2>1 DEF Init
  <2>6. levels \in [Classes -> Int]  BY DEF Init
  <2>7. initialized \in BOOLEAN  BY DEF Init
  <2>8. trace_lock \in [owner : Threads \cup {Nobody}, depth : Nat]
        /\ lock \in Threads \cup {Nobody}
    BY DEF Init
  <2> QED  BY <2>2, <2>3, <2>4, <2>5, <2>6, <2>7, <2>8 DEF Typed
<1> QED  BY <1>1, ThreadsAssumption DEF Init, Lines, Alone, Shown, Printing

LEMMA LinesNext == Lines /\ [Next]_vars => Lines'
<1> SUFFICES ASSUME Lines, [Next]_vars PROVE Lines'  OBVIOUS
<1>1. ASSUME NEW t \in Threads, Call(t) PROVE Lines'
  <2>1. Typed'  BY <1>1, CallTyped DEF Lines
  <2>2. pc[t] = "step" /\ pc' = pc /\ UNCHANGED <<trace_lock, trace_buf, stderr>>
    BY <1>1, TypedMeans DEF Call, Idle, Lines
  <2>3. \A u \in Threads \ {t} : at'[u] = at[u]  BY <1>1 DEF Call, Lines, Typed
  <2> QED  BY <2>1, <2>2, <2>3, Quiet DEF Lines, Printing
<1>2. ASSUME NEW t \in Threads, Run(t) PROVE Lines'
  <2>1. pc[t] = "end" => trace_lock.depth > 0
    <3> SUFFICES ASSUME pc[t] = "end" PROVE trace_lock.depth > 0  OBVIOUS
    <3>1. pc[t] \in Printing  BY DEF Printing, Pcs
    <3> QED  BY <3>1 DEF Lines, Alone
  <2>2. Typed'  BY <1>2, <2>1, RunTyped DEF Lines
  <2> QED  BY <1>2, <2>2, RunAlone DEF Lines
<1>3. CASE UNCHANGED vars
  <2>1. /\ \A t \in Threads : Text(t, "header")' = Text(t, "header")
                              /\ Text(t, "body")' = Text(t, "body")
        /\ \A t \in Threads : Paragraph(t)' = Paragraph(t)
    BY <1>3 DEF vars, Text, Paragraph
  <2>2. Typed'  BY <1>3 DEF vars, Lines, Typed
  <2>3. Alone'  BY <1>3 DEF vars, Lines, Alone
  <2> QED  BY <1>3, <2>1, <2>2, <2>3 DEF vars, Lines, Shown
<1> QED  BY <1>1, <1>2, <1>3 DEF Next, Finished

(* The shared buffer, stderr and the lock agree at every moment: who has   *)
(* the lock has put there exactly what its place in trace () says, and     *)
(* nobody else has put anything.                                           *)
THEOREM LinesInvariant == Spec => []Lines
BY LinesInit, LinesNext, PTL DEF Spec

(* The lock of the traces is held exactly when it has an owner, and no     *)
(* thread leaves its script.                                               *)
THEOREM TypeCorrect == Spec => []TypeOK
BY Bounds, LinesInvariant, PTL

(* Whatever the threads do, what a reader of stderr finds is one paragraph *)
(* of one thread, whole or so far: the lock is taken before the buffer is  *)
(* written and given back after the newline.                               *)
THEOREM ParagraphsWhole == Spec => []LinesWhole
<1>1. Lines => LinesWhole
  <2> SUFFICES ASSUME Lines PROVE LinesWhole  OBVIOUS
  <2>1. \A t \in Threads : pc[t] = "newline" => stderr = Paragraph(t)  BY DEF Lines, Shown
  <2>2. \A t \in Threads : /\ IsPrefix(<<>>, Paragraph(t))
                           /\ IsPrefix(<<Text(t, "header")>>, Paragraph(t))
                           /\ IsPrefix(Paragraph(t), Paragraph(t))
    BY PrefixesOfTwo DEF Paragraph
  <2>3. CASE trace_lock.owner = Nobody
    <3>1. stderr = <<>> /\ \E t \in Threads : TRUE  BY <2>3, ThreadsAssumption DEF Lines, Shown
    <3> QED  BY <2>1, <2>2, <3>1 DEF LinesWhole
  <2>4. CASE trace_lock.owner \in Threads
    <3> DEFINE t == trace_lock.owner
    <3>1. t \in Threads /\ pc[t] \in Printing /\ pc[t] \in Pcs  BY <2>4 DEF Lines, Alone, Typed
    <3>2. stderr \in {<<>>, <<Text(t, "header")>>, Paragraph(t)}
      BY <3>1 DEF Lines, Shown, Printing, Pcs
    <3>3. IsPrefix(stderr, Paragraph(t))  BY <2>2, <3>1, <3>2
    <3> QED  BY <2>1, <3>1, <3>3 DEF LinesWhole
  <2> QED  BY <2>3, <2>4 DEF Lines, Typed
<1> QED  BY <1>1, LinesInvariant, PTL

-----------------------------------------------------------------------------
(* What a call says.                                                       *)

\* What the environment asks for, of class c and of step i of script s.
Final(c) == IF environment[c] = Unset THEN 0 ELSE environment[c]
AllSet == \A c \in Classes : levels[c] = Final(c)
Due(v, s, i) ==
  /\ s[i].do = "trace"
  /\ v[s[i].class] \in Int
  /\ v[s[i].class] >= s[i].level

\* A thread at step a of script s has its levels from here on.
Entering == {"enter", "trace_init"}
Ready(s, a, w) == w \/ \E e \in 1 .. a - 1 : s[e].do \in Entering

\* A thread at step a of script s has printed the steps in u.
Told(v, s, a, u, w) ==
  /\ u \in Seq(Nat)
  /\ \A k \in 1 .. Len(u) : u[k] \in 1 .. a - 1 /\ Due(v, s, u[k])
  /\ \A k \in 2 .. Len(u) : u[k - 1] < u[k]
  /\ \A i \in 1 .. a - 1 : Due(v, s, i) /\ Ready(s, i, w) => \E k \in 1 .. Len(u) : u[k] = i

\* memtraq is initialised after the levels; no trace has level 0.
Ordered(s) ==
  \A i \in 1 .. Len(s) :
    /\ s[i].do = "trace" => s[i].level > 0
    /\ s[i].do = "initialized" => \E e \in 1 .. i - 1 : s[e].do = "trace_init"

Levelled ==
  /\ \A c \in Classes : levels[c] \in {0, Final(c)}
  /\ initialized => AllSet
  /\ \A t \in Threads : \A j \in 1 .. class[t] - 1 :
       levels[trace_classes[j]] = Final(trace_classes[j])

\* Thread t has said what it had to, up to where it is.
Hears(t) ==
  /\ Ordered(script[t])
  /\ Told(environment, script[t], at[t], said[t], warm[t])
  /\ pc[t] # "step" => Due(environment, script[t], at[t])
  /\ Ready(script[t], at[t], warm[t]) => AllSet

Heard ==
  /\ said \in [Threads -> Seq(Nat)] /\ warm \in [Threads -> BOOLEAN]
  /\ Levelled
  /\ \A t \in Threads : Hears(t)

LEMMA ToldNew ==
  ASSUME NEW v, NEW s, NEW w
  PROVE  Told(v, s, 1, <<>>, w)
<1>1. <<>> \in Seq(Nat) /\ Len(<<>>) = 0  OBVIOUS
<1>2. 1 .. 1 - 1 = {} /\ 1 .. 0 = {} /\ 2 .. 0 = {}  OBVIOUS
<1> QED  BY <1>1, <1>2 DEF Told

LEMMA ReadySame ==
  ASSUME NEW s, NEW r, NEW a \in Nat, NEW w, \A i \in 1 .. a - 1 : r[i] = s[i]
  PROVE  Ready(r, a, w) <=> Ready(s, a, w)
BY DEF Ready

(* Only the steps before a matter.                                         *)
LEMMA ToldSame ==
  ASSUME NEW v, NEW s, NEW r, NEW a \in Nat, NEW u, NEW w, Told(v, s, a, u, w),
         \A i \in 1 .. a - 1 : r[i] = s[i]
  PROVE  Told(v, r, a, u, w)
<1>1. ASSUME NEW i \in 1 .. a - 1
      PROVE  /\ Due(v, r, i) <=> Due(v, s, i)
             /\ Ready(r, i, w) <=> Ready(s, i, w)
  <2>1. i \in Nat /\ \A j \in 1 .. i - 1 : r[j] = s[j]  OBVIOUS
  <2> QED  BY <2>1, ReadySame DEF Due
<1>2. \A i \in 1 .. a - 1 : Due(v, r, i) /\ Ready(r, i, w) => \E k \in 1 .. Len(u) : u[k] = i
  BY <1>1 DEF Told
<1>3. \A k \in 1 .. Len(u) : u[k] \in 1 .. a - 1 /\ Due(v, r, u[k])
  BY <1>1 DEF Told
<1> QED  BY <1>2, <1>3 DEF Told

(* A step that need not be printed is passed.                              *)
LEMMA ToldSkips ==
  ASSUME NEW v, NEW s, NEW a \in Nat \ {0}, NEW u, NEW w, Told(v, s, a, u, w),
         ~(Due(v, s, a) /\ Ready(s, a, w))
  PROVE  Told(v, s, a + 1, u, w)
<1>1. 1 .. (a + 1) - 1 = (1 .. a - 1) \cup {a}  OBVIOUS
<1>2. \A k \in 1 .. Len(u) : u[k] \in 1 .. (a + 1) - 1 /\ Due(v, s, u[k])
  BY <1>1 DEF Told
<1>3. \A i \in 1 .. (a + 1) - 1 :
        Due(v, s, i) /\ Ready(s, i, w) => \E k \in 1 .. Len(u) : u[k] = i
  BY <1>1 DEF Told
<1> QED  BY <1>2, <1>3 DEF Told

(* A step that is due is printed and passed.                               *)
LEMMA ToldSays ==
  ASSUME NEW v, NEW s, NEW a \in Nat \ {0}, NEW u, NEW w, Told(v, s, a, u, w), Due(v, s, a)
  PROVE  Told(v, s, a + 1, Append(u, a), w)
<1> DEFINE x == Append(u, a)
           n == Len(u)
<1>1. /\ u \in Seq(Nat) /\ n \in Nat
      /\ \A k \in 1 .. n : u[k] \in 1 .. a - 1 /\ Due(v, s, u[k])
      /\ \A k \in 2 .. n : u[k - 1] < u[k]
      /\ \A i \in 1 .. a - 1 : Due(v, s, i) /\ Ready(s, i, w) => \E k \in 1 .. n : u[k] = i
  BY DEF Told
<1>2. /\ x \in Seq(Nat) /\ Len(x) = n + 1
      /\ \A k \in 1 .. n : x[k] = u[k]
      /\ x[n + 1] = a
  BY <1>1, AppendProperties
<1>3. 1 .. (a + 1) - 1 = (1 .. a - 1) \cup {a} /\ 1 .. n + 1 = (1 .. n) \cup {n + 1}
  BY <1>1
<1> HIDE DEF x, n
<1>4. ASSUME NEW k \in 1 .. n + 1 PROVE x[k] \in 1 .. (a + 1) - 1 /\ Due(v, s, x[k])
  <2>1. CASE k \in 1 .. n  BY <1>1, <1>2, <1>3, <2>1
  <2>2. CASE k = n + 1  BY <1>2, <1>3, <2>2
  <2> QED  BY <1>3, <2>1, <2>2
<1>5. ASSUME NEW k \in 2 .. n + 1 PROVE x[k - 1] < x[k]
  <2>1. CASE k \in 2 .. n
    <3>1. k \in 1 .. n /\ k - 1 \in 1 .. n  BY <1>1, <2>1
    <3> QED  BY <1>1, <1>2, <2>1, <3>1
  <2>2. CASE k = n + 1
    <3>1. k - 1 \in 1 .. n  BY <1>1, <2>2
    <3>2. x[k - 1] \in 1 .. a - 1 /\ x[k] = a  BY <1>1, <1>2, <2>2, <3>1
    <3> QED  BY <3>2
  <2> QED  BY <1>1, <2>1, <2>2
<1>6. ASSUME NEW i \in 1 .. (a + 1) - 1, Due(v, s, i), Ready(s, i, w)
      PROVE  \E k \in 1 .. n + 1 : x[k] = i
  <2>1. CASE i \in 1 .. a - 1
    <3>1. PICK k \in 1 .. n : u[k] = i  BY <1>1, <1>6, <2>1
    <3>2. k \in 1 .. n + 1 /\ x[k] = i  BY <1>2, <1>3, <3>1
    <3> QED  BY <3>2
  <2>2. CASE i = a
    <3>1. n + 1 \in 1 .. n + 1  BY <1>1
    <3> QED  BY <1>2, <2>2, <3>1
  <2> QED  BY <1>3, <2>1, <2>2
<1> QED  BY <1>2, <1>4, <1>5, <1>6 DEF Told, x

(* Levels.  Enabled is Due for a class that has its level, and never true  *)
(* of one that is not.                                                     *)
LEMMA EnabledIsDue ==
  ASSUME Typed, Levelled, NEW s \in Seq(Steps), NEW i \in 1 .. Len(s),
         s[i].do = "trace", s[i].level > 0
  PROVE  /\ Enabled(levels[s[i].class], s[i].level) => Due(environment, s, i)
         /\ AllSet /\ Due(environment, s, i) => Enabled(levels[s[i].class], s[i].level)
<1> DEFINE c == s[i].class
           n == s[i].level
<1>1. s[i] \in Steps  BY ElementOfSeq
<1>2. c \in Classes /\ n \in Nat \ {0}  BY <1>1 DEF Steps
<1>3. environment[c] \in Int \cup {Unset} /\ levels[c] \in Int  BY <1>2 DEF Typed
<1>4. levels[c] \in {0, Final(c)}  BY <1>2 DEF Levelled
<1>5. Due(environment, s, i) <=> environment[c] \in Int /\ environment[c] >= n  BY DEF Due
<1> HIDE DEF c, n
<1>6. Enabled(levels[c], n) => environment[c] \in Int /\ environment[c] >= n
  <2> SUFFICES ASSUME levels[c] >= n PROVE environment[c] \in Int /\ environment[c] >= n
    BY DEF Enabled
  <2>1. levels[c] # 0  BY <1>2, <1>3
  <2> QED  BY <1>3, <1>4, <2>1 DEF Final
<1>7. AllSet /\ environment[c] \in Int /\ environment[c] >= n => Enabled(levels[c], n)
  BY <1>2, <1>3, EnvironmentAssumption DEF AllSet, Final, Enabled
<1> QED  BY <1>5, <1>6, <1>7 DEF c, n

LEMMA CallOrdered ==
  ASSUME NEW c \in Calls
  PROVE  Ordered(c)
<1>1. DOMAIN c = 1 .. Len(c)  BY CallScript, LenProperties
<1>2. \A i \in 1 .. Len(c) : c[i].do # "initialized" /\ (c[i].do = "trace" => c[i].level > 0)
  BY <1>1, CallScript
<1> QED  BY <1>2 DEF Ordered

LEMMA SpliceOrdered ==
  ASSUME NEW s \in Seq(Steps), NEW a \in 1 .. Len(s), s[a].do = "enter", Ordered(s)
  PROVE  Ordered(Splice(s, a))
<1> DEFINE r == Splice(s, a)
           n == Len(s)
<1>1. /\ Len(r) = n + 2 /\ n \in Nat
      /\ \A i \in 1 .. a - 1 : r[i] = s[i]
      /\ r[a] = do_init[1] /\ r[a + 1] = do_init[2] /\ r[a + 2] = do_init[3]
      /\ \A i \in a + 3 .. n + 2 : r[i] = s[i - 2]
  BY Spliced
<1>2. a \in 1 .. n /\ \A i \in 1 .. n :
        /\ s[i].do = "trace" => s[i].level > 0
        /\ s[i].do = "initialized" => \E e \in 1 .. i - 1 : s[e].do = "trace_init"
  BY DEF Ordered
<1> HIDE DEF r, n
<1>3. ASSUME NEW i \in 1 .. n + 2
      PROVE  /\ r[i].do = "trace" => r[i].level > 0
             /\ r[i].do = "initialized" => \E e \in 1 .. i - 1 : r[e].do = "trace_init"
  <2>1. CASE i \in 1 .. a - 1
    <3>1. i \in 1 .. n /\ r[i] = s[i]  BY <1>1, <1>2, <2>1
    <3>2. ASSUME NEW e \in 1 .. i - 1 PROVE e \in 1 .. a - 1 /\ r[e] = s[e]
      BY <1>1, <1>2, <2>1
    <3> QED  BY <1>2, <3>1, <3>2
  <2>2. CASE i = a  BY <1>1, <2>2, InitScript
  <2>3. CASE i = a + 1  BY <1>1, <2>3, InitScript
  <2>4. CASE i = a + 2
    <3>1. a \in 1 .. i - 1 /\ r[a].do = "trace_init"  BY <1>1, <1>2, <2>4, InitScript
    <3> QED  BY <1>1, <2>4, <3>1, InitScript
  <2>5. CASE i \in a + 3 .. n + 2
    <3>1. i - 2 \in 1 .. n /\ r[i] = s[i - 2]  BY <1>1, <1>2, <2>5
    <3>2. ASSUME r[i].do = "initialized"
          PROVE  \E e \in 1 .. i - 1 : r[e].do = "trace_init"
      <4>1. a \in 1 .. i - 1 /\ r[a].do = "trace_init"  BY <1>1, <1>2, <2>5, InitScript
      <4> QED  BY <4>1
    <3> QED  BY <1>2, <3>1, <3>2
  <2>6. i \in 1 .. a - 1 \/ i = a \/ i = a + 1 \/ i = a + 2 \/ i \in a + 3 .. n + 2
    BY <1>1, <1>2
  <2> QED  BY <2>1, <2>2, <2>3, <2>4, <2>5, <2>6
<1> QED  BY <1>1, <1>3 DEF Ordered, r

LEMMA FinalSame ==
  ASSUME environment' = environment
  PROVE  \A c \in Classes : Final(c)' = Final(c)
BY DEF Final

(* Levels never leave what they are to be.                                 *)
LEMMA LevelsSame ==
  ASSUME Levelled, UNCHANGED <<environment, flags>>
  PROVE  Levelled' /\ (AllSet => AllSet')
<1>1. levels' = levels /\ initialized' = initialized /\ class' = class  BY DEF flags
<1>2. Levelled'
  BY <1>1 DEF Levelled, AllSet, Final
<1> QED  BY <1>1, <1>2 DEF AllSet, Final

LEMMA LevelsSet ==
  ASSUME Typed, Levelled, NEW t \in Threads, TraceInit(t)
  PROVE  /\ Levelled' /\ (AllSet => AllSet')
         /\ class[t] = 4 => AllSet'
<1>0. class[t] \in 1 .. 4 /\ trace_classes[class[t]] \in Classes  BY FourClasses DEF Typed
<1> PICK c \in Classes : c = trace_classes[class[t]]  BY <1>0
<1>1. /\ levels' = [levels EXCEPT ![c] = Setting(c)] /\ initialized' = initialized
      /\ class' = [class EXCEPT ![t] = (@ % 4) + 1] /\ environment' = environment
  BY FourClasses DEF TraceInit, TraceInitNext, history
<1>2. /\ class \in [Threads -> 1 .. 4] /\ class[t] \in 1 .. 4
      /\ levels \in [Classes -> Int]
  BY <1>0 DEF Typed
<1>3. Setting(c) = Final(c)
  <2>1. levels[c] \in {0, Final(c)}  BY <1>2 DEF Levelled
  <2> QED  BY <2>1 DEF Setting, Final
<1>4. \A d \in Classes : Final(d)' = Final(d)  BY <1>1, FinalSame
<1>5. levels'[c] = Final(c)'
  BY <1>1, <1>2, <1>3, <1>4
<1>6. \A d \in Classes \ {c} : levels'[d] = levels[d]  BY <1>1, <1>2
<1>7. \A d \in Classes : levels[d] = Final(d) => levels'[d] = Final(d)'
  BY <1>4, <1>5, <1>6
<1>8. AllSet => AllSet'  BY <1>7 DEF AllSet
<1>9. \A d \in Classes : levels'[d] \in {0, Final(d)'}
  BY <1>4, <1>5, <1>6 DEF Levelled
<1>10. \A u \in Threads : \A j \in 1 .. class[u] - 1 :
         levels'[trace_classes[j]] = Final(trace_classes[j])'
  <2> SUFFICES ASSUME NEW u \in Threads, NEW j \in 1 .. class[u] - 1
               PROVE  levels'[trace_classes[j]] = Final(trace_classes[j])'
    OBVIOUS
  <2>1. j \in 1 .. 4  BY <1>2
  <2>2. trace_classes[j] \in Classes  BY <2>1, FourClasses
  <2>3. levels[trace_classes[j]] = Final(trace_classes[j])  BY DEF Levelled
  <2> QED  BY <1>7, <2>2, <2>3
<1>11. \A j \in 1 .. class[t] : levels'[trace_classes[j]] = Final(trace_classes[j])'
  <2> SUFFICES ASSUME NEW j \in 1 .. class[t]
               PROVE  levels'[trace_classes[j]] = Final(trace_classes[j])'
    OBVIOUS
  <2>1. CASE j = class[t]  BY <1>5, <2>1
  <2>2. CASE j # class[t]
    <3>1. j \in 1 .. class[t] - 1  BY <1>2, <2>2
    <3> QED  BY <1>10, <3>1
  <2> QED  BY <2>1, <2>2
<1>12. class[t] = 4 => AllSet'
  <2> SUFFICES ASSUME class[t] = 4, NEW d \in Classes PROVE levels'[d] = Final(d)'
    BY DEF AllSet
  <2>1. PICK j \in 1 .. 4 : trace_classes[j] = d  BY FourClasses
  <2> QED  BY <1>11, <2>1
<1>13. \A u \in Threads : \A j \in 1 .. class'[u] - 1 :
         levels'[trace_classes[j]] = Final(trace_classes[j])'
  <2> SUFFICES ASSUME NEW u \in Threads, NEW j \in 1 .. class'[u] - 1
               PROVE  levels'[trace_classes[j]] = Final(trace_classes[j])'
    OBVIOUS
  <2>1. CASE u = t
    <3>1. class'[t] = (class[t] % 4) + 1  BY <1>1, <1>2
    <3>2. class[t] \in {1, 2, 3, 4}  BY <1>2
    <3>3. class'[t] - 1 \in 0 .. class[t]  BY <3>1, <3>2
    <3>4. j \in 1 .. class[t]  BY <1>2, <2>1, <3>3
    <3> QED  BY <1>11, <3>4
  <2>2. CASE u # t
    <3>1. class'[u] = class[u]  BY <1>1, <1>2, <2>2
    <3> QED  BY <1>10, <3>1
  <2> QED  BY <2>1, <2>2
<1>14. initialized' => AllSet'  BY <1>1, <1>8 DEF Levelled
<1> QED  BY <1>8, <1>9, <1>12, <1>13, <1>14 DEF Levelled

(* What a step does to the thread that takes it and to the others.         *)
LEMMA OthersHear ==
  ASSUME Heard, NEW t \in Threads, NEW u \in Threads \ {t}, AllSet => AllSet',
         environment' = environment, script'[u] = script[u], at'[u] = at[u],
         said'[u] = said[u], warm'[u] = warm[u], pc'[u] = pc[u]
  PROVE  Hears(u)'
BY DEF Heard, Hears

LEMMA ReadyNext ==
  ASSUME NEW s, NEW a \in Nat \ {0}, NEW w, Ready(s, a + 1, w)
  PROVE  Ready(s, a, w) \/ s[a].do \in Entering
<1>1. 1 .. (a + 1) - 1 = (1 .. a - 1) \cup {a}  OBVIOUS
<1> QED  BY <1>1 DEF Ready

LEMMA HearsPassing ==
  ASSUME Typed, Heard, NEW t \in Threads, at[t] \in 1 .. Len(script[t]),
         environment' = environment, script' = script, at'[t] = at[t] + 1,
         said'[t] = said[t], warm'[t] = warm[t], pc'[t] = "step", AllSet => AllSet',
         ~(Due(environment, script[t], at[t]) /\ Ready(script[t], at[t], warm[t])),
         Step(t).do \in Entering => AllSet'
  PROVE  Hears(t)'
<1>1. at[t] \in Nat \ {0}  BY TypedMeans
<1>2. Hears(t)  BY DEF Heard
<1>3. Told(environment, script[t], at[t] + 1, said[t], warm[t])
  BY <1>1, <1>2, ToldSkips DEF Hears
<1>4. Ready(script[t], at[t] + 1, warm[t]) => AllSet'
  BY <1>1, <1>2, ReadyNext DEF Hears, Step
<1> QED  BY <1>2, <1>3, <1>4 DEF Hears

LEMMA HearsStaying ==
  ASSUME Heard, NEW t \in Threads, UNCHANGED <<environment, script, said, warm>>,
         at'[t] = at[t], AllSet => AllSet',
         pc'[t] # "step" => Due(environment, script[t], at[t])
  PROVE  Hears(t)'
BY DEF Heard, Hears

LEMMA HearsSaying ==
  ASSUME Typed, Heard, NEW t \in Threads, TraceEnd(t)
  PROVE  Hears(t)'
<1>1. /\ pc[t] = "end" /\ script' = script /\ at' = [at EXCEPT ![t] = @ + 1]
      /\ pc' = [pc EXCEPT ![t] = "step"] /\ said' = [said EXCEPT ![t] = Append(@, at[t])]
      /\ warm' = warm /\ environment' = environment /\ levels' = levels
  BY DEF TraceEnd, Goto, Advance, flags
<1>2. at[t] \in Nat \ {0} /\ Step(t).do = "trace" /\ Hears(t)
  BY <1>1, TypedMeans DEF Heard
<1>3. Due(environment, script[t], at[t]) /\ AllSet => AllSet'
  BY <1>1, <1>2 DEF Hears, AllSet, Final
<1>4. Told(environment, script[t], at[t] + 1, Append(said[t], at[t]), warm[t])
  BY <1>1, <1>2, ToldSays DEF Hears
<1>5. Ready(script[t], at[t] + 1, warm[t]) => AllSet
  <2>1. Step(t).do \notin Entering  BY <1>2 DEF Entering
  <2> QED  BY <1>2, <2>1, ReadyNext DEF Hears, Step
<1>6. at'[t] = at[t] + 1 /\ pc'[t] = "step" /\ said'[t] = Append(said[t], at[t])
  <2>1. at'[t] = at[t] + 1 /\ pc'[t] = "step"  BY <1>1 DEF Typed
  <2>2. said'[t] = Append(said[t], at[t])  BY <1>1 DEF Heard
  <2> QED  BY <2>1, <2>2
<1> QED  BY <1>1, <1>2, <1>3, <1>4, <1>5, <1>6 DEF Hears

(* check_initialized goes on, or do_init takes the place of the step.      *)
LEMMA HearsEntering ==
  ASSUME Typed, Heard, NEW t \in Threads, Enter(t)
  PROVE  Hears(t)'
<1>1. /\ Doing(t, "enter") /\ pc' = pc /\ UNCHANGED <<flags, history>>
  BY DEF Enter
<1>2. /\ pc[t] = "step" /\ at[t] \in 1 .. Len(script[t]) /\ script[t] \in Seq(Steps)
      /\ Step(t).do = "enter" /\ Hears(t)
  BY <1>1, DoingMeans, TypedMeans DEF Heard
<1>3. AllSet => AllSet'  BY <1>1 DEF flags, history, AllSet, Final
<1>4. CASE initialized
  <2>1. Advance(t) /\ AllSet  BY <1>4 DEF Enter, Heard, Levelled
  <2>2. script' = script /\ at'[t] = at[t] + 1  BY <2>1 DEF Advance, Typed
  <2>3. ~Due(environment, script[t], at[t])  BY <1>2 DEF Due, Step
  <2> QED  BY <1>1, <1>2, <1>3, <2>1, <2>2, <2>3, HearsPassing DEF history
<1>5. CASE ~initialized
  <2> DEFINE s == script[t]
             a == at[t]
             r == Splice(s, a)
  <2>1. script' = [script EXCEPT ![t] = r] /\ at' = at /\ s \in Seq(Steps) /\ a \in 1 .. Len(s)
    BY <1>2, <1>5 DEF Enter, Splice
  <2>2. script'[t] = r  BY <2>1, Zenon DEF Typed
  <2>3. Ordered(r)  BY <1>2, <2>1, SpliceOrdered DEF Hears, Step
  <2>4. \A i \in 1 .. a - 1 : r[i] = s[i]  BY <2>1, Spliced
  <2>5. a \in Nat  BY TypedMeans
  <2> HIDE DEF r
  <2>6. Told(environment, r, a, said[t], warm[t])  BY <1>2, <2>4, <2>5, ToldSame DEF Hears
  <2>7. Ready(r, a, warm[t]) => AllSet'  BY <1>2, <1>3, <2>4, <2>5, ReadySame DEF Hears
  <2>8. at'[t] = a /\ pc'[t] = "step" /\ said' = said /\ warm' = warm
        /\ environment' = environment
    BY <1>1, <1>2, <2>1 DEF history
  <2> QED  BY <2>2, <2>3, <2>6, <2>7, <2>8 DEF Hears
<1> QED  BY <1>4, <1>5

LEMMA HearsCalling ==
  ASSUME Typed, Heard, NEW t \in Threads, Call(t)
  PROVE  Hears(t)'
<1>1. PICK c \in Calls : script' = [script EXCEPT ![t] = c]  BY DEF Call
<1>2. /\ at' = [at EXCEPT ![t] = 1] /\ said' = [said EXCEPT ![t] = <<>>]
      /\ warm' = [warm EXCEPT ![t] = initialized] /\ pc' = pc
      /\ environment' = environment /\ levels' = levels
  BY DEF Call, flags
<1>3. pc[t] = "step"  BY TypedMeans DEF Call, Idle
<1>4. script'[t] = c  BY <1>1, Zenon DEF Typed
<1>5. at'[t] = 1 /\ pc'[t] = "step"  BY <1>2, <1>3 DEF Typed
<1>6. said'[t] = <<>> /\ warm'[t] = initialized  BY <1>2, Zenon DEF Heard
<1>7. Ordered(c) /\ Told(environment, c, 1, <<>>, initialized)  BY CallOrdered, ToldNew
<1>8. Ready(c, 1, initialized) => AllSet'
  <2>1. 1 .. 1 - 1 = {}  OBVIOUS
  <2>2. Ready(c, 1, initialized) => initialized  BY <2>1 DEF Ready
  <2>3. initialized => AllSet  BY DEF Heard, Levelled
  <2> QED  BY <1>2, <2>2, <2>3 DEF AllSet, Final
<1> QED  BY <1>2, <1>4, <1>5, <1>6, <1>7, <1>8 DEF Hears

-----------------------------------------------------------------------------
(* Every step.                                                             *)

LEMMA OwnFrame ==
  ASSUME Typed, Heard, NEW t \in Threads, Call(t) \/ Run(t)
  PROVE  /\ environment' = environment
         /\ said' \in [Threads -> Seq(Nat)] /\ warm' \in [Threads -> BOOLEAN]
         /\ \A u \in Threads \ {t} :
              /\ script'[u] = script[u] /\ at'[u] = at[u] /\ pc'[u] = pc[u]
              /\ said'[u] = said[u] /\ warm'[u] = warm[u]
<1> USE DEF history, Typed, Heard
<1>1. CASE Call(t)
  <2>1. PICK c \in Calls : script' = [script EXCEPT ![t] = c]  BY <1>1 DEF Call
  <2>2. <<>> \in Seq(Nat)  OBVIOUS
  <2>3. /\ at' = [at EXCEPT ![t] = 1] /\ said' = [said EXCEPT ![t] = <<>>]
        /\ warm' = [warm EXCEPT ![t] = initialized] /\ pc' = pc
        /\ environment' = environment
    BY <1>1 DEF Call
  <2>4. warm' \in [Threads -> BOOLEAN] /\ said' \in [Threads -> Seq(Nat)]
    BY <2>2, <2>3, Zenon
  <2>5. \A u \in Threads \ {t} : script'[u] = script[u]  BY <2>1
  <2>6. \A u \in Threads \ {t} : warm'[u] = warm[u]  BY <2>3
  <2> QED  BY <2>3, <2>4, <2>5, <2>6
<1>2. CASE Enter(t)
  <2>1. script' = script \/ \E r : script' = [script EXCEPT ![t] = r]
    BY <1>2 DEF Enter, Advance
  <2>2. at' = at \/ at' = [at EXCEPT ![t] = @ + 1]  BY <1>2 DEF Enter, Advance
  <2>3. UNCHANGED <<environment, said, warm, pc>>  BY <1>2 DEF Enter
  <2> QED  BY <2>1, <2>2, <2>3
<1>3. CASE TraceInit(t) \/ Initialized(t) \/ Lock(t) \/ Unlock(t)
  <2>1. UNCHANGED <<environment, said, warm, pc, script>>
    BY <1>3 DEF TraceInit, TraceInitNext, Initialized, Lock, Unlock, Advance
  <2>2. at' = at \/ at' = [at EXCEPT ![t] = @ + 1]
    BY <1>3 DEF TraceInit, TraceInitNext, Initialized, Lock, Unlock, Advance
  <2> QED  BY <2>1, <2>2
<1>4. CASE \/ Test(t) \/ TraceStart(t) \/ TraceFormat(t) \/ TracePut(t) \/ TraceNewline(t)
  <2>1. UNCHANGED <<environment, said, warm, script>>
    BY <1>4 DEF Test, TraceStart, TraceFormat, TracePut, TraceNewline, Advance
  <2>2. at' = at \/ at' = [at EXCEPT ![t] = @ + 1]
    BY <1>4 DEF Test, TraceStart, TraceFormat, TracePut, TraceNewline, Advance
  <2>3. pc' = pc \/ \E l : pc' = [pc EXCEPT ![t] = l]
    BY <1>4 DEF Test, TraceStart, TraceFormat, TracePut, TraceNewline, Goto
  <2> QED  BY <2>1, <2>2, <2>3
<1>5. CASE TraceEnd(t)
  <2>1. /\ script' = script /\ at' = [at EXCEPT ![t] = @ + 1] /\ warm' = warm
        /\ pc' = [pc EXCEPT ![t] = "step"] /\ said' = [said EXCEPT ![t] = Append(@, at[t])]
        /\ environment' = environment
    BY <1>5 DEF TraceEnd, Goto, Advance
  <2>2. Append(said[t], at[t]) \in Seq(Nat)  OBVIOUS
  <2>3. said' \in [Threads -> Seq(Nat)]  BY <2>1, <2>2, Zenon
  <2>4. \A u \in Threads \ {t} : said'[u] = said[u]  BY <2>1
  <2> QED  BY <2>1, <2>3, <2>4
<1> QED  BY <1>1, <1>2, <1>3, <1>4, <1>5 DEF Run

LEMMA RunHears ==
  ASSUME Typed, Heard, NEW t \in Threads, Run(t)
  PROVE  Levelled' /\ (AllSet => AllSet') /\ Hears(t)'
<1> DEFINE s == script[t]
           a == at[t]
<1>0. /\ Levelled /\ Hears(t) /\ Ordered(s)
      /\ s \in Seq(Steps) /\ a \in Nat
      /\ Ready(s, a, warm[t]) => AllSet
  BY TypedMeans DEF Heard, Hears
<1>1. CASE Enter(t)
  <2>1. Levelled' /\ (AllSet => AllSet')
    BY <1>0, <1>1, LevelsSame DEF Enter, history
  <2> QED  BY <1>1, <2>1, HearsEntering
<1>2. CASE TraceInit(t)
  <2>1. Levelled' /\ (AllSet => AllSet') /\ (class[t] = 4 => AllSet')
    BY <1>0, <1>2, LevelsSet
  <2>2. /\ Doing(t, "trace_init") /\ pc' = pc /\ UNCHANGED <<environment, said, warm>>
        /\ IF class[t] = 4 THEN Advance(t) ELSE script' = script /\ at' = at
    BY <1>2, FourClasses DEF TraceInit, TraceInitNext, history
  <2>3. pc[t] = "step" /\ a \in 1 .. Len(s) /\ Step(t).do = "trace_init"  BY <2>2, DoingMeans
  <2>4. CASE class[t] = 4
    <3>1. script' = script /\ at'[t] = a + 1  BY <2>2, <2>4 DEF Advance, Typed
    <3>2. ~Due(environment, s, a)  BY <2>3 DEF Due, Step
    <3>3. Hears(t)'  BY <2>1, <2>2, <2>3, <2>4, <3>1, <3>2, HearsPassing
    <3> QED  BY <2>1, <3>3
  <2>5. CASE class[t] # 4
    <3>1. Hears(t)'  BY <2>1, <2>2, <2>3, <2>5, HearsStaying
    <3> QED  BY <2>1, <3>1
  <2> QED  BY <2>4, <2>5
<1>3. CASE Initialized(t)
  <2>1. /\ Doing(t, "initialized") /\ Advance(t) /\ initialized' = TRUE
        /\ UNCHANGED <<levels, class, environment, said, warm, pc>>
    BY <1>3 DEF Initialized, history
  <2>2. pc[t] = "step" /\ a \in 1 .. Len(s) /\ Step(t).do = "initialized"  BY <2>1, DoingMeans
  <2>3. AllSet
    <3>1. PICK e \in 1 .. a - 1 : s[e].do = "trace_init"  BY <1>0, <2>2 DEF Ordered, Step
    <3>2. Ready(s, a, warm[t])  BY <3>1 DEF Ready, Entering
    <3> QED  BY <1>0, <3>2
  <2>4. AllSet'  BY <2>1, <2>3 DEF AllSet, Final
  <2>5. Levelled'  BY <1>0, <2>1, <2>4 DEF Levelled, Final
  <2>6. script' = script /\ at'[t] = a + 1  BY <2>1 DEF Advance, Typed
  <2>7. ~Due(environment, s, a)  BY <2>2 DEF Due, Step
  <2>8. Hears(t)'  BY <2>1, <2>2, <2>4, <2>6, <2>7, HearsPassing
  <2> QED  BY <2>4, <2>5, <2>8
<1>4. ASSUME UNCHANGED <<environment, flags>> PROVE Levelled' /\ (AllSet => AllSet')
  BY <1>0, <1>4, LevelsSame
<1>5. CASE Lock(t) \/ Unlock(t)
  <2>1. PICK d \in {"lock", "unlock"} : /\ Doing(t, d) /\ Advance(t)
                                        /\ UNCHANGED <<environment, flags, said, warm, pc>>
    BY <1>5 DEF Lock, Unlock, history
  <2>2. pc[t] = "step" /\ a \in 1 .. Len(s) /\ Step(t).do = d  BY <2>1, DoingMeans
  <2>3. script' = script /\ at'[t] = a + 1  BY <2>1 DEF Advance, Typed
  <2>4. ~Due(environment, s, a) /\ Step(t).do \notin Entering
    BY <2>2 DEF Due, Step, Entering
  <2>5. Levelled' /\ (AllSet => AllSet')  BY <1>4, <2>1
  <2>6. Hears(t)'  BY <2>1, <2>2, <2>3, <2>4, <2>5, HearsPassing
  <2> QED  BY <2>5, <2>6
<1>6. CASE Test(t)
  <2> DEFINE on == Enabled(levels[Step(t).class], Step(t).level)
  <2>1. /\ Doing(t, "trace") /\ UNCHANGED <<environment, flags, said, warm>>
        /\ IF on THEN Goto(t, "start") /\ script' = script /\ at' = at
                 ELSE Advance(t) /\ pc' = pc
    BY <1>6 DEF Test, history
  <2>2. pc[t] = "step" /\ a \in 1 .. Len(s) /\ Step(t).do = "trace"  BY <2>1, DoingMeans
  <2>3. s[a].do = "trace" /\ s[a].level > 0  BY <1>0, <2>2 DEF Ordered, Step
  <2>4. /\ on => Due(environment, s, a)
        /\ AllSet /\ Due(environment, s, a) => on
    BY <1>0, <2>2, <2>3, EnabledIsDue DEF Step
  <2>5. Levelled' /\ (AllSet => AllSet')  BY <1>4, <2>1
  <2> HIDE DEF on
  <2>6. CASE on
    <3>1. Hears(t)'  BY <2>1, <2>4, <2>5, <2>6, HearsStaying
    <3> QED  BY <2>5, <3>1
  <2>7. CASE ~on
    <3>1. script' = script /\ at'[t] = a + 1  BY <2>1, <2>7 DEF Advance, Typed
    <3>2. ~(Due(environment, s, a) /\ Ready(s, a, warm[t]))  BY <1>0, <2>4, <2>7
    <3>3. Step(t).do \notin Entering  BY <2>2 DEF Entering
    <3>4. Hears(t)'  BY <2>1, <2>2, <2>5, <2>7, <3>1, <3>2, <3>3, HearsPassing
    <3> QED  BY <2>5, <3>4
  <2> QED  BY <2>6, <2>7
<1>7. CASE TraceStart(t) \/ TraceFormat(t) \/ TracePut(t) \/ TraceNewline(t)
  <2>1. pc[t] # "step" /\ UNCHANGED <<environment, flags, script, at, said, warm>>
    BY <1>7 DEF TraceStart, TraceFormat, TracePut, TraceNewline, history
  <2>2. Levelled' /\ (AllSet => AllSet')  BY <1>4, <2>1
  <2>3. Due(environment, s, a)  BY <1>0, <2>1 DEF Hears
  <2>4. Hears(t)'  BY <2>1, <2>2, <2>3, HearsStaying
  <2> QED  BY <2>2, <2>4
<1>8. CASE TraceEnd(t)
  <2>1. UNCHANGED <<environment, flags>>  BY <1>8 DEF TraceEnd
  <2> QED  BY <1>4, <1>8, <2>1, HearsSaying
<1> QED  BY <1>1, <1>2, <1>3, <1>5, <1>6, <1>7, <1>8 DEF Run

LEMMA HeardInit == Init => Heard
<1> SUFFICES ASSUME Init PROVE Heard  OBVIOUS
<1>1. <<>> \in Seq(Nat) /\ Len(<<>>) = 0 /\ 1 .. 0 = {} /\ 1 .. 1 - 1 = {}  OBVIOUS
<1>2. Levelled
  <2>1. \A c \in Classes : levels[c] = 0  BY DEF Init
  <2>2. ~initialized /\ \A t \in Threads : class[t] = 1  BY DEF Init
  <2> QED  BY <1>1, <2>1, <2>2 DEF Levelled
<1>3. ASSUME NEW t \in Threads PROVE Hears(t)
  <2>1. script[t] = <<>> /\ at[t] = 1 /\ pc[t] = "step" /\ said[t] = <<>>  BY DEF Init
  <2>2. warm[t] = FALSE  BY DEF Init
  <2>3. Ordered(<<>>) /\ ~Ready(<<>>, 1, FALSE)  BY <1>1 DEF Ordered, Ready
  <2> QED  BY <2>1, <2>2, <2>3, ToldNew DEF Hears
<1>4. said \in [Threads -> Seq(Nat)]  BY <1>1 DEF Init
<1>5. warm \in [Threads -> BOOLEAN]  BY Zenon DEF Init
<1> QED  BY <1>2, <1>3, <1>4, <1>5 DEF Heard

LEMMA HeardNext == Lines /\ Heard /\ [Next]_vars => Heard'
<1> SUFFICES ASSUME Typed, Heard, [Next]_vars PROVE Heard'  BY DEF Lines
<1>1. ASSUME NEW t \in Threads, Call(t) \/ Run(t) PROVE Heard'
  <2>1. Levelled' /\ (AllSet => AllSet') /\ Hears(t)'
    <3>1. CASE Call(t)
      <4>1. UNCHANGED <<environment, flags>>  BY <3>1 DEF Call
      <4>2. Levelled' /\ (AllSet => AllSet')  BY <4>1, LevelsSame DEF Heard
      <4> QED  BY <3>1, <4>2, HearsCalling
    <3>2. CASE Run(t)  BY <3>2, RunHears
    <3> QED  BY <1>1, <3>1, <3>2
  <2>2. /\ environment' = environment
        /\ said' \in [Threads -> Seq(Nat)] /\ warm' \in [Threads -> BOOLEAN]
        /\ \A u \in Threads \ {t} :
             /\ script'[u] = script[u] /\ at'[u] = at[u] /\ pc'[u] = pc[u]
             /\ said'[u] = said[u] /\ warm'[u] = warm[u]
    BY <1>1, OwnFrame
  <2>3. ASSUME NEW u \in Threads PROVE Hears(u)'
    <3>1. CASE u = t  BY <2>1, <3>1
    <3>2. CASE u # t  BY <2>1, <2>2, <3>2, OthersHear
    <3> QED  BY <3>1, <3>2
  <2> QED  BY <2>1, <2>2, <2>3 DEF Heard
<1>2. CASE UNCHANGED vars
  <2>1. Levelled' /\ (AllSet => AllSet')  BY <1>2, LevelsSame DEF Heard, vars, flags
  <2>2. ASSUME NEW u \in Threads PROVE Hears(u)'
    BY <1>2, <2>1, HearsStaying DEF vars, Heard, Hears
  <2> QED  BY <1>2, <2>1, <2>2 DEF vars, Heard
<1> QED  BY <1>1, <1>2 DEF Next, Finished

(* A call prints the traces that the environment enables, each once and in *)
(* the order of the code, from the point where memtraq is known to be      *)
(* initialised: the levels of the classes are set one by one and without a *)
(* lock, by every thread that finds memtraq cold, but only to what they    *)
(* are to be, and do_init sets them all before it sets its flag.           *)
THEOREM TracesComplete == Spec => []SaysAll
<1>1. Lines /\ Heard => SaysAll
  <2> SUFFICES ASSUME Typed, Heard, NEW t \in Threads, Idle(t)
               PROVE  LET steps == DOMAIN script[t]
                          enters == {i \in steps : script[t][i].do \in {"enter", "trace_init"}}
                          due == {i \in steps :
                                    /\ script[t][i].do = "trace"
                                    /\ environment[script[t][i].class] \in Int
                                    /\ environment[script[t][i].class] >= script[t][i].level}
                          certain == {i \in due : warm[t] \/ \E e \in enters : e < i}
                      IN /\ certain \subseteq ToSet(said[t]) /\ ToSet(said[t]) \subseteq due
                         /\ \A i \in 2..Len(said[t]) : said[t][i - 1] < said[t][i]
    BY DEF Lines, SaysAll
  <2> DEFINE s == script[t]
             u == said[t]
             n == Len(s)
             due == {i \in 1 .. n : Due(environment, s, i)}
             enters == {i \in 1 .. n : s[i].do \in Entering}
             certain == {i \in due : warm[t] \/ \E e \in enters : e < i}
  <2>1. n \in Nat /\ DOMAIN s = 1 .. n /\ at[t] - 1 = n
    BY TypedMeans DEF Idle
  <2>2. /\ u \in Seq(Nat)
        /\ \A k \in 1 .. Len(u) : u[k] \in 1 .. n /\ Due(environment, s, u[k])
        /\ \A k \in 2 .. Len(u) : u[k - 1] < u[k]
        /\ \A i \in 1 .. n :
             Due(environment, s, i) /\ Ready(s, i, warm[t]) => \E k \in 1 .. Len(u) : u[k] = i
    BY <2>1 DEF Heard, Hears, Told
  <2>3. ToSet(u) = {u[k] : k \in 1 .. Len(u)}  BY <2>2, LenProperties DEF ToSet
  <2>4. ToSet(u) \subseteq due  BY <2>2, <2>3
  <2>5. certain \subseteq ToSet(u)
    <3> SUFFICES ASSUME NEW i \in due, warm[t] \/ \E e \in enters : e < i
                 PROVE  i \in ToSet(u)
      OBVIOUS
    <3>1. i \in 1 .. n /\ Due(environment, s, i)  OBVIOUS
    <3>2. Ready(s, i, warm[t])
      <4>1. CASE warm[t]  BY <4>1 DEF Ready
      <4>2. CASE \E e \in enters : e < i
        <5>1. PICK e \in enters : e < i  BY <4>2
        <5>2. e \in 1 .. i - 1 /\ s[e].do \in Entering  BY <3>1, <5>1
        <5> QED  BY <5>2 DEF Ready
      <4> QED  BY <4>1, <4>2
    <3> QED  BY <2>2, <2>3, <3>1, <3>2
  <2> QED  BY <2>1, <2>2, <2>4, <2>5 DEF Due, Entering
<1> QED  BY <1>1, LinesInvariant, HeardInit, HeardNext, PTL DEF Spec
=============================================================================
