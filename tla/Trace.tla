------------------------------- MODULE Trace -------------------------------
(***************************************************************************)
(* trace.c, trace.h and the traces of hooks.cpp, memtraq.c and lmm.c: what *)
(* TRACE1 to TRACE4 do with the level of their class, the recursive lock   *)
(* and the one buffer that all of them share, and what reaches stderr.     *)
(*                                                                         *)
(* A call of the application is a script, the traces that it passes in the *)
(* order of the code with what matters between them: where it initialises  *)
(* memtraq and where it holds the mutex of lmm.c.  A trace prints a header *)
(* and a body; their text is who printed it, of which trace.  log_lock is  *)
(* left out: no trace is passed with it held.                              *)
(***************************************************************************)
EXTENDS Integers, Sequences, SequencesExt

CONSTANTS
  Threads,
  Nobody,        \* owner of a lock that is free
  Unset,         \* a variable of the environment that is not there
  Environments,  \* what MEMTRAQ_TRACE_<class> may be, for every class
  Calls,         \* the scripts of the application's calls, put together below
  MaxCalls       \* bound on them

trace_classes == <<"HOOKS", "LMM", "MEMTRAQ", "MISC">>
Classes == {trace_classes[i] : i \in DOMAIN trace_classes}

ASSUME ThreadsAssumption == Threads # {} /\ Nobody \notin Threads /\ MaxCalls \in Nat
ASSUME EnvironmentAssumption ==
  /\ Unset \notin Int
  /\ Environments \subseteq [Classes -> Int \cup {Unset}]
ASSUME CallsAssumption == \A c \in Calls :
  /\ c \in Seq([do : {"trace", "enter", "lock", "unlock"}, level : 0 .. 4, class : Classes])
  /\ \A i \in DOMAIN c : c[i].do = "trace" => c[i].level > 0

VARIABLES
  environment,
  initialized,   \* memtraq.c's flag
  levels,        \* __TRACE_CLASS_<class>
  trace_lock,    \* recursive: its owner, and how often it has it
  trace_buf,
  stderr,        \* what has been written since the last trace ended
  lock,          \* owner of the mutex of lmm.c
  script, at,    \* of each thread: its call, and the step it has reached
  pc,            \* where it is in that step
  class,         \* p_trace_class in trace_init
  said,          \* history: the steps at which its call has printed
  warm,          \* history: was memtraq initialised when its call began
  calls

vars == <<environment, initialized, levels, trace_lock, trace_buf, stderr, lock,
          script, at, pc, class, said, warm, calls>>
flags == <<initialized, levels, class>>
history == <<environment, said, warm, calls>>
progress == <<script, at, pc>>

-----------------------------------------------------------------------------
(* The scripts.                                                            *)
TRACE(n, c) == [do |-> "trace", level |-> n, class |-> c]
Do(what)    == [do |-> what, level |-> 0, class |-> "MISC"]
Frame(c, body) == <<TRACE(3, c)>> \o body \o <<TRACE(3, c)>>

\* The first free block is large enough.
lmm_alloc ==
  <<TRACE(3, "LMM"), Do("lock"), TRACE(4, "LMM")>>
    \o Frame("LMM", <<TRACE(4, "LMM"), TRACE(4, "LMM")>>)
    \o <<TRACE(4, "LMM"), TRACE(4, "LMM"), Do("unlock"), TRACE(3, "LMM")>>
lmm_free == Frame("LMM", <<Do("lock"), TRACE(4, "LMM"), Do("unlock")>>)
lmm_valid == Frame("LMM", <<>>)

do_malloc(body)  == Frame("MEMTRAQ", <<Do("enter")>> \o body)
do_free(body)    == Frame("MEMTRAQ", <<Do("enter")>> \o lmm_valid \o body)
do_realloc(body) == lmm_valid \o Frame("MEMTRAQ", <<Do("enter")>> \o body)

malloc(body)  == Frame("HOOKS", do_malloc(body))
free(body)    == Frame("HOOKS", do_free(body))
realloc(body) == Frame("HOOKS", do_realloc(body))

\* do_init: trace_init and a trace of its own, before initialized is set.
do_init == <<Do("trace_init"), TRACE(3, "MEMTRAQ"), Do("initialized")>>

-----------------------------------------------------------------------------
Init ==
  /\ environment \in Environments
  /\ initialized = FALSE
  /\ levels = [c \in Classes |-> 0]
  /\ trace_lock = [owner |-> Nobody, depth |-> 0]
  /\ trace_buf = <<>> /\ stderr = <<>> /\ lock = Nobody
  /\ script = [t \in Threads |-> <<>>] /\ at = [t \in Threads |-> 1]
  /\ pc = [t \in Threads |-> "step"] /\ class = [t \in Threads |-> 1]
  /\ said = [t \in Threads |-> <<>>] /\ warm = [t \in Threads |-> FALSE] /\ calls = 0

Idle(t) == at[t] > Len(script[t])
Step(t) == script[t][at[t]]
Doing(t, what) == pc[t] = "step" /\ ~Idle(t) /\ Step(t).do = what
Advance(t) == at' = [at EXCEPT ![t] = @ + 1] /\ UNCHANGED script
Goto(t, l) == pc' = [pc EXCEPT ![t] = l]

Call(t) ==
  /\ Idle(t) /\ calls < MaxCalls
  /\ \E c \in Calls : script' = [script EXCEPT ![t] = c]
  /\ at' = [at EXCEPT ![t] = 1]
  /\ said' = [said EXCEPT ![t] = <<>>]
  /\ warm' = [warm EXCEPT ![t] = initialized]
  /\ calls' = calls + 1
  /\ UNCHANGED <<environment, flags, trace_lock, trace_buf, stderr, lock, pc>>

(* check_initialized.                                                      *)
Enter(t) ==
  /\ Doing(t, "enter")
  /\ IF initialized THEN Advance(t)
     ELSE /\ script' = [script EXCEPT ![t] =
                          SubSeq(@, 1, at[t] - 1) \o do_init \o SubSeq(@, at[t] + 1, Len(@))]
          /\ UNCHANGED at
  /\ UNCHANGED <<flags, trace_lock, trace_buf, stderr, lock, pc, history>>

(* trace_init, one class after the other.                                  *)
Setting_Always(c) == environment[c]
Setting(c) == IF environment[c] = Unset THEN levels[c] ELSE environment[c]

TraceInitNext_Around(t) ==
  /\ class' = [class EXCEPT ![t] = (@ % Len(trace_classes)) + 1]
  /\ UNCHANGED <<script, at>>
TraceInitNext(t) ==
  /\ class' = [class EXCEPT ![t] = (@ % Len(trace_classes)) + 1]
  /\ IF class[t] = Len(trace_classes) THEN Advance(t) ELSE UNCHANGED <<script, at>>

TraceInit(t) ==
  /\ Doing(t, "trace_init")
  /\ LET c == trace_classes[class[t]] IN levels' = [levels EXCEPT ![c] = Setting(c)]
  /\ TraceInitNext(t)
  /\ UNCHANGED <<initialized, trace_lock, trace_buf, stderr, lock, pc, history>>

Initialized(t) ==
  /\ Doing(t, "initialized")
  /\ initialized' = TRUE
  /\ Advance(t)
  /\ UNCHANGED <<levels, class, trace_lock, trace_buf, stderr, lock, pc, history>>

(* pthread_mutex_lock and _unlock on the mutex of lmm.c.                   *)
Lock(t) ==
  /\ Doing(t, "lock")
  /\ lock = Nobody
  /\ lock' = t
  /\ Advance(t)
  /\ UNCHANGED <<flags, trace_lock, trace_buf, stderr, pc, history>>

Unlock(t) ==
  /\ Doing(t, "unlock")
  /\ lock' = Nobody
  /\ Advance(t)
  /\ UNCHANGED <<flags, trace_lock, trace_buf, stderr, pc, history>>

-----------------------------------------------------------------------------
(* TRACE1 to TRACE4: the level is read once, without a lock.               *)
Enabled_Above(level, n) == level > n
Enabled(level, n) == level >= n

Test(t) ==
  /\ Doing(t, "trace")
  /\ IF Enabled(levels[Step(t).class], Step(t).level)
     THEN Goto(t, "start") /\ UNCHANGED <<script, at>>
     ELSE Advance(t) /\ UNCHANGED pc
  /\ UNCHANGED <<flags, trace_lock, trace_buf, stderr, lock, history>>

TraceStart_Unlocked(t) ==
  /\ pc[t] = "start"
  /\ Goto(t, "header")
  /\ UNCHANGED <<flags, trace_lock, trace_buf, stderr, lock, script, at, history>>

TraceStart(t) ==
  /\ pc[t] = "start"
  /\ trace_lock.owner \in {Nobody, t}
  /\ trace_lock' = [owner |-> t, depth |-> trace_lock.depth + 1]
  /\ Goto(t, "header")
  /\ UNCHANGED <<flags, trace_buf, stderr, lock, script, at, history>>

(* trace (): mt_vsnprintf into the buffer, then fputs from it; stderr has  *)
(* no buffer of its own and fputs does not allocate.                       *)
Text(t, part) == <<t, at[t], part>>
Paragraph(t) == <<Text(t, "header"), Text(t, "body")>>

TraceFormat(t) ==
  /\ pc[t] \in {"header", "body"}
  /\ trace_buf' = Text(t, pc[t])
  /\ Goto(t, IF pc[t] = "header" THEN "put header" ELSE "put body")
  /\ UNCHANGED <<flags, trace_lock, stderr, lock, script, at, history>>

TracePut(t) ==
  /\ pc[t] \in {"put header", "put body"}
  /\ stderr' = Append(stderr, trace_buf)
  /\ Goto(t, IF pc[t] = "put header" THEN "body" ELSE "newline")
  /\ UNCHANGED <<flags, trace_lock, trace_buf, lock, script, at, history>>

(* trace_end.                                                              *)
TraceNewline(t) ==
  /\ pc[t] = "newline"
  /\ stderr' = <<>>
  /\ Goto(t, "end")
  /\ UNCHANGED <<flags, trace_lock, trace_buf, lock, script, at, history>>

TraceEnd(t) ==
  /\ pc[t] = "end"
  /\ trace_lock' = [owner |-> IF trace_lock.depth > 1 THEN t ELSE Nobody,
                    depth |-> trace_lock.depth - 1]
  /\ said' = [said EXCEPT ![t] = Append(@, at[t])]
  /\ Goto(t, "step") /\ Advance(t)
  /\ UNCHANGED <<flags, trace_buf, stderr, lock, environment, warm, calls>>

-----------------------------------------------------------------------------
Run(t) ==
  \/ Enter(t) \/ TraceInit(t) \/ Initialized(t) \/ Lock(t) \/ Unlock(t)
  \/ Test(t) \/ TraceStart(t) \/ TraceFormat(t) \/ TracePut(t)
  \/ TraceNewline(t) \/ TraceEnd(t)

\* The application may stop when no call is in progress.
Finished == (\A t \in Threads : Idle(t)) /\ UNCHANGED vars

Next == (\E t \in Threads : Call(t) \/ Run(t)) \/ Finished

Spec == Init /\ [][Next]_vars
FairSpec == Spec /\ \A t \in Threads : WF_vars(Run(t))

-----------------------------------------------------------------------------
TypeOK ==
  /\ levels \in [Classes -> Int] /\ initialized \in BOOLEAN
  /\ trace_lock.owner \in Threads \cup {Nobody} /\ lock \in Threads \cup {Nobody}
  /\ trace_lock.depth \in Nat /\ (trace_lock.depth = 0 <=> trace_lock.owner = Nobody)
  /\ \A t \in Threads : at[t] \in 1 .. Len(script[t]) + 1

(* What a reader of stderr finds is whole: a header is followed by its own *)
(* body and nothing of another thread comes between them or before the     *)
(* newline, and what fputs prints is what was formatted for this trace,    *)
(* although all threads format into the same buffer.                       *)
LinesWhole ==
  /\ \E t \in Threads : IsPrefix(stderr, Paragraph(t))
  /\ \A t \in Threads : pc[t] = "newline" => stderr = Paragraph(t)

(* A call prints the traces that the environment enables, in the order of  *)
(* the code and each of them once.  A call that found memtraq without its  *)
(* levels does so from the point where it initialises memtraq, or finds it *)
(* initialised; of its earlier traces it may have printed some or none.    *)
SaysAll ==
  \A t \in Threads : Idle(t) =>
    LET steps == DOMAIN script[t]
        enters == {i \in steps : script[t][i].do \in {"enter", "trace_init"}}
        due == {i \in steps : /\ script[t][i].do = "trace"
                              /\ environment[script[t][i].class] \in Int
                              /\ environment[script[t][i].class] >= script[t][i].level}
        certain == {i \in due : warm[t] \/ \E e \in enters : e < i}
    IN /\ certain \subseteq ToSet(said[t]) /\ ToSet(said[t]) \subseteq due
       /\ \A i \in 2..Len(said[t]) : said[t][i - 1] < said[t][i]

(* Every call returns, although it takes the lock of the traces with the   *)
(* mutex of lmm.c in its hands.                                            *)
CallsReturn == \A t \in Threads : ~Idle(t) ~> Idle(t)
=============================================================================
