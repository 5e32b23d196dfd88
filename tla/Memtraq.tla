------------------------------ MODULE Memtraq -------------------------------
(***************************************************************************)
(* memtraq.c and hooks.cpp: the wrappers that serve malloc, free, realloc  *)
(* and the C++ operators, keep the nesting level of each thread, choose    *)
(* the heap that serves a request, initialise memtraq on first use and     *)
(* write one record per outer operation to the log.                        *)
(*                                                                         *)
(* A thread is a stack of calls in progress, the innermost first: libc     *)
(* code that runs inside a wrapper (backtrace, fopen, fwrite) may call the *)
(* hooked functions again.  Sizes, timestamps and backtraces are left out; *)
(* a record is what happened, to which pointers, and who wrote it, and its *)
(* serial is its position.  Module Lmm has the internal pool in detail;    *)
(* here it is a set of blocks that a call takes one of or gives one back.  *)
(***************************************************************************)
EXTENDS Integers, Sequences, FiniteSets, SequencesExt

CONSTANTS
  Threads,        \* the threads of the application
  Cold,           \* those that run before memtraq has initialised itself
  NoThread,       \* owner of log_lock when it is free
  NULL,           \* the null pointer
  Heap,           \* addresses the C library hands out
  Pool,           \* addresses the internal pool hands out
  StdioMallocs,   \* the calls on the log file that allocate memory
  BacktraceFree,  \* MEMTRAQ_BACKTRACE_FREE
  StartEnabled,   \* FALSE when MEMTRAQ_ENABLED is 0
  InnerSteals,    \* do inner calls also release blocks of the C library
  MaxCalls,       \* bound on the calls of the application
  MaxInner        \* bound on the calls made by backtrace ()

ASSUME ThreadsAssumption  == Cold \subseteq Threads /\ NoThread \notin Threads
ASSUME AddressAssumption  == NULL \notin Heap \cup Pool /\ Heap \cap Pool = {}
ASSUME SettingsAssumption == /\ StdioMallocs \subseteq {"fopen", "fwrite"}
                             /\ {BacktraceFree, StartEnabled, InnerSteals} \subseteq BOOLEAN
ASSUME BoundsAssumption   == MaxCalls \in Nat /\ MaxInner \in Nat

VARIABLES
  initialized, enabled,   \* the flags of the same names
  level,                  \* nested_level_key's value in each thread
  lock,                   \* owner of log_lock
  log,                    \* the records written so far
  heap, pool,             \* the blocks in use, by allocator
  owned,                  \* the pointers the callers hold
  stack,                  \* each thread's calls in progress, innermost first
  switch,                 \* history: the last of memtraq_enable and _disable
  stolen,                 \* history: has an inner call taken a block of the C library
  calls, inner            \* calls made so far, for the bounds

vars == <<initialized, enabled, level, lock, log, heap, pool, owned, stack,
          switch, stolen, calls, inner>>

heaps  == <<heap, pool>>
bounds == <<switch, stolen, calls, inner>>

-----------------------------------------------------------------------------
Addresses == Heap \cup Pool \cup {NULL}
Ops       == {"malloc", "free", "realloc", "tag"}
InitPcs   == {"key", "fopen", "ready", "initlock", "initwrite"}
Entered   == {"body", "check", "backtrace", "write", "leave"}

Call(op, p, l) == [op |-> op, pc |-> l, p |-> p, q |-> NULL, level |-> 0]

Idle(t)  == stack[t] = <<>>
Top(t)   == stack[t][1]
At(t, l) == ~Idle(t) /\ Top(t).pc = l

Goto(t, l)       == stack' = [stack EXCEPT ![t][1].pc = l]
Result(t, q, l)  == stack' = [stack EXCEPT ![t][1].q = q, ![t][1].pc = l]

(* A library function moves on to l and, if it allocates, calls malloc.    *)
Library(t, name, l) ==
  stack' = [stack EXCEPT ![t] =
              (IF name \in StdioMallocs THEN <<Call("malloc", NULL, "enter")>> ELSE <<>>)
              \o <<[@[1] EXCEPT !.pc = l]>> \o Tail(@)]

Init ==
  /\ initialized = FALSE /\ enabled = FALSE
  /\ level = [t \in Threads |-> 0]
  /\ lock = NoThread /\ log = <<>>
  /\ heap = {} /\ pool = {} /\ owned = {}
  /\ stack = [t \in Threads |-> <<>>]
  /\ switch = "none" /\ stolen = FALSE /\ calls = 0 /\ inner = 0

-----------------------------------------------------------------------------
(* Calls.  malloc, calloc, new and realloc (0, s) are do_malloc; free,     *)
(* delete and realloc (p, 0) are do_free; a null pointer is not freed.     *)
(* A pointer is passed on by whoever holds it, and to one call at a time.  *)

Push(t, c) == stack' = [stack EXCEPT ![t] = <<c>> \o @]

FromApplication(t) ==
  /\ Idle(t)
  /\ t \in Cold \/ log # <<>>
  /\ calls < MaxCalls
  /\ calls' = calls + 1
  /\ UNCHANGED inner

FromBacktrace(t) ==
  /\ At(t, "backtrace")
  /\ inner < MaxInner
  /\ inner' = inner + 1
  /\ UNCHANGED calls

(* do_realloc hands a pointer of the pool to lmm_realloc before it enters. *)
lmm_valid(p) == p \in Pool

Start(t, op, p) ==
  /\ Push(t, Call(op, p, IF op = "realloc" /\ lmm_valid(p) THEN "lmm_realloc" ELSE "enter"))
  /\ owned' = owned \ {p}
  /\ UNCHANGED <<initialized, enabled, level, lock, log, heaps, switch>>

CallMalloc(t) ==
  /\ FromApplication(t) \/ FromBacktrace(t)
  /\ Start(t, "malloc", NULL)
  /\ UNCHANGED stolen

CallOn(t, op, p) ==
  /\ FromApplication(t) \/ (FromBacktrace(t) /\ (lmm_valid(p) \/ InnerSteals))
  /\ Start(t, op, p)
  /\ stolen' = (stolen \/ (~Idle(t) /\ ~lmm_valid(p)))

memtraq_tag(t) ==
  /\ FromApplication(t)
  /\ Start(t, "tag", NULL)
  /\ UNCHANGED stolen

(* memtraq_enable and memtraq_disable.                                     *)
SetEnabled(t, on) ==
  /\ FromApplication(t)
  /\ lock = NoThread
  /\ enabled' = on
  /\ switch' = IF on THEN "on" ELSE "off"
  /\ UNCHANGED <<initialized, level, lock, log, heaps, owned, stack, stolen>>

-----------------------------------------------------------------------------
(* enter, check_initialized and do_init.                                   *)

Enter(t) ==
  /\ At(t, "enter")
  /\ \/ /\ ~initialized
        /\ Goto(t, "key")
        /\ UNCHANGED level
     \/ /\ initialized
        /\ level' = [level EXCEPT ![t] = @ + 1]
        /\ stack' = [stack EXCEPT ![t][1].pc = "body", ![t][1].level = level[t] + 1]
  /\ UNCHANGED <<initialized, enabled, lock, log, heaps, owned, bounds>>

(* pthread_key_create: a new key, under which every other level reads 0.   *)
InitKey(t) ==
  /\ At(t, "key")
  /\ level' = [u \in Threads |-> IF u = t THEN 1 ELSE 0]
  /\ Goto(t, "fopen")
  /\ UNCHANGED <<initialized, enabled, lock, log, heaps, owned, bounds>>

InitFopen(t) ==
  /\ At(t, "fopen")
  /\ Library(t, "fopen", "ready")
  /\ UNCHANGED <<initialized, enabled, level, lock, log, heaps, owned, bounds>>

InitReady_LevelKept(t) ==
  /\ At(t, "ready")
  /\ initialized' = TRUE
  /\ Goto(t, "initlock")
  /\ UNCHANGED <<enabled, level, lock, log, heaps, owned, bounds>>

InitReady_Unset(t) ==
  /\ At(t, "ready")
  /\ level' = [level EXCEPT ![t] = 0]
  /\ Goto(t, "initlock")
  /\ UNCHANGED <<initialized, enabled, lock, log, heaps, owned, bounds>>

InitReady(t) ==
  /\ At(t, "ready")
  /\ level' = [level EXCEPT ![t] = 0]
  /\ initialized' = TRUE
  /\ Goto(t, "initlock")
  /\ UNCHANGED <<enabled, lock, log, heaps, owned, bounds>>

(* The first record goes through fwrite with log_lock held.                *)
InitLock(t) ==
  /\ At(t, "initlock")
  /\ lock = NoThread
  /\ lock' = t
  /\ enabled' = (enabled \/ StartEnabled)
  /\ Library(t, "fwrite", "initwrite")
  /\ UNCHANGED <<initialized, level, log, heaps, owned, bounds>>

InitRecord(t) == [ev |-> "init", by |-> t, p |-> NULL, q |-> NULL]

InitWrite(t) ==
  /\ At(t, "initwrite")
  /\ log' = Append(log, InitRecord(t))
  /\ lock' = NoThread
  /\ Goto(t, "enter")
  /\ UNCHANGED <<initialized, enabled, level, heaps, owned, bounds>>

-----------------------------------------------------------------------------
(* do_malloc, do_free, do_realloc: the operation itself.                   *)

Nested_Deeper(t) == Top(t).level > 2
Nested(t) == Top(t).level > 1

Malloc(t) ==
  /\ At(t, "body") /\ Top(t).op = "malloc"
  /\ \/ /\ Nested(t)
        /\ \E q \in (Pool \ pool) \cup {NULL} :
             /\ pool' = (pool \cup {q}) \ {NULL}
             /\ Result(t, q, "leave")
        /\ UNCHANGED heap
     \/ /\ ~Nested(t)
        /\ \E q \in (Heap \ heap) \cup {NULL} :
             /\ heap' = (heap \cup {q}) \ {NULL}
             /\ Result(t, q, "check")
        /\ UNCHANGED pool
  /\ UNCHANGED <<initialized, enabled, level, lock, log, owned, bounds>>

Free(t) ==
  /\ At(t, "body") /\ Top(t).op = "free"
  /\ heap' = heap \ {Top(t).p}
  /\ pool' = pool \ {Top(t).p}
  /\ Goto(t, IF lmm_valid(Top(t).p) THEN "leave" ELSE "check")
  /\ UNCHANGED <<initialized, enabled, level, lock, log, owned, bounds>>

(* __libc_realloc fails, resizes in place or moves the block.              *)
Realloc_NullMoves(t) ==
  LET p == Top(t).p
  IN /\ At(t, "body") /\ Top(t).op = "realloc"
     /\ \E q \in (Heap \ heap) \cup {NULL, p} :
          /\ heap' = (heap \ {p}) \cup {q}
          /\ Result(t, q, "check")
     /\ UNCHANGED <<initialized, enabled, level, lock, log, pool, owned, bounds>>

Realloc(t) ==
  LET p == Top(t).p
  IN /\ At(t, "body") /\ Top(t).op = "realloc"
     /\ \E q \in (Heap \ heap) \cup {NULL, p} :
          /\ heap' = IF q = NULL THEN heap ELSE (heap \ {p}) \cup {q}
          /\ Result(t, q, "check")
     /\ UNCHANGED <<initialized, enabled, level, lock, log, pool, owned, bounds>>

(* lmm_realloc frees the old block even when it found no new one.          *)
LmmRealloc(t) ==
  LET p == Top(t).p
  IN /\ At(t, "lmm_realloc")
     /\ \E q \in (Pool \ pool) \cup {NULL} :
          /\ pool'  = (pool \ {p}) \cup ({q} \ {NULL})
          /\ owned' = owned \cup ({q} \ {NULL})
     /\ stack' = [stack EXCEPT ![t] = Tail(@)]
     /\ UNCHANGED <<initialized, enabled, level, lock, log, heap, bounds>>

Tag(t) ==
  /\ At(t, "body") /\ Top(t).op = "tag"
  /\ Goto(t, "check")
  /\ UNCHANGED <<initialized, enabled, level, lock, log, heaps, owned, bounds>>

-----------------------------------------------------------------------------
(* Logging: enabled is read under log_lock, which is released while the    *)
(* backtrace is taken.                                                     *)

NeedsBacktrace(t) ==
  Top(t).op \in {"malloc", "realloc"} \cup IF BacktraceFree THEN {"free"} ELSE {}

Record_Swapped(t) == [ev |-> Top(t).op, by |-> t, p |-> Top(t).q, q |-> Top(t).p]
Record_NewTwice(t) ==
  LET q == Top(t).q
  IN [ev |-> Top(t).op, by |-> t, p |-> IF q = NULL THEN Top(t).p ELSE q, q |-> q]
Record(t) == [ev |-> Top(t).op, by |-> t, p |-> Top(t).p, q |-> Top(t).q]

Write(t) == log' = Append(log, Record(t))

Check(t) ==
  /\ At(t, "check")
  /\ lock = NoThread
  /\ \/ /\ ~enabled
        /\ Goto(t, "leave")
        /\ UNCHANGED log
     \/ /\ enabled /\ NeedsBacktrace(t)
        /\ Goto(t, "backtrace")
        /\ UNCHANGED log
     \/ /\ enabled /\ ~NeedsBacktrace(t)
        /\ Goto(t, "leave")
        /\ Write(t)
  /\ UNCHANGED <<initialized, enabled, level, lock, heaps, owned, bounds>>

Backtrace_Rechecked(t) ==
  /\ At(t, "backtrace")
  /\ Goto(t, "check")
  /\ UNCHANGED <<initialized, enabled, level, lock, log, heaps, owned, bounds>>

Backtrace(t) ==
  /\ At(t, "backtrace")
  /\ Goto(t, "write")
  /\ UNCHANGED <<initialized, enabled, level, lock, log, heaps, owned, bounds>>

LogWrite(t) ==
  /\ At(t, "write")
  /\ lock = NoThread
  /\ Write(t)
  /\ Goto(t, "leave")
  /\ UNCHANGED <<initialized, enabled, level, lock, heaps, owned, bounds>>

(* What the caller holds once the call returned: the result, or the old    *)
(* block when __libc_realloc failed.                                       *)
Returned_Result(c) == {c.q} \ {NULL}
Returned(c) ==
  IF c.op = "realloc" /\ c.q = NULL THEN {c.p} ELSE {c.q} \ {NULL}

(* leave: the assertion holds or the process is gone.                      *)
Leave(t) ==
  /\ At(t, "leave")
  /\ level[t] > 0
  /\ level' = [level EXCEPT ![t] = @ - 1]
  /\ owned' = owned \cup Returned(Top(t))
  /\ stack' = [stack EXCEPT ![t] = Tail(@)]
  /\ UNCHANGED <<initialized, enabled, lock, log, heaps, bounds>>

-----------------------------------------------------------------------------
Caller(t) ==
  \/ CallMalloc(t)
  \/ \E op \in {"free", "realloc"}, p \in owned : CallOn(t, op, p)
  \/ memtraq_tag(t)
  \/ \E on \in BOOLEAN : SetEnabled(t, on)

Step(t) ==
  \/ Enter(t)
  \/ InitKey(t) \/ InitFopen(t) \/ InitReady(t) \/ InitLock(t) \/ InitWrite(t)
  \/ Malloc(t) \/ Free(t) \/ Realloc(t) \/ LmmRealloc(t) \/ Tag(t)
  \/ Check(t) \/ Backtrace(t) \/ LogWrite(t)
  \/ Leave(t)

(* The application may stop when no call is in progress.                   *)
Finished == (\A t \in Threads : Idle(t)) /\ UNCHANGED vars

Next == (\E t \in Threads : Caller(t) \/ Step(t)) \/ Finished

Spec == Init /\ [][Next]_vars

FairSpec == Spec /\ \A t \in Threads : WF_vars(Step(t))

-----------------------------------------------------------------------------
(* Invariants.                                                             *)

Calls == [op : Ops, pc : {"enter", "lmm_realloc"} \cup InitPcs \cup Entered,
          p : Addresses, q : Addresses, level : Nat]
Records == [ev : Ops \cup {"init"}, by : Threads, p : Addresses, q : Addresses]

(* Every variable holds a value of its type.                               *)
TypeOK ==
  /\ {initialized, enabled} \subseteq BOOLEAN
  /\ level \in [Threads -> Nat]
  /\ lock \in Threads \cup {NoThread}
  /\ log \in Seq(Records)
  /\ heap \subseteq Heap /\ pool \subseteq Pool /\ owned \subseteq Heap \cup Pool
  /\ stack \in [Threads -> Seq(Calls)]
  /\ switch \in {"none", "on", "off"} /\ stolen \in BOOLEAN
  /\ calls \in 0 .. MaxCalls /\ inner \in 0 .. MaxInner

(* A thread's level counts the calls it has entered and not left, plus one *)
(* while do_init keeps it at 1: what enter and leave do always cancels.    *)
LevelsBalanced ==
  \A t \in Threads :
    LET in(pcs) == Cardinality({i \in DOMAIN stack[t] : stack[t][i].pc \in pcs})
    IN level[t] = in(Entered) + in({"fopen", "ready"})

(* A malloc made while a memory operation is in progress in the same       *)
(* thread is served by the internal pool, every other by the C library.    *)
InnerFromPool ==
  \A t \in Threads : \A i \in DOMAIN stack[t] :
    LET c == stack[t][i]
    IN c.op = "malloc" /\ c.q # NULL => (c.q \in Pool <=> i < Len(stack[t]))

(* What a call holds: its argument until the operation, its result after.  *)
InHand(c) ==
  IF c.pc \in {"enter", "body", "lmm_realloc"} \cup InitPcs THEN {c.p} \ {NULL}
  ELSE IF c.op = "free" THEN {}
  ELSE Returned(c)

InFlight == [t \in Threads |-> UNION {InHand(stack[t][i]) : i \in DOMAIN stack[t]}]

(* Every block in use in either heap is held by exactly one of: the        *)
(* callers, or one call in progress.  None is lost and none has two owners.*)
Conserved ==
  /\ heap \cup pool = owned \cup UNION {InFlight[t] : t \in Threads}
  /\ \A t \in Threads :
       /\ owned \cap InFlight[t] = {}
       /\ \A u \in Threads \ {t} : InFlight[u] \cap InFlight[t] = {}
       /\ \A i, j \in DOMAIN stack[t] :
            i # j => InHand(stack[t][i]) \cap InHand(stack[t][j]) = {}

(* memtraq announces itself once, in the first record.                     *)
OneInit == \A i \in DOMAIN log : log[i].ev = "init" <=> i = 1

-----------------------------------------------------------------------------
(* What a reader of the log can tell.                                      *)

Quiet == \A t \in Threads : Idle(t)

Moved(r) == r.ev = "realloc" /\ r.q # NULL

Times(Holds(_)) == Cardinality({i \in DOMAIN log : Holds(log[i])})

(* With logging enabled all along, whenever no call is in progress the     *)
(* records that gain an address outnumber those that lose it by one when   *)
(* the block is in use and by none when it is not, in whatever order the   *)
(* threads wrote them.                                                     *)
LogBalances ==
  Quiet /\ switch = "none" /\ StartEnabled =>
    \A a \in Heap :
      LET gains(r) == r.q = a /\ (r.ev = "malloc" \/ Moved(r))
          loses(r) == r.p = a /\ (r.ev = "free" \/ Moved(r))
      IN Times(gains) - Times(loses) = IF a \in heap THEN 1 ELSE 0

(* Reading the records in order.                                           *)
Replay(S, r) ==
  CASE r.ev = "malloc" -> S \cup ({r.q} \ {NULL})
    [] r.ev = "free"   -> S \ {r.p}
    [] Moved(r)        -> (S \ {r.p}) \cup {r.q}
    [] OTHER           -> S

(* With logging enabled all along, replaying the log in order yields the   *)
(* blocks in use whenever no call is in progress.                          *)
ReplayExact ==
  Quiet /\ switch = "none" /\ StartEnabled => FoldLeft(Replay, {}, log) = heap

(* So it does when one thread made all the calls and the inner ones left   *)
(* the blocks of the C library alone.                                      *)
SingleWriter ==
  /\ ~stolen
  /\ \A i, j \in DOMAIN log : "init" \in {log[i].ev, log[j].ev} \/ log[i].by = log[j].by

ReplayAlone == SingleWriter => ReplayExact

-----------------------------------------------------------------------------
(* leave () never finds the level at 0.                                    *)
AssertionHolds == \A t \in Threads : At(t, "leave") => level[t] > 0

Wrote(t) == Len(log') > Len(log) /\ log'[Len(log')].by = t /\ log'[Len(log')].ev # "init"

(* Allocations made inside a memory operation are not recorded: whoever    *)
(* writes the record of an allocation is inside no other operation.        *)
InnerUnrecorded ==
  [][\A t \in Threads : Wrote(t) /\ Top(t).op = "malloc" => level[t] = 1]_vars

(* Once the application disabled logging, no operation is recorded until   *)
(* it enables logging again.                                               *)
DisableLasts == [][\A t \in Threads : Wrote(t) => switch # "off"]_vars

(* Every call returns: nobody waits for log_lock for ever.                 *)
CallsReturn == \A t \in Threads : ~Idle(t) ~> Idle(t)
=============================================================================
