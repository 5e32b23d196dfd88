------------------------------ MODULE Pipeline ------------------------------
(***************************************************************************)
(* From the tracked program to the report: memtraq.c numbers a record for  *)
(* every operation while logging is enabled (log_write), the records go to *)
(* a file or, as datagrams, to udp-logger.pl, which stores what reaches it *)
(* in the order of arrival, and memtraq.pl reads them (module Analyzer).   *)
(*                                                                         *)
(* The program is sequential here: module Memtraq has the threads.         *)
(***************************************************************************)
EXTENDS Analyzer, Sequences, SequencesExt

CONSTANTS
  Udp,            \* MEMTRAQ_TARGET: records travel as datagrams
  FreeBacktraces, \* the callstacks logged for a free
  MaxOps,         \* bound on the operations of the program
  MaxInTransit,   \* bound on the records written and not yet read
  MaxFaults       \* bound on the kinds of fault in one behaviour

ASSUME UdpAssumption   == Udp \in BOOLEAN /\ FreeBacktraces \subseteq Backtraces \cup {NoBacktrace}
ASSUME BoundAssumption == {MaxOps, MaxInTransit, MaxFaults} \subseteq Nat

VARIABLES
  inuse,     \* the blocks the program holds
  ops,       \* operations so far, for the bound
  enabled,   \* memtraq's flag of this name
  serial,    \* the serial of the last record
  channel,   \* the records not yet read, in the order of arrival
  faults,    \* history: what kept the log from being the whole story
  seen,      \* history: the serials read
  story      \* history: the records read while tracking

program == <<inuse, ops, enabled>>
history == <<seen, story>>
vars == <<analyzer, program, serial, channel, faults, history>>

Record(e, p, q, s, b, g) ==
  [ev |-> e, ptr |-> p, new |-> q, size |-> s, bt |-> b, tag |-> g, serial |-> 0]

Start == [Record("start", NULL, NULL, 0, NoBacktrace, NoTag) EXCEPT !.serial = 1]

Init ==
  /\ AInit
  /\ inuse = <<>> /\ ops = 0 /\ enabled = TRUE
  /\ serial = 1 /\ channel = <<Start>>
  /\ faults = {} /\ seen = {} /\ story = <<>>

-----------------------------------------------------------------------------
(* log_write numbers a record; while logging is disabled it is not called. *)
Numbered(r) == [r EXCEPT !.serial = serial + 1]

Fault(kinds) ==
  /\ faults' = faults \cup kinds
  /\ Cardinality(faults') <= MaxFaults

Log(r, kinds) ==
  /\ ops < MaxOps
  /\ ops' = ops + 1
  /\ \/ /\ enabled
        /\ Len(channel) < MaxInTransit
        /\ serial' = serial + 1
        /\ channel' = Append(channel, Numbered(r))
        /\ Fault(kinds)
     \/ /\ ~enabled
        /\ Fault(kinds \cup {"unlogged"})
        /\ UNCHANGED <<serial, channel>>
  /\ UNCHANGED <<analyzer, enabled, history>>

Unused == Addresses \ DOMAIN inuse

Malloc(a, s, bt) ==
  /\ a \in Unused
  /\ inuse' = Put(inuse, a, Block(s, bt))
  /\ Log(Record("malloc", a, NULL, s, bt, NoTag), {})

Free(a, bt) ==
  /\ a \in DOMAIN inuse
  /\ inuse' = Delete(inuse, a)
  /\ Log(Record("free", a, NULL, 0, bt, NoTag), {})

Realloc(a, b, s, bt) ==
  /\ a \in DOMAIN inuse
  /\ b \in Unused \cup {a}
  /\ inuse' = Put(Delete(inuse, a), b, Block(s, bt))
  /\ Log(Record("realloc", a, b, s, bt, NoTag), {})

(* A request that failed is logged like any other, with a null result.     *)
MallocFails(s, bt) ==
  /\ UNCHANGED inuse
  /\ Log(Record("malloc", NULL, NULL, s, bt, NoTag), {"failed"})

ReallocFails(a, s, bt) ==
  /\ a \in DOMAIN inuse
  /\ UNCHANGED inuse
  /\ Log(Record("realloc", a, NULL, s, bt, NoTag), {"failed"})

Tag(g) ==
  /\ UNCHANGED inuse
  /\ Log(Record("tag", NULL, NULL, 0, NoBacktrace, g), {})

SetEnabled(on) ==
  /\ enabled # on
  /\ enabled' = on
  /\ UNCHANGED <<analyzer, inuse, ops, serial, channel, faults, history>>

-----------------------------------------------------------------------------
(* The network between log_write's sendto and udp-logger.pl.               *)
Lose(i) ==
  /\ Udp
  /\ channel' = RemoveAt(channel, i)
  /\ Fault({"lost"})
  /\ UNCHANGED <<analyzer, program, serial, history>>

Reorder(i) ==
  /\ Udp
  /\ i < Len(channel)
  /\ channel' = [channel EXCEPT ![i] = channel[i + 1], ![i + 1] = channel[i]]
  /\ Fault({"reordered"})
  /\ UNCHANGED <<analyzer, program, serial, history>>

ReadNext ==
  /\ channel # <<>>
  /\ Read(Head(channel))
  /\ channel' = Tail(channel)
  /\ seen' = seen \cup {Head(channel).serial}
  /\ story' = IF tracking THEN Append(story, Head(channel)) ELSE story
  /\ UNCHANGED <<program, serial, faults>>

Next ==
  \/ \E s \in Sizes, bt \in Backtraces :
       \/ \E a \in Addresses : Malloc(a, s, bt)
       \/ \E a \in DOMAIN inuse, b \in Addresses : Realloc(a, b, s, bt)
       \/ MallocFails(s, bt)
       \/ \E a \in DOMAIN inuse : ReallocFails(a, s, bt)
  \/ \E a \in DOMAIN inuse, bt \in FreeBacktraces : Free(a, bt)
  \/ \E g \in Tags : Tag(g)
  \/ \E on \in BOOLEAN : SetEnabled(on)
  \/ \E i \in DOMAIN channel : Lose(i) \/ Reorder(i)
  \/ ReadNext

Spec == Init /\ [][Next]_vars

-----------------------------------------------------------------------------
(* Every variable holds a value of its type.                               *)
Blocks == [size : Sizes, backtrace : Backtraces]

TypeOK ==
  /\ DOMAIN inuse \subseteq Addresses /\ \A a \in DOMAIN inuse : inuse[a] \in Blocks
  /\ DOMAIN chunks \subseteq Addresses \cup {NULL} /\ \A a \in DOMAIN chunks : chunks[a] \in Blocks
  /\ {enabled, tracking} \subseteq BOOLEAN
  /\ serial \in 1 .. MaxOps + 1 /\ ops \in 0 .. MaxOps /\ \A i \in DOMAIN channel : channel[i].serial \in 1 .. serial
  /\ seen \subseteq 1 .. serial /\ lines <= serial
  /\ Len(story) <= lines /\ \A i \in DOMAIN story : story[i].serial \in seen
  /\ total \in Int /\ heap_max >= 0 /\ heap_max >= total

(* All that the program did was logged, arrived and has been read.         *)
Complete == faults = {} /\ channel = <<>> /\ after = NoTag

(* Then the report names every block in use with its size and callstack,   *)
(* and its totals, overall and per callstack, are those of these blocks.   *)
BlocksReported == \A a \in DOMAIN inuse : Known(a) /\ chunks[a] = inuse[a]

TotalsReported ==
  /\ total = SumOver([a \in DOMAIN inuse |-> inuse[a].size], DOMAIN inuse)
  /\ \A bt \in Backtraces :
       LET from == {a \in DOMAIN inuse : inuse[a].backtrace = bt}
       IN /\ hotspots[bt].size = SumOver([a \in from |-> inuse[a].size], from)
          /\ hotspots[bt].allocs - hotspots[bt].frees = Cardinality(from)

ReportComplete == Complete => BlocksReported /\ TotalsReported

(* And every block that it names is in use: memtraq.pl keeps "a list of    *)
(* blocks still allocated" and dumps "the non freed blocks".  The code     *)
(* does not delete the entry that a realloc moved a block away from.       *)
ListedInUse == Complete => DOMAIN chunks \subseteq DOMAIN inuse

(* And no free is reported as unknown and no record as lost.               *)
NoFalseAlarm ==
  Complete => logs_lost = 0 /\ \A bt \in DOMAIN unknown_frees : unknown_frees[bt] = 0

(* As long as records arrive in order, the report says that none is lost   *)
(* if and only if everything between the first and the last record read    *)
(* was read.  Logging that was disabled for a while leaves no gap.         *)
LossNoticed ==
  "reordered" \notin faults =>
    (logs_lost = 0 <=> \A x, y \in seen : x .. y \subseteq seen)

(* No more records are reported as lost than are missing between the first *)
(* and the last record read: the script prints the number as that of the   *)
(* "log entries lost".  The code counts every record after a gap.          *)
LossNumber ==
  "reordered" \notin faults =>
    logs_lost <= Cardinality({s \in (1 .. serial) \ seen :
                                \E x, y \in seen : x < s /\ s < y})

-----------------------------------------------------------------------------
(* What a log t says of the callstacks.  A record fills the entry of one   *)
(* address or empties it; a free or a realloc, record i, releases what the *)
(* last record j to fill the entry of its address put there, and that is   *)
(* charged to the callstack of j.  A realloc that moves a block leaves the *)
(* entry of the old address as it is (see ListedInUse), so that a later    *)
(* free of that address, of a block whose record was lost, releases the    *)
(* moved block once more.                                                  *)
Fills(t, j, a) ==
  \/ t[j].ev = "malloc" /\ t[j].ptr = a
  \/ t[j].ev = "realloc" /\ t[j].new = a

Empties(t, j, a) == t[j].ev = "free" /\ t[j].ptr = a

Releases(t, i, j) ==
  LET a == t[i].ptr
  IN /\ t[i].ev \in {"free", "realloc"}
     /\ j < i /\ Fills(t, j, a)
     /\ \A k \in j + 1 .. i - 1 : ~Fills(t, k, a) /\ ~Empties(t, k, a)

Allocated(t, bt) == {j \in DOMAIN t : t[j].ev \in {"malloc", "realloc"} /\ t[j].bt = bt}
Released(t, bt) ==
  {p \in (DOMAIN t) \X (DOMAIN t) : Releases(t, p[1], p[2]) /\ t[p[2]].bt = bt}
Unmatched(t, bt) ==
  {i \in DOMAIN t : /\ t[i].ev = "free" /\ t[i].bt = bt
                    /\ \A j \in DOMAIN t : ~Releases(t, i, j)}

(* Whatever the log left out and whatever became of it on the way, each    *)
(* callstack has the allocations and the bytes that the log read says it   *)
(* made, less those that the log says were released of its own blocks,     *)
(* whichever callstack released them; the bytes in use are those of the    *)
(* callstacks; and the frees reported as unknown are those of no block.    *)
AccountsAgree ==
  /\ \A bt \in Backtraces :
       LET made == Allocated(story, bt)
           gone == Released(story, bt)
       IN /\ hotspots[bt].allocs = Cardinality(made)
          /\ hotspots[bt].frees = Cardinality(gone)
          /\ hotspots[bt].size = SumOver([j \in made |-> story[j].size], made)
                                 - SumOver([p \in gone |-> story[p[2]].size], gone)
  /\ total = SumOver([bt \in Backtraces |-> hotspots[bt].size], Backtraces)
  /\ \A bt \in DOMAIN unknown_frees : unknown_frees[bt] = Cardinality(Unmatched(story, bt))
=============================================================================
