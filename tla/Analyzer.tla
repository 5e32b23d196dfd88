------------------------------ MODULE Analyzer ------------------------------
(***************************************************************************)
(* memtraq.pl's event loop: read the records of a log one after the other  *)
(* and keep the table of blocks still allocated, the totals per callstack, *)
(* the frees of unknown blocks and the count of records lost.              *)
(*                                                                         *)
(* A backtrace is a value; a hash of Perl is a function whose domain is    *)
(* the keys present, except for the two that only count, where a missing   *)
(* key is a count of zero.  Timestamps, the history drawn as a graph and   *)
(* the reports printed after the loop are left out.                        *)
(***************************************************************************)
EXTENDS Integers, FiniteSets, FiniteSetsExt

CONSTANTS
  Addresses,    \* the addresses of blocks
  NULL,         \* address 0
  Backtraces,   \* the callstacks of the operations
  NoBacktrace,  \* a free logged without its callstack
  Sizes,        \* the sizes of blocks
  Tags,         \* the names given to memtraq_tag
  NoTag         \* an option that was not given

ASSUME AddressAssumption == NULL \notin Addresses /\ NoBacktrace \notin Backtraces
ASSUME SizeAssumption    == Sizes \subseteq Nat
\* A callstack has a bounded number of return addresses.
ASSUME BacktraceAssumption == IsFiniteSet(Backtraces)
ASSUME TagAssumption     == NoTag \notin Tags /\ "digit" \notin Tags \cup {NoTag}

VARIABLES
  after, before,            \* the options --after and --before
  tracking,                 \* $log
  lines,                    \* records read
  current_serial,           \* the serial expected
  logs_lost,                \* records reported lost
  chunks,                   \* the blocks still allocated, by address
  total,                    \* bytes in use
  allocs, frees, reallocs,  \* operations counted
  hotspots,                 \* operations and bytes by callstack
  unknown_frees,            \* frees without a block, by callstack
  heap_max                  \* the largest total so far

options  == <<after, before>>
serials  == <<lines, current_serial, logs_lost>>
counters == <<allocs, frees, reallocs>>
tables   == <<chunks, hotspots, unknown_frees>>
analyzer == <<options, tracking, serials, total, counters, tables, heap_max>>

Block(s, bt) == [size |-> s, backtrace |-> bt]

AInit ==
  /\ after \in Tags \cup {NoTag} /\ before \in Tags \cup {NoTag}
  /\ tracking = (after = NoTag)
  /\ lines = 0 /\ current_serial = 0 /\ logs_lost = 0
  /\ chunks = <<>> /\ total = 0
  /\ allocs = 0 /\ frees = 0 /\ reallocs = 0
  /\ hotspots = [bt \in Backtraces |-> [allocs |-> 0, frees |-> 0, size |-> 0]]
  /\ unknown_frees = [bt \in Backtraces \cup {NoBacktrace} |-> 0]
  /\ heap_max = 0

-----------------------------------------------------------------------------
(* Tables.  An operator named X_Y here and below is X with the slip Y.     *)

Put(c, a, b) == [x \in DOMAIN c \cup {a} |-> IF x = a THEN b ELSE c[x]]
Delete(c, a) == [x \in DOMAIN c \ {a} |-> c[x]]
Known(a)     == a \in DOMAIN chunks

Gain(h, bt, s)    == [h EXCEPT ![bt].allocs = @ + 1, ![bt].size = @ + s]
Release(h, bt, s) == [h EXCEPT ![bt].frees = @ + 1, ![bt].size = @ - s]

-----------------------------------------------------------------------------
(* The header of every record: the expected serial advances by one, to     *)
(* whatever number the record has.                                         *)
ReadSerial_Early(r) ==
  /\ lines' = lines + 1
  /\ current_serial' = IF current_serial = 0 THEN r.serial ELSE current_serial + 1
  /\ logs_lost' = IF r.serial > current_serial /\ current_serial # 0
                  THEN logs_lost + 1 ELSE logs_lost

ReadSerial_FromOne(r) ==
  /\ lines' = lines + 1
  /\ current_serial' = current_serial + 1
  /\ logs_lost' = IF r.serial > current_serial' THEN logs_lost + 1 ELSE logs_lost

ReadSerial(r) ==
  /\ lines' = lines + 1
  /\ current_serial' = IF current_serial = 0 THEN r.serial ELSE current_serial + 1
  /\ logs_lost' = IF r.serial > current_serial' THEN logs_lost + 1 ELSE logs_lost

ReadStart(r) ==
  /\ r.ev = "start"
  /\ UNCHANGED <<tracking, total, counters, tables>>

(* The name is unpacked from the length of the record, of which it is the  *)
(* first digit, and not from its data.                                     *)
NameOf(r) == "digit"

ReadTag(r) ==
  /\ r.ev = "tag"
  /\ tracking' = \/ NameOf(r) = after
                 \/ tracking /\ NameOf(r) # before
  /\ UNCHANGED <<total, counters, tables>>

(* Any other record is skipped while tracking is on hold.                  *)
Skip(r) ==
  /\ r.ev \notin {"start", "tag"}
  /\ ~tracking
  /\ UNCHANGED <<tracking, total, counters, tables>>

ReadMalloc(r) ==
  /\ r.ev = "malloc" /\ tracking
  /\ chunks' = Put(chunks, r.ptr, Block(r.size, r.bt))
  /\ hotspots' = Gain(hotspots, r.bt, r.size)
  /\ total' = total + r.size
  /\ allocs' = allocs + 1
  /\ UNCHANGED <<tracking, frees, reallocs, unknown_frees>>

FreeKnown(r) ==
  /\ Known(r.ptr)
  /\ total' = total - chunks[r.ptr].size
  /\ hotspots' = Release(hotspots, chunks[r.ptr].backtrace, chunks[r.ptr].size)
  /\ chunks' = Delete(chunks, r.ptr)
  /\ UNCHANGED unknown_frees

FreeUnknown(r) ==
  /\ ~Known(r.ptr)
  /\ unknown_frees' = [unknown_frees EXCEPT ![r.bt] = @ + 1]
  /\ UNCHANGED <<total, hotspots, chunks>>

ReadFree(r) ==
  /\ r.ev = "free" /\ tracking
  /\ FreeKnown(r) \/ FreeUnknown(r)
  /\ frees' = frees + 1
  /\ UNCHANGED <<tracking, allocs, reallocs>>

(* The bytes of the old block are taken off, but its entry stays.          *)
ReallocKnown_Reallocer(r) ==
  LET old == chunks[r.ptr]
  IN /\ Known(r.ptr)
     /\ total' = total - old.size + r.size
     /\ hotspots' = Gain(Release(hotspots, r.bt, old.size), r.bt, r.size)

ReallocKnown(r) ==
  LET old == chunks[r.ptr]
  IN /\ Known(r.ptr)
     /\ total' = total - old.size + r.size
     /\ hotspots' = Gain(Release(hotspots, old.backtrace, old.size), r.bt, r.size)

ReallocUnknown(r) ==
  /\ ~Known(r.ptr)
  /\ total' = total + r.size
  /\ hotspots' = Gain(hotspots, r.bt, r.size)

ReadRealloc_InPlace(r) ==
  /\ r.ev = "realloc" /\ tracking
  /\ ReallocKnown(r) \/ ReallocUnknown(r)
  /\ chunks' = Put(chunks, r.ptr, Block(r.size, r.bt))
  /\ reallocs' = reallocs + 1
  /\ UNCHANGED <<tracking, allocs, frees, unknown_frees>>

ReadRealloc(r) ==
  /\ r.ev = "realloc" /\ tracking
  /\ ReallocKnown(r) \/ ReallocUnknown(r)
  /\ chunks' = Put(chunks, r.new, Block(r.size, r.bt))
  /\ reallocs' = reallocs + 1
  /\ UNCHANGED <<tracking, allocs, frees, unknown_frees>>

UpdatePeak_Early == heap_max' = IF total > heap_max THEN total ELSE heap_max
UpdatePeak == heap_max' = IF total' > heap_max THEN total' ELSE heap_max

Read(r) ==
  /\ ReadSerial(r)
  /\ \/ ReadStart(r) \/ ReadTag(r) \/ Skip(r)
     \/ ReadMalloc(r) \/ ReadFree(r) \/ ReadRealloc(r)
  /\ UpdatePeak
  /\ UNCHANGED options

-----------------------------------------------------------------------------
SumOver(f, S) == MapThenSumSet(LAMBDA x : f[x], S)
=============================================================================
