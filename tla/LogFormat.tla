----------------------------- MODULE LogFormat -----------------------------
(***************************************************************************)
(* The log as bytes: how memtraq.c lays out a record in log_buffer and     *)
(* writes it through stdio, what of the file is left after an exit or a    *)
(* crash, and how memtraq.pl takes the file apart again.  Everything that  *)
(* memtraq.c does here is done under log_lock.                             *)
(*                                                                         *)
(* A byte is a cell <<v, i, n>>, byte i of the n bytes of value v: what is *)
(* read back is v if it is read where it starts and in its whole width.    *)
(***************************************************************************)
EXTENDS Integers, Sequences, FiniteSets, SequencesExt

CONSTANTS
  PTR,           \* sizeof (void *); memtraq.pl reads pointers of 4 bytes
  BUFFER,        \* sizeof (log_buffer)
  MAX_BT,        \* what backtrace () fills at most
  Addresses, Letters,
  Requests,      \* the operations that may be logged
  BacktraceFree, \* MEMTRAQ_BACKTRACE_FREE
  StartEnabled,  \* FALSE when MEMTRAQ_ENABLED is 0
  Undef,         \* a value that unpack finds too few bytes for
  Garbled,       \* what unpack makes of bytes of several values
  MaxRecords     \* bound on the records

INIT == 0
MALLOC == 1
FREE == 2
REALLOC == 3
TAG == 4
LOG_HEADER_SIZE == 12

\* The longest record but a tag is that of a realloc (log_buffer has 1024
\* bytes and MAX_BT is 100).
ASSUME BufferAssumption ==
  /\ PTR \in {4, 8} /\ BUFFER \in Nat /\ MAX_BT \in Nat \ {0} /\ MaxRecords \in Nat
  /\ 32 + 2 * PTR + PTR * (MAX_BT - 1) <= BUFFER
\* What unpack makes of too few bytes, or of the wrong ones, is not a number.
ASSUME NamesAssumption == Undef \notin Int /\ Garbled \notin Int
ASSUME SettingsAssumption == BacktraceFree \in BOOLEAN /\ StartEnabled \in BOOLEAN
\* A name of a tag has any length: memtraq_tag does not look at it.
ASSUME RequestsAssumption == \A r \in Requests :
  /\ r.ev \in {MALLOC, FREE, REALLOC, TAG}
  /\ r.bt \in Seq(Addresses) /\ Len(r.bt) <= MAX_BT /\ r.skip \in Nat
  /\ r.name \in Seq(Letters)

VARIABLES
  enabled, tag_serial, serial,
  log_buffer,
  file,          \* what has been given to fwrite
  synced,        \* how much of it fflush has made safe
  status,        \* of the program; "overrun" when it wrote past log_buffer
  disk,          \* the log that is left of file
  offset,        \* how far memtraq.pl has read it
  seen,          \* the records memtraq.pl has unpacked
  closed,        \* its event loop is over
  written, ends, \* history: the records logged, the length of file after each
  safe           \* history: how many there were at the last memtraq_disable

history == <<written, ends, safe>>
writer == <<enabled, tag_serial, serial, log_buffer, file, synced, history>>
reader == <<offset, seen, closed>>
vars == <<writer, status, disk, reader>>

-----------------------------------------------------------------------------
(* log_ptr, log_u32 and log_u64; log_str is without the terminator.        *)
Bytes(v, n) == [i \in 1..n |-> <<v, i, n>>]
Characters(name) == [i \in 1..Len(name) |-> <<name[i], 1, 1>>]

\* bt [skip + 1] .. bt [n - 1], in C's numbering
Frames_All(r) == Len(r.bt) - r.skip
Frames(r) == IF Len(r.bt) > r.skip + 1 THEN Len(r.bt) - (r.skip + 1) ELSE 0
LogFrames(r) ==
  [i \in 1..(PTR * Frames(r)) |->
     <<r.bt[Len(r.bt) - Frames(r) + 1 + ((i - 1) \div PTR)], ((i - 1) % PTR) + 1, PTR>>]

gettimeofday == 100 + serial  \* no two records have the same time
log_event(r) == Bytes(r.ev, 4) \o Bytes(gettimeofday, 8) \o Bytes(r.thread, 4)

Payload(r) ==
  CASE r.ev = INIT    -> Bytes(r.size, 4)
    [] r.ev = MALLOC  -> Bytes(r.size, 4) \o Bytes(r.result, PTR) \o LogFrames(r)
    [] r.ev = FREE    -> Bytes(r.p, PTR) \o (IF BacktraceFree THEN LogFrames(r) ELSE <<>>)
    [] r.ev = REALLOC -> Bytes(r.p, PTR) \o Bytes(r.size, 4) \o Bytes(r.result, PTR) \o LogFrames(r)
    [] r.ev = TAG     -> Characters(r.name) \o Bytes(tag_serial', 4)

\* More cells than the buffer has go to the memory behind it.
Overwrite(buffer, cells) == cells \o SubSeq(buffer, Len(cells) + 1, Len(buffer))

-----------------------------------------------------------------------------
Init ==
  /\ enabled = FALSE /\ tag_serial = 0 /\ serial = 0
  /\ log_buffer = [i \in 1..BUFFER |-> <<0, i, BUFFER>>]
  /\ file = <<>> /\ synced = 0 /\ status = "starting" /\ disk = <<>>
  /\ offset = 0 /\ seen = <<>> /\ closed = FALSE
  /\ written = <<>> /\ ends = <<>> /\ safe = 0

(* log_write, from the end of the payload: the bytes of older records that *)
(* are left in log_buffer stay behind.                                     *)
Size_Bare(r) == Len(log_event(r)) + Len(Payload(r))
Size(r) == LOG_HEADER_SIZE + Len(log_event(r)) + Len(Payload(r))

(* History: what the reader must make of record r.                         *)
Meant(r, n) ==
  [serial |-> n, ev |-> r.ev, ts |-> gettimeofday, thread |-> r.thread,
   fields |-> CASE r.ev = MALLOC  -> <<r.size, r.result>>
                [] r.ev = FREE    -> <<r.p>>
                [] r.ev = REALLOC -> <<r.p, r.size, r.result>>
                [] OTHER          -> <<>>,
   frames |-> IF r.ev \in {MALLOC, REALLOC} \/ (r.ev = FREE /\ BacktraceFree)
              THEN SubSeq(r.bt, r.skip + 2, Len(r.bt)) ELSE <<>>]

log_write(r) ==
  /\ serial' = serial + 1
  /\ log_buffer' = Overwrite(log_buffer, Bytes(Size(r), 4) \o Bytes(serial', 8)
                                           \o log_event(r) \o Payload(r))
  /\ file' = file \o SubSeq(log_buffer', 1, Size(r))
  /\ written' = Append(written, Meant(r, serial'))
  /\ ends' = Append(ends, Len(file'))
  /\ UNCHANGED <<synced, disk, reader, safe>>

InitRecord(thread) ==
  [ev |-> INIT, size |-> IF StartEnabled THEN 1 ELSE 0, thread |-> thread]

(* check_initialized: the first record says whether logging is enabled.    *)
CheckInitialized ==
  /\ status = "starting"
  /\ status' = "running"
  /\ enabled' = StartEnabled
  /\ \E r \in Requests : log_write(InitRecord(r.thread))
  /\ UNCHANGED tag_serial

(* After a record that is longer than log_buffer, what the program does is *)
(* undefined, and nothing more is said of it.                              *)
Log(r) ==
  /\ status = "running" /\ enabled
  /\ Len(written) < MaxRecords
  /\ tag_serial' = IF r.ev = TAG THEN tag_serial + 1 ELSE tag_serial
  /\ log_write(r)
  /\ status' = IF Size(r) > BUFFER THEN "overrun" ELSE status
  /\ UNCHANGED enabled

memtraq_enable ==
  /\ status = "running"
  /\ enabled' = TRUE
  /\ UNCHANGED <<tag_serial, serial, log_buffer, file, synced, status, disk, reader, history>>

memtraq_disable_Unflushed ==
  /\ status = "running"
  /\ enabled' = FALSE
  /\ safe' = Len(written)
  /\ UNCHANGED <<tag_serial, serial, log_buffer, file, synced, status, disk, reader, written, ends>>

memtraq_disable ==
  /\ status = "running"
  /\ enabled' = FALSE
  /\ synced' = Len(file)
  /\ safe' = Len(written)
  /\ UNCHANGED <<tag_serial, serial, log_buffer, file, status, disk, reader, written, ends>>

(* exit () flushes the file; a crash leaves what fflush or stdio itself,   *)
(* at any byte, has passed on.                                             *)
Exit ==
  /\ status = "running"
  /\ status' = "exited"
  /\ disk' = file
  /\ UNCHANGED <<writer, reader>>

Crash ==
  /\ status = "running"
  /\ status' = "crashed"
  /\ \E n \in synced..Len(file) : disk' = SubSeq(file, 1, n)
  /\ UNCHANGED <<writer, reader>>

-----------------------------------------------------------------------------
(* memtraq.pl: read and unpack.                                            *)
Smaller(x, y) == IF x <= y THEN x ELSE y
Chunk(from, n) == SubSeq(disk, from + 1, Smaller(from + n, Len(disk)))
Decode(cells) == IF cells = Bytes(cells[1][1], Len(cells)) THEN cells[1][1] ELSE Garbled
Unpack(data, from, n) ==
  IF Len(data) < from + n THEN Undef ELSE Decode(SubSeq(data, from + 1, from + n))
Number(v) == IF v \in {Undef, Garbled} THEN 0 ELSE v

\* The bytes of the payload that are read before the frames.
Fixed(ev, sz) ==
  CASE ev = INIT -> 4 [] ev = MALLOC -> 8 [] ev = FREE -> 4 [] ev = REALLOC -> 12
    [] ev = TAG -> sz [] OTHER -> 0
FrameCount_Rest(ev, sz) == IF ev \in {MALLOC, FREE, REALLOC} /\ sz > 0 THEN (sz + 3) \div 4 ELSE 0
FrameCount(ev, sz) ==
  LET rest == sz - Fixed(ev, sz)
  IN IF ev \in {MALLOC, FREE, REALLOC} /\ rest > 0 THEN (rest + 3) \div 4 ELSE 0

\* A number that is undefined compares as 0, which is a START.
Event(header) == LET ev == Unpack(header, 12, 4) IN IF ev = Undef THEN INIT ELSE ev

ReadRecord ==
  /\ status \in {"exited", "crashed"} /\ ~closed
  /\ LET header == Chunk(offset, 28)
         ev   == Event(header)
         sz   == Number(Unpack(header, 0, 4)) - 28
         base == offset + 28
         data == Chunk(base, Fixed(ev, sz))
         n    == FrameCount(ev, sz)
     IN IF header = <<>> THEN closed' = TRUE /\ UNCHANGED <<offset, seen>>
        ELSE /\ seen' = Append(seen,
                  [serial |-> Unpack(header, 4, 8), ev |-> ev, ts |-> Unpack(header, 16, 8),
                   thread |-> Unpack(header, 24, 4),
                   fields |-> CASE ev = MALLOC  -> <<Unpack(data, 0, 4), Unpack(data, 4, 4)>>
                                [] ev = FREE    -> <<Unpack(data, 0, 4)>>
                                [] ev = REALLOC -> <<Unpack(data, 0, 4), Unpack(data, 4, 4),
                                                     Unpack(data, 8, 4)>>
                                [] OTHER        -> <<>>,
                   frames |-> [k \in 1..n |->
                                 Unpack(Chunk(base + Fixed(ev, sz) + 4 * (k - 1), 4), 0, 4)]])
             /\ offset' = Smaller(base + Fixed(ev, sz) + 4 * n, Len(disk))
             /\ UNCHANGED closed
  /\ UNCHANGED <<writer, status, disk>>

Finished == (closed \/ status = "overrun") /\ UNCHANGED vars

Next ==
  \/ CheckInitialized \/ (\E r \in Requests : Log(r))
  \/ memtraq_enable \/ memtraq_disable \/ Exit \/ Crash
  \/ ReadRecord \/ Finished

Spec == Init /\ [][Next]_vars

-----------------------------------------------------------------------------
Exact(n) == Len(seen) >= n /\ \A i \in 1..n : seen[i] = written[i]

\* A record that was cut: its values are right as far as they go.
Same(x, y) == x \in {Undef, y}
CutOf(s, m) ==
  /\ Same(s.serial, m.serial) /\ Same(s.ts, m.ts) /\ Same(s.thread, m.thread)
  /\ s.ev = m.ev =>
       /\ \A i \in DOMAIN m.fields : Same(s.fields[i], m.fields[i])
       /\ Len(s.frames) = Len(m.frames)
       /\ \A i \in DOMAIN m.frames : Same(s.frames[i], m.frames[i])
  /\ s.ev # m.ev => s.ev = INIT /\ s.frames = <<>>

(* Every variable holds a value of its type, and log_buffer has the length *)
(* that it was declared with unless a record ran over its end.             *)
TypeOK ==
  /\ status # "overrun" => Len(log_buffer) = BUFFER
  /\ status \in {"starting", "running", "exited", "crashed", "overrun"}
  /\ {enabled, closed} \subseteq BOOLEAN
  /\ serial \in Nat /\ tag_serial \in Nat

(* log_buffer holds every record but that of a tag with a name too long    *)
(* for it: the deepest backtrace of the longest kind of record fits, and   *)
(* so does a name up to its last byte; one byte more runs over the end.    *)
RecordsFit == [][\A r \in Requests :
  Log(r) => IF r.ev = TAG /\ Len(r.name) > BUFFER - 32 THEN status' = "overrun"
            ELSE status' = "running" /\ Len(log_buffer') = BUFFER]_vars

(* The analyzer sees the records that were logged, in step with them all   *)
(* the way, whatever came before in log_buffer.  Of a log that a crash cut *)
(* it sees every record that is there in full, and at most one more, which *)
(* is right as far as it goes and brings in no frame or value of its own.  *)
LogReadsBack ==
  closed =>
    LET whole == Cardinality({i \in DOMAIN ends : ends[i] <= Len(disk)})
        cut   == Len(disk) > IF whole = 0 THEN 0 ELSE ends[whole]
    IN /\ Exact(whole)
       /\ Len(seen) = whole + IF cut THEN 1 ELSE 0
       /\ cut => CutOf(seen[whole + 1], written[whole + 1])
       /\ status = "exited" => whole = Len(written)

(* Every record that was logged before the last memtraq_disable is read    *)
(* back, even if the program crashes at any later time.                    *)
DisabledSurvives == closed => Exact(safe)
=============================================================================
