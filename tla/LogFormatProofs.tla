---------------------------- MODULE LogFormatProofs ----------------------------
(***************************************************************************)
(* Whatever the widths of a pointer, of the buffer and of a backtrace are, *)
(* the one record that runs over the end of log_buffer is that of a tag    *)
(* whose name is longer than the buffer less 32 bytes, and it always does. *)
(*                                                                         *)
(* What memtraq.pl reads is what log_write has written, for every sequence *)
(* of operations and every byte at which a crash may cut the log, on a     *)
(* machine with pointers of 4 bytes (which is what memtraq.pl reads).      *)
(*                                                                         *)
(* The proof follows the bytes: Describes says that a sequence holds the   *)
(* bytes of a record, as far as it goes, so that it is true of the file,   *)
(* of every longer file and of every shorter disk; the reader's position   *)
(* is the start of the first record that it has not read, or past the cut. *)
(***************************************************************************)
EXTENDS LogFormat, SequenceTheorems, FiniteSetTheorems, TLAPS

OfLength(s, n) == n \in Nat /\ Len(s) = n /\ \E S : s \in Seq(S)

LEMMA ConcatLength ==
  ASSUME NEW s, NEW t, NEW m, NEW n, OfLength(s, m), OfLength(t, n)
  PROVE  OfLength(s \o t, m + n)
  <1>1. PICK S : s \in Seq(S)  BY DEF OfLength
  <1>2. PICK T : t \in Seq(T)  BY DEF OfLength
  <1>3. s \in Seq(S \cup T) /\ t \in Seq(S \cup T)  BY <1>1, <1>2
  <1>4. s \o t \in Seq(S \cup T) /\ Len(s \o t) = Len(s) + Len(t)  BY <1>3
  <1> QED  BY <1>4 DEF OfLength

LEMMA FunctionLength ==
  ASSUME NEW n \in Nat, NEW S, NEW f \in [1..n -> S]
  PROVE  OfLength(f, n)
  <1>1. f \in Seq(S)  BY SeqDef
  <1>2. 1..Len(f) = 1..n /\ Len(f) \in Nat  BY <1>1, LenProperties
  <1>3. Len(f) = n  BY <1>2
  <1> QED  BY <1>1, <1>3 DEF OfLength

(* log_ptr, log_u32 and log_u64 move on by the width of what they copy.    *)
LEMMA BytesLength ==
  ASSUME NEW v, NEW n \in Nat
  PROVE  OfLength(Bytes(v, n), n)
  <1>1. Bytes(v, n) \in [1..n -> {<<v, i, n>> : i \in 1..n}]  BY DEF Bytes
  <1> QED  BY <1>1, FunctionLength

LEMMA CharactersLength ==
  ASSUME NEW name \in Seq(Letters)
  PROVE  OfLength(Characters(name), Len(name))
  <1>1. Len(name) \in Nat  OBVIOUS
  <1>2. Characters(name) \in [1..Len(name) -> {<<name[i], 1, 1>> : i \in 1..Len(name)}]
    BY DEF Characters
  <1> QED  BY <1>1, <1>2, FunctionLength

(* The first of the frames is never logged, so there is one less than      *)
(* backtrace () can find.                                                  *)
LEMMA FramesLength ==
  ASSUME NEW r \in Requests
  PROVE  \E n \in Nat : n <= PTR * (MAX_BT - 1) /\ OfLength(LogFrames(r), n)
  <1>1. Len(r.bt) \in Nat /\ Len(r.bt) <= MAX_BT /\ r.skip \in Nat
    BY RequestsAssumption
  <1>2. Frames(r) \in Nat /\ Frames(r) <= MAX_BT - 1
    BY <1>1, BufferAssumption DEF Frames
  <1> DEFINE n == PTR * Frames(r)
             e(i) == <<r.bt[Len(r.bt) - Frames(r) + 1 + ((i - 1) \div PTR)],
                       ((i - 1) % PTR) + 1, PTR>>
  <1>3. n \in Nat /\ n <= PTR * (MAX_BT - 1)
    <2>1. CASE PTR = 4  BY <1>2, <2>1, BufferAssumption
    <2>2. CASE PTR = 8  BY <1>2, <2>2, BufferAssumption
    <2> QED  BY <2>1, <2>2, BufferAssumption
  <1>4. LogFrames(r) = [i \in 1..n |-> e(i)]  BY DEF LogFrames
  <1> HIDE DEF n, e
  <1>5. LogFrames(r) \in [1..n -> {e(i) : i \in 1..n}]  BY <1>4
  <1> QED  BY <1>3, <1>5, FunctionLength

LEMMA EventLength ==
  ASSUME NEW r PROVE OfLength(log_event(r), 16)
  <1>1. OfLength(Bytes(r.ev, 4) \o Bytes(gettimeofday, 8), 4 + 8)
    BY BytesLength, ConcatLength
  <1>2. OfLength(Bytes(r.thread, 4), 4)  BY BytesLength
  <1>3. OfLength(log_event(r), (4 + 8) + 4)  BY <1>1, <1>2, ConcatLength DEF log_event
  <1> QED  BY <1>3

(* What a payload may have of the buffer.                                  *)
Fits(r) == \E n \in Nat : OfLength(Payload(r), n) /\ n <= BUFFER - 28

LEMMA PayloadLength == ASSUME NEW r \in Requests, r.ev # TAG PROVE Fits(r)
  <1>1. r.ev \in {MALLOC, FREE, REALLOC, TAG}  BY RequestsAssumption
  <1>2. PTR \in Nat /\ BUFFER \in Nat  BY BufferAssumption
  <1>3. PICK n \in Nat : n <= PTR * (MAX_BT - 1) /\ OfLength(LogFrames(r), n)
    BY FramesLength
  <1>4. 32 + 2 * PTR + n <= BUFFER
    <2>1. CASE PTR = 4  BY <1>3, <2>1, BufferAssumption
    <2>2. CASE PTR = 8  BY <1>3, <2>2, BufferAssumption
    <2> QED  BY <2>1, <2>2, BufferAssumption
  <1>5. \A v : OfLength(Bytes(v, 4), 4) /\ OfLength(Bytes(v, PTR), PTR)
    BY <1>2, BytesLength
  <1>6. CASE r.ev = MALLOC
    <2>1. Payload(r) = Bytes(r.size, 4) \o Bytes(r.result, PTR) \o LogFrames(r)
      BY <1>6 DEF Payload, INIT, MALLOC, FREE, REALLOC, TAG
    <2>2. OfLength(Bytes(r.size, 4) \o Bytes(r.result, PTR), 4 + PTR)
      BY <1>5, ConcatLength
    <2>3. OfLength(Payload(r), (4 + PTR) + n)
      BY <1>3, <2>1, <2>2, ConcatLength
    <2>4. (4 + PTR) + n \in Nat /\ (4 + PTR) + n <= BUFFER - 28  BY <1>2, <1>4
    <2> QED  BY <2>3, <2>4 DEF Fits
  <1>7. CASE r.ev = FREE
    <2>1. CASE BacktraceFree
      <3>1. Payload(r) = Bytes(r.p, PTR) \o LogFrames(r)
        BY <1>7, <2>1 DEF Payload, INIT, MALLOC, FREE, REALLOC, TAG
      <3>2. OfLength(Payload(r), PTR + n)  BY <1>3, <1>5, <3>1, ConcatLength
      <3>3. PTR + n \in Nat /\ PTR + n <= BUFFER - 28  BY <1>2, <1>4
      <3> QED  BY <3>2, <3>3 DEF Fits
    <2>2. CASE ~BacktraceFree
      <3>1. Payload(r) = Bytes(r.p, PTR) \o <<>>
        BY <1>7, <2>2 DEF Payload, INIT, MALLOC, FREE, REALLOC, TAG
      <3>2. OfLength(<<>>, 0)
        <4>1. <<>> \in Seq({}) /\ Len(<<>>) = 0  OBVIOUS
        <4> QED  BY <4>1 DEF OfLength
      <3>3. OfLength(Payload(r), PTR + 0)  BY <1>5, <3>1, <3>2, ConcatLength
      <3>4. PTR + 0 \in Nat /\ PTR + 0 <= BUFFER - 28  BY <1>2, <1>4
      <3> QED  BY <3>3, <3>4 DEF Fits
    <2> QED  BY <2>1, <2>2
  <1>8. CASE r.ev = REALLOC
    <2>1. Payload(r) = Bytes(r.p, PTR) \o Bytes(r.size, 4) \o Bytes(r.result, PTR) \o LogFrames(r)
      BY <1>8 DEF Payload, INIT, MALLOC, FREE, REALLOC, TAG
    <2>2. OfLength(Bytes(r.p, PTR) \o Bytes(r.size, 4), PTR + 4)
      BY <1>5, ConcatLength
    <2>3. OfLength(Bytes(r.p, PTR) \o Bytes(r.size, 4) \o Bytes(r.result, PTR), (PTR + 4) + PTR)
      BY <1>5, <2>2, ConcatLength
    <2>4. OfLength(Payload(r), ((PTR + 4) + PTR) + n)
      BY <1>3, <2>1, <2>3, ConcatLength
    <2>5. ((PTR + 4) + PTR) + n \in Nat /\ ((PTR + 4) + PTR) + n <= BUFFER - 28
      BY <1>2, <1>4
    <2> QED  BY <2>4, <2>5 DEF Fits
  <1> QED  BY <1>1, <1>6, <1>7, <1>8

(* The name of a tag is copied whole.                                      *)
LEMMA TagLength ==
  ASSUME NEW r \in Requests, r.ev = TAG
  PROVE  Len(r.name) \in Nat /\ OfLength(Payload(r), Len(r.name) + 4)
  <1>1. Payload(r) = Characters(r.name) \o Bytes(tag_serial', 4)
    BY DEF Payload, INIT, MALLOC, FREE, REALLOC, TAG
  <1>2. r.name \in Seq(Letters)  BY RequestsAssumption
  <1>3. OfLength(Characters(r.name), Len(r.name))  BY <1>2, CharactersLength
  <1>4. OfLength(Bytes(tag_serial', 4), 4)  BY BytesLength
  <1>5. Len(r.name) \in Nat  BY <1>2
  <1> HIDE DEF Payload
  <1> QED  BY <1>1, <1>3, <1>4, <1>5, ConcatLength, Zenon

LEMMA SizeIs ==
  ASSUME NEW r, NEW n, OfLength(Payload(r), n)
  PROVE  n \in Nat /\ Size(r) = 28 + n
  <1>1. OfLength(log_event(r), 16)  BY EventLength
  <1> QED  BY <1>1 DEF Size, LOG_HEADER_SIZE, OfLength

LEMMA InitPayloadLength == ASSUME NEW thread PROVE Fits(InitRecord(thread))
  <1>1. Payload(InitRecord(thread)) = Bytes(InitRecord(thread).size, 4)
    BY DEF Payload, InitRecord, INIT, MALLOC, FREE, REALLOC, TAG
  <1>2. 4 <= BUFFER - 28
    <2>1. CASE PTR = 4  BY <2>1, BufferAssumption
    <2>2. CASE PTR = 8  BY <2>2, BufferAssumption
    <2> QED  BY <2>1, <2>2, BufferAssumption
  <1>3. OfLength(Payload(InitRecord(thread)), 4)  BY <1>1, BytesLength
  <1> QED  BY <1>2, <1>3 DEF Fits

(* What is copied to the front of a buffer leaves its length alone, unless *)
(* it is longer than the buffer.                                           *)
LEMMA OverwriteLength ==
  ASSUME NEW b, NEW c, NEW m, NEW n, OfLength(b, m), OfLength(c, n)
  PROVE  OfLength(Overwrite(b, c), IF n <= m THEN m ELSE n)
  <1>1. m \in Nat /\ n \in Nat /\ Len(b) = m /\ Len(c) = n  BY DEF OfLength
  <1>2. PICK S : b \in Seq(S)  BY DEF OfLength
  <1> DEFINE rest == SubSeq(b, Len(c) + 1, Len(b))
             k == IF n <= m THEN m - n ELSE 0
  <1>3. rest \in Seq(S) /\ Len(rest) = k  BY <1>1, <1>2
  <1>4. k \in Nat /\ n + k = IF n <= m THEN m ELSE n  BY <1>1
  <1>5. Overwrite(b, c) = c \o rest  BY DEF Overwrite
  <1> HIDE DEF rest, k
  <1>6. OfLength(rest, k)  BY <1>3, <1>4 DEF OfLength
  <1>7. OfLength(Overwrite(b, c), n + k)  BY <1>5, <1>6, ConcatLength
  <1> QED  BY <1>4, <1>7

\* log_buffer, and what of the memory behind it was written.
Buffered == OfLength(log_buffer, Len(log_buffer))
IInv == TypeOK /\ Buffered

(* log_write makes log_buffer as long as it was or as the record is.       *)
LEMMA WriteLength ==
  ASSUME IInv, NEW r, log_write(r), NEW n, OfLength(Payload(r), n)
  PROVE  /\ OfLength(log_buffer', IF 28 + n <= Len(log_buffer) THEN Len(log_buffer) ELSE 28 + n)
         /\ n \in Nat /\ Size(r) = 28 + n /\ serial' \in Nat
  <1> DEFINE head == Bytes(Size(r), 4) \o Bytes(serial', 8) \o log_event(r)
  <1>1. OfLength(head, (4 + 8) + 16)
    <2>1. OfLength(Bytes(Size(r), 4) \o Bytes(serial', 8), 4 + 8)
      BY BytesLength, ConcatLength
    <2> QED  BY <2>1, EventLength, ConcatLength
  <1>2. log_buffer' = Overwrite(log_buffer, head \o Payload(r))  BY DEF log_write
  <1> HIDE DEF head
  <1>3. OfLength(head \o Payload(r), ((4 + 8) + 16) + n)  BY <1>1, ConcatLength
  <1>4. OfLength(head \o Payload(r), 28 + n)  BY <1>3
  <1>5. OfLength(log_buffer', IF 28 + n <= Len(log_buffer) THEN Len(log_buffer) ELSE 28 + n)
    BY <1>2, <1>4, OverwriteLength DEF IInv, Buffered
  <1>6. serial' \in Nat  BY DEF log_write, IInv, TypeOK
  <1> QED  BY <1>5, <1>6, SizeIs

(* A record that fits leaves log_buffer in its length.                     *)
LEMMA WriteKeepsBuffer ==
  ASSUME IInv, status # "overrun", NEW r, log_write(r), Fits(r)
  PROVE  /\ OfLength(log_buffer', BUFFER) /\ Len(log_buffer') = BUFFER
         /\ Size(r) <= BUFFER /\ serial' \in Nat
  <1>1. PICK n \in Nat : OfLength(Payload(r), n) /\ n <= BUFFER - 28  BY DEF Fits
  <1>2. BUFFER \in Nat /\ Len(log_buffer) = BUFFER  BY BufferAssumption DEF IInv, TypeOK
  <1>3. 28 + n <= BUFFER  BY <1>1, <1>2
  <1>4. OfLength(log_buffer', BUFFER) /\ Size(r) = 28 + n /\ serial' \in Nat
    BY <1>1, <1>2, <1>3, WriteLength
  <1> QED  BY <1>3, <1>4 DEF OfLength

(* A step that logs a record, of whatever kind.                            *)
LEMMA LogFits ==
  ASSUME IInv, NEW r \in Requests, Log(r)
  PROVE  /\ IF r.ev = TAG /\ Len(r.name) > BUFFER - 32 THEN status' = "overrun"
            ELSE status' = "running" /\ Len(log_buffer') = BUFFER
         /\ Buffered' /\ serial' \in Nat
  <1>1. /\ log_write(r) /\ status = "running"
        /\ status' = IF Size(r) > BUFFER THEN "overrun" ELSE "running"
    BY DEF Log
  <1>2. BUFFER \in Nat /\ Len(log_buffer) = BUFFER
    BY <1>1, BufferAssumption DEF IInv, TypeOK
  <1>3. CASE r.ev # TAG
    <2>1. /\ OfLength(log_buffer', BUFFER) /\ Len(log_buffer') = BUFFER
          /\ Size(r) <= BUFFER /\ serial' \in Nat
      BY <1>1, <1>3, PayloadLength, WriteKeepsBuffer
    <2>2. Size(r) \in Nat
      <3>1. Fits(r)  BY <1>3, PayloadLength
      <3> QED  BY <3>1, SizeIs DEF Fits
    <2>3. ~(Size(r) > BUFFER)  BY <1>2, <2>1, <2>2
    <2> QED  BY <1>1, <1>3, <2>1, <2>3 DEF Buffered
  <1>4. CASE r.ev = TAG
    <2> DEFINE n == Len(r.name) + 4
    <2>1. Len(r.name) \in Nat /\ OfLength(Payload(r), n)  BY <1>4, TagLength
    <2> HIDE DEF n
    <2>2. /\ OfLength(log_buffer', IF 28 + n <= BUFFER THEN BUFFER ELSE 28 + n)
          /\ Size(r) = 28 + n /\ serial' \in Nat
      BY <1>1, <1>2, <2>1, WriteLength
    <2>3. Size(r) > BUFFER <=> Len(r.name) > BUFFER - 32  BY <1>2, <2>1, <2>2 DEF n
    <2>4. Buffered'  BY <2>2 DEF Buffered, OfLength
    <2>5. ~(Size(r) > BUFFER) => Len(log_buffer') = BUFFER
      <3>1. 28 + n \in Nat  BY <2>1 DEF n
      <3> QED  BY <1>2, <2>2, <3>1 DEF OfLength
    <2> QED  BY <1>1, <1>4, <2>2, <2>3, <2>4, <2>5
  <1> QED  BY <1>3, <1>4

(* log_buffer has its length until a record runs over its end.             *)
THEOREM BufferKept == Spec => []IInv
  <1>1. Init => IInv
    <2> SUFFICES ASSUME Init PROVE IInv  OBVIOUS
    <2>1. log_buffer \in [1..BUFFER -> {<<0, i, BUFFER>> : i \in 1..BUFFER}]  BY DEF Init
    <2>2. OfLength(log_buffer, BUFFER)  BY <2>1, BufferAssumption, FunctionLength
    <2> QED  BY <2>2 DEF Init, IInv, TypeOK, Buffered, OfLength
  <1>2. ASSUME IInv, [Next]_vars PROVE IInv'
    <2> USE <1>2
    <2>1. CASE CheckInitialized
      <3>1. PICK r \in Requests : log_write(InitRecord(r.thread))
        BY <2>1 DEF CheckInitialized
      <3>2. status = "starting" /\ status' = "running" /\ enabled' = StartEnabled
            /\ tag_serial' = tag_serial
        BY <2>1 DEF CheckInitialized
      <3>3. OfLength(log_buffer', BUFFER) /\ Len(log_buffer') = BUFFER /\ serial' \in Nat
        BY <3>1, <3>2, InitPayloadLength, WriteKeepsBuffer
      <3>4. closed' = closed  BY <3>1 DEF log_write, reader
      <3> QED  BY <3>2, <3>3, <3>4, SettingsAssumption DEF IInv, TypeOK, Buffered
    <2>2. CASE \E r \in Requests : Log(r)
      <3>1. PICK r \in Requests : Log(r)  BY <2>2
      <3>2. /\ status' \in {"running", "overrun"}
            /\ status' # "overrun" => Len(log_buffer') = BUFFER
            /\ Buffered' /\ serial' \in Nat
        BY <3>1, LogFits
      <3>3. tag_serial' \in Nat /\ enabled' = enabled /\ closed' = closed
        BY <3>1 DEF Log, log_write, reader, IInv, TypeOK
      <3> QED  BY <3>2, <3>3 DEF IInv, TypeOK
    <2>3. CASE memtraq_enable
      BY <2>3 DEF memtraq_enable, IInv, TypeOK, Buffered, OfLength, reader
    <2>4. CASE memtraq_disable
      BY <2>4 DEF memtraq_disable, IInv, TypeOK, Buffered, OfLength, reader
    <2>5. CASE Exit
      BY <2>5 DEF Exit, IInv, TypeOK, Buffered, OfLength, reader, writer
    <2>6. CASE Crash
      BY <2>6 DEF Crash, IInv, TypeOK, Buffered, OfLength, reader, writer
    <2>7. CASE ReadRecord
      <3>1. closed' \in BOOLEAN /\ UNCHANGED <<writer, status>>
        BY <2>7 DEF ReadRecord, IInv, TypeOK
      <3> QED  BY <3>1 DEF IInv, TypeOK, Buffered, OfLength, writer
    <2>8. CASE UNCHANGED vars
      BY <2>8 DEF vars, IInv, TypeOK, Buffered, OfLength, reader, writer
    <2> QED
      BY <2>1, <2>2, <2>3, <2>4, <2>5, <2>6, <2>7, <2>8 DEF Next, Finished
  <1> QED  BY <1>1, <1>2, PTL DEF Spec

(* The type invariant, with what is left of log_buffer's length.           *)
THEOREM TypeCorrect == Spec => []TypeOK
  <1>1. IInv => TypeOK  BY DEF IInv
  <1> QED  BY <1>1, BufferKept, PTL

(* Every record but that of a tag fits into log_buffer, for every number   *)
(* of frames that backtrace () may find, and so does the record of a tag   *)
(* with a name of up to BUFFER - 32 letters; that of a longer name, which  *)
(* nothing in memtraq_tag or log_str refuses, runs over the end.           *)
THEOREM OnlyNamesOverrun == Spec => RecordsFit
  <1>1. ASSUME IInv, NEW r \in Requests, Log(r)
        PROVE  IF r.ev = TAG /\ Len(r.name) > BUFFER - 32 THEN status' = "overrun"
               ELSE status' = "running" /\ Len(log_buffer') = BUFFER
    BY <1>1, LogFits
  <1>2. IInv => [\A r \in Requests :
          Log(r) => IF r.ev = TAG /\ Len(r.name) > BUFFER - 32 THEN status' = "overrun"
                    ELSE status' = "running" /\ Len(log_buffer') = BUFFER]_vars
    BY <1>1
  <1> QED  BY <1>2, BufferKept, PTL DEF RecordsFit

-----------------------------------------------------------------------------
(* What a sequence of bytes holds.                                         *)
IsSeq(s) == OfLength(s, Len(s))

\* What there is of the n bytes of v at byte at of d.
Holds(d, at, v, n) == \A i \in 1 .. n : at + i <= Len(d) => d[at + i] = <<v, i, n>>

LEMMA ConcatElements ==
  ASSUME NEW s, NEW t, NEW m, NEW n, OfLength(s, m), OfLength(t, n)
  PROVE  /\ OfLength(s \o t, m + n)
         /\ \A i \in 1 .. m : (s \o t)[i] = s[i]
         /\ \A i \in 1 .. n : (s \o t)[m + i] = t[i]
  <1>1. PICK S : s \in Seq(S)  BY DEF OfLength
  <1>2. PICK T : t \in Seq(T)  BY DEF OfLength
  <1>3. s \in Seq(S \cup T) /\ t \in Seq(S \cup T)  BY <1>1, <1>2
  <1>4. /\ m \in Nat /\ n \in Nat /\ Len(s) = m /\ Len(t) = n
        /\ \A i \in 1 .. (m + n) : (s \o t)[i] = IF i <= m THEN s[i] ELSE t[i - m]
    BY <1>3, ConcatProperties DEF OfLength
  <1>5. ASSUME NEW i \in 1 .. n PROVE (s \o t)[m + i] = t[i]
    <2>1. m + i \in 1 .. (m + n) /\ ~(m + i <= m) /\ (m + i) - m = i  BY <1>4
    <2>2. (s \o t)[m + i] = t[(m + i) - m]  BY <1>4, <2>1
    <2> QED  BY <2>1, <2>2
  <1>6. \A i \in 1 .. m : i \in 1 .. (m + n) /\ i <= m  BY <1>4
  <1> QED  BY <1>4, <1>5, <1>6, ConcatLength

LEMMA HoldsInFirst ==
  ASSUME NEW s, NEW t, NEW m, NEW n, OfLength(s, m), OfLength(t, n),
         NEW at \in Nat, NEW w \in Nat, at + w <= m, NEW v, Holds(s, at, v, w)
  PROVE  Holds(s \o t, at, v, w)
  <1> SUFFICES ASSUME NEW i \in 1 .. w PROVE (s \o t)[at + i] = <<v, i, w>>
    BY DEF Holds
  <1>1. at + i \in 1 .. m /\ at + i <= Len(s)  BY DEF OfLength
  <1> QED  BY <1>1, ConcatElements DEF Holds

LEMMA HoldsInSecond ==
  ASSUME NEW s, NEW t, NEW m, NEW n, OfLength(s, m), OfLength(t, n),
         NEW at \in Nat, NEW w \in Nat, NEW v, Holds(t, at, v, w)
  PROVE  Holds(s \o t, m + at, v, w)
  <1> SUFFICES ASSUME NEW i \in 1 .. w, (m + at) + i <= Len(s \o t)
               PROVE  (s \o t)[(m + at) + i] = <<v, i, w>>
    BY DEF Holds
  <1>1. m \in Nat /\ n \in Nat /\ Len(t) = n /\ Len(s \o t) = m + n
    BY ConcatElements DEF OfLength
  <1>2. PICK j \in 1 .. n : j = at + i /\ (m + at) + i = m + j  BY <1>1
  <1>3. (s \o t)[m + j] = t[j]  BY <1>1, ConcatElements
  <1>4. t[at + i] = <<v, i, w>>  BY <1>1, <1>2 DEF Holds
  <1> QED  BY <1>2, <1>3, <1>4

LEMMA HoldsInPart ==
  ASSUME NEW d, IsSeq(d), NEW n \in 0 .. Len(d), NEW at \in Nat, NEW w \in Nat, NEW v,
         Holds(d, at, v, w)
  PROVE  Holds(SubSeq(d, 1, n), at, v, w)
  <1>1. PICK S : d \in Seq(S)  BY DEF IsSeq, OfLength
  <1>2. Len(SubSeq(d, 1, n)) = n /\ \A i \in 1 .. n : SubSeq(d, 1, n)[i] = d[i]
    BY <1>1
  <1> QED  BY <1>1, <1>2 DEF Holds

LEMMA BytesHold ==
  ASSUME NEW v, NEW w \in Nat PROVE Holds(Bytes(v, w), 0, v, w)
  BY DEF Holds, Bytes

LEMMA PartIs ==
  ASSUME NEW S, NEW s \in Seq(S), NEW m \in Nat \ {0}, NEW n \in Nat, m <= n + 1, n <= Len(s)
  PROVE  /\ SubSeq(s, m, n) \in Seq(S) /\ Len(SubSeq(s, m, n)) = n - m + 1
         /\ \A i \in 1 .. n - m + 1 : SubSeq(s, m, n)[i] = s[m + i - 1]
  <1>1. Len(s) \in Nat /\ \A i \in 1 .. Len(s) : s[i] \in S
    BY LenProperties, ElementOfSeq
  <1>2. \A i \in m .. n : i \in 1 .. Len(s)  BY <1>1
  <1>3. /\ SubSeq(s, m, n) \in Seq(S)
        /\ Len(SubSeq(s, m, n)) = IF m <= n THEN n - m + 1 ELSE 0
    BY <1>1, <1>2
  <1>4. \A i \in 1 .. n - m + 1 : SubSeq(s, m, n)[i] = s[m + i - 1]
    BY <1>1, <1>2
  <1>5. (IF m <= n THEN n - m + 1 ELSE 0) = n - m + 1  OBVIOUS
  <1> QED  BY <1>3, <1>4, <1>5

LEMMA UnpackIs ==
  ASSUME IsSeq(disk), NEW base \in Nat, NEW K \in Nat, NEW o \in Nat, NEW n \in Nat \ {0},
         o + n <= K, NEW v, Holds(disk, base + o, v, n)
  PROVE  Unpack(Chunk(base, K), o, n) = IF base + o + n <= Len(disk) THEN v ELSE Undef
  <1>1. PICK S : disk \in Seq(S)  BY DEF IsSeq, OfLength
  <1> DEFINE last == Smaller(base + K, Len(disk))
             c == Chunk(base, K)
  <1>2. /\ last \in Nat /\ last <= Len(disk) /\ Len(disk) \in Nat
        /\ IF base + K <= Len(disk) THEN last = base + K ELSE last = Len(disk)
    BY <1>1 DEF Smaller
  <1>3. CASE base > last
    <2>1. Len(c) = 0  BY <1>1, <1>2, <1>3 DEF Chunk
    <2>2. ~(base + o + n <= Len(disk))  BY <1>2, <1>3 DEF Smaller
    <2> QED  BY <2>1, <2>2 DEF Unpack
  <1>4. CASE base <= last
    <2>1. /\ c \in Seq(S) /\ Len(c) = last - base
          /\ \A i \in 1 .. (last - base) : c[i] = disk[base + i]
      <3> DEFINE m == base + 1
      <3>1. c = SubSeq(disk, m, last)  BY DEF Chunk
      <3> HIDE DEF c, last
      <3>2. m \in Nat \ {0} /\ m <= last + 1 /\ last - m + 1 = last - base  BY <1>2, <1>4
      <3>3. \A i \in 1 .. last - base : m + i - 1 = base + i  BY <1>2
      <3> HIDE DEF m
      <3>4. /\ SubSeq(disk, m, last) \in Seq(S) /\ Len(SubSeq(disk, m, last)) = last - m + 1
            /\ \A i \in 1 .. last - m + 1 : SubSeq(disk, m, last)[i] = disk[m + i - 1]
        BY <1>1, <1>2, <3>2, PartIs
      <3> QED  BY <3>1, <3>2, <3>3, <3>4
    <2>2. Len(c) < o + n <=> ~(base + o + n <= Len(disk))
      <3> HIDE DEF c, last
      <3> QED  BY <1>2, <1>4, <2>1
    <2>3. CASE Len(c) < o + n  BY <2>2, <2>3 DEF Unpack
    <2>4. CASE ~(Len(c) < o + n)
      <3> DEFINE cells == SubSeq(c, o + 1, o + n)
      <3> HIDE DEF c, last
      <3>1. o + n <= last - base  BY <1>2, <2>1, <2>4
      <3>2. cells \in Seq(S) /\ Len(cells) = n /\ \A i \in 1 .. n : cells[i] = c[o + i]
        BY <2>1, <2>4
      <3>3. ASSUME NEW i \in 1 .. n PROVE cells[i] = <<v, i, n>>
        <4>1. o + i \in 1 .. (last - base) /\ (base + o) + i <= Len(disk)
          BY <1>2, <3>1
        <4>2. c[o + i] = disk[base + (o + i)] /\ base + (o + i) = (base + o) + i
          BY <2>1, <4>1
        <4>3. disk[(base + o) + i] = <<v, i, n>>  BY <4>1 DEF Holds
        <4> QED  BY <3>2, <4>2, <4>3
      <3>4. cells = Bytes(v, n)
        <4>1. cells = [i \in 1 .. n |-> cells[i]]  BY <3>2
        <4> HIDE DEF cells
        <4>2. cells = [i \in 1 .. n |-> <<v, i, n>>]  BY <3>3, <4>1
        <4> QED  BY <4>2 DEF Bytes
      <3>5. cells[1][1] = v  BY <3>3
      <3>6. Decode(cells) = v
        <4> HIDE DEF cells
        <4> QED  BY <3>2, <3>4, <3>5 DEF Decode
      <3>7. Unpack(c, o, n) = Decode(cells)  BY <2>4 DEF Unpack
      <3> QED  BY <2>2, <2>4, <3>6, <3>7 DEF c
    <2> QED  BY <2>3, <2>4
  <1> QED  BY <1>2, <1>3, <1>4

FieldCount(ev) ==
  IF ev = MALLOC THEN 2 ELSE IF ev = FREE THEN 1 ELSE IF ev = REALLOC THEN 3 ELSE 0

\* d holds record m from byte at to byte e, or what there is of it in d.
Describes(d, at, m, e) ==
  LET sz == e - at - 28
  IN /\ Holds(d, at, e - at, 4) /\ Holds(d, at + 4, m.serial, 8)
     /\ Holds(d, at + 12, m.ev, 4) /\ Holds(d, at + 16, m.ts, 8)
     /\ Holds(d, at + 24, m.thread, 4)
     /\ \A k \in 1 .. FieldCount(m.ev) : Holds(d, at + 24 + 4 * k, m.fields[k], 4)
     /\ \A k \in 1 .. Len(m.frames) :
          Holds(d, at + 24 + Fixed(m.ev, sz) + 4 * k, m.frames[k], 4)

\* The length of a record, with the frames that it has room for.
Sized(at, m, e) ==
  LET sz == e - at - 28
  IN /\ sz \in Nat /\ e = at + 28 + Fixed(m.ev, sz) + 4 * Len(m.frames)

FieldsOf(ev, fields) ==
  IF ev = MALLOC THEN <<fields[1], fields[2]>>
  ELSE IF ev = FREE THEN <<fields[1]>>
  ELSE IF ev = REALLOC THEN <<fields[1], fields[2], fields[3]>>
  ELSE <<>>

Shape(m) ==
  /\ m = [serial |-> m.serial, ev |-> m.ev, ts |-> m.ts, thread |-> m.thread,
          fields |-> m.fields, frames |-> m.frames]
  /\ m.ev \in {INIT, MALLOC, FREE, REALLOC, TAG}
  /\ m.fields = FieldsOf(m.ev, m.fields)
  /\ IsSeq(m.frames)
  /\ m.ev \in {INIT, TAG} => m.frames = <<>>

LEMMA FixedIs ==
  ASSUME NEW sz
  PROVE  /\ Fixed(INIT, sz) = 4 /\ Fixed(MALLOC, sz) = 8 /\ Fixed(FREE, sz) = 4
         /\ Fixed(REALLOC, sz) = 12 /\ Fixed(TAG, sz) = sz
  BY DEF Fixed, INIT, MALLOC, FREE, REALLOC, TAG

LEMMA FixedNat ==
  ASSUME NEW ev \in {INIT, MALLOC, FREE, REALLOC, TAG}, NEW sz \in Nat
  PROVE  Fixed(ev, sz) \in Nat
  BY FixedIs

LEMMA FrameCountIs ==
  ASSUME NEW at \in Nat, NEW m, Shape(m), NEW e \in Nat, Sized(at, m, e)
  PROVE  FrameCount(m.ev, e - at - 28) = Len(m.frames)
  <1> DEFINE sz == e - at - 28
             n == Len(m.frames)
  <1>1. n \in Nat /\ sz \in Nat  BY DEF Shape, IsSeq, OfLength, Sized
  <1>2. Fixed(m.ev, sz) \in Nat  BY <1>1, FixedNat DEF Shape
  <1>3. sz - Fixed(m.ev, sz) = 4 * n  BY <1>1, <1>2 DEF Sized
  <1>4. (4 * n + 3) \div 4 = n
    <2> HIDE DEF n
    <2> QED  BY <1>1
  <1>5. CASE m.ev \in {MALLOC, FREE, REALLOC}
    <2> HIDE DEF n, sz
    <2>1. FrameCount(m.ev, sz) = IF 4 * n > 0 THEN (4 * n + 3) \div 4 ELSE 0
      BY <1>3, <1>5 DEF FrameCount
    <2>2. FrameCount(m.ev, sz) = n  BY <1>1, <1>4, <2>1
    <2> QED  BY <2>2 DEF n, sz
  <1>6. CASE m.ev \in {INIT, TAG}
    <2>1. n = 0  BY <1>6 DEF Shape
    <2>2. FrameCount(m.ev, sz) = 0
      BY <1>6 DEF FrameCount, INIT, MALLOC, FREE, REALLOC, TAG
    <2> QED  BY <2>1, <2>2
  <1> QED  BY <1>5, <1>6 DEF Shape

\* What ReadRecord makes of the bytes from offset on.
Header == Chunk(offset, 28)
Ev == Event(Header)
Sz == Number(Unpack(Header, 0, 4)) - 28
Data == Chunk(offset + 28, Fixed(Ev, Sz))
Fields ==
  CASE Ev = MALLOC  -> <<Unpack(Data, 0, 4), Unpack(Data, 4, 4)>>
    [] Ev = FREE    -> <<Unpack(Data, 0, 4)>>
    [] Ev = REALLOC -> <<Unpack(Data, 0, 4), Unpack(Data, 4, 4), Unpack(Data, 8, 4)>>
    [] OTHER        -> <<>>
BackTrace ==
  [k \in 1 .. FrameCount(Ev, Sz) |->
     Unpack(Chunk(offset + 28 + Fixed(Ev, Sz) + 4 * (k - 1), 4), 0, 4)]
Taken ==
  [serial |-> Unpack(Header, 4, 8), ev |-> Ev, ts |-> Unpack(Header, 16, 8),
   thread |-> Unpack(Header, 24, 4), fields |-> Fields, frames |-> BackTrace]
After == Smaller(offset + 28 + Fixed(Ev, Sz) + 4 * FrameCount(Ev, Sz), Len(disk))

LEMMA ReadIs ==
  ASSUME ReadRecord
  PROVE  /\ status \in {"exited", "crashed"} /\ ~closed
         /\ UNCHANGED <<writer, status, disk>>
         /\ \/ Header = <<>> /\ closed' = TRUE /\ UNCHANGED <<offset, seen>>
            \/ /\ Header # <<>> /\ seen' = Append(seen, Taken) /\ offset' = After
               /\ UNCHANGED closed
  BY DEF ReadRecord, Header, Ev, Sz, Data, Fields, BackTrace, Taken, After

Upcoming(m, e) ==
  /\ IsSeq(disk) /\ offset \in Nat /\ e \in Nat
  /\ Shape(m) /\ Sized(offset, m, e) /\ Describes(disk, offset, m, e)

LEMMA HeaderIs ==
  ASSUME NEW m, NEW e, Upcoming(m, e)
  PROVE  /\ Unpack(Header, 0, 4) = IF offset + 4 <= Len(disk) THEN e - offset ELSE Undef
         /\ Unpack(Header, 4, 8) = IF offset + 12 <= Len(disk) THEN m.serial ELSE Undef
         /\ Unpack(Header, 12, 4) = IF offset + 16 <= Len(disk) THEN m.ev ELSE Undef
         /\ Unpack(Header, 16, 8) = IF offset + 24 <= Len(disk) THEN m.ts ELSE Undef
         /\ Unpack(Header, 24, 4) = IF offset + 28 <= Len(disk) THEN m.thread ELSE Undef
  <1>1. /\ IsSeq(disk) /\ offset \in Nat /\ offset + 0 = offset
        /\ offset + 0 + 4 = offset + 4 /\ offset + 4 + 8 = offset + 12
        /\ offset + 12 + 4 = offset + 16 /\ offset + 16 + 8 = offset + 24
        /\ offset + 24 + 4 = offset + 28
    BY DEF Upcoming
  <1>2. /\ Holds(disk, offset + 0, e - offset, 4) /\ Holds(disk, offset + 4, m.serial, 8)
        /\ Holds(disk, offset + 12, m.ev, 4) /\ Holds(disk, offset + 16, m.ts, 8)
        /\ Holds(disk, offset + 24, m.thread, 4)
    BY <1>1 DEF Upcoming, Describes
  <1>3. Unpack(Chunk(offset, 28), 0, 4) = IF offset + 0 + 4 <= Len(disk) THEN e - offset ELSE Undef
    BY <1>1, <1>2, UnpackIs
  <1>4. Unpack(Chunk(offset, 28), 4, 8) = IF offset + 4 + 8 <= Len(disk) THEN m.serial ELSE Undef
    BY <1>1, <1>2, UnpackIs
  <1>5. Unpack(Chunk(offset, 28), 12, 4) = IF offset + 12 + 4 <= Len(disk) THEN m.ev ELSE Undef
    BY <1>1, <1>2, UnpackIs
  <1>6. Unpack(Chunk(offset, 28), 16, 8) = IF offset + 16 + 8 <= Len(disk) THEN m.ts ELSE Undef
    BY <1>1, <1>2, UnpackIs
  <1>7. Unpack(Chunk(offset, 28), 24, 4) = IF offset + 24 + 4 <= Len(disk) THEN m.thread ELSE Undef
    BY <1>1, <1>2, UnpackIs
  <1> QED  BY <1>1, <1>3, <1>4, <1>5, <1>6, <1>7 DEF Header

(* With the event, which is the fourth of the header's values, the size of *)
(* the record is there too, and with it everything that follows is read at *)
(* its place.                                                              *)
LEMMA EventSeen ==
  ASSUME NEW m, NEW e, Upcoming(m, e), offset + 16 <= Len(disk)
  PROVE  Ev = m.ev /\ Sz = e - offset - 28 /\ FrameCount(Ev, Sz) = Len(m.frames)
  <1>1. IsSeq(disk) /\ Len(disk) \in Nat /\ offset \in Nat /\ e \in Nat
    BY DEF Upcoming, IsSeq, OfLength
  <1>2. m.ev \in Int
    BY DEF Upcoming, Shape, INIT, MALLOC, FREE, REALLOC, TAG
  <1>3. Ev = m.ev  BY <1>2, HeaderIs, NamesAssumption DEF Ev, Event
  <1>4. Unpack(Header, 0, 4) = e - offset
    BY <1>1, HeaderIs
  <1>5. Sz = e - offset - 28  BY <1>1, <1>4, NamesAssumption DEF Sz, Number
  <1>6. FrameCount(m.ev, e - offset - 28) = Len(m.frames)
    BY <1>1, FrameCountIs DEF Upcoming
  <1> QED  BY <1>3, <1>5, <1>6

LEMMA EventCut ==
  ASSUME NEW m, NEW e, Upcoming(m, e), ~(offset + 16 <= Len(disk))
  PROVE  Ev = INIT /\ FrameCount(Ev, Sz) = 0 /\ Fixed(Ev, Sz) = 4
         /\ Fields = <<>> /\ BackTrace = <<>>
  <1>1. Ev = INIT  BY HeaderIs DEF Ev, Event
  <1>2. FrameCount(Ev, Sz) = 0  BY <1>1 DEF FrameCount, INIT, MALLOC, FREE, REALLOC
  <1>3. Fixed(Ev, Sz) = 4  BY <1>1, FixedIs
  <1>4. Fields = <<>>  BY <1>1 DEF Fields, INIT, MALLOC, FREE, REALLOC
  <1>5. BackTrace = <<>>  BY <1>2 DEF BackTrace
  <1> QED  BY <1>1, <1>2, <1>3, <1>4, <1>5

LEMMA FieldIs ==
  ASSUME NEW m, NEW e, Upcoming(m, e), offset + 16 <= Len(disk),
         NEW k \in 1 .. FieldCount(m.ev)
  PROVE  Unpack(Data, 4 * (k - 1), 4)
           = IF offset + 28 + 4 * k <= Len(disk) THEN m.fields[k] ELSE Undef
  <1> DEFINE K == Fixed(Ev, Sz)
  <1>1. IsSeq(disk) /\ offset \in Nat  BY DEF Upcoming
  <1>2. Ev = m.ev /\ m.ev \in {INIT, MALLOC, FREE, REALLOC, TAG}
    BY EventSeen DEF Upcoming, Shape
  <1>3. k \in Nat \ {0} /\ K \in Nat /\ 4 * k <= K
    <2>1. K = Fixed(m.ev, Sz)  BY <1>2
    <2> HIDE DEF K
    <2> QED  BY <1>2, <2>1, FixedIs DEF FieldCount, INIT, MALLOC, FREE, REALLOC, TAG
  <1> HIDE DEF K
  <1>4. 4 * (k - 1) \in Nat /\ 4 * (k - 1) + 4 <= K /\ offset + 28 \in Nat
    BY <1>1, <1>3
  <1>5. Holds(disk, (offset + 28) + 4 * (k - 1), m.fields[k], 4)
    <2>1. (offset + 28) + 4 * (k - 1) = offset + 24 + 4 * k  BY <1>1, <1>3
    <2>2. Holds(disk, offset + 24 + 4 * k, m.fields[k], 4)  BY DEF Upcoming, Describes
    <2> QED  BY <2>1, <2>2
  <1>6. Unpack(Chunk(offset + 28, K), 4 * (k - 1), 4)
          = IF (offset + 28) + 4 * (k - 1) + 4 <= Len(disk) THEN m.fields[k] ELSE Undef
    BY <1>1, <1>3, <1>4, <1>5, UnpackIs
  <1>7. (offset + 28) + 4 * (k - 1) + 4 = offset + 28 + 4 * k  BY <1>1, <1>3
  <1> QED  BY <1>6, <1>7 DEF Data, K

LEMMA UnpackAt ==
  ASSUME IsSeq(disk), NEW at \in Nat, NEW v, Holds(disk, at, v, 4)
  PROVE  Unpack(Chunk(at, 4), 0, 4) = IF at + 4 <= Len(disk) THEN v ELSE Undef
  <1>1. at + 0 = at /\ at + 0 + 4 = at + 4  OBVIOUS
  <1>2. Holds(disk, at + 0, v, 4)  BY <1>1
  <1>3. Unpack(Chunk(at, 4), 0, 4) = IF at + 0 + 4 <= Len(disk) THEN v ELSE Undef
    BY <1>2, UnpackIs
  <1> QED  BY <1>1, <1>3

LEMMA FrameIs ==
  ASSUME NEW m, NEW e, Upcoming(m, e), offset + 16 <= Len(disk),
         NEW k \in 1 .. Len(m.frames)
  PROVE  BackTrace[k] = IF offset + 28 + Fixed(Ev, Sz) + 4 * k <= Len(disk)
                        THEN m.frames[k] ELSE Undef
  <1> DEFINE K == Fixed(Ev, Sz)
             at == offset + 28 + K + 4 * (k - 1)
  <1>1. /\ IsSeq(disk) /\ offset \in Nat /\ Len(m.frames) \in Nat
        /\ e - offset - 28 \in Nat
    BY DEF Upcoming, Shape, IsSeq, OfLength, Sized
  <1>2. /\ Ev = m.ev /\ m.ev \in {INIT, MALLOC, FREE, REALLOC, TAG}
        /\ Sz = e - offset - 28 /\ FrameCount(Ev, Sz) = Len(m.frames)
    BY EventSeen DEF Upcoming, Shape
  <1>3. K \in Nat  BY <1>1, <1>2, FixedNat
  <1>4. BackTrace[k] = Unpack(Chunk(at, 4), 0, 4)  BY <1>2 DEF BackTrace
  <1>5. Holds(disk, offset + 24 + K + 4 * k, m.frames[k], 4)
    BY <1>2 DEF Upcoming, Describes
  <1> HIDE DEF K
  <1>6. /\ k \in Nat \ {0} /\ at \in Nat /\ at = offset + 24 + K + 4 * k
        /\ at + 4 = offset + 28 + K + 4 * k
    BY <1>1, <1>3
  <1> HIDE DEF at
  <1>7. Holds(disk, at, m.frames[k], 4)  BY <1>5, <1>6
  <1>8. Unpack(Chunk(at, 4), 0, 4) = IF at + 4 <= Len(disk) THEN m.frames[k] ELSE Undef
    BY <1>1, <1>6, <1>7, UnpackAt
  <1> QED  BY <1>4, <1>6, <1>8 DEF K

LEMMA FieldsAre ==
  ASSUME NEW m, NEW e, Upcoming(m, e), offset + 16 <= Len(disk)
  PROVE  /\ DOMAIN m.fields = 1 .. FieldCount(m.ev) /\ DOMAIN Fields = DOMAIN m.fields
         /\ \A k \in DOMAIN m.fields :
              Fields[k] = IF offset + 28 + 4 * k <= Len(disk) THEN m.fields[k] ELSE Undef
         /\ (\A k \in DOMAIN m.fields : Fields[k] = m.fields[k]) => Fields = m.fields
  <1> DEFINE U(k) == IF offset + 28 + 4 * k <= Len(disk) THEN m.fields[k] ELSE Undef
  <1>1. /\ Ev = m.ev /\ m.ev \in {INIT, MALLOC, FREE, REALLOC, TAG}
        /\ m.fields = FieldsOf(m.ev, m.fields)
    BY EventSeen DEF Upcoming, Shape
  <1>2. \A k \in 1 .. FieldCount(m.ev) : Unpack(Data, 4 * (k - 1), 4) = U(k)
    BY FieldIs
  <1>3. 4 * (1 - 1) = 0 /\ 4 * (2 - 1) = 4 /\ 4 * (3 - 1) = 8  OBVIOUS
  <1> HIDE DEF U
  <1>4. CASE m.ev = MALLOC
    <2>1. FieldCount(m.ev) = 2  BY <1>4 DEF FieldCount
    <2>2. m.fields = <<m.fields[1], m.fields[2]>>  BY <1>1, <1>4 DEF FieldsOf
    <2>3. Unpack(Data, 0, 4) = U(1) /\ Unpack(Data, 4, 4) = U(2)  BY <1>2, <1>3, <2>1
    <2>4. Fields = <<U(1), U(2)>>  BY <1>1, <1>4, <2>3 DEF Fields, MALLOC, FREE, REALLOC
    <2> QED  BY <2>1, <2>2, <2>4 DEF U
  <1>5. CASE m.ev = FREE
    <2>1. FieldCount(m.ev) = 1  BY <1>5 DEF FieldCount, FREE, MALLOC
    <2>2. m.fields = <<m.fields[1]>>  BY <1>1, <1>5 DEF FieldsOf, FREE, MALLOC
    <2>3. Unpack(Data, 0, 4) = U(1)  BY <1>2, <1>3, <2>1
    <2>4. Fields = <<U(1)>>  BY <1>1, <1>5, <2>3 DEF Fields, MALLOC, FREE, REALLOC
    <2> QED  BY <2>1, <2>2, <2>4 DEF U
  <1>6. CASE m.ev = REALLOC
    <2>1. FieldCount(m.ev) = 3  BY <1>6 DEF FieldCount, FREE, MALLOC, REALLOC
    <2>2. m.fields = <<m.fields[1], m.fields[2], m.fields[3]>>
      BY <1>1, <1>6 DEF FieldsOf, FREE, MALLOC, REALLOC
    <2>3. Unpack(Data, 0, 4) = U(1) /\ Unpack(Data, 4, 4) = U(2) /\ Unpack(Data, 8, 4) = U(3)
      BY <1>2, <1>3, <2>1
    <2>4. Fields = <<U(1), U(2), U(3)>>
      BY <1>1, <1>6, <2>3 DEF Fields, MALLOC, FREE, REALLOC
    <2> QED  BY <2>1, <2>2, <2>4 DEF U
  <1>7. CASE m.ev \in {INIT, TAG}
    <2>1. FieldCount(m.ev) = 0  BY <1>7 DEF FieldCount, INIT, TAG, FREE, MALLOC, REALLOC
    <2>2. m.fields = <<>>  BY <1>1, <1>7 DEF FieldsOf, INIT, TAG, FREE, MALLOC, REALLOC
    <2>3. Fields = <<>>  BY <1>1, <1>7 DEF Fields, INIT, TAG, FREE, MALLOC, REALLOC
    <2> QED  BY <2>1, <2>2, <2>3
  <1> QED  BY <1>1, <1>4, <1>5, <1>6, <1>7

LEMMA WithinRecord ==
  ASSUME NEW m, NEW e, Upcoming(m, e)
  PROVE  /\ e >= offset + 28
         /\ \A k \in 1 .. FieldCount(m.ev) : offset + 28 + 4 * k <= e
         /\ \A k \in 1 .. Len(m.frames) :
              offset + 28 + Fixed(m.ev, e - offset - 28) + 4 * k <= e
  <1> DEFINE sz == e - offset - 28
             K == Fixed(m.ev, sz)
             n == Len(m.frames)
  <1>1. offset \in Nat /\ e \in Nat /\ sz \in Nat /\ n \in Nat
    BY DEF Upcoming, Sized, Shape, IsSeq, OfLength
  <1>2. m.ev \in {INIT, MALLOC, FREE, REALLOC, TAG}  BY DEF Upcoming, Shape
  <1>3. K \in Nat  BY <1>1, <1>2, FixedNat
  <1>4. e = offset + 28 + K + 4 * n  BY DEF Upcoming, Sized
  <1>5. \A k \in 1 .. FieldCount(m.ev) : 4 * k <= K
    <2>1. K = Fixed(m.ev, sz)  OBVIOUS
    <2> HIDE DEF K, sz
    <2> QED  BY <1>2, <2>1, FixedIs DEF FieldCount, INIT, MALLOC, FREE, REALLOC, TAG
  <1>6. FieldCount(m.ev) \in Nat  BY DEF FieldCount
  <1> HIDE DEF K, n
  <1>7. e >= offset + 28  BY <1>1, <1>3, <1>4
  <1>8. \A k \in 1 .. FieldCount(m.ev) : offset + 28 + 4 * k <= e
    BY <1>1, <1>3, <1>4, <1>5, <1>6
  <1>9. \A k \in 1 .. n : offset + 28 + K + 4 * k <= e  BY <1>1, <1>3, <1>4
  <1> QED  BY <1>7, <1>8, <1>9 DEF K, n

(* A record that is there in full is read back as it was logged, and the   *)
(* analyzer goes on where it ends.                                         *)
LEMMA WholeRecord ==
  ASSUME NEW m, NEW e, Upcoming(m, e), e <= Len(disk)
  PROVE  Header # <<>> /\ Taken = m /\ After = e
  <1>1. IsSeq(disk) /\ Len(disk) \in Nat /\ offset \in Nat /\ e \in Nat
    BY DEF Upcoming, IsSeq, OfLength
  <1>2. e >= offset + 28  BY WithinRecord
  <1>3. offset + 16 <= Len(disk)  BY <1>1, <1>2
  <1>4. /\ Ev = m.ev /\ Sz = e - offset - 28 /\ FrameCount(Ev, Sz) = Len(m.frames)
    BY <1>3, EventSeen
  <1>5. /\ Unpack(Header, 4, 8) = m.serial /\ Unpack(Header, 16, 8) = m.ts
        /\ Unpack(Header, 24, 4) = m.thread
    BY <1>1, <1>2, HeaderIs
  <1>6. Header # <<>>
    <2>1. PICK S : disk \in Seq(S)  BY <1>1 DEF IsSeq, OfLength
    <2>2. Smaller(offset + 28, Len(disk)) = offset + 28  BY <1>1, <1>2 DEF Smaller
    <2>3. Header = SubSeq(disk, offset + 1, offset + 28)  BY <2>2 DEF Header, Chunk
    <2>4. Len(Header) = 28  BY <1>1, <1>2, <2>1, <2>3
    <2>5. Len(<<>>) = 0 /\ 28 # 0  OBVIOUS
    <2> QED  BY <2>4, <2>5
  <1>7. Fields = m.fields
    <2>1. \A k \in 1 .. FieldCount(m.ev) : offset + 28 + 4 * k <= Len(disk)
      <3>1. FieldCount(m.ev) \in Nat  BY DEF FieldCount
      <3> QED  BY <1>1, <3>1, WithinRecord
    <2>2. \A k \in DOMAIN m.fields : Fields[k] = m.fields[k]  BY <1>3, <2>1, FieldsAre
    <2> QED  BY <1>3, <2>2, FieldsAre
  <1>8. BackTrace = m.frames
    <2>1. IsSeq(m.frames) /\ Len(m.frames) \in Nat  BY DEF Upcoming, Shape, IsSeq, OfLength
    <2>2. PICK S : m.frames \in Seq(S)  BY <2>1 DEF IsSeq, OfLength
    <2>3. m.ev \in {INIT, MALLOC, FREE, REALLOC, TAG} /\ e - offset - 28 \in Nat
      BY DEF Upcoming, Shape, Sized
    <2>4. Fixed(Ev, Sz) \in Nat  BY <1>4, <2>3, FixedNat
    <2>5. \A k \in 1 .. Len(m.frames) : offset + 28 + Fixed(Ev, Sz) + 4 * k <= Len(disk)
      BY <1>1, <1>4, <2>1, <2>4, WithinRecord
    <2>6. \A k \in 1 .. Len(m.frames) : BackTrace[k] = m.frames[k]
      BY <1>3, <2>5, FrameIs
    <2>7. BackTrace = [k \in 1 .. Len(m.frames) |-> BackTrace[k]]  BY <1>4 DEF BackTrace
    <2>8. m.frames = [k \in 1 .. Len(m.frames) |-> m.frames[k]]  BY <2>2
    <2> QED  BY <2>6, <2>7, <2>8
  <1>9. Taken = m
    BY <1>4, <1>5, <1>7, <1>8 DEF Taken, Upcoming, Shape
  <1>10. After = e
    <2>1. e = offset + 28 + Fixed(Ev, Sz) + 4 * FrameCount(Ev, Sz)
      BY <1>4 DEF Upcoming, Sized
    <2> QED  BY <1>1, <2>1 DEF After, Smaller
  <1> QED  BY <1>6, <1>9, <1>10

(* Of a record that was cut the analyzer makes one record of its own, with *)
(* nothing in it that was not logged, and is at the end of the log then.   *)
LEMMA CutRecord ==
  ASSUME NEW m, NEW e, Upcoming(m, e), offset < Len(disk), Len(disk) < e
  PROVE  Header # <<>> /\ CutOf(Taken, m) /\ After = Len(disk)
  <1>1. IsSeq(disk) /\ Len(disk) \in Nat /\ offset \in Nat /\ e \in Nat
    BY DEF Upcoming, IsSeq, OfLength
  <1>2. Header # <<>>
    <2>1. PICK S : disk \in Seq(S)  BY <1>1 DEF IsSeq, OfLength
    <2> DEFINE last == Smaller(offset + 28, Len(disk))
    <2>2. last \in Nat /\ offset < last /\ last <= Len(disk)  BY <1>1 DEF Smaller
    <2>3. Header = SubSeq(disk, offset + 1, last)  BY DEF Header, Chunk
    <2> HIDE DEF last
    <2>4. Len(Header) = last - offset  BY <1>1, <2>1, <2>2, <2>3
    <2>5. Len(<<>>) = 0 /\ last - offset # 0  BY <1>1, <2>2
    <2> QED  BY <2>4, <2>5
  <1>3. /\ Same(Taken.serial, m.serial) /\ Same(Taken.ts, m.ts)
        /\ Same(Taken.thread, m.thread)
    BY HeaderIs DEF Taken, Same
  <1>4. Taken.ev = Ev /\ Taken.fields = Fields /\ Taken.frames = BackTrace
    BY DEF Taken
  <1>5. CASE offset + 16 <= Len(disk)
    <2>1. /\ Ev = m.ev /\ Sz = e - offset - 28 /\ FrameCount(Ev, Sz) = Len(m.frames)
      BY <1>5, EventSeen
    <2>2. IsSeq(m.frames) /\ Len(m.frames) \in Nat  BY DEF Upcoming, Shape, IsSeq, OfLength
    <2>3. \A k \in DOMAIN m.fields : Same(Fields[k], m.fields[k])
      BY <1>5, FieldsAre DEF Same
    <2>4. \A k \in 1 .. Len(m.frames) : Same(BackTrace[k], m.frames[k])
      BY <1>5, FrameIs DEF Same
    <2>5. Len(BackTrace) = Len(m.frames)
      <3>1. BackTrace = [k \in 1 .. Len(m.frames) |-> BackTrace[k]]  BY <2>1 DEF BackTrace
      <3>2. BackTrace \in [1 .. Len(m.frames) -> {BackTrace[k] : k \in 1 .. Len(m.frames)}]
        BY <3>1
      <3> QED  BY <2>2, <3>2, FunctionLength DEF OfLength
    <2>6. DOMAIN m.frames = 1 .. Len(m.frames)
      BY <2>2 DEF IsSeq, OfLength
    <2>7. CutOf(Taken, m)
      BY <1>3, <1>4, <2>1, <2>3, <2>4, <2>5, <2>6 DEF CutOf
    <2>8. After = Len(disk)
      <3>1. e = offset + 28 + Fixed(Ev, Sz) + 4 * FrameCount(Ev, Sz)
        BY <2>1 DEF Upcoming, Sized
      <3> QED  BY <1>1, <3>1 DEF After, Smaller
    <2> QED  BY <1>2, <2>7, <2>8
  <1>6. CASE ~(offset + 16 <= Len(disk))
    <2>1. /\ Ev = INIT /\ FrameCount(Ev, Sz) = 0 /\ Fixed(Ev, Sz) = 4
          /\ Fields = <<>> /\ BackTrace = <<>>
      BY <1>6, EventCut
    <2>2. m.ev = INIT => m.fields = <<>> /\ m.frames = <<>>
      BY DEF Upcoming, Shape, FieldsOf, INIT, MALLOC, FREE, REALLOC
    <2>3. DOMAIN <<>> = {} /\ Len(<<>>) = 0  OBVIOUS
    <2>4. CutOf(Taken, m)
      BY <1>3, <1>4, <2>1, <2>2, <2>3 DEF CutOf
    <2>5. After = Len(disk)
      <3>1. After = Smaller(offset + 28 + 4 + 4 * 0, Len(disk))  BY <2>1 DEF After
      <3> QED  BY <1>1, <1>6, <3>1 DEF Smaller
    <2> QED  BY <1>2, <2>4, <2>5
  <1> QED  BY <1>5, <1>6

(* There is nothing left to read at the end of the log.                    *)
LEMMA NothingLeft ==
  ASSUME IsSeq(disk), offset = Len(disk)
  PROVE  Header = <<>>
  <1>1. PICK S : disk \in Seq(S)  BY DEF IsSeq, OfLength
  <1>2. Len(disk) \in Nat  BY <1>1
  <1>3. Smaller(offset + 28, Len(disk)) = Len(disk)  BY <1>2 DEF Smaller
  <1>4. Header = SubSeq(disk, Len(disk) + 1, Len(disk))  BY <1>3 DEF Header, Chunk
  <1> QED  BY <1>1, <1>2, <1>4

\* P is what log_write puts after the header of record m.
Lays(P, m, sz) ==
  /\ Shape(m) /\ OfLength(P, sz) /\ sz = Fixed(m.ev, sz) + 4 * Len(m.frames)
  /\ \A k \in 1 .. FieldCount(m.ev) : Holds(P, 4 * (k - 1), m.fields[k], 4)
  /\ \A k \in 1 .. Len(m.frames) :
       Holds(P, Fixed(m.ev, sz) + 4 * (k - 1), m.frames[k], 4)

FramesOf(r) == SubSeq(r.bt, r.skip + 2, Len(r.bt))

LEMMA FramesAre ==
  ASSUME PTR = 4, NEW r \in Requests
  PROVE  /\ IsSeq(FramesOf(r))
         /\ OfLength(LogFrames(r), 4 * Len(FramesOf(r)))
         /\ \A k \in 1 .. Len(FramesOf(r)) :
              Holds(LogFrames(r), 4 * (k - 1), FramesOf(r)[k], 4)
  <1> DEFINE n == Frames(r)
             L == Len(r.bt)
             e(i) == <<r.bt[L - n + 1 + ((i - 1) \div 4)], ((i - 1) % 4) + 1, 4>>
  <1>1. r.bt \in Seq(Addresses) /\ L \in Nat /\ r.skip \in Nat  BY RequestsAssumption
  <1>2. n \in Nat /\ n = IF L > r.skip + 1 THEN L - (r.skip + 1) ELSE 0
    BY <1>1 DEF Frames
  <1>3. /\ FramesOf(r) \in Seq(Addresses) /\ Len(FramesOf(r)) = n
        /\ \A k \in 1 .. n : FramesOf(r)[k] = r.bt[r.skip + 1 + k]
    <2>1. CASE L > r.skip + 1
      <3>1. /\ FramesOf(r) \in Seq(Addresses) /\ Len(FramesOf(r)) = L - (r.skip + 2) + 1
            /\ \A k \in 1 .. (L - (r.skip + 2) + 1) : FramesOf(r)[k] = r.bt[(r.skip + 2) + k - 1]
        <4> DEFINE m == r.skip + 2
        <4>1. m \in Nat \ {0} /\ m <= L + 1  BY <1>1, <2>1
        <4>2. FramesOf(r) = SubSeq(r.bt, m, L)  BY DEF FramesOf
        <4> HIDE DEF m
        <4>3. /\ SubSeq(r.bt, m, L) \in Seq(Addresses) /\ Len(SubSeq(r.bt, m, L)) = L - m + 1
              /\ \A k \in 1 .. L - m + 1 : SubSeq(r.bt, m, L)[k] = r.bt[m + k - 1]
          BY <1>1, <4>1, PartIs
        <4> QED  BY <4>2, <4>3 DEF m
      <3>2. L - (r.skip + 2) + 1 = n  BY <1>1, <1>2, <2>1
      <3>3. \A k \in 1 .. n : (r.skip + 2) + k - 1 = r.skip + 1 + k  BY <1>1, <1>2
      <3> QED  BY <3>1, <3>2, <3>3
    <2>2. CASE ~(L > r.skip + 1)
      <3>1. FramesOf(r) = <<>>  BY <1>1, <2>2 DEF FramesOf
      <3>2. n = 0  BY <1>2, <2>2
      <3>3. <<>> \in Seq(Addresses) /\ Len(<<>>) = 0 /\ 1 .. 0 = {}  OBVIOUS
      <3> HIDE DEF n
      <3> QED  BY <3>1, <3>2, <3>3
    <2> QED  BY <2>1, <2>2
  <1>4. LogFrames(r) = [i \in 1 .. (4 * n) |-> e(i)]  BY DEF LogFrames
  <1>5. ASSUME NEW k \in 1 .. n, NEW i \in 1 .. 4
        PROVE  4 * (k - 1) + i \in 1 .. (4 * n) /\ e(4 * (k - 1) + i) = <<FramesOf(r)[k], i, 4>>
    <2> HIDE DEF n
    <2>1. k \in Nat \ {0} /\ k <= n  BY <1>2
    <2>2. /\ 4 * (k - 1) + i \in 1 .. (4 * n)
          /\ (4 * (k - 1) + i - 1) \div 4 = k - 1 /\ (4 * (k - 1) + i - 1) % 4 = i - 1
      <3>1. CASE i = 1  BY <1>2, <2>1, <3>1
      <3>2. CASE i = 2  BY <1>2, <2>1, <3>2
      <3>3. CASE i = 3  BY <1>2, <2>1, <3>3
      <3>4. CASE i = 4  BY <1>2, <2>1, <3>4
      <3> QED  BY <3>1, <3>2, <3>3, <3>4
    <2>3. L - n + 1 + (k - 1) = r.skip + 1 + k  BY <1>1, <1>2, <2>1
    <2>4. e(4 * (k - 1) + i) = <<r.bt[r.skip + 1 + k], i, 4>>
      <3>1. (i - 1) + 1 = i  OBVIOUS
      <3> QED  BY <2>2, <2>3, <3>1
    <2> QED  BY <1>3, <2>2, <2>4
  <1> HIDE DEF n, e
  <1>6. LogFrames(r) \in [1 .. (4 * n) -> {e(i) : i \in 1 .. (4 * n)}]  BY <1>4
  <1>7. 4 * n \in Nat  BY <1>2
  <1>8. OfLength(LogFrames(r), 4 * n)  BY <1>6, <1>7, FunctionLength
  <1>9. \A k \in 1 .. n : Holds(LogFrames(r), 4 * (k - 1), FramesOf(r)[k], 4)
    BY <1>4, <1>5 DEF Holds
  <1>10. IsSeq(FramesOf(r))  BY <1>2, <1>3 DEF IsSeq, OfLength
  <1> QED  BY <1>3, <1>8, <1>9, <1>10

(* Fixed fields, then frames.                                              *)
LEMMA PayloadOf ==
  ASSUME NEW m, Shape(m), m.ev \in {MALLOC, FREE, REALLOC}, NEW A, NEW B, NEW sz,
         OfLength(A, Fixed(m.ev, sz)), OfLength(B, 4 * Len(m.frames)),
         sz = Fixed(m.ev, sz) + 4 * Len(m.frames),
         \A k \in 1 .. FieldCount(m.ev) : Holds(A, 4 * (k - 1), m.fields[k], 4),
         \A k \in 1 .. Len(m.frames) : Holds(B, 4 * (k - 1), m.frames[k], 4)
  PROVE  Lays(A \o B, m, sz)
  <1> DEFINE K == Fixed(m.ev, sz)
  <1>1. K \in Nat /\ (m.ev = MALLOC => K = 8) /\ (m.ev = FREE => K = 4)
        /\ (m.ev = REALLOC => K = 12)
    BY FixedIs DEF OfLength
  <1> HIDE DEF K
  <1>2. Len(m.frames) \in Nat  BY DEF Shape, IsSeq, OfLength
  <1>3. OfLength(A \o B, sz)  BY ConcatElements
  <1>4. ASSUME NEW k \in 1 .. FieldCount(m.ev)
        PROVE  Holds(A \o B, 4 * (k - 1), m.fields[k], 4)
    <2>1. 4 * (k - 1) \in Nat /\ 4 * (k - 1) + 4 <= K
      BY <1>1 DEF FieldCount, MALLOC, FREE, REALLOC
    <2>2. Holds(A, 4 * (k - 1), m.fields[k], 4)  OBVIOUS
    <2> QED  BY <2>1, <2>2, HoldsInFirst DEF K
  <1>5. ASSUME NEW k \in 1 .. Len(m.frames)
        PROVE  Holds(A \o B, K + 4 * (k - 1), m.frames[k], 4)
    <2>1. 4 * (k - 1) \in Nat  BY <1>2
    <2>2. Holds(B, 4 * (k - 1), m.frames[k], 4)  OBVIOUS
    <2> QED  BY <2>1, <2>2, HoldsInSecond DEF K
  <1> QED  BY <1>3, <1>4, <1>5 DEF Lays, K

(* What the reader must make of a record has the form that it unpacks.     *)
LEMMA MeantShape ==
  ASSUME NEW r, NEW n, r.ev \in {INIT, MALLOC, FREE, REALLOC, TAG},
         IsSeq(Meant(r, n).frames)
  PROVE  Shape(Meant(r, n))
  <1> DEFINE m == Meant(r, n)
  <1>1. /\ m = [serial |-> m.serial, ev |-> m.ev, ts |-> m.ts, thread |-> m.thread,
                fields |-> m.fields, frames |-> m.frames]
        /\ m.ev = r.ev
    BY DEF Meant
  <1>2. m.fields = FieldsOf(m.ev, m.fields)
    <2>1. CASE r.ev = MALLOC
      BY <2>1 DEF Meant, FieldsOf, INIT, MALLOC, FREE, REALLOC, TAG
    <2>2. CASE r.ev = FREE
      BY <2>2 DEF Meant, FieldsOf, INIT, MALLOC, FREE, REALLOC, TAG
    <2>3. CASE r.ev = REALLOC
      BY <2>3 DEF Meant, FieldsOf, INIT, MALLOC, FREE, REALLOC, TAG
    <2>4. CASE r.ev \in {INIT, TAG}
      BY <2>4 DEF Meant, FieldsOf, INIT, MALLOC, FREE, REALLOC, TAG
    <2> QED  BY <2>1, <2>2, <2>3, <2>4
  <1>3. m.ev \in {INIT, TAG} => m.frames = <<>>
    BY DEF Meant, INIT, MALLOC, FREE, REALLOC, TAG
  <1> HIDE DEF m
  <1>4. m.ev \in {INIT, MALLOC, FREE, REALLOC, TAG}  BY <1>1
  <1>5. IsSeq(m.frames)  BY DEF m
  <1>6. Shape(m)  BY <1>1, <1>2, <1>3, <1>4, <1>5 DEF Shape
  <1> QED  BY <1>6 DEF m

LEMMA EmptyIsSeq == IsSeq(<<>>) /\ OfLength(<<>>, 0)
  <1>1. <<>> \in Seq({}) /\ Len(<<>>) = 0  OBVIOUS
  <1> QED  BY <1>1 DEF IsSeq, OfLength

LEMMA InitLays ==
  ASSUME NEW thread, NEW n
  PROVE  Lays(Payload(InitRecord(thread)), Meant(InitRecord(thread), n), 4)
  <1> DEFINE r == InitRecord(thread)
             m == Meant(r, n)
  <1>1. r.ev = INIT  BY DEF InitRecord
  <1>2. m.ev = INIT /\ m.frames = <<>>
    BY <1>1 DEF Meant, INIT, MALLOC, FREE, REALLOC
  <1>3. Payload(r) = Bytes(r.size, 4)
    BY <1>1 DEF Payload, INIT, MALLOC, FREE, REALLOC, TAG
  <1> HIDE DEF r
  <1>4. Shape(m)  BY <1>1, <1>2, EmptyIsSeq, MeantShape
  <1>5. OfLength(Payload(r), 4)  BY <1>3, BytesLength
  <1> HIDE DEF m
  <1>6. FieldCount(m.ev) = 0  BY <1>2 DEF FieldCount, INIT, MALLOC, FREE, REALLOC
  <1>7. Len(m.frames) = 0  BY <1>2, EmptyIsSeq DEF OfLength
  <1>8. Fixed(m.ev, 4) = 4  BY <1>2, FixedIs
  <1>9. Lays(Payload(r), m, 4)  BY <1>4, <1>5, <1>6, <1>7, <1>8 DEF Lays
  <1> QED  BY <1>9 DEF r, m

LEMMA TwoFields ==
  ASSUME NEW x, NEW y
  PROVE  /\ OfLength(Bytes(x, 4) \o Bytes(y, 4), 8)
         /\ Holds(Bytes(x, 4) \o Bytes(y, 4), 0, x, 4)
         /\ Holds(Bytes(x, 4) \o Bytes(y, 4), 4, y, 4)
  <1>1. OfLength(Bytes(x, 4), 4) /\ OfLength(Bytes(y, 4), 4)  BY BytesLength
  <1>2. Holds(Bytes(x, 4), 0, x, 4) /\ Holds(Bytes(y, 4), 0, y, 4)  BY BytesHold
  <1>3. OfLength(Bytes(x, 4) \o Bytes(y, 4), 4 + 4)  BY <1>1, ConcatLength
  <1>4. Holds(Bytes(x, 4) \o Bytes(y, 4), 0, x, 4)  BY <1>1, <1>2, HoldsInFirst
  <1>5. Holds(Bytes(x, 4) \o Bytes(y, 4), 4 + 0, y, 4)  BY <1>1, <1>2, HoldsInSecond
  <1>6. 4 + 4 = 8 /\ 4 + 0 = 4  OBVIOUS
  <1> QED  BY <1>3, <1>4, <1>5, <1>6

LEMMA ThreeFields ==
  ASSUME NEW x, NEW y, NEW z
  PROVE  LET c == Bytes(x, 4) \o Bytes(y, 4) \o Bytes(z, 4)
         IN OfLength(c, 12) /\ Holds(c, 0, x, 4) /\ Holds(c, 4, y, 4) /\ Holds(c, 8, z, 4)
  <1> DEFINE d == Bytes(x, 4) \o Bytes(y, 4)
  <1>1. OfLength(d, 8) /\ Holds(d, 0, x, 4) /\ Holds(d, 4, y, 4)  BY TwoFields
  <1> HIDE DEF d
  <1>2. OfLength(Bytes(z, 4), 4) /\ Holds(Bytes(z, 4), 0, z, 4)  BY BytesLength, BytesHold
  <1>3. OfLength(d \o Bytes(z, 4), 8 + 4)  BY <1>1, <1>2, ConcatLength
  <1>4. Holds(d \o Bytes(z, 4), 0, x, 4)  BY <1>1, <1>2, HoldsInFirst
  <1>5. Holds(d \o Bytes(z, 4), 4, y, 4)  BY <1>1, <1>2, HoldsInFirst
  <1>6. Holds(d \o Bytes(z, 4), 8 + 0, z, 4)  BY <1>1, <1>2, HoldsInSecond
  <1>7. 8 + 4 = 12 /\ 8 + 0 = 8  OBVIOUS
  <1> QED  BY <1>3, <1>4, <1>5, <1>6, <1>7 DEF d

(* The payload of every request, with pointers of 4 bytes, is what the     *)
(* reader expects after a header with its event.                           *)
LEMMA RequestLays ==
  ASSUME PTR = 4, NEW r \in Requests, NEW n
  PROVE  \E sz \in Nat : Lays(Payload(r), Meant(r, n), sz)
  <1> DEFINE m == Meant(r, n)
             k == Len(m.frames)
  <1>1. r.ev \in {MALLOC, FREE, REALLOC, TAG}  BY RequestsAssumption
  <1>2. m.ev = r.ev  BY DEF Meant
  <1>3. 4 * (1 - 1) = 0 /\ 4 * (2 - 1) = 4 /\ 4 * (3 - 1) = 8  OBVIOUS
  <1>4. CASE r.ev = MALLOC
    <2> DEFINE A == Bytes(r.size, 4) \o Bytes(r.result, 4)
    <2>1. Payload(r) = A \o LogFrames(r)
      BY <1>4 DEF Payload, INIT, MALLOC, FREE, REALLOC, TAG
    <2>2. m.frames = FramesOf(r)  BY <1>4 DEF Meant, FramesOf
    <2>3. m.fields = <<r.size, r.result>>
      BY <1>4 DEF Meant, INIT, MALLOC, FREE, REALLOC, TAG
    <2> HIDE DEF m
    <2>4. Shape(m)  BY <1>1, <2>2, FramesAre, MeantShape DEF m
    <2>5. k \in Nat  BY <2>4 DEF Shape, IsSeq, OfLength
    <2>6. Fixed(m.ev, 8 + 4 * k) = 8 /\ FieldCount(m.ev) = 2
      BY <1>2, <1>4, FixedIs DEF FieldCount
    <2>7. OfLength(A, 8) /\ Holds(A, 0, m.fields[1], 4) /\ Holds(A, 4, m.fields[2], 4)
      BY <2>3, TwoFields
    <2> HIDE DEF A
    <2>8. \A i \in 1 .. FieldCount(m.ev) : Holds(A, 4 * (i - 1), m.fields[i], 4)
      <3> SUFFICES ASSUME NEW i \in 1 .. 2 PROVE Holds(A, 4 * (i - 1), m.fields[i], 4)
        BY <2>6
      <3>1. i = 1 \/ i = 2  OBVIOUS
      <3> QED  BY <1>3, <2>7, <3>1
    <2>9. /\ OfLength(LogFrames(r), 4 * k)
          /\ \A i \in 1 .. k : Holds(LogFrames(r), 4 * (i - 1), m.frames[i], 4)
      BY <2>2, FramesAre
    <2>10. 8 + 4 * k \in Nat  BY <2>5
    <2>11. Lays(A \o LogFrames(r), m, 8 + 4 * k)
      BY <1>2, <1>4, <2>4, <2>6, <2>7, <2>8, <2>9, PayloadOf
    <2> QED  BY <2>1, <2>10, <2>11 DEF m
  <1>5. CASE r.ev = FREE
    <2> DEFINE A == Bytes(r.p, 4)
               B == IF BacktraceFree THEN LogFrames(r) ELSE <<>>
    <2>1. Payload(r) = A \o B
      <3>1. CASE BacktraceFree
        <4>1. Payload(r) = Bytes(r.p, PTR) \o LogFrames(r)
          BY <1>5, <3>1 DEF Payload, INIT, MALLOC, FREE, REALLOC, TAG
        <4> QED  BY <3>1, <4>1
      <3>2. CASE ~BacktraceFree
        <4>1. Payload(r) = Bytes(r.p, PTR) \o <<>>
          BY <1>5, <3>2 DEF Payload, INIT, MALLOC, FREE, REALLOC, TAG
        <4> QED  BY <3>2, <4>1
      <3> QED  BY <3>1, <3>2
    <2>2. m.frames = IF BacktraceFree THEN FramesOf(r) ELSE <<>>
      BY <1>5, SettingsAssumption DEF Meant, FramesOf, MALLOC, FREE, REALLOC
    <2>3. m.fields = <<r.p>>
      BY <1>5 DEF Meant, INIT, MALLOC, FREE, REALLOC, TAG
    <2> HIDE DEF m
    <2>4. Shape(m)
      <3>1. IsSeq(m.frames)  BY <2>2, FramesAre, EmptyIsSeq
      <3> QED  BY <1>1, <3>1, MeantShape DEF m
    <2>5. k \in Nat  BY <2>4 DEF Shape, IsSeq, OfLength
    <2>6. Fixed(m.ev, 4 + 4 * k) = 4 /\ FieldCount(m.ev) = 1
      BY <1>2, <1>5, FixedIs DEF FieldCount, MALLOC, FREE
    <2>7. OfLength(A, 4) /\ Holds(A, 0, m.fields[1], 4)
      BY <2>3, BytesLength, BytesHold
    <2> HIDE DEF A
    <2>8. \A i \in 1 .. FieldCount(m.ev) : Holds(A, 4 * (i - 1), m.fields[i], 4)
      <3> SUFFICES ASSUME NEW i \in 1 .. 1 PROVE Holds(A, 4 * (i - 1), m.fields[i], 4)
        BY <2>6
      <3>1. i = 1  OBVIOUS
      <3> QED  BY <1>3, <2>7, <3>1
    <2>9. /\ OfLength(B, 4 * k)
          /\ \A i \in 1 .. k : Holds(B, 4 * (i - 1), m.frames[i], 4)
      <3>1. CASE BacktraceFree  BY <2>2, <3>1, FramesAre
      <3>2. CASE ~BacktraceFree
        <4>1. k = 0  BY <2>2, <3>2, EmptyIsSeq DEF OfLength
        <4> HIDE DEF k
        <4>2. 4 * k = 0 /\ 1 .. k = {}  BY <4>1
        <4> QED  BY <3>2, <4>2, EmptyIsSeq DEF k
      <3> QED  BY <3>1, <3>2
    <2> HIDE DEF B
    <2>10. 4 + 4 * k \in Nat  BY <2>5
    <2>11. Lays(A \o B, m, 4 + 4 * k)
      BY <1>2, <1>5, <2>4, <2>6, <2>7, <2>8, <2>9, PayloadOf
    <2> QED  BY <2>1, <2>10, <2>11 DEF m
  <1>6. CASE r.ev = REALLOC
    <2> DEFINE A == Bytes(r.p, 4) \o Bytes(r.size, 4) \o Bytes(r.result, 4)
    <2>1. Payload(r) = A \o LogFrames(r)
      BY <1>6 DEF Payload, INIT, MALLOC, FREE, REALLOC, TAG
    <2>2. m.frames = FramesOf(r)  BY <1>6 DEF Meant, FramesOf
    <2>3. m.fields = <<r.p, r.size, r.result>>
      BY <1>6 DEF Meant, INIT, MALLOC, FREE, REALLOC, TAG
    <2> HIDE DEF m
    <2>4. Shape(m)  BY <1>1, <2>2, FramesAre, MeantShape DEF m
    <2>5. k \in Nat  BY <2>4 DEF Shape, IsSeq, OfLength
    <2>6. Fixed(m.ev, 12 + 4 * k) = 12 /\ FieldCount(m.ev) = 3
      BY <1>2, <1>6, FixedIs DEF FieldCount, MALLOC, FREE, REALLOC
    <2>7. /\ OfLength(A, 12) /\ Holds(A, 0, m.fields[1], 4)
          /\ Holds(A, 4, m.fields[2], 4) /\ Holds(A, 8, m.fields[3], 4)
      BY <2>3, ThreeFields
    <2> HIDE DEF A
    <2>8. \A i \in 1 .. FieldCount(m.ev) : Holds(A, 4 * (i - 1), m.fields[i], 4)
      <3> SUFFICES ASSUME NEW i \in 1 .. 3 PROVE Holds(A, 4 * (i - 1), m.fields[i], 4)
        BY <2>6
      <3>1. i = 1 \/ i = 2 \/ i = 3  OBVIOUS
      <3> QED  BY <1>3, <2>7, <3>1
    <2>9. /\ OfLength(LogFrames(r), 4 * k)
          /\ \A i \in 1 .. k : Holds(LogFrames(r), 4 * (i - 1), m.frames[i], 4)
      BY <2>2, FramesAre
    <2>10. 12 + 4 * k \in Nat  BY <2>5
    <2>11. Lays(A \o LogFrames(r), m, 12 + 4 * k)
      BY <1>2, <1>6, <2>4, <2>6, <2>7, <2>8, <2>9, PayloadOf
    <2> QED  BY <2>1, <2>10, <2>11 DEF m
  <1>7. CASE r.ev = TAG
    <2> DEFINE P == Characters(r.name) \o Bytes(tag_serial', 4)
    <2>1. Payload(r) = P
      BY <1>7 DEF Payload, INIT, MALLOC, FREE, REALLOC, TAG
    <2>2. m.frames = <<>>  BY <1>7 DEF Meant, MALLOC, FREE, REALLOC, TAG
    <2> HIDE DEF m
    <2>3. Shape(m)  BY <1>1, <2>2, EmptyIsSeq, MeantShape DEF m
    <2>4. k = 0  BY <2>2, EmptyIsSeq DEF OfLength
    <2>5. r.name \in Seq(Letters) /\ Len(r.name) \in Nat  BY RequestsAssumption
    <2> DEFINE sz == Len(r.name) + 4
    <2>6. OfLength(P, sz)
      <3>1. OfLength(Characters(r.name), Len(r.name)) /\ OfLength(Bytes(tag_serial', 4), 4)
        BY <2>5, CharactersLength, BytesLength
      <3> QED  BY <3>1, ConcatLength
    <2>7. sz \in Nat  BY <2>5
    <2> HIDE DEF P, sz, k
    <2>8. Fixed(m.ev, sz) = sz /\ FieldCount(m.ev) = 0
      BY <1>2, <1>7, FixedIs DEF FieldCount, MALLOC, FREE, REALLOC, TAG
    <2>9. sz = sz + 4 * k /\ 1 .. k = {}  BY <2>4, <2>7
    <2>10. Lays(P, m, sz)  BY <2>3, <2>6, <2>8, <2>9 DEF Lays, k
    <2> QED  BY <2>1, <2>7, <2>10 DEF m
  <1> QED  BY <1>1, <1>4, <1>5, <1>6, <1>7

LEMMA HeadHolds ==
  ASSUME NEW r, NEW size, NEW n
  PROVE  LET head == Bytes(size, 4) \o Bytes(n, 8) \o log_event(r)
         IN /\ OfLength(head, 28) /\ Holds(head, 0, size, 4) /\ Holds(head, 4, n, 8)
            /\ Holds(head, 12, r.ev, 4) /\ Holds(head, 16, gettimeofday, 8)
            /\ Holds(head, 24, r.thread, 4)
  <1> DEFINE a == Bytes(size, 4) \o Bytes(n, 8)
             b == Bytes(r.ev, 4) \o Bytes(gettimeofday, 8)
             c == b \o Bytes(r.thread, 4)
  <1>1. \A v : OfLength(Bytes(v, 4), 4) /\ OfLength(Bytes(v, 8), 8)  BY BytesLength
  <1>2. \A v : Holds(Bytes(v, 4), 0, v, 4) /\ Holds(Bytes(v, 8), 0, v, 8)  BY BytesHold
  <1>3. OfLength(a, 12) /\ Holds(a, 0, size, 4) /\ Holds(a, 4, n, 8)
    <2>1. OfLength(a, 4 + 8)  BY <1>1, ConcatLength
    <2>2. Holds(a, 0, size, 4)  BY <1>1, <1>2, HoldsInFirst
    <2>3. Holds(a, 4 + 0, n, 8)  BY <1>1, <1>2, HoldsInSecond
    <2>4. 4 + 8 = 12 /\ 4 + 0 = 4  OBVIOUS
    <2> QED  BY <2>1, <2>2, <2>3, <2>4
  <1>4. OfLength(b, 12) /\ Holds(b, 0, r.ev, 4) /\ Holds(b, 4, gettimeofday, 8)
    <2>1. OfLength(b, 4 + 8)  BY <1>1, ConcatLength
    <2>2. Holds(b, 0, r.ev, 4)  BY <1>1, <1>2, HoldsInFirst
    <2>3. Holds(b, 4 + 0, gettimeofday, 8)  BY <1>1, <1>2, HoldsInSecond
    <2>4. 4 + 8 = 12 /\ 4 + 0 = 4  OBVIOUS
    <2> QED  BY <2>1, <2>2, <2>3, <2>4
  <1>5. log_event(r) = c  BY DEF log_event
  <1> HIDE DEF a, b
  <1>6. /\ OfLength(c, 16) /\ Holds(c, 0, r.ev, 4) /\ Holds(c, 4, gettimeofday, 8)
        /\ Holds(c, 12, r.thread, 4)
    <2>1. OfLength(c, 12 + 4)  BY <1>1, <1>4, ConcatLength
    <2>2. Holds(c, 0, r.ev, 4)  BY <1>1, <1>4, HoldsInFirst
    <2>3. Holds(c, 4, gettimeofday, 8)  BY <1>1, <1>4, HoldsInFirst
    <2>4. Holds(c, 12 + 0, r.thread, 4)  BY <1>1, <1>2, <1>4, HoldsInSecond
    <2>5. 12 + 4 = 16 /\ 12 + 0 = 12  OBVIOUS
    <2> QED  BY <2>1, <2>2, <2>3, <2>4, <2>5
  <1> HIDE DEF c
  <1>7. OfLength(a \o c, 12 + 16)  BY <1>3, <1>6, ConcatLength
  <1>8. Holds(a \o c, 0, size, 4) /\ Holds(a \o c, 4, n, 8)  BY <1>3, <1>6, HoldsInFirst
  <1>9. /\ Holds(a \o c, 12 + 0, r.ev, 4) /\ Holds(a \o c, 12 + 4, gettimeofday, 8)
        /\ Holds(a \o c, 12 + 12, r.thread, 4)
    BY <1>3, <1>6, HoldsInSecond
  <1>10. 12 + 16 = 28 /\ 12 + 0 = 12 /\ 12 + 4 = 16 /\ 12 + 12 = 24  OBVIOUS
  <1> QED  BY <1>5, <1>7, <1>8, <1>9, <1>10 DEF a

LEMMA DescribesInSecond ==
  ASSUME NEW s, NEW t, NEW m, NEW M, NEW N, OfLength(s, M), OfLength(t, N),
         Shape(m), Sized(0, m, N), Describes(t, 0, m, N)
  PROVE  Describes(s \o t, M, m, M + N) /\ Sized(M, m, M + N)
  <1> DEFINE sz == N - 28
             K == Fixed(m.ev, sz)
             n == Len(m.frames)
  <1>1. M \in Nat /\ N \in Nat  BY DEF OfLength
  <1>2. /\ N - 0 - 28 = sz /\ (M + N) - M - 28 = sz /\ N - 0 = N /\ (M + N) - M = N
    BY <1>1
  <1>3. sz \in Nat /\ N = 0 + 28 + K + 4 * n  BY <1>2 DEF Sized
  <1>4. K \in Nat  BY <1>3, FixedNat DEF Shape
  <1>5. n \in Nat  BY DEF Shape, IsSeq, OfLength
  <1>6. Sized(M, m, M + N)
    <2> HIDE DEF K, sz, n
    <2>1. M + N = M + 28 + K + 4 * n  BY <1>1, <1>3, <1>4, <1>5
    <2> QED  BY <1>2, <1>3, <2>1 DEF Sized, K, n
  <1>7. /\ Holds(t, 0, N, 4) /\ Holds(t, 0 + 4, m.serial, 8)
        /\ Holds(t, 0 + 12, m.ev, 4) /\ Holds(t, 0 + 16, m.ts, 8)
        /\ Holds(t, 0 + 24, m.thread, 4)
        /\ \A k \in 1 .. FieldCount(m.ev) : Holds(t, 0 + 24 + 4 * k, m.fields[k], 4)
        /\ \A k \in 1 .. n : Holds(t, 0 + 24 + K + 4 * k, m.frames[k], 4)
    BY <1>2 DEF Describes
  <1> HIDE DEF K, sz, n
  <1>8. Holds(s \o t, M + 0, N, 4)  BY <1>7, HoldsInSecond
  <1>9. /\ Holds(s \o t, M + (0 + 4), m.serial, 8) /\ Holds(s \o t, M + (0 + 12), m.ev, 4)
        /\ Holds(s \o t, M + (0 + 16), m.ts, 8) /\ Holds(s \o t, M + (0 + 24), m.thread, 4)
    BY <1>7, HoldsInSecond
  <1>10. ASSUME NEW k \in 1 .. FieldCount(m.ev)
         PROVE  Holds(s \o t, M + 24 + 4 * k, m.fields[k], 4)
    <2>1. k \in Nat  BY DEF FieldCount
    <2>2. 0 + 24 + 4 * k \in Nat /\ M + (0 + 24 + 4 * k) = M + 24 + 4 * k  BY <1>1, <2>1
    <2>3. Holds(s \o t, M + (0 + 24 + 4 * k), m.fields[k], 4)  BY <1>7, <2>2, HoldsInSecond
    <2> QED  BY <2>2, <2>3
  <1>11. ASSUME NEW k \in 1 .. n
         PROVE  Holds(s \o t, M + 24 + K + 4 * k, m.frames[k], 4)
    <2>1. 0 + 24 + K + 4 * k \in Nat /\ M + (0 + 24 + K + 4 * k) = M + 24 + K + 4 * k
      BY <1>1, <1>4, <1>5
    <2>2. Holds(s \o t, M + (0 + 24 + K + 4 * k), m.frames[k], 4)
      BY <1>7, <2>1, HoldsInSecond
    <2> QED  BY <2>1, <2>2
  <1>12. /\ M + 0 = M /\ M + (0 + 4) = M + 4 /\ M + (0 + 12) = M + 12
         /\ M + (0 + 16) = M + 16 /\ M + (0 + 24) = M + 24
    BY <1>1
  <1>13. Describes(s \o t, M, m, M + N)
    BY <1>2, <1>8, <1>9, <1>10, <1>11, <1>12 DEF Describes, K, n
  <1> QED  BY <1>6, <1>13

(* What is written after a record leaves it alone.                         *)
LEMMA DescribesInFirst ==
  ASSUME NEW s, NEW t, NEW m, NEW M, NEW N, OfLength(s, M), OfLength(t, N),
         NEW at \in Nat, NEW e \in Nat, e <= M,
         Shape(m), Sized(at, m, e), Describes(s, at, m, e)
  PROVE  Describes(s \o t, at, m, e)
  <1> DEFINE sz == e - at - 28
             K == Fixed(m.ev, sz)
             n == Len(m.frames)
  <1>1. sz \in Nat /\ e = at + 28 + K + 4 * n  BY DEF Sized
  <1>2. K \in Nat  BY <1>1, FixedNat DEF Shape
  <1>3. n \in Nat /\ M \in Nat  BY DEF Shape, IsSeq, OfLength
  <1>4. \A k \in 1 .. FieldCount(m.ev) : k \in Nat /\ 4 * k <= K
    <2>1. K = Fixed(m.ev, sz) /\ m.ev \in {INIT, MALLOC, FREE, REALLOC, TAG}
      BY DEF Shape
    <2> HIDE DEF K, sz, n
    <2> QED  BY <2>1, FixedIs DEF FieldCount, INIT, MALLOC, FREE, REALLOC, TAG
  <1>5. /\ Holds(s, at, e - at, 4) /\ Holds(s, at + 4, m.serial, 8)
        /\ Holds(s, at + 12, m.ev, 4) /\ Holds(s, at + 16, m.ts, 8)
        /\ Holds(s, at + 24, m.thread, 4)
        /\ \A k \in 1 .. FieldCount(m.ev) : Holds(s, at + 24 + 4 * k, m.fields[k], 4)
        /\ \A k \in 1 .. n : Holds(s, at + 24 + K + 4 * k, m.frames[k], 4)
    BY DEF Describes
  <1> HIDE DEF K, sz, n
  <1>6. /\ at + 4 <= M /\ at + 4 + 8 <= M /\ at + 12 + 4 <= M /\ at + 16 + 8 <= M
        /\ at + 24 + 4 <= M /\ at + 4 \in Nat /\ at + 12 \in Nat /\ at + 16 \in Nat
        /\ at + 24 \in Nat
    BY <1>1, <1>2, <1>3
  <1>7. Holds(s \o t, at, e - at, 4) /\ Holds(s \o t, at + 4, m.serial, 8)
    BY <1>5, <1>6, HoldsInFirst
  <1>8. /\ Holds(s \o t, at + 12, m.ev, 4) /\ Holds(s \o t, at + 16, m.ts, 8)
        /\ Holds(s \o t, at + 24, m.thread, 4)
    BY <1>5, <1>6, HoldsInFirst
  <1>9. ASSUME NEW k \in 1 .. FieldCount(m.ev)
        PROVE  Holds(s \o t, at + 24 + 4 * k, m.fields[k], 4)
    <2>1. at + 24 + 4 * k \in Nat /\ at + 24 + 4 * k + 4 <= M
      <3>1. k \in Nat /\ 4 * k <= K  BY <1>4
      <3> QED  BY <1>1, <1>2, <1>3, <3>1
    <2> QED  BY <1>5, <2>1, HoldsInFirst
  <1>10. ASSUME NEW k \in 1 .. n
         PROVE  Holds(s \o t, at + 24 + K + 4 * k, m.frames[k], 4)
    <2>1. at + 24 + K + 4 * k \in Nat /\ at + 24 + K + 4 * k + 4 <= M
      BY <1>1, <1>2, <1>3
    <2> QED  BY <1>5, <2>1, HoldsInFirst
  <1> QED  BY <1>7, <1>8, <1>9, <1>10 DEF Describes, K, sz, n

LEMMA DescribesInPart ==
  ASSUME NEW d, IsSeq(d), NEW n \in 0 .. Len(d), NEW at \in Nat, NEW e \in Nat, NEW m,
         Shape(m), Sized(at, m, e), Describes(d, at, m, e)
  PROVE  Describes(SubSeq(d, 1, n), at, m, e)
  <1> DEFINE sz == e - at - 28
             K == Fixed(m.ev, sz)
  <1>1. sz \in Nat /\ e = at + 28 + K + 4 * Len(m.frames)  BY DEF Sized
  <1>2. K \in Nat  BY <1>1, FixedNat DEF Shape
  <1>3. Len(m.frames) \in Nat  BY DEF Shape, IsSeq, OfLength
  <1>4. \A k \in 1 .. FieldCount(m.ev) : at + 24 + 4 * k \in Nat  BY DEF FieldCount
  <1>5. /\ Holds(d, at, e - at, 4) /\ Holds(d, at + 4, m.serial, 8)
        /\ Holds(d, at + 12, m.ev, 4) /\ Holds(d, at + 16, m.ts, 8)
        /\ Holds(d, at + 24, m.thread, 4)
        /\ \A k \in 1 .. FieldCount(m.ev) : Holds(d, at + 24 + 4 * k, m.fields[k], 4)
        /\ \A k \in 1 .. Len(m.frames) : Holds(d, at + 24 + K + 4 * k, m.frames[k], 4)
    BY DEF Describes
  <1> HIDE DEF K, sz
  <1>6. \A k \in 1 .. Len(m.frames) : at + 24 + K + 4 * k \in Nat  BY <1>2, <1>3
  <1> DEFINE p == SubSeq(d, 1, n)
  <1>7. \A a \in Nat, w \in Nat : \A v : Holds(d, a, v, w) => Holds(p, a, v, w)
    BY HoldsInPart
  <1> HIDE DEF p
  <1>8. at + 4 \in Nat /\ at + 12 \in Nat /\ at + 16 \in Nat /\ at + 24 \in Nat  OBVIOUS
  <1>9. Holds(p, at, e - at, 4) /\ Holds(p, at + 4, m.serial, 8)  BY <1>5, <1>7, <1>8
  <1>10. Holds(p, at + 12, m.ev, 4) /\ Holds(p, at + 16, m.ts, 8) /\ Holds(p, at + 24, m.thread, 4)
    BY <1>5, <1>7, <1>8
  <1>11. \A k \in 1 .. FieldCount(m.ev) : Holds(p, at + 24 + 4 * k, m.fields[k], 4)
    BY <1>4, <1>5, <1>7
  <1>12. \A k \in 1 .. Len(m.frames) : Holds(p, at + 24 + K + 4 * k, m.frames[k], 4)
    BY <1>5, <1>6, <1>7
  <1> QED  BY <1>9, <1>10, <1>11, <1>12 DEF Describes, K, sz, p

Grown(t, s, x, n) == OfLength(s, n) /\ t = Append(s, x)

LEMMA AppendElements ==
  ASSUME NEW t, NEW s, NEW x, NEW n, Grown(t, s, x, n)
  PROVE  OfLength(t, n + 1) /\ t[n + 1] = x /\ \A i \in 1 .. n : t[i] = s[i]
  <1>1. PICK S : s \in Seq(S)  BY DEF Grown, OfLength
  <1>2. s \in Seq(S \cup {x}) /\ x \in S \cup {x} /\ Len(s) = n /\ n \in Nat
    BY <1>1 DEF Grown, OfLength
  <1>3. /\ t \in Seq(S \cup {x}) /\ Len(t) = n + 1
        /\ t[n + 1] = x /\ \A i \in 1 .. n : t[i] = s[i]
    BY <1>2, AppendProperties DEF Grown
  <1> QED  BY <1>2, <1>3 DEF OfLength

(* What is copied to the front of log_buffer is what is then written.      *)
LEMMA OverwriteFront ==
  ASSUME NEW b, NEW M, OfLength(b, M), NEW c, NEW N, OfLength(c, N)
  PROVE  SubSeq(Overwrite(b, c), 1, N) = c
  <1> DEFINE rest == SubSeq(b, Len(c) + 1, Len(b))
  <1>1. M \in Nat /\ N \in Nat /\ Len(b) = M /\ Len(c) = N  BY DEF OfLength
  <1>2. PICK S : b \in Seq(S)  BY DEF OfLength
  <1>3. PICK T : c \in Seq(T)  BY DEF OfLength
  <1>4. rest \in Seq(S)
    <2>1. \A i \in (N + 1) .. M : b[i] \in S  BY <1>1, <1>2
    <2>2. N + 1 \in Int /\ M \in Int  BY <1>1
    <2> QED  BY <1>1, <2>1, <2>2, SubSeqProperties
  <1>5. Overwrite(b, c) = c \o rest  BY DEF Overwrite
  <1> HIDE DEF rest
  <1>6. OfLength(rest, Len(rest))  BY <1>4 DEF OfLength
  <1> DEFINE R == Len(rest)
  <1> HIDE DEF R
  <1>7. /\ OfLength(c \o rest, N + R) /\ R \in Nat
        /\ \A i \in 1 .. N : (c \o rest)[i] = c[i]
    <2>1. OfLength(rest, R) /\ R \in Nat  BY <1>6 DEF R, OfLength
    <2>2. OfLength(c \o rest, N + R)  BY <2>1, ConcatElements
    <2>3. ASSUME NEW i \in 1 .. N PROVE (c \o rest)[i] = c[i]
      BY <1>1, <2>1, ConcatElements
    <2> QED  BY <2>1, <2>2, <2>3
  <1> DEFINE d == c \o rest
             p == SubSeq(d, 1, N)
  <1>8. PICK U : d \in Seq(U)  BY <1>7 DEF OfLength
  <1>9. Len(d) = N + R  BY <1>7 DEF OfLength
  <1>10. p \in Seq(U) /\ Len(p) = N /\ \A i \in 1 .. N : p[i] = d[i]
    <2> HIDE DEF d
    <2>1. \A i \in 1 .. N : d[i] \in U  BY <1>1, <1>7, <1>8, <1>9
    <2>2. 1 \in Int /\ N \in Int /\ (IF 1 <= N THEN N - 1 + 1 ELSE 0) = N /\ N - 1 + 1 = N
      BY <1>1
    <2>3. /\ p \in Seq(U) /\ Len(p) = IF 1 <= N THEN N - 1 + 1 ELSE 0
          /\ \A i \in 1 .. N - 1 + 1 : p[i] = d[1 + i - 1]
      BY <2>1, <2>2, SubSeqProperties
    <2>4. \A i \in 1 .. N : 1 + i - 1 = i  OBVIOUS
    <2> QED  BY <2>2, <2>3, <2>4
  <1>11. \A i \in 1 .. N : p[i] = c[i]  BY <1>7, <1>10
  <1> HIDE DEF p, d
  <1>12. p = [i \in 1 .. N |-> p[i]]  BY <1>10
  <1>13. c = [i \in 1 .. N |-> c[i]]  BY <1>1, <1>3
  <1>14. p = c  BY <1>11, <1>12, <1>13
  <1> QED  BY <1>5, <1>14 DEF p, d

(* log_write adds to the file exactly the record, whatever log_buffer held.*)
LEMMA WriteDescribes ==
  ASSUME IInv, NEW r, log_write(r), NEW sz, Lays(Payload(r), Meant(r, serial'), sz)
  PROVE  \E rec, N :
           /\ OfLength(rec, N) /\ file' = file \o rec
           /\ Shape(Meant(r, serial')) /\ Sized(0, Meant(r, serial'), N)
           /\ Describes(rec, 0, Meant(r, serial'), N)
  <1> DEFINE m == Meant(r, serial')
             P == Payload(r)
             head == Bytes(Size(r), 4) \o Bytes(serial', 8) \o log_event(r)
             rec == head \o P
             N == 28 + sz
  <1>1. m.serial = serial' /\ m.ev = r.ev /\ m.ts = gettimeofday /\ m.thread = r.thread
    BY DEF Meant
  <1>2. sz \in Nat /\ OfLength(P, sz) /\ Len(P) = sz  BY DEF Lays, OfLength
  <1>3. OfLength(log_event(r), 16) /\ Len(log_event(r)) = 16  BY EventLength DEF OfLength
  <1>4. Size(r) = N  BY <1>2, <1>3 DEF Size, LOG_HEADER_SIZE
  <1>5. log_buffer' = Overwrite(log_buffer, rec) /\ file' = file \o SubSeq(log_buffer', 1, Size(r))
    BY DEF log_write
  <1>6. /\ OfLength(head, 28) /\ Holds(head, 0, N, 4) /\ Holds(head, 4, m.serial, 8)
        /\ Holds(head, 12, m.ev, 4) /\ Holds(head, 16, m.ts, 8) /\ Holds(head, 24, m.thread, 4)
    BY <1>1, <1>4, HeadHolds
  <1>7. /\ Shape(m) /\ sz = Fixed(m.ev, sz) + 4 * Len(m.frames)
        /\ \A k \in 1 .. FieldCount(m.ev) : Holds(P, 4 * (k - 1), m.fields[k], 4)
        /\ \A k \in 1 .. Len(m.frames) : Holds(P, Fixed(m.ev, sz) + 4 * (k - 1), m.frames[k], 4)
    BY DEF Lays
  <1> HIDE DEF m, P, head
  <1>8. OfLength(rec, N)  BY <1>2, <1>6, ConcatLength
  <1>9. file' = file \o rec
    <2> HIDE DEF rec, N
    <2>1. OfLength(log_buffer, Len(log_buffer))  BY DEF IInv, Buffered
    <2>2. SubSeq(log_buffer', 1, N) = rec  BY <1>5, <1>8, <2>1, OverwriteFront
    <2> QED  BY <1>4, <1>5, <2>2
  <1> DEFINE K == Fixed(m.ev, sz)
             n == Len(m.frames)
  <1>10. N - 0 - 28 = sz /\ N - 0 = N  BY <1>2
  <1>11. K \in Nat /\ n \in Nat
    BY <1>2, <1>7, FixedNat DEF Shape, IsSeq, OfLength
  <1>12. Sized(0, m, N)
    <2>1. N = 0 + 28 + K + 4 * n
      <3>1. sz = K + 4 * n  BY <1>7
      <3> HIDE DEF K, n
      <3> QED  BY <1>2, <1>11, <3>1
    <2> QED  BY <1>2, <1>10, <2>1 DEF Sized
  <1>13. /\ Holds(rec, 0, N, 4) /\ Holds(rec, 0 + 4, m.serial, 8)
         /\ Holds(rec, 0 + 12, m.ev, 4) /\ Holds(rec, 0 + 16, m.ts, 8)
         /\ Holds(rec, 0 + 24, m.thread, 4)
    <2> HIDE DEF N
    <2>1. 0 + 4 = 4 /\ 0 + 12 = 12 /\ 0 + 16 = 16 /\ 0 + 24 = 24  OBVIOUS
    <2>2. Holds(rec, 0, N, 4)  BY <1>2, <1>6, HoldsInFirst
    <2>4. Holds(rec, 4, m.serial, 8)
      <3>1. OfLength(head, 28) /\ OfLength(P, sz) /\ Holds(head, 4, m.serial, 8)
        BY <1>2, <1>6
      <3>2. 4 \in Nat /\ 8 \in Nat /\ 4 + 8 <= 28  OBVIOUS
      <3> QED  BY <3>1, <3>2, HoldsInFirst
    <2>3. Holds(rec, 12, m.ev, 4) /\ Holds(rec, 16, m.ts, 8) /\ Holds(rec, 24, m.thread, 4)
      BY <1>2, <1>6, HoldsInFirst
    <2> QED  BY <2>1, <2>2, <2>3, <2>4
  <1>14. ASSUME NEW k \in 1 .. FieldCount(m.ev)
         PROVE  Holds(rec, 0 + 24 + 4 * k, m.fields[k], 4)
    <2>1. k \in Nat \ {0}  BY DEF FieldCount
    <2>2. 4 * (k - 1) \in Nat /\ 28 + 4 * (k - 1) = 0 + 24 + 4 * k  BY <2>1
    <2>3. Holds(P, 4 * (k - 1), m.fields[k], 4)  BY <1>7
    <2>4. Holds(rec, 28 + 4 * (k - 1), m.fields[k], 4)
      BY <1>2, <1>6, <2>2, <2>3, HoldsInSecond
    <2> QED  BY <2>2, <2>4
  <1>15. ASSUME NEW k \in 1 .. n
         PROVE  Holds(rec, 0 + 24 + K + 4 * k, m.frames[k], 4)
    <2>1. Holds(P, K + 4 * (k - 1), m.frames[k], 4)  BY <1>7
    <2> HIDE DEF K, n
    <2>2. k \in Nat \ {0}  BY <1>11
    <2>3. K + 4 * (k - 1) \in Nat /\ 28 + (K + 4 * (k - 1)) = 0 + 24 + K + 4 * k
      BY <1>11, <2>2
    <2>4. Holds(rec, 28 + (K + 4 * (k - 1)), m.frames[k], 4)
      BY <1>2, <1>6, <2>1, <2>3, HoldsInSecond
    <2> QED  BY <2>3, <2>4
  <1>16. Describes(rec, 0, m, N)
    BY <1>10, <1>13, <1>14, <1>15 DEF Describes
  <1> QED  BY <1>7, <1>8, <1>9, <1>12, <1>16 DEF m

\* Where the i-th record of the file starts.
Start(i) == IF i = 1 THEN 0 ELSE ends[i - 1]

Recorded ==
  /\ IsSeq(file) /\ IsSeq(ends) /\ OfLength(written, Len(ends))
  /\ \A i \in 1 .. Len(ends) : ends[i] \in Nat /\ Start(i) < ends[i]
  /\ \A i, j \in 1 .. Len(ends) : i < j => ends[i] < ends[j]
  /\ Len(file) = Start(Len(ends) + 1)
  /\ \A i \in 1 .. Len(ends) :
       /\ Shape(written[i]) /\ Sized(Start(i), written[i], ends[i])
       /\ Describes(file, Start(i), written[i], ends[i])

Synced ==
  /\ safe \in 0 .. Len(ends) /\ synced \in 0 .. Len(file)
  /\ Start(safe + 1) <= synced

Over == status \in {"exited", "crashed"}

Remains ==
  /\ Over => /\ IsSeq(disk) /\ synced <= Len(disk) /\ Len(disk) <= Len(file)
             /\ disk = SubSeq(file, 1, Len(disk))
             /\ status = "exited" => Len(disk) = Len(file)
  /\ ~Over => offset = 0 /\ seen = <<>> /\ closed = FALSE

\* The k whole records have been read, and nothing else.
InStep(k) == Len(seen) = k /\ offset = Start(k + 1) /\ (closed => offset = Len(disk))

\* And what is left of the one after them.
PastCut(k) ==
  /\ k < Len(ends) /\ Start(k + 1) < Len(disk) /\ Len(disk) < ends[k + 1]
  /\ Len(seen) = k + 1 /\ offset = Len(disk) /\ CutOf(seen[k + 1], written[k + 1])

Read(k) ==
  /\ Start(k + 1) <= Len(disk) /\ \A i \in 1 .. k : seen[i] = written[i]
  /\ InStep(k) \/ PastCut(k)

Progress == Over => IsSeq(seen) /\ \E k \in 0 .. Len(ends) : Read(k)

Keeping == IInv /\ Recorded /\ Synced /\ Remains /\ Progress

LEMMA StartNat ==
  ASSUME Recorded, NEW i \in 1 .. (Len(ends) + 1)
  PROVE  Start(i) \in Nat /\ Len(ends) \in Nat /\ Start(i) <= Len(file)
  <1>1. Len(ends) \in Nat  BY DEF Recorded, IsSeq, OfLength
  <1>2. Start(i) \in Nat
    <2>1. CASE i = 1  BY <2>1 DEF Start
    <2>2. CASE i # 1
      <3>1. i - 1 \in 1 .. Len(ends)  BY <1>1, <2>2
      <3> QED  BY <2>2, <3>1 DEF Start, Recorded
    <2> QED  BY <2>1, <2>2
  <1>3. Start(i) <= Len(file)
    <2>1. CASE i = Len(ends) + 1
      <3>1. Len(file) = Start(i)  BY <2>1 DEF Recorded
      <3> QED  BY <1>2, <3>1
    <2>2. CASE i # Len(ends) + 1
      <3>1. i \in 1 .. Len(ends)  BY <1>1, <2>2
      <3>2. Start(i) < ends[i] /\ ends[i] \in Nat  BY <3>1 DEF Recorded
      <3>3. Len(ends) \in 1 .. Len(ends) /\ Len(file) = ends[Len(ends)]
        <4>1. Len(ends) + 1 # 1 /\ (Len(ends) + 1) - 1 = Len(ends)  BY <1>1, <3>1
        <4>2. Start(Len(ends) + 1) = ends[(Len(ends) + 1) - 1]  BY <4>1 DEF Start
        <4> QED  BY <1>1, <3>1, <4>1, <4>2 DEF Recorded
      <3>4. ends[Len(ends)] \in Nat  BY <3>3 DEF Recorded
      <3>5. i = Len(ends) \/ ends[i] < ends[Len(ends)]
        BY <1>1, <3>1, <3>3 DEF Recorded
      <3> QED  BY <1>2, <3>2, <3>3, <3>4, <3>5
    <2> QED  BY <2>1, <2>2
  <1> QED  BY <1>1, <1>2, <1>3

(* The record after the last one that was read, as far as it is there.     *)
LEMMA NextIsThere ==
  ASSUME Recorded, Over, Remains, NEW k \in 0 .. Len(ends), InStep(k),
         offset < Len(disk)
  PROVE  k < Len(ends) /\ Upcoming(written[k + 1], ends[k + 1])
  <1>1. /\ IsSeq(disk) /\ Len(disk) <= Len(file) /\ disk = SubSeq(file, 1, Len(disk))
        /\ IsSeq(file)
    BY DEF Remains, Recorded
  <1>2. Len(disk) \in Nat /\ Len(file) \in Nat /\ Len(ends) \in Nat
    BY <1>1 DEF IsSeq, OfLength, Recorded
  <1>3. k + 1 \in 1 .. (Len(ends) + 1)  BY <1>2
  <1>4. offset = Start(k + 1) /\ offset \in Nat  BY <1>3, StartNat DEF InStep
  <1>5. k < Len(ends)
    <2>1. SUFFICES ASSUME k = Len(ends) PROVE FALSE  BY <1>2
    <2>2. offset = Len(file)  BY <1>4, <2>1 DEF Recorded
    <2> QED  BY <1>1, <1>2, <1>4, <2>2
  <1>6. k + 1 \in 1 .. Len(ends)  BY <1>2, <1>5
  <1>7. /\ Shape(written[k + 1]) /\ Sized(offset, written[k + 1], ends[k + 1])
        /\ Describes(file, offset, written[k + 1], ends[k + 1]) /\ ends[k + 1] \in Nat
    BY <1>4, <1>6 DEF Recorded
  <1>8. Len(disk) \in 0 .. Len(file)  BY <1>1, <1>2
  <1>9. Describes(SubSeq(file, 1, Len(disk)), offset, written[k + 1], ends[k + 1])
    BY <1>1, <1>4, <1>7, <1>8, DescribesInPart
  <1>10. Describes(disk, offset, written[k + 1], ends[k + 1])  BY <1>1, <1>9
  <1> QED  BY <1>1, <1>4, <1>5, <1>7, <1>10 DEF Upcoming

LEMMA WriteKeepsRecorded ==
  ASSUME IInv, Recorded, NEW r, log_write(r), NEW sz,
         Lays(Payload(r), Meant(r, serial'), sz)
  PROVE  /\ Recorded' /\ Len(ends') = Len(ends) + 1 /\ Len(file) <= Len(file')
         /\ \A i \in 1 .. (Len(ends) + 1) : Start(i)' = Start(i)
  <1> DEFINE m == Meant(r, serial')
  <1>0. PICK n, M : n = Len(ends) /\ M = Len(file)  OBVIOUS
  <1>1. PICK rec, N :
           /\ OfLength(rec, N) /\ file' = file \o rec
           /\ Shape(m) /\ Sized(0, m, N) /\ Describes(rec, 0, m, N)
    BY WriteDescribes
  <1>2. written' = Append(written, m) /\ ends' = Append(ends, Len(file'))
    BY DEF log_write
  <1>3. IsSeq(file) /\ IsSeq(ends) /\ OfLength(written, n) /\ n \in Nat /\ M \in Nat
    BY <1>0 DEF Recorded, IsSeq, OfLength
  <1>4. OfLength(file, M) /\ OfLength(ends, n)  BY <1>0, <1>3 DEF IsSeq
  <1> HIDE DEF m
  <1>5. N \in Nat /\ N > 0
    <2>1. N \in Nat  BY <1>1 DEF OfLength
    <2>2. N - 0 - 28 \in Nat  BY <1>1 DEF Sized
    <2> QED  BY <2>1, <2>2
  <1>6. OfLength(file', M + N) /\ Len(file') = M + N /\ IsSeq(file')
    <2>1. OfLength(file', M + N)  BY <1>1, <1>4, ConcatElements
    <2> QED  BY <2>1 DEF OfLength, IsSeq
  <1>7. Describes(file', M, m, M + N) /\ Sized(M, m, M + N)
    BY <1>1, <1>4, DescribesInSecond
  <1>8. /\ OfLength(ends', n + 1) /\ Len(ends') = n + 1 /\ ends'[n + 1] = M + N
        /\ \A i \in 1 .. n : ends'[i] = ends[i]
    <2>1. Grown(ends', ends, M + N, n)  BY <1>2, <1>4, <1>6 DEF Grown
    <2>2. /\ OfLength(ends', n + 1) /\ ends'[n + 1] = M + N
          /\ \A i \in 1 .. n : ends'[i] = ends[i]
      BY <2>1, AppendElements
    <2> QED  BY <2>2 DEF OfLength
  <1>9. /\ OfLength(written', n + 1) /\ written'[n + 1] = m
        /\ \A i \in 1 .. n : written'[i] = written[i]
    <2>1. Grown(written', written, m, n)  BY <1>2, <1>3 DEF Grown
    <2> QED  BY <2>1, AppendElements
  <1>10. \A i \in 1 .. (n + 1) : Start(i)' = Start(i)
    <2> SUFFICES ASSUME NEW i \in 1 .. (n + 1) PROVE Start(i)' = Start(i)  OBVIOUS
    <2>1. CASE i = 1  BY <2>1 DEF Start
    <2>2. CASE i # 1
      <3>1. i - 1 \in 1 .. n  BY <1>3, <2>2
      <3> QED  BY <1>8, <2>2, <3>1 DEF Start
    <2> QED  BY <2>1, <2>2
  <1>11. Start(n + 1) = M /\ Start(n + 1)' = M  BY <1>0, <1>3, <1>10 DEF Recorded
  <1>12. \A i \in 1 .. n : ends[i] \in Nat /\ ends[i] <= M
    <2> SUFFICES ASSUME NEW i \in 1 .. n PROVE ends[i] \in Nat /\ ends[i] <= M  OBVIOUS
    <2>1. i + 1 \in 1 .. (n + 1) /\ i + 1 # 1 /\ (i + 1) - 1 = i  BY <1>3
    <2>2. Start(i + 1) = ends[i]  BY <2>1 DEF Start
    <2> QED  BY <1>0, <2>1, <2>2, StartNat
  <1>13. ASSUME NEW i \in 1 .. (n + 1)
         PROVE  /\ ends'[i] \in Nat /\ Start(i)' < ends'[i]
                /\ Shape(written'[i]) /\ Sized(Start(i)', written'[i], ends'[i])
                /\ Describes(file', Start(i)', written'[i], ends'[i])
    <2>1. CASE i = n + 1
      <3>1. M + N \in Nat /\ M < M + N  BY <1>3, <1>5
      <3>2. ends'[i] = M + N /\ written'[i] = m /\ Start(i)' = M
        BY <1>8, <1>9, <1>11, <2>1
      <3> QED  BY <1>1, <1>7, <3>1, <3>2
    <2>2. CASE i # n + 1
      <3>1. i \in 1 .. n  BY <1>3, <2>2
      <3>2. ends'[i] = ends[i] /\ written'[i] = written[i] /\ Start(i)' = Start(i)
        BY <1>8, <1>9, <1>10, <3>1
      <3>3. /\ ends[i] \in Nat /\ Start(i) < ends[i]
            /\ Shape(written[i]) /\ Sized(Start(i), written[i], ends[i])
            /\ Describes(file, Start(i), written[i], ends[i])
        BY <1>0, <3>1 DEF Recorded
      <3>4. Start(i) \in Nat /\ ends[i] <= M  BY <1>0, <1>3, <1>12, <3>1, StartNat
      <3>5. Describes(file \o rec, Start(i), written[i], ends[i])
        BY <1>1, <1>4, <3>3, <3>4, DescribesInFirst
      <3> QED  BY <1>1, <3>2, <3>3, <3>5
    <2> QED  BY <2>1, <2>2
  <1>14. ASSUME NEW i \in 1 .. (n + 1), NEW j \in 1 .. (n + 1), i < j
         PROVE  ends'[i] < ends'[j]
    <2>1. i \in 1 .. n /\ ends'[i] = ends[i] /\ ends[i] <= M /\ ends[i] \in Nat
      BY <1>3, <1>8, <1>12, <1>14
    <2>2. CASE j = n + 1
      <3>1. ends'[j] = M + N  BY <1>8, <2>2
      <3> QED  BY <1>3, <1>5, <2>1, <3>1
    <2>3. CASE j # n + 1
      <3>1. j \in 1 .. n  BY <1>3, <2>3
      <3>2. ends[i] < ends[j]  BY <1>0, <1>14, <2>1, <3>1 DEF Recorded
      <3> QED  BY <1>8, <2>1, <3>1, <3>2
    <2> QED  BY <2>2, <2>3
  <1>15. Start(Len(ends) + 1)' = M + N
    <2>1. (n + 1) + 1 # 1 /\ ((n + 1) + 1) - 1 = n + 1  BY <1>3
    <2> QED  BY <1>8, <2>1 DEF Start
  <1>16. IsSeq(ends')  BY <1>8 DEF IsSeq
  <1>17. Recorded'
    BY <1>6, <1>8, <1>9, <1>13, <1>14, <1>15, <1>16 DEF Recorded
  <1>18. Len(file) <= Len(file')  BY <1>0, <1>3, <1>5, <1>6
  <1> QED  BY <1>0, <1>8, <1>10, <1>17, <1>18

(* A record is added while the program runs: nothing has been read yet.    *)
LEMMA WriteKeeps ==
  ASSUME Recorded, Synced, Remains, ~Over, ~Over', NEW r, log_write(r),
         IInv, NEW sz, Lays(Payload(r), Meant(r, serial'), sz)
  PROVE  Recorded' /\ Synced' /\ Remains' /\ Progress'
  <1>1. /\ Recorded' /\ Len(ends') = Len(ends) + 1 /\ Len(file) <= Len(file')
        /\ \A i \in 1 .. (Len(ends) + 1) : Start(i)' = Start(i)
    BY WriteKeepsRecorded
  <1>2. UNCHANGED <<synced, offset, seen, closed, safe>>
    BY DEF log_write, reader
  <1>3. Synced'
    <2>1. Len(ends) \in Nat /\ Len(file) \in Nat /\ Len(file') \in Nat
      BY <1>1 DEF Recorded, IsSeq, OfLength
    <2>2. safe \in 0 .. Len(ends) /\ synced \in 0 .. Len(file) /\ Start(safe + 1) <= synced
      BY DEF Synced
    <2>3. safe \in 0 .. (Len(ends) + 1) /\ synced \in 0 .. Len(file')
      BY <1>1, <2>1, <2>2
    <2>4. safe + 1 \in 1 .. (Len(ends) + 1)  BY <2>1, <2>2
    <2>5. PICK i : i = safe + 1  OBVIOUS
    <2>6. Start(i)' = Start(i)  BY <1>1, <2>4, <2>5
    <2>7. Start(safe + 1)' = Start(i)'  BY <1>2, <2>5 DEF Start
    <2> QED  BY <1>1, <1>2, <2>2, <2>3, <2>5, <2>6, <2>7 DEF Synced
  <1>4. Remains'  BY <1>2 DEF Remains
  <1>5. Progress'  BY DEF Progress
  <1> QED  BY <1>1, <1>3, <1>4, <1>5

LEMMA QuietKeeps ==
  ASSUME Recorded, Synced, Remains, Progress, UNCHANGED <<file, ends, written, synced, safe>>,
         UNCHANGED <<status, disk, offset, seen, closed>>
  PROVE  Recorded' /\ Synced' /\ Remains' /\ Progress'
  <1>1. Recorded' /\ Synced' BY DEF Recorded, Synced, Start
  <1>2. Remains'  BY DEF Remains, Over
  <1>3. Progress'
    <2> SUFFICES ASSUME Over PROVE Progress'  BY DEF Progress, Over
    <2>1. PICK k \in 0 .. Len(ends) : IsSeq(seen) /\ Read(k)  BY DEF Progress
    <2>2. Read(k)'  BY <2>1 DEF Read, InStep, PastCut, Start
    <2> QED  BY <2>1, <2>2 DEF Progress
  <1> QED  BY <1>1, <1>2, <1>3

(* The program ends: whatever is left of the file, nothing of it is read.  *)
LEMMA EndKeeps ==
  ASSUME Recorded, Synced, Remains, ~Over, UNCHANGED <<file, ends, written, synced, safe>>,
         UNCHANGED <<offset, seen, closed>>, Over',
         NEW n \in synced .. Len(file), disk' = SubSeq(file, 1, n),
         status' = "exited" => n = Len(file)
  PROVE  Recorded' /\ Synced' /\ Remains' /\ Progress'
  <1>1. Recorded' /\ Synced' BY DEF Recorded, Synced, Start
  <1>2. IsSeq(file) /\ Len(file) \in Nat /\ synced \in Nat /\ n \in Nat /\ n <= Len(file)
        /\ synced <= n /\ Len(ends) \in Nat
    BY DEF Recorded, Synced, IsSeq, OfLength
  <1>3. Len(disk') = n /\ IsSeq(disk')
    <2>1. PICK S : file \in Seq(S)  BY <1>2 DEF IsSeq, OfLength
    <2>2. Len(SubSeq(file, 1, n)) = n /\ SubSeq(file, 1, n) \in Seq(S)  BY <1>2, <2>1
    <2> QED  BY <1>2, <2>2 DEF IsSeq, OfLength
  <1>4. Remains'  BY <1>2, <1>3 DEF Remains
  <1>5. Progress'
    <2>1. offset' = 0 /\ seen' = <<>> /\ closed' = FALSE  BY DEF Remains
    <2>2. IsSeq(seen') /\ Len(seen') = 0  BY <2>1, EmptyIsSeq DEF OfLength
    <2>3. Start(0 + 1)' = 0  BY DEF Start
    <2>4. Read(0)'
      BY <1>2, <1>3, <2>1, <2>2, <2>3 DEF Read, InStep
    <2>5. 0 \in 0 .. Len(ends')  BY <1>2
    <2> QED  BY <2>2, <2>4, <2>5 DEF Progress
  <1> QED  BY <1>1, <1>4, <1>5

(* memtraq.pl takes the next record, or the rest of it, or finds the end.  *)
LEMMA ReadKeeps ==
  ASSUME Recorded, Synced, Remains, Progress, ReadRecord
  PROVE  Recorded' /\ Synced' /\ Remains' /\ Progress'
  <1>1. /\ Over /\ ~closed /\ UNCHANGED <<writer, status, disk>>
        /\ \/ Header = <<>> /\ closed' = TRUE /\ UNCHANGED <<offset, seen>>
           \/ /\ Header # <<>> /\ seen' = Append(seen, Taken) /\ offset' = After
              /\ UNCHANGED closed
    BY ReadIs DEF Over
  <1>2. UNCHANGED <<file, ends, written, synced, safe>>  BY <1>1 DEF writer, history
  <1>3. Recorded' /\ Synced'  BY <1>2 DEF Recorded, Synced, Start
  <1>4. Remains'  BY <1>1, <1>2 DEF Remains, Over
  <1>5. Over'  BY <1>1 DEF Over
  <1>6. IsSeq(disk) /\ Len(disk) \in Nat /\ Len(disk) <= Len(file) /\ Len(ends) \in Nat
    BY <1>1 DEF Remains, Recorded, IsSeq, OfLength
  <1>7. PICK k \in 0 .. Len(ends) : IsSeq(seen) /\ Read(k)  BY <1>1 DEF Progress
  <1>8. \A i : Start(i)' = Start(i)  BY <1>2 DEF Start
  <1>9. k + 1 \in 1 .. (Len(ends) + 1) /\ Start(k + 1) \in Nat  BY <1>6, StartNat
  <1>10. CASE offset = Len(disk)
    <2>1. closed' = TRUE /\ UNCHANGED <<offset, seen>>  BY <1>1, <1>6, <1>10, NothingLeft
    <2>2. Read(k)'
      <3>1. CASE InStep(k)
        <4>1. InStep(k)'  BY <1>1, <1>8, <1>10, <2>1, <3>1 DEF InStep
        <4> QED  BY <1>1, <1>2, <1>7, <1>8, <2>1, <4>1 DEF Read
      <3>2. CASE PastCut(k)
        <4>1. PastCut(k)'  BY <1>1, <1>2, <1>8, <2>1, <3>2 DEF PastCut
        <4> QED  BY <1>1, <1>2, <1>7, <1>8, <2>1, <4>1 DEF Read
      <3> QED  BY <1>7, <3>1, <3>2 DEF Read
    <2> QED  BY <1>2, <1>3, <1>4, <1>7, <2>1, <2>2 DEF Progress
  <1>11. CASE offset # Len(disk)
    <2>1. InStep(k) /\ offset = Start(k + 1) /\ offset < Len(disk) /\ Len(seen) = k
      <3>1. InStep(k)  BY <1>7, <1>11 DEF Read, PastCut
      <3>2. offset = Start(k + 1) /\ Start(k + 1) <= Len(disk)  BY <1>7, <3>1 DEF Read, InStep
      <3> QED  BY <1>6, <1>9, <1>11, <3>1, <3>2 DEF InStep
    <2>2. k < Len(ends) /\ Upcoming(written[k + 1], ends[k + 1])
      BY <1>1, <2>1, NextIsThere
    <2>3. k + 1 \in 0 .. Len(ends) /\ k \in Nat  BY <1>6, <2>2
    <2>4. ends[k + 1] \in Nat  BY <2>2 DEF Upcoming
    <2>5. \A i \in 1 .. k : seen[i] = written[i]  BY <1>7 DEF Read
    <2>6. ASSUME Header # <<>>
          PROVE  /\ UNCHANGED closed /\ offset' = After
                 /\ IsSeq(seen') /\ Len(seen') = k + 1 /\ seen'[k + 1] = Taken
                 /\ \A i \in 1 .. k : seen'[i] = seen[i]
      <3>1. seen' = Append(seen, Taken) /\ offset' = After /\ UNCHANGED closed
        BY <1>1, <2>6
      <3>2. Grown(seen', seen, Taken, k)  BY <1>7, <2>1, <3>1 DEF Grown, IsSeq
      <3>3. /\ OfLength(seen', k + 1) /\ seen'[k + 1] = Taken
            /\ \A i \in 1 .. k : seen'[i] = seen[i]
        BY <3>2, AppendElements
      <3>4. Len(seen') = k + 1  BY <3>3 DEF OfLength
      <3> QED  BY <3>1, <3>3, <3>4 DEF IsSeq
    <2>7. CASE ends[k + 1] <= Len(disk)
      <3>1. Header # <<>> /\ Taken = written[k + 1] /\ After = ends[k + 1]
        BY <2>2, <2>7, WholeRecord
      <3>2. Start((k + 1) + 1) = ends[k + 1]
        <4>1. (k + 1) + 1 # 1 /\ ((k + 1) + 1) - 1 = k + 1  BY <2>3
        <4> QED  BY <4>1 DEF Start
      <3>3. \A i \in 1 .. (k + 1) : seen'[i] = written[i]
        <4>1. \A i \in 1 .. (k + 1) : i \in 1 .. k \/ i = k + 1  BY <2>3
        <4> QED  BY <2>5, <2>6, <3>1, <4>1
      <3>4. InStep(k + 1)'
        <4>1. Start((k + 1) + 1)' = ends[k + 1]  BY <1>8, <3>2
        <4>2. Len(seen') = k + 1 /\ offset' = ends[k + 1] /\ closed' = closed
          BY <2>6, <3>1
        <4> QED  BY <1>1, <4>1, <4>2 DEF InStep
      <3>5. Read(k + 1)'
        BY <1>1, <1>2, <1>8, <2>7, <3>2, <3>3, <3>4 DEF Read
      <3> QED  BY <1>2, <1>3, <1>4, <2>3, <2>6, <3>1, <3>5 DEF Progress
    <2>8. CASE ~(ends[k + 1] <= Len(disk))
      <3>1. Len(disk) < ends[k + 1]  BY <1>6, <2>4, <2>8
      <3>2. Header # <<>> /\ CutOf(Taken, written[k + 1]) /\ After = Len(disk)
        BY <2>1, <2>2, <3>1, CutRecord
      <3>3. PastCut(k)'
        BY <1>1, <1>2, <1>8, <2>1, <2>2, <2>6, <3>1, <3>2 DEF PastCut
      <3>4. \A i \in 1 .. k : seen'[i] = written[i]  BY <2>5, <2>6, <3>2
      <3>5. Read(k)'
        BY <1>1, <1>2, <1>7, <1>8, <3>3, <3>4 DEF Read
      <3> QED  BY <1>2, <1>3, <1>4, <1>7, <2>6, <3>2, <3>5 DEF Progress
    <2> QED  BY <2>7, <2>8
  <1> QED  BY <1>10, <1>11

(* k records are there in full, and the analyzer has seen them.            *)
LEMMA WholeRecords ==
  ASSUME Recorded, Over, Remains, NEW k \in 0 .. Len(ends), Read(k),
         closed
  PROVE  /\ Cardinality({i \in DOMAIN ends : ends[i] <= Len(disk)}) = k
         /\ IF k = 0 THEN Start(k + 1) = 0 ELSE Start(k + 1) = ends[k]
         /\ Exact(k)
         /\ \/ Len(disk) = Start(k + 1) /\ Len(seen) = k
            \/ PastCut(k)
  <1>1. IsSeq(disk) /\ Len(disk) \in Nat /\ Len(disk) <= Len(file) /\ Len(ends) \in Nat
        /\ IsSeq(ends) /\ k \in Nat
    BY DEF Remains, Recorded, IsSeq, OfLength
  <1>2. DOMAIN ends = 1 .. Len(ends)  BY <1>1 DEF IsSeq, OfLength
  <1>3. k + 1 \in 1 .. (Len(ends) + 1) /\ Start(k + 1) \in Nat
    BY <1>1, StartNat
  <1>4. IF k = 0 THEN Start(k + 1) = 0 ELSE Start(k + 1) = ends[k]
    <2>1. k + 1 = 1 <=> k = 0  BY <1>1
    <2>2. (k + 1) - 1 = k  BY <1>1
    <2> QED  BY <2>1, <2>2 DEF Start
  <1>5. \/ Len(disk) = Start(k + 1) /\ Len(seen) = k
        \/ PastCut(k)
    BY DEF Read, InStep
  <1>6. Start(k + 1) <= Len(disk)  BY DEF Read
  <1>7. Exact(k)
    <2>1. Len(seen) >= k  BY <1>1, <1>5 DEF PastCut
    <2> QED  BY <2>1 DEF Read, Exact
  <1>8. \A i \in 1 .. Len(ends) : ends[i] \in Nat  BY DEF Recorded
  <1>9. ASSUME NEW i \in 1 .. Len(ends), i <= k PROVE ends[i] <= Len(disk)
    <2>1. k # 0 /\ k \in 1 .. Len(ends) /\ ends[k] \in Nat /\ ends[i] \in Nat
      BY <1>1, <1>8, <1>9
    <2>2. ends[k] <= Len(disk)  BY <1>4, <1>6, <2>1
    <2>3. i = k \/ ends[i] < ends[k]  BY <1>1, <1>9, <2>1 DEF Recorded
    <2> QED  BY <1>1, <2>1, <2>2, <2>3
  <1>10. ASSUME NEW i \in 1 .. Len(ends), ~(i <= k) PROVE ~(ends[i] <= Len(disk))
    <2>1. k + 1 \in 1 .. Len(ends) /\ ends[k + 1] \in Nat /\ ends[i] \in Nat
      BY <1>1, <1>8, <1>10
    <2>2. Len(disk) < ends[k + 1]
      <3>1. Start(k + 1) < ends[k + 1]  BY <2>1 DEF Recorded
      <3> QED  BY <1>3, <1>5, <2>1, <3>1 DEF PastCut
    <2>3. i = k + 1 \/ ends[k + 1] < ends[i]
      <3>1. i = k + 1 \/ k + 1 < i  BY <1>1, <1>10
      <3> QED  BY <2>1, <3>1 DEF Recorded
    <2> QED  BY <1>1, <2>1, <2>2, <2>3
  <1>11. {i \in DOMAIN ends : ends[i] <= Len(disk)} = 1 .. k
    <2>1. \A i \in 1 .. k : i \in 1 .. Len(ends) /\ i <= k  BY <1>1
    <2>2. \A i \in 1 .. Len(ends) : i <= k => i \in 1 .. k  BY <1>1
    <2> QED  BY <1>2, <1>9, <1>10, <2>1, <2>2
  <1>12. Cardinality(1 .. k) = k
    <2>1. Cardinality(1 .. k) = IF 1 > k THEN 0 ELSE k - 1 + 1  BY <1>1, FS_Interval
    <2> QED  BY <1>1, <2>1
  <1> QED  BY <1>4, <1>5, <1>7, <1>11, <1>12

LEMMA KeepingReadsBack == Keeping => LogReadsBack
  <1> SUFFICES ASSUME Keeping, closed PROVE LogReadsBack  BY DEF LogReadsBack
  <1> DEFINE whole == Cardinality({i \in DOMAIN ends : ends[i] <= Len(disk)})
             last == IF whole = 0 THEN 0 ELSE ends[whole]
             cut == Len(disk) > last
  <1>1. Recorded /\ Synced /\ Remains /\ Progress /\ Over
    BY DEF Keeping, Remains
  <1>2. PICK k \in 0 .. Len(ends) : Read(k)  BY <1>1 DEF Progress
  <1>3. /\ whole = k /\ IF k = 0 THEN Start(k + 1) = 0 ELSE Start(k + 1) = ends[k]
        /\ Exact(k)
        /\ \/ Len(disk) = Start(k + 1) /\ Len(seen) = k
           \/ PastCut(k)
    BY <1>1, <1>2, WholeRecords
  <1>4. last = Start(k + 1)  BY <1>3
  <1>5. /\ Len(ends) \in Nat /\ k \in Nat /\ Len(disk) \in Nat /\ Len(file) \in Nat
        /\ Len(written) = Len(ends) /\ Len(disk) <= Len(file)
    BY <1>1 DEF Recorded, Remains, IsSeq, OfLength
  <1>6. Start(k + 1) \in Nat  BY <1>1, <1>5, StartNat
  <1> HIDE DEF whole, last
  <1>7. /\ Exact(whole)
        /\ Len(seen) = whole + IF cut THEN 1 ELSE 0
        /\ cut => CutOf(seen[whole + 1], written[whole + 1])
    <2>1. CASE Len(disk) = Start(k + 1) /\ Len(seen) = k
      BY <1>3, <1>4, <1>5, <1>6, <2>1
    <2>2. CASE PastCut(k)
      BY <1>3, <1>4, <1>5, <1>6, <2>2 DEF PastCut
    <2> QED  BY <1>3, <2>1, <2>2
  <1>8. status = "exited" => whole = Len(written)
    <2> SUFFICES ASSUME status = "exited", k # Len(ends) PROVE FALSE  BY <1>3, <1>5
    <2>1. Len(disk) = Len(file)  BY <1>1 DEF Remains
    <2>2. k + 1 \in 1 .. Len(ends) /\ (k + 1) + 1 \in 1 .. (Len(ends) + 1)  BY <1>5
    <2>3. ends[k + 1] \in Nat /\ Start(k + 1) < ends[k + 1]  BY <1>1, <2>2 DEF Recorded
    <2>4. Start((k + 1) + 1) = ends[k + 1]
      <3>1. (k + 1) + 1 # 1 /\ ((k + 1) + 1) - 1 = k + 1  BY <1>5
      <3> QED  BY <3>1 DEF Start
    <2>5. ends[k + 1] <= Len(file)  BY <1>1, <2>2, <2>4, StartNat
    <2> QED  BY <1>3, <1>5, <1>6, <2>1, <2>3, <2>5 DEF PastCut
  <1> QED  BY <1>7, <1>8 DEF LogReadsBack, whole, last

LEMMA KeepingSurvives == Keeping => DisabledSurvives
  <1> SUFFICES ASSUME Keeping, closed PROVE Exact(safe)  BY DEF DisabledSurvives
  <1>1. Recorded /\ Synced /\ Remains /\ Progress /\ Over
    BY DEF Keeping, Remains
  <1>2. PICK k \in 0 .. Len(ends) : Read(k)  BY <1>1 DEF Progress
  <1>3. /\ Exact(k)
        /\ \/ Len(disk) = Start(k + 1) /\ Len(seen) = k
           \/ PastCut(k)
    BY <1>1, <1>2, WholeRecords
  <1>4. /\ Len(ends) \in Nat /\ k \in Nat /\ Len(disk) \in Nat /\ Len(file) \in Nat
        /\ safe \in 0 .. Len(ends) /\ synced <= Len(disk) /\ synced \in Nat
        /\ Start(safe + 1) <= synced
    BY <1>1 DEF Recorded, Remains, Synced, IsSeq, OfLength
  <1>5. Start(safe + 1) \in Nat /\ Start(safe + 1) <= Len(disk) /\ safe \in Nat
    BY <1>1, <1>4, StartNat
  <1>6. safe <= k
    <2> SUFFICES ASSUME ~(safe <= k) PROVE FALSE  OBVIOUS
    <2>1. safe \in 1 .. Len(ends) /\ k + 1 \in 1 .. Len(ends) /\ k + 1 <= safe
      BY <1>4
    <2>2. Start(safe + 1) = ends[safe]
      <3>1. safe + 1 # 1 /\ (safe + 1) - 1 = safe  BY <2>1
      <3> QED  BY <3>1 DEF Start
    <2>3. /\ ends[k + 1] \in Nat /\ ends[safe] \in Nat /\ Start(k + 1) < ends[k + 1]
          /\ (k + 1 = safe \/ ends[k + 1] < ends[safe])
      BY <1>1, <1>4, <2>1 DEF Recorded
    <2>4. Start(k + 1) \in Nat  BY <1>1, <1>4, StartNat
    <2> QED  BY <1>3, <1>4, <1>5, <2>2, <2>3, <2>4 DEF PastCut
  <1>7. Len(seen) >= safe
    <2>1. Len(seen) = k \/ Len(seen) = k + 1  BY <1>3 DEF PastCut
    <2> QED  BY <1>4, <1>6, <2>1
  <1>8. \A i \in 1 .. safe : i \in 1 .. k  BY <1>4, <1>6
  <1> QED  BY <1>3, <1>7, <1>8 DEF Exact

(* What of the file has been recorded, made safe and read.                 *)
THEOREM KeepingInvariant == ASSUME PTR = 4 PROVE Spec => []Keeping
  <1>1. Init => Keeping
    <2> SUFFICES ASSUME Init PROVE Keeping  OBVIOUS
    <2>1. IInv
      <3>1. log_buffer \in [1..BUFFER -> {<<0, i, BUFFER>> : i \in 1..BUFFER}]  BY DEF Init
      <3>2. OfLength(log_buffer, BUFFER)  BY <3>1, BufferAssumption, FunctionLength
      <3> QED  BY <3>2 DEF Init, IInv, TypeOK, Buffered, OfLength
    <2>2. file = <<>> /\ ends = <<>> /\ written = <<>> /\ Len(<<>>) = 0 /\ safe = 0 /\ synced = 0
      BY EmptyIsSeq DEF Init, OfLength
    <2>3. Start(0 + 1) = 0  BY DEF Start
    <2>4. Recorded /\ Synced  BY <2>2, <2>3, EmptyIsSeq DEF Recorded, Synced
    <2>5. Remains /\ Progress  BY DEF Init, Remains, Progress, Over
    <2> QED  BY <2>1, <2>4, <2>5 DEF Keeping
  <1>2. ASSUME Keeping, IInv', [Next]_vars PROVE Keeping'
    <2>0. IInv /\ Recorded /\ Synced /\ Remains /\ Progress  BY <1>2 DEF Keeping
    <2> SUFFICES Recorded' /\ Synced' /\ Remains' /\ Progress'  BY <1>2 DEF Keeping
    <2>1. CASE CheckInitialized
      <3>1. PICK r \in Requests : log_write(InitRecord(r.thread))
        BY <2>1 DEF CheckInitialized
      <3>2. ~Over /\ ~Over'  BY <2>1 DEF CheckInitialized, Over
      <3>3. Lays(Payload(InitRecord(r.thread)), Meant(InitRecord(r.thread), serial'), 4)
        BY InitLays
      <3> QED  BY <2>0, <3>1, <3>2, <3>3, WriteKeeps
    <2>2. CASE \E r \in Requests : Log(r)
      <3>1. PICK r \in Requests : Log(r)  BY <2>2
      <3>2. log_write(r) /\ ~Over /\ ~Over'
        <4>1. log_write(r) /\ status = "running" /\ status' \in {"running", "overrun"}
          BY <3>1 DEF Log
        <4> QED  BY <4>1 DEF Over
      <3>3. PICK sz \in Nat : Lays(Payload(r), Meant(r, serial'), sz)
        BY RequestLays
      <3> QED  BY <2>0, <3>2, <3>3, WriteKeeps
    <2>3. CASE memtraq_enable
      <3>1. UNCHANGED <<file, ends, written, synced, safe, status, disk, offset, seen, closed>>
        BY <2>3 DEF memtraq_enable, reader, history
      <3> QED  BY <2>0, <3>1, QuietKeeps
    <2>4. CASE memtraq_disable
      <3>1. /\ UNCHANGED <<file, ends, written, status, disk, offset, seen, closed>>
            /\ synced' = Len(file) /\ safe' = Len(written) /\ ~Over /\ ~Over'
        BY <2>4 DEF memtraq_disable, reader, Over
      <3>2. Recorded'  BY <2>0, <3>1 DEF Recorded, Start
      <3>3. /\ safe' = Len(ends) /\ Len(ends) \in Nat /\ Len(file) \in Nat
            /\ Start(Len(ends) + 1) = Len(file)
        BY <2>0, <3>1 DEF Recorded, IsSeq, OfLength
      <3>4. Start(safe + 1)' = Len(file)  BY <3>1, <3>3 DEF Start
      <3>5. Synced'  BY <3>1, <3>3, <3>4 DEF Synced
      <3>6. Remains' /\ Progress'  BY <2>0, <3>1 DEF Remains, Progress
      <3> QED  BY <3>2, <3>5, <3>6
    <2>5. CASE Exit
      <3>1. /\ UNCHANGED <<file, ends, written, synced, safe, offset, seen, closed>>
            /\ disk' = file /\ ~Over /\ Over'
        BY <2>5 DEF Exit, Over, writer, history, reader
      <3>2. Len(file) \in synced .. Len(file) /\ IsSeq(file)
        BY <2>0 DEF Recorded, Synced, IsSeq, OfLength
      <3>3. file = SubSeq(file, 1, Len(file))
        <4>1. PICK S : file \in Seq(S)  BY <3>2 DEF IsSeq, OfLength
        <4> QED  BY <4>1
      <3> QED  BY <2>0, <3>1, <3>2, <3>3, EndKeeps
    <2>6. CASE Crash
      <3>1. /\ UNCHANGED <<file, ends, written, synced, safe, offset, seen, closed>>
            /\ ~Over /\ Over' /\ status' # "exited"
        BY <2>6 DEF Crash, Over, writer, history, reader
      <3>2. PICK n \in synced .. Len(file) : disk' = SubSeq(file, 1, n)
        BY <2>6 DEF Crash
      <3> QED  BY <2>0, <3>1, <3>2, EndKeeps
    <2>7. CASE ReadRecord  BY <2>0, <2>7, ReadKeeps
    <2>8. CASE UNCHANGED vars
      <3>1. UNCHANGED <<file, ends, written, synced, safe, status, disk, offset, seen, closed>>
        BY <2>8 DEF vars, writer, reader, history
      <3> QED  BY <2>0, <3>1, QuietKeeps
    <2> QED
      BY <1>2, <2>1, <2>2, <2>3, <2>4, <2>5, <2>6, <2>7, <2>8 DEF Next, Finished
  <1>3. Spec => []IInv  BY BufferKept
  <1> QED  BY <1>1, <1>2, <1>3, PTL DEF Spec

(* The analyzer gets back every record that is there in full as it was     *)
(* logged, and what is left of one that was cut.                           *)
THEOREM RecordsReadBack == ASSUME PTR = 4 PROVE Spec => []LogReadsBack
  BY KeepingInvariant, KeepingReadsBack, PTL

(* What was logged before the last memtraq_disable is never lost.          *)
THEOREM SurvivesCrash == ASSUME PTR = 4 PROVE Spec => []DisabledSurvives
  BY KeepingInvariant, KeepingSurvives, PTL
=============================================================================
