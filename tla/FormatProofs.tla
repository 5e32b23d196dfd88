---------------------------- MODULE FormatProofs ----------------------------
(***************************************************************************)
(* mt_vsnprintf stays inside its buffer, comes to an end, and leaves in    *)
(* the buffer the beginning of all its output; every integer and every     *)
(* string in it is the one that was passed, padded as was asked, and every *)
(* floating point value the one that was passed, rounded as was asked: for *)
(* every format, argument, size and width of the integer types.            *)
(*                                                                         *)
(* Reached and Count stay unexpanded in every proof: the prover takes any  *)
(* function in whose company it meets Len for a sequence, which str, whose *)
(* domain starts at 0, is not.                                             *)
(***************************************************************************)
EXTENDS Format, ConversionsProofs

\* What a step must know of the memory to keep Contained.
Memory == size \in Nat /\ DOMAIN str = 0..size /\ Contained

LEMMA InitMemory == Init => Memory
  BY ArgsAssumption DEF Init, Memory, Contained

(* OUTCHAR writes below the last byte of the buffer only.                  *)
LEMMA OutContained ==
  ASSUME Memory, NEW chars, OUT(chars), size' = size
  PROVE  Memory'
  BY DEF Memory, Contained, OUT, Stored

(* A turn that produces nothing leaves the memory alone.                   *)
LEMMA QuietContained ==
  ASSUME Memory, NEW s, Quiet(s)
  PROVE  Memory'
  BY DEF Memory, Contained, Quiet, fixed

(* A turn that ends a directive reaches the memory through OUTCHAR.        *)
LEMMA ProduceContained ==
  ASSUME Memory, NEW s, NEW taken, NEW chars, Produce(s, taken, chars)
  PROVE  Memory'
  <1>1. OUT(chars) /\ size' = size  BY DEF Produce, fixed
  <1> QED  BY <1>1, OutContained

(* The terminator goes to the first unused byte or to the last one.        *)
LEMMA ReturnContained ==
  ASSUME Memory, Return
  PROVE  Memory'
  <1>1. size' = size /\ str' = Terminated  BY DEF Return, fixed
  <1>2. CASE len < size
    <2>1. len # size  BY <1>2 DEF Memory
    <2> QED  BY <1>1, <1>2, <2>1 DEF Memory, Contained, Terminated
  <1>3. CASE ~(len < size)
    BY <1>1, <1>3 DEF Memory, Contained, Terminated
  <1> QED  BY <1>2, <1>3

LEMMA ConversionContained ==
  ASSUME Memory, Conversion
  PROVE  Memory'
  <1>1. \E taken, chars : Convert(taken, chars)
    BY DEF Conversion, ConvertSigned, ConvertUnsigned, ConvertFloat, ConvertString,
           ConvertChar, ConvertPointer, ConvertCount, ConvertPercent, Skip
  <1>2. PICK taken, chars : Convert(taken, chars)  BY <1>1
  <1>3. Produce("CONV", taken, chars)  BY <1>2 DEF Convert
  <1> QED  BY <1>3, ProduceContained

(* No byte outside the buffer is ever written: Contained, for all values   *)
(* of the constants.                                                       *)
THEOREM StaysInside == Spec => []Contained
  <1>1. Init => Memory  BY InitMemory
  <1>2. ASSUME Memory, [Next]_vars PROVE Memory'
    <2>1. CASE Literal
      <3>1. Produce("DEFAULT", <<>>, <<ch>>)  BY <2>1 DEF Literal
      <3> QED  BY <3>1, <1>2, ProduceContained
    <2>2. CASE \E s : Quiet(s)
      BY <1>2, <2>2, QuietContained
    <2>3. CASE Conversion  BY <1>2, <2>3, ConversionContained
    <2>4. CASE Return  BY <1>2, <2>4, ReturnContained
    <2>5. CASE UNCHANGED vars
      BY <1>2, <2>5 DEF Memory, Contained, vars, fixed
    <2>6. ASSUME \/ Percent \/ Flags \/ WidthDigit \/ WidthArgument \/ NoWidth \/ Dot
                 \/ PrecisionDigit \/ PrecisionArgument \/ NoPrecision \/ Modifier
                 \/ FloatTooLarge
          PROVE  \E s : Quiet(s)
      BY <2>6 DEF Percent, Flags, WidthDigit, WidthArgument, NoWidth, Dot,
                  PrecisionDigit, PrecisionArgument, NoPrecision, Modifier, FloatTooLarge
    <2> QED  BY <1>2, <2>1, <2>2, <2>3, <2>4, <2>5, <2>6 DEF Next, Step, Returned
  <1>3. Memory => Contained  BY DEF Memory
  <1> QED  BY <1>1, <1>2, <1>3, PTL DEF Spec

-----------------------------------------------------------------------------
(* Of the format, what is left ends in the terminator, and nothing is left *)
(* of it once the terminator has been read.                                *)
Char == STRING \cup {NUL}
Ends(c, s) == s \in Seq(Char) /\ IF s = <<>> THEN c = NUL ELSE s[Len(s)] = NUL
Ending == Ends(ch, format) /\ state \in DOMAIN Rank

\* The ways in which a step reads and moves.  They say nothing of str.
Reads  == ch # NUL /\ Read /\ state' \in DOMAIN Rank
Reads2 == /\ ch # NUL /\ ch \in {"h", "l"} /\ Head(format) = ch
          /\ ch' = Head(Tail(format)) /\ format' = Tail(Tail(format))
          /\ state' \in DOMAIN Rank
Moves  == /\ UNCHANGED <<ch, format>>
          /\ state' \in DOMAIN Rank /\ Rank[state'] < Rank[state]

LEMMA Ranks ==
  /\ DOMAIN Rank = {"DEFAULT", "FLAGS", "WIDTH", "DOT", "PRECISION", "MOD", "CONV", "OUT", "RETURNED"}
  /\ Rank["DEFAULT"] = 8 /\ Rank["FLAGS"] = 7 /\ Rank["WIDTH"] = 6 /\ Rank["DOT"] = 5
  /\ Rank["PRECISION"] = 4 /\ Rank["MOD"] = 3 /\ Rank["CONV"] = 2 /\ Rank["OUT"] = 1
  /\ Rank["RETURNED"] = 0
  BY DEF Rank

LEMMA RankRange == \A s \in DOMAIN Rank : Rank[s] \in 0..8
  BY Ranks

LEMMA ConversionReads == ASSUME Conversion PROVE Reads
  <1>1. \E taken, chars : Convert(taken, chars)
    BY DEF Conversion, ConvertSigned, ConvertUnsigned, ConvertFloat, ConvertString,
           ConvertChar, ConvertPointer, ConvertCount, ConvertPercent, Skip
  <1> QED  BY <1>1, Ranks DEF Convert, Produce, Reads

(* Every turn of the loop reads on or moves on.                            *)
LEMMA StepShape == ASSUME Step, state \in DOMAIN Rank PROVE Reads \/ Reads2 \/ Moves
  <1>1. CASE Literal        BY <1>1, Ranks DEF Literal, Produce, Reads
  <1>2. CASE Percent        BY <1>2, Ranks DEF Percent, Quiet, Reads
  <1>3. CASE Flags          BY <1>3, Ranks DEF Flags, Quiet, Reads, Moves
  <1>4. CASE WidthDigit     BY <1>4, Ranks DEF WidthDigit, Quiet, Reads, Moves
  <1>5. CASE WidthArgument  BY <1>5, Ranks DEF WidthArgument, Quiet, Reads
  <1>6. CASE NoWidth        BY <1>6, Ranks DEF NoWidth, Quiet, Moves
  <1>7. CASE Dot            BY <1>7, Ranks DEF Dot, Quiet, Reads, Moves
  <1>8. CASE PrecisionDigit
    BY <1>8, Ranks DEF PrecisionDigit, Quiet, Reads, Moves
  <1>9. CASE PrecisionArgument
    BY <1>9, Ranks DEF PrecisionArgument, Quiet, Reads
  <1>10. CASE NoPrecision   BY <1>10, Ranks DEF NoPrecision, Quiet, Moves
  <1>11. CASE Modifier
    <2>1. state = "MOD" /\ state' = "CONV" /\ ch # NUL  BY <1>11 DEF Modifier, Quiet
    <2>2. CASE ch \in {"h", "l"} /\ Head(format) = ch
      <3>1. \/ ch' = Head(Tail(format)) /\ format' = Tail(Tail(format))
            \/ Read
        BY <1>11, <2>2 DEF Modifier
      <3> QED  BY <2>1, <2>2, <3>1, Ranks DEF Reads, Reads2
    <2>3. CASE ~(ch \in {"h", "l"} /\ Head(format) = ch)
      <3>1. Read \/ UNCHANGED <<ch, format>>  BY <1>11, <2>3 DEF Modifier
      <3> QED  BY <2>1, <3>1, Ranks DEF Reads, Moves
    <2> QED  BY <2>2, <2>3
  <1>12. CASE Conversion    BY <1>12, ConversionReads
  <1>13. CASE FloatTooLarge BY <1>13, Ranks DEF FloatTooLarge, Quiet, Moves
  <1>14. CASE Return
    <2>1. Rank[state] \in 0..8 /\ Rank[state] # 0
      BY <1>14, Ranks DEF Return
    <2> QED  BY <1>14, <2>1, Ranks DEF Return, Moves
  <1> QED  BY <1>1, <1>2, <1>3, <1>4, <1>5, <1>6, <1>7, <1>8, <1>9, <1>10, <1>11,
              <1>12, <1>13, <1>14 DEF Step

(* Reading a character of such a format leaves such a format.              *)
LEMMA Empty == ASSUME NEW s \in Seq(Char) PROVE Len(s) \in Nat /\ (Len(s) = 0 <=> s = <<>>)
  BY EmptySeq, LenProperties

LEMMA TailEnds ==
  ASSUME NEW s \in Seq(Char), s # <<>>, s[Len(s)] = NUL
  PROVE  Ends(Head(s), Tail(s)) /\ Len(Tail(s)) \in Nat /\ Len(s) = Len(Tail(s)) + 1
  <1> DEFINE t == Tail(s)
  <1>1. Len(s) \in Nat /\ Len(s) # 0  BY Empty
  <1>2. /\ t \in Seq(Char) /\ Len(t) = Len(s) - 1 /\ Head(s) = s[1]
        /\ \A i \in 1..Len(t) : t[i] = s[i + 1]
    BY <1>1
  <1> HIDE DEF t
  <1>3. Len(t) \in Nat /\ Len(s) = Len(t) + 1  BY <1>1, <1>2
  <1>4. CASE t = <<>>
    <2>1. Len(s) = 1  BY <1>2, <1>3, <1>4, Empty
    <2> QED  BY <1>2, <1>3, <1>4, <2>1 DEF Ends, t
  <1>5. CASE t # <<>>
    <2>1. Len(t) # 0  BY <1>2, <1>5, Empty
    <2>2. t[Len(t)] = s[Len(t) + 1]  BY <1>2, <1>3, <2>1
    <2>3. t[Len(t)] = NUL  BY <1>3, <2>2
    <2> QED  BY <1>2, <1>3, <1>5, <2>3 DEF Ends, t
  <1> QED  BY <1>4, <1>5

(* Nine is more than the states a directive goes through.                  *)
LEMMA Nearer ==
  /\ \A m, n \in Nat : \A r, q \in 0..8 : n < m => 9 * n + q < 9 * m + r
  /\ \A n \in Nat : \A r, q \in 0..8 : q < r => 9 * n + q < 9 * n + r
  OBVIOUS

LEMMA ReadsDescends == ASSUME Ending, Reads PROVE Ending' /\ Distance' < Distance
  <1>1. format \in Seq(Char) /\ format # <<>> /\ format[Len(format)] = NUL
    BY DEF Ending, Ends, Reads
  <1>2. Ends(ch, format)' /\ Len(format') \in Nat /\ Len(format) = Len(format') + 1
    BY <1>1, TailEnds DEF Reads, Read, Ends
  <1>3. Rank[state] \in 0..8 /\ Rank[state'] \in 0..8  BY RankRange DEF Reads, Ending
  <1>4. Distance' < Distance
    <2>1. Len(format) \in Nat /\ Len(format') < Len(format)  BY <1>2
    <2> QED  BY <1>2, <1>3, <2>1, Nearer, Zenon DEF Distance
  <1> QED  BY <1>2, <1>4 DEF Ending, Reads

LEMMA Reads2Descends == ASSUME Ending, Reads2 PROVE Ending' /\ Distance' < Distance
  <1> DEFINE t == Tail(format)
  <1>1. format \in Seq(Char) /\ format # <<>> /\ format[Len(format)] = NUL
    BY DEF Ending, Ends, Reads2
  <1>2. Ends(Head(format), t) /\ Len(t) \in Nat /\ Len(format) = Len(t) + 1
    BY <1>1, TailEnds
  <1>3. Head(format) # NUL  BY DEF Reads2
  <1> HIDE DEF t
  <1>4. t \in Seq(Char) /\ t # <<>> /\ t[Len(t)] = NUL  BY <1>2, <1>3 DEF Ends
  <1>5. Ends(Head(t), Tail(t)) /\ Len(Tail(t)) \in Nat /\ Len(t) = Len(Tail(t)) + 1
    BY <1>4, TailEnds
  <1>6. ch' = Head(t) /\ format' = Tail(t)  BY DEF Reads2, t
  <1>7. Ends(ch, format)' /\ Len(format') \in Nat /\ Len(format) = Len(format') + 2
    BY <1>2, <1>5, <1>6 DEF Ends
  <1>8. Rank[state] \in 0..8 /\ Rank[state'] \in 0..8  BY RankRange DEF Reads2, Ending
  <1>9. Distance' < Distance
    <2>1. Len(format) \in Nat /\ Len(format') < Len(format)  BY <1>7
    <2> QED  BY <1>7, <1>8, <2>1, Nearer, Zenon DEF Distance
  <1> QED  BY <1>7, <1>9 DEF Ending, Reads2

LEMMA MovesDescends == ASSUME Ending, Moves PROVE Ending' /\ Distance' < Distance
  <1>1. Ends(ch, format)' /\ Len(format) \in Nat /\ format' = format
    BY Empty DEF Ending, Ends, Moves
  <1>2. Rank[state] \in 0..8 /\ Rank[state'] \in 0..8 /\ Rank[state'] < Rank[state]
    BY RankRange DEF Moves, Ending
  <1>3. Distance' < Distance
    <2>1. Distance = 9 * Len(format) + Rank[state] /\ Distance' = 9 * Len(format) + Rank[state']
      BY <1>1 DEF Distance
    <2> QED  BY <1>1, <1>2, <2>1, Nearer, Zenon
  <1> QED  BY <1>1, <1>3 DEF Ending, Moves

LEMMA TextEnds ==
  ASSUME NEW s \in Seq(Char), <<NUL>> \in Seq(Char)
  PROVE  LET t == s \o <<NUL>> IN t \in Seq(Char) /\ t # <<>> /\ t[Len(t)] = NUL
  <1> DEFINE t == s \o <<NUL>>
  <1>1. t \in Seq(Char) /\ Len(t) = Len(s) + 1 /\ t[Len(s) + 1] = NUL  OBVIOUS
  <1>2. Len(s) \in Nat  BY Empty
  <1> HIDE DEF t
  <1>3. t # <<>>  BY <1>1, <1>2, Empty
  <1> QED  BY <1>1, <1>3 DEF t

(* The call returns, whatever the format: the variant falls in every step  *)
(* but the stuttering of a call that has returned.                         *)
THEOREM Terminates == Spec => Descends
  <1>1. Init => Ending
    <2> SUFFICES ASSUME Init PROVE Ending  OBVIOUS
    <2> DEFINE text == Text(directives) \o <<NUL>>
    <2>1. Text(directives) \in Seq(STRING)  BY FormatsAssumption DEF Init
    <2>2. Text(directives) \in Seq(Char) /\ <<NUL>> \in Seq(Char)  BY <2>1 DEF Char
    <2>3. text \in Seq(Char) /\ text # <<>> /\ text[Len(text)] = NUL
      BY <2>2, TextEnds
    <2>4. ch = Head(text) /\ format = Tail(text) /\ state = "DEFAULT"  BY DEF Init
    <2> HIDE DEF text
    <2>5. Ends(ch, format)  BY <2>3, <2>4, TailEnds
    <2> QED  BY <2>4, <2>5, Ranks DEF Ending
  <1>2. ASSUME Ending, Next PROVE Ending' /\ (Distance' < Distance \/ UNCHANGED vars)
    <2>1. CASE Step
      <3>1. Reads \/ Reads2 \/ Moves  BY <1>2, <2>1, StepShape DEF Ending
      <3> QED  BY <1>2, <3>1, ReadsDescends, Reads2Descends, MovesDescends
    <2>2. CASE Returned  BY <1>2, <2>2 DEF Returned, Ending, vars
    <2> QED  BY <1>2, <2>1, <2>2 DEF Next
  <1>3. ASSUME Ending, UNCHANGED vars PROVE Ending'
    BY <1>3 DEF Ending, vars
  <1>4. Ending /\ [Next]_vars => Ending' /\ [Distance' < Distance]_vars
    BY <1>2, <1>3
  <1> QED  BY <1>1, <1>4, PTL DEF Spec, Descends

-----------------------------------------------------------------------------
(* The types.  The prover takes arithmetic or a Boolean variable, such as  *)
(* overflow, but not both at once: the numbers are kept apart.             *)
Numbers == width \in 0..INT_MAX /\ precision \in -1..INT_MAX
Results == result \in {None} \cup -1..INT_MAX
DirectiveOK ==
  /\ state \in {"DEFAULT", "FLAGS", "WIDTH", "DOT", "PRECISION", "MOD", "CONV", "OUT"}
  /\ flags \subseteq FlagChars \cup {"UP", "E", "G"}
  /\ cflags \in {"", "hh", "h", "l", "ll", "L", "j", "t", "z"} /\ base = 0
  /\ Numbers /\ overflow \in BOOLEAN
OutputOK ==
  /\ len \in Nat /\ size \in Nat /\ DOMAIN str = 0..size
  /\ Results
Going == state # "RETURNED"
Typed == TypeOK /\ size \in Nat /\ base = 0

LEMMA TypedMeans == Typed /\ Going <=> DirectiveOK /\ OutputOK
  BY DEF Typed, TypeOK, DirectiveOK, OutputOK, Going, Numbers, Results

LEMMA IntMax == INT_MAX \in Nat /\ INT_MAX >= 1
<1>1. PICK n \in Nat : n + 1 = Bits["int"] - 1
  <2>1. PICK k \in Nat : k = Bits["int"] /\ k >= 2  BY BitsAssumption
  <2>2. k - 2 \in Nat /\ (k - 2) + 1 = k - 1  BY <2>1
  <2> QED  BY <2>1, <2>2
<1>2. PICK m \in Nat : m = Power(2, n) /\ m >= 1  BY PowerPositive
<1>3. Power(2, n + 1) = 2 * m  BY <1>2, PowerNext
<1>4. INT_MAX = 2 * m - 1  BY <1>1, <1>3 DEF INT_MAX
<1> QED  BY <1>2, <1>4

LEMMA DigitInt == ASSUME NEW c, ISDIGIT(c) PROVE CHARTOINT(c) \in 0..9
<1>1. DOMAIN Num = 1..10  BY DEF Num
<1>2. PICK i \in 1..10 : Num[i] = c  BY <1>1 DEF ISDIGIT
<1>3. (CHOOSE j \in 1..10 : Num[j] = c) \in 1..10  BY <1>2
<1> QED  BY <1>1, <1>3 DEF CHARTOINT

\* TooLarge keeps a width or a precision below INT_MAX.
LEMMA DigitFits ==
  ASSUME NEW n \in Nat, NEW m \in Nat, NEW c \in 0..9, ~ (n > (m - c) \div 10)
  PROVE  10 * n + c \in 0..m
<1>1. PICK q \in Int : q = (m - c) \div 10 /\ 10 * q <= m - c  OBVIOUS
<1>2. n <= q  BY <1>1
<1> QED  BY <1>1, <1>2

LEMMA WidthsInt == \A w \in Widths : w \in Int /\ -INT_MAX <= w /\ w <= INT_MAX
  BY ArgsAssumption, IntMax

(* Every conversion produces a sequence.                                   *)
LEMMA ConversionProduces ==
  ASSUME DirectiveOK, Conversion
  PROVE  \E taken, chars : IsSeq(chars) /\ Convert(taken, chars)
<1>1. width \in Int /\ precision \in Int /\ -1 \in Int
  <2>1. Numbers  BY DEF DirectiveOK
  <2> QED  BY <2>1, IntMax DEF Numbers
<1>0. /\ \A n \in Ints : Unsigned(n, "long") \in Int
      /\ \A n \in Ints : Signed(n, ArgType(cflags)) \in Int /\ Unsigned(n, ArgType(cflags)) \in Int
  <2>1. \A n \in Ints : n \in Int  BY ArgsAssumption
  <2>2. ArgType(cflags) \in DOMAIN Bits /\ "long" \in DOMAIN Bits
    BY BitsAssumption DEF ArgType, DirectiveOK
  <2> QED  BY <2>1, <2>2, UnsignedNat, SignedInt
<1>2. CASE ConvertSigned
  <2>1. 10 \in Bases  BY DEF Bases
  <2> QED  BY <1>0, <1>1, <1>2, <2>1, IntegerIsSeq DEF ConvertSigned
<1>3. CASE ConvertUnsigned
  <2>1. BaseOf(ch) \in Bases  BY <1>3 DEF DirectiveOK, BaseOf, Bases
  <2> QED  BY <1>0, <1>1, <1>3, <2>1, IntegerIsSeq DEF ConvertUnsigned
<1>4. CASE ConvertFloat
  <2>1. \E v \in Floats : \E chars :
           /\ chars = fmtflt(v, Decimal(v, FloatPrecision(ch), flags \cup Style(ch)),
                             width, flags \cup Style(ch))
           /\ Convert(Append(args, v), chars)
    BY <1>4 DEF ConvertFloat
  <2>5. PICK v \in Floats :
          Convert(Append(args, v),
                  fmtflt(v, Decimal(v, FloatPrecision(ch), flags \cup Style(ch)),
                         width, flags \cup Style(ch)))
    BY <2>1
  <2>2. FloatPrecision(ch) \in Int  BY <1>1 DEF FloatPrecision
  <2>3. v \in Float  BY ArgsAssumption
  <2>4. IsSeq(fmtflt(v, Decimal(v, FloatPrecision(ch), flags \cup Style(ch)),
                     width, flags \cup Style(ch)))
    BY <1>1, <2>2, <2>3, FloatIsSeq
  <2> QED  BY <2>5, <2>4
<1>5. CASE ConvertString
  <2>1. PICK t \in Texts : Convert(Append(args, t), fmtstr(t, width, precision, flags))
    BY <1>5 DEF ConvertString
  <2>2. t = NULL \/ IsSeq(t)  BY ArgsAssumption DEF IsSeq
  <2>3. IsSeq(fmtstr(t, width, precision, flags))  BY <1>1, <2>2, StringIsSeq
  <2> QED  BY <2>1, <2>3
<1>6. CASE ConvertChar  BY <1>6, Tuples DEF ConvertChar
<1>7. CASE ConvertPointer
  <2>1. PICK n \in Ints :
          Convert(Append(args, n),
                  IF Unsigned(n, "long") = 0 THEN fmtstr(Nil, width, -1, flags)
                  ELSE fmtint(Unsigned(n, "long"), 16, width, precision,
                              flags \cup {"#", "UNSIGNED"}))
    BY <1>7 DEF ConvertPointer
  <2>2. IsSeq(Nil)  BY Tuples DEF Nil
  <2>3. IsSeq(fmtstr(Nil, width, -1, flags))  BY <1>1, <2>2, StringIsSeq
  <2>4. IsSeq(fmtint(Unsigned(n, "long"), 16, width, precision, flags \cup {"#", "UNSIGNED"}))
    <3>1. 16 \in Bases  BY DEF Bases
    <3> QED  BY <1>0, <1>1, <3>1, IntegerIsSeq
  <2> QED  BY <2>1, <2>3, <2>4
<1>8. CASE ConvertCount  BY <1>8, EmptyIsSeq DEF ConvertCount
<1>9. CASE ConvertPercent  BY <1>9, Tuples DEF ConvertPercent
<1>10. CASE Skip  BY <1>10, EmptyIsSeq DEF Skip
<1> QED  BY <1>2, <1>3, <1>4, <1>5, <1>6, <1>7, <1>8, <1>9, <1>10 DEF Conversion

\* OUTCHAR counts, and leaves the extent of the memory alone.
LEMMA ProduceCounts ==
  ASSUME OutputOK, NEW s, NEW taken, NEW chars, IsSeq(chars), Produce(s, taken, chars)
  PROVE  OutputOK' /\ overflow' = overflow
<1>1. len' = len + Len(chars) /\ Len(chars) \in Nat
  BY Seqs DEF Produce, OUT, Count
<1>2. DOMAIN str' = DOMAIN str  BY DEF Produce, OUT
<1>3. size' = size /\ result' = result /\ overflow' = overflow  BY DEF Produce, fixed
<1> QED  BY <1>1, <1>2, <1>3 DEF OutputOK, Results

LEMMA QuietCounts ==
  ASSUME OutputOK, NEW s, Quiet(s)
  PROVE  OutputOK'
BY DEF Quiet, OutputOK, Results, fixed

(* What a turn of the loop does to the memory: nothing, or it produces a   *)
(* sequence of characters.  Only the return ends the loop.                 *)
Turn ==
  /\ Going /\ Going'
  /\ \/ \E s : Quiet(s)
     \/ \E s, taken, chars : IsSeq(chars) /\ Produce(s, taken, chars)

\* The numbers a directive gives, apart: the provers take arithmetic or overflow.
LEMMA StepNumbers ==
  ASSUME Numbers, Step
  PROVE  Numbers'
<1>1. /\ width \in Nat /\ width <= INT_MAX /\ INT_MAX \in Nat /\ INT_MAX >= 1
      /\ precision \in Int /\ -1 <= precision /\ precision <= INT_MAX
  BY IntMax DEF Numbers
<1>2. CASE UNCHANGED <<width, precision>>  BY <1>2 DEF Numbers
<1>3. CASE WidthDigit
  <2>1. CHARTOINT(ch) \in 0..9  BY <1>3, DigitInt DEF WidthDigit
  <2>2. ~TooLarge(width) => 10 * width + CHARTOINT(ch) \in 0..INT_MAX
    BY <1>1, <2>1, DigitFits DEF TooLarge
  <2>3. /\ precision' = precision
        /\ width' = width \/ (~TooLarge(width) /\ width' = 10 * width + CHARTOINT(ch))
    BY <1>3 DEF WidthDigit
  <2> QED  BY <2>2, <2>3 DEF Numbers
<1>4. CASE WidthArgument
  <2>1. PICK w \in Widths : width' = IF w < 0 THEN -w ELSE w
    BY <1>4 DEF WidthArgument
  <2>2. precision' = precision  BY <1>4 DEF WidthArgument
  <2>3. width' \in 0..INT_MAX  BY <1>1, <2>1, WidthsInt
  <2> QED  BY <2>2, <2>3 DEF Numbers
<1>5. CASE PrecisionDigit
  <2> DEFINE p == Larger(precision, 0)
  <2>1. CHARTOINT(ch) \in 0..9  BY <1>5, DigitInt DEF PrecisionDigit
  <2>2. p \in Nat /\ p <= INT_MAX  BY <1>1 DEF Larger
  <2>3. /\ width' = width
        /\ precision' = p \/ (~TooLarge(p) /\ precision' = 10 * p + CHARTOINT(ch))
    BY <1>5 DEF PrecisionDigit
  <2> HIDE DEF p
  <2>4. ~TooLarge(p) => 10 * p + CHARTOINT(ch) \in 0..INT_MAX
    BY <1>1, <2>1, <2>2, DigitFits DEF TooLarge
  <2>5. precision' \in -1..INT_MAX  BY <1>1, <2>2, <2>3, <2>4
  <2> QED  BY <2>3, <2>5 DEF Numbers
<1>6. CASE PrecisionArgument
  <2>1. PICK p \in Widths : precision' = Larger(p, -1)  BY <1>6 DEF PrecisionArgument
  <2>2. width' = width  BY <1>6 DEF PrecisionArgument
  <2>3. precision' \in -1..INT_MAX  BY <1>1, <2>1, WidthsInt DEF Larger
  <2> QED  BY <2>2, <2>3 DEF Numbers
<1>7. CASE NoPrecision
  <2>1. width' = width /\ precision' = Larger(precision, 0)  BY <1>7 DEF NoPrecision
  <2>2. precision' \in -1..INT_MAX  BY <1>1, <2>1 DEF Larger
  <2> QED  BY <2>1, <2>2 DEF Numbers
<1>8. CASE Conversion
  <2>1. Reset
    BY <1>8 DEF Conversion, ConvertSigned, ConvertUnsigned, ConvertFloat, ConvertString,
                ConvertChar, ConvertPointer, ConvertCount, ConvertPercent, Skip, Convert
  <2>2. width' = 0 /\ precision' = -1  BY <2>1 DEF Reset
  <2> QED  BY <1>1, <2>2 DEF Numbers
<1>9. CASE FloatTooLarge
  <2>1. width' = width /\ precision' \in {1, precision}
    BY <1>9 DEF FloatTooLarge, FloatPrecision
  <2>2. precision' \in -1..INT_MAX  BY <1>1, <2>1
  <2> QED  BY <2>1, <2>2 DEF Numbers
<1> QED  BY <1>2, <1>3, <1>4, <1>5, <1>6, <1>7, <1>8, <1>9
         DEF Step, Literal, Percent, Flags, NoWidth, Dot, Modifier, Return, directive

LEMMA StepTurns ==
  ASSUME Typed, Going, Step, ~Return
  PROVE  Turn /\ DirectiveOK'
<1>0. DirectiveOK /\ OutputOK /\ Numbers'  BY TypedMeans, StepNumbers DEF DirectiveOK
<1>1. CASE Literal
  <2>1. IsSeq(<<ch>>) /\ Produce("DEFAULT", <<>>, <<ch>>)  BY <1>1, Tuples DEF Literal
  <2>2. state' = state /\ overflow' = overflow /\ UNCHANGED directive
    BY <1>1 DEF Literal, Produce
  <2> QED  BY <1>0, <2>1, <2>2 DEF Turn, Going, DirectiveOK, directive
<1>2. CASE Percent
  BY <1>0, <1>2 DEF Percent, Quiet, Turn, Going, DirectiveOK, directive
<1>3. CASE Flags
  BY <1>0, <1>3 DEF Flags, Quiet, Turn, Going, DirectiveOK
<1>4. CASE WidthDigit
  <2>1. Turn  BY <1>4 DEF WidthDigit, Quiet, Turn, Going
  <2> QED  BY <1>0, <1>4, <2>1 DEF WidthDigit, DirectiveOK
<1>5. CASE WidthArgument
  <2>1. Turn  BY <1>5 DEF WidthArgument, Quiet, Turn, Going
  <2>2. flags' \subseteq flags \cup {"-"}  BY <1>5 DEF WidthArgument
  <2> QED  BY <1>0, <1>5, <2>1, <2>2 DEF WidthArgument, DirectiveOK, FlagChars
<1>6. CASE NoWidth
  BY <1>0, <1>6 DEF NoWidth, Quiet, Turn, Going, DirectiveOK, directive
<1>7. CASE Dot
  BY <1>0, <1>7 DEF Dot, Quiet, Turn, Going, DirectiveOK, directive
<1>8. CASE PrecisionDigit
  <2>1. Turn  BY <1>8 DEF PrecisionDigit, Quiet, Turn, Going
  <2> QED  BY <1>0, <1>8, <2>1 DEF PrecisionDigit, Quiet, DirectiveOK
<1>9. CASE PrecisionArgument
  <2>1. Turn  BY <1>9 DEF PrecisionArgument, Quiet, Turn, Going
  <2> QED  BY <1>0, <1>9, <2>1 DEF PrecisionArgument, DirectiveOK
<1>10. CASE NoPrecision
  BY <1>0, <1>10 DEF NoPrecision, Quiet, Turn, Going, DirectiveOK
<1>11. CASE Modifier
  <2>1. Turn  BY <1>11 DEF Modifier, Quiet, Turn, Going
  <2>2. cflags' \in {"", "hh", "h", "l", "ll", "L", "j", "t", "z"}
    BY <1>0, <1>11 DEF Modifier, DirectiveOK
  <2> QED  BY <1>0, <1>11, <2>1, <2>2 DEF Modifier, DirectiveOK
<1>12. CASE Conversion
  <2>1. PICK taken, chars : IsSeq(chars) /\ Convert(taken, chars)
    BY <1>0, <1>12, ConversionProduces
  <2>2. Produce("CONV", taken, chars) /\ state' = "DEFAULT" /\ Reset  BY <2>1 DEF Convert
  <2>3. overflow' = overflow  BY <2>2 DEF Produce
  <2>4. Turn  BY <1>0, <2>1, <2>2 DEF Turn, Going, DirectiveOK
  <2> QED  BY <1>0, <2>2, <2>3, <2>4 DEF DirectiveOK, Reset
<1>13. CASE FloatTooLarge
  <2>1. Turn  BY <1>13 DEF FloatTooLarge, Quiet, Turn, Going
  <2>2. flags' \subseteq flags \cup {"UP", "E", "G"}
    BY <1>13 DEF FloatTooLarge, FloatConversions, Style
  <2> QED  BY <1>0, <1>13, <2>1, <2>2 DEF FloatTooLarge, DirectiveOK
<1> QED  BY <1>1, <1>2, <1>3, <1>4, <1>5, <1>6, <1>7, <1>8, <1>9, <1>10, <1>11, <1>12, <1>13
         DEF Step

LEMMA ReturnTyped == ASSUME Typed, Return PROVE Typed' /\ ~Going'
<1>1. DOMAIN str' = DOMAIN str /\ size' = size
  BY DEF Return, fixed, Terminated
<1>2. Results'
  <2>1. len \in Nat  BY DEF Typed, TypeOK
  <2>2. result' = -1 \/ (result' = len /\ ~(len >= INT_MAX))  BY DEF Return
  <2> QED  BY <2>1, <2>2, IntMax DEF Results
<1> QED  BY <1>1, <1>2 DEF Typed, TypeOK, Return, directive, Going, Results

LEMMA TurnTyped == ASSUME Typed, Turn, DirectiveOK' PROVE Typed'
<1>1. OutputOK  BY TypedMeans DEF Turn
<1>2. OutputOK'  BY <1>1, ProduceCounts, QuietCounts DEF Turn
<1> QED  BY <1>2 DEF Typed, TypeOK, DirectiveOK, OutputOK, Numbers, Results

LEMMA InitTyped == Init => Typed /\ Going
<1> SUFFICES ASSUME Init PROVE DirectiveOK /\ OutputOK  BY TypedMeans
<1>1. Numbers
  <2>1. width = 0 /\ precision = -1  BY DEF Init
  <2> QED  BY <2>1, IntMax DEF Numbers
<1>2. Results  BY DEF Init, Results
<1>3. len \in Nat /\ size \in Nat /\ DOMAIN str = 0..size  BY ArgsAssumption DEF Init
<1>4. overflow = FALSE /\ state = "DEFAULT" /\ flags = {} /\ cflags = "" /\ base = 0
  BY DEF Init
<1> QED  BY <1>1, <1>2, <1>3, <1>4 DEF DirectiveOK, OutputOK

LEMMA StepGoing == ASSUME Step, ~Return PROVE Going
BY DEF Step, Going, Literal, Percent, Flags, WidthDigit, WidthArgument, NoWidth, Dot,
       PrecisionDigit, PrecisionArgument, NoPrecision, Modifier, Conversion,
       ConvertSigned, ConvertUnsigned, ConvertFloat, ConvertString, ConvertChar,
       ConvertPointer, ConvertCount, ConvertPercent, Skip, Convert, FloatTooLarge,
       Quiet, Produce

LEMMA NextTyped == ASSUME Typed, [Next]_vars PROVE Typed'
<1>1. CASE Step /\ Return  BY <1>1, ReturnTyped
<1>2. CASE Step /\ ~Return  BY <1>2, StepGoing, StepTurns, TurnTyped
<1>3. CASE UNCHANGED vars  BY <1>3 DEF Typed, TypeOK, vars, fixed, directive
<1> QED  BY <1>1, <1>2, <1>3 DEF Next, Returned

(* TypeOK, for all values of the constants: no width or precision leaves   *)
(* the range of an int, and the result is an int.                          *)
THEOREM TypeCorrect == Spec => []TypeOK
<1>1. Typed => TypeOK  BY DEF Typed
<1> QED  BY <1>1, InitTyped, NextTyped, PTL DEF Spec

-----------------------------------------------------------------------------
(* What the buffer holds.  Nothing here mentions Len and str together.     *)
Outs(fs) == [i \in DOMAIN fs |-> fs[i].out]
AllSeqs(fs) == IsSeq(fs) /\ \A i \in DOMAIN fs : IsSeq(fs[i].out)

LEMMA AppendIsSeq ==
  ASSUME NEW s, IsSeq(s), NEW e
  PROVE  /\ IsSeq(Append(s, e)) /\ Len(Append(s, e)) = Len(s) + 1
         /\ \A i \in 1..Len(s) : Append(s, e)[i] = s[i]
         /\ Append(s, e)[Len(s) + 1] = e
<1>1. PICK S : s \in Seq(S)  BY DEF IsSeq
<1>2. s \in Seq(S \cup {e})  BY <1>1
<1>3. Append(s, e) \in Seq(S \cup {e})  BY <1>2
<1> QED  BY <1>2, <1>3 DEF IsSeq

LEMMA OutsIsSeq ==
  ASSUME NEW fs, AllSeqs(fs)
  PROVE  /\ Len(Outs(fs)) = Len(fs) /\ Len(fs) \in Nat
         /\ Outs(fs) = <<>> \/ Len(fs) # 0
         /\ \A i \in 1..Len(fs) : Outs(fs)[i] = fs[i].out /\ IsSeq(Outs(fs)[i])
<1> DEFINE o == Outs(fs)  n == Len(fs)
<1>1. n \in Nat /\ DOMAIN fs = 1..n  BY Seqs DEF AllSeqs
<1>2. \A i \in 1..n : o[i] = fs[i].out /\ IsSeq(o[i])  BY <1>1 DEF Outs, AllSeqs
<1>3. o = [i \in 1..n |-> o[i]]  BY <1>1 DEF Outs
<1> HIDE DEF o, n
<1>4. IsSeq(o) /\ Len(o) = n  BY <1>1, <1>3, SeqFrom
<1>5. o = <<>> \/ n # 0  BY <1>4 DEF IsSeq
<1> QED  BY <1>1, <1>2, <1>4, <1>5 DEF o, n

LEMMA FullIsSeq ==
  ASSUME NEW fs, AllSeqs(fs)
  PROVE  IsSeq(FlattenSeq(Outs(fs)))
<1> DEFINE o == Outs(fs)
<1>1. Len(o) \in Nat /\ (o = <<>> \/ Len(o) # 0) /\ \A i \in 1..Len(o) : IsSeq(o[i])
  BY OutsIsSeq
<1> HIDE DEF o
<1>2. IsSeq(FlattenSeq(o))  BY <1>1, FlattenIsSeq
<1> QED  BY <1>2 DEF o

\* The output so far, when a directive has produced more.
LEMMA FullNext ==
  ASSUME NEW fs, AllSeqs(fs), NEW taken, NEW chars, IsSeq(chars),
         NEW gs, gs = Append(fs, [args |-> taken, out |-> chars])
  PROVE  AllSeqs(gs) /\ FlattenSeq(Outs(gs)) = FlattenSeq(Outs(fs)) \o chars
<1> DEFINE n == Len(fs)
<1>1. n \in Nat /\ DOMAIN fs = 1..n  BY Seqs DEF AllSeqs
<1>2. /\ IsSeq(gs) /\ Len(gs) = n + 1
      /\ \A i \in 1..n : gs[i] = fs[i]
      /\ gs[n + 1] = [args |-> taken, out |-> chars]
  BY AppendIsSeq DEF AllSeqs
<1> HIDE DEF n
<1>3. DOMAIN gs = 1..n + 1  BY <1>2, Seqs
<1>4. gs[n + 1].out = chars  BY <1>2
<1>5. AllSeqs(gs)
  <2>1. \A i \in 1..n + 1 : i \in 1..n \/ i = n + 1  BY <1>1
  <2>2. \A i \in 1..n : IsSeq(fs[i].out)  BY <1>1 DEF AllSeqs
  <2> QED  BY <1>2, <1>3, <1>4, <2>1, <2>2 DEF AllSeqs
<1> DEFINE l == Outs(fs)  m == Outs(gs)
<1>6. Len(l) = n /\ (l = <<>> \/ n # 0) /\ \A i \in 1..n : l[i] = fs[i].out
  BY OutsIsSeq DEF n
<1>7. Len(m) = n + 1 /\ \A i \in 1..n + 1 : m[i] = gs[i].out
  BY <1>2, <1>5, OutsIsSeq
<1>8. n + 1 \in 1..n + 1 /\ \A i \in 1..n : i \in 1..n + 1  BY <1>1
<1> HIDE DEF l, m
<1>9. m[n + 1] = chars /\ \A i \in 1..n : m[i] = l[i]
  BY <1>2, <1>4, <1>6, <1>7, <1>8
<1>10. FlattenSeq(m) = FlattenSeq(l) \o m[n + 1]
  <2>1. Len(m) = n + 1 /\ IsSeq(m[n + 1])  BY ONLY <1>7, <1>9, IsSeq(chars)
  <2>2. n \in Nat  BY <1>1
  <2>3. Extends(l, m, n)  BY ONLY <1>6, <1>9, <2>1 DEF Extends
  <2> QED  BY ONLY <2>2, <2>3, FlattenExtended
<1> QED  BY <1>5, <1>9, <1>10 DEF l, m

\* A buffer st of sz bytes has the first of the n characters f, as many as fit.
Holding(st, f, n, sz) ==
  \A i \in 0..(sz - 1) : st[i] = IF i < n /\ i + 1 < sz THEN f[i + 1] ELSE Untouched
\* The same after the terminator.
Cut(st, f, n, sz) ==
  \A i \in 0..(sz - 1) : st[i] = IF i < Smaller(n, sz - 1) THEN f[i + 1]
                                 ELSE IF i = Smaller(n, sz - 1) THEN NUL ELSE Untouched
Longer(g, f, n, c, k) ==
  /\ \A i \in 1..n : g[i] = f[i]
  /\ \A i \in 1..k : g[n + i] = c[i]
Stores(t, st, n, c, k, sz) ==
  \A i \in 0..(sz - 1) :
    t[i] = IF i + 1 < sz /\ i \in n..(n + k - 1) THEN c[i - n + 1] ELSE st[i]

\* OUTCHAR continues what the buffer holds.
LEMMA StoresHolding ==
  ASSUME NEW st, NEW t, NEW f, NEW g, NEW c, NEW n \in Nat, NEW k \in Nat, NEW sz \in Nat,
         Holding(st, f, n, sz), Longer(g, f, n, c, k), Stores(t, st, n, c, k, sz)
  PROVE  Holding(t, g, n + k, sz)
<1> SUFFICES ASSUME NEW i \in 0..(sz - 1)
             PROVE  t[i] = IF i < n + k /\ i + 1 < sz THEN g[i + 1] ELSE Untouched
  BY DEF Holding
<1>1. i \in Nat  OBVIOUS
<1>2. CASE i + 1 < sz /\ i \in n..(n + k - 1)
  <2>1. i - n + 1 \in 1..k /\ n + (i - n + 1) = i + 1 /\ i < n + k  BY <1>1, <1>2
  <2>2. g[n + (i - n + 1)] = c[i - n + 1]  BY <2>1 DEF Longer
  <2>3. t[i] = c[i - n + 1]  BY <1>2 DEF Stores
  <2> QED  BY <1>2, <2>1, <2>2, <2>3
<1>3. CASE ~ (i + 1 < sz /\ i \in n..(n + k - 1))
  <2>1. t[i] = st[i]  BY <1>3 DEF Stores
  <2>2. st[i] = IF i < n /\ i + 1 < sz THEN f[i + 1] ELSE Untouched  BY DEF Holding
  <2>3. CASE i < n /\ i + 1 < sz
    <3>1. i + 1 \in 1..n /\ i < n + k  BY <1>1, <2>3
    <3>2. g[i + 1] = f[i + 1]  BY <3>1 DEF Longer
    <3> QED  BY <2>1, <2>2, <2>3, <3>1, <3>2
  <2>4. CASE ~ (i < n /\ i + 1 < sz)
    <3>1. ~ (i < n + k /\ i + 1 < sz)  BY <1>1, <1>3, <2>4
    <3> QED  BY <2>1, <2>2, <2>4, <3>1
  <2> QED  BY <2>3, <2>4
<1> QED  BY <1>2, <1>3

\* The terminator goes after the last character that fits.
LEMMA TerminatedCut ==
  ASSUME NEW st, NEW t, NEW f, NEW n \in Nat, NEW sz \in Nat,
         Holding(st, f, n, sz), DOMAIN st = 0..sz,
         t = IF n < sz THEN [st EXCEPT ![n] = NUL]
             ELSE IF sz > 0 THEN [st EXCEPT ![sz - 1] = NUL] ELSE st
  PROVE  Cut(t, f, n, sz)
<1> SUFFICES ASSUME NEW i \in 0..(sz - 1)
             PROVE  t[i] = IF i < Smaller(n, sz - 1) THEN f[i + 1]
                           ELSE IF i = Smaller(n, sz - 1) THEN NUL ELSE Untouched
  BY DEF Cut
<1>1. i \in Nat /\ i < sz /\ i \in 0..sz  OBVIOUS
<1>2. st[i] = IF i < n /\ i + 1 < sz THEN f[i + 1] ELSE Untouched  BY DEF Holding
<1>3. CASE n < sz
  <2>1. Smaller(n, sz - 1) = n  BY <1>3 DEF Smaller
  <2>2. t[i] = IF i = n THEN NUL ELSE st[i]  BY <1>1, <1>3
  <2>3. i < n => i + 1 < sz  BY <1>1, <1>3
  <2> QED  BY <1>1, <1>2, <2>1, <2>2, <2>3
<1>4. CASE ~(n < sz)
  <2>1. Smaller(n, sz - 1) = sz - 1  BY <1>4 DEF Smaller
  <2>2. t[i] = IF i = sz - 1 THEN NUL ELSE st[i]  BY <1>1, <1>4
  <2>3. i = sz - 1 \/ (i < sz - 1 /\ i < n /\ i + 1 < sz)  BY <1>1, <1>4
  <2> QED  BY <1>1, <1>2, <2>1, <2>2, <2>3
<1> QED  BY <1>3, <1>4

(* len counts all the output, cut or not; the buffer has what fits of it.  *)
Counted == AllSeqs(fields) /\ len = Len(Full)
Returns == result = IF overflow \/ Len(Full) >= INT_MAX THEN -1 ELSE Len(Full)
Filled ==
  /\ Counted
  /\ Going => Holding(str, Full, len, size)
  /\ ~Going => Cut(str, Full, len, size) /\ Returns

LEMMA FullMeans == Full = FlattenSeq(Outs(fields))
  BY DEF Full, Outs

LEMMA ProduceFilled ==
  ASSUME Typed, Filled, Going, Going', NEW s, NEW taken, NEW chars, IsSeq(chars),
         Produce(s, taken, chars)
  PROVE  Filled'
<1> DEFINE f == FlattenSeq(Outs(fields))
<1>1. fields' = Append(fields, [args |-> taken, out |-> chars])  BY DEF Produce
<1>2. AllSeqs(fields)' /\ FlattenSeq(Outs(fields')) = f \o chars
  BY <1>1, FullNext DEF Filled, Counted
<1>3. IsSeq(f)  BY FullIsSeq DEF Filled, Counted
<1>4. len = Len(f) /\ Holding(str, f, len, size) /\ len \in Nat /\ size \in Nat
  BY FullMeans DEF Filled, Counted, Typed, TypeOK
<1> DEFINE g == FlattenSeq(Outs(fields'))
<1>5. Full' = g  BY DEF Full, Outs
<1>6. g = f \o chars  BY <1>2
<1> HIDE DEF f, g
<1> DEFINE k == Len(chars)
<1>7. k \in Nat /\ len' = len + k  BY Seqs DEF Produce, OUT, Count
<1>8. Len(g) = len + k /\ Longer(g, f, len, chars, k)
  BY <1>3, <1>4, <1>6, Concats DEF Longer
<1>9. Counted'  BY <1>2, <1>5, <1>7, <1>8 DEF Counted
<1>10. Stores(str', str, len, chars, k, size)
  <2>1. \A i : Reached(i, chars) <=> i \in len .. len + k - 1  BY DEF Reached
  <2>2. str' = [i \in DOMAIN str |->
                  IF Stored(i) /\ Reached(i, chars) THEN chars[i - len + 1] ELSE str[i]]
    BY DEF Produce, OUT
  <2>0. DOMAIN str = 0..size  BY DEF Typed, TypeOK
  <2>3. \A i \in 0..(size - 1) : i \in DOMAIN str  BY <1>4, <2>0
  <2> HIDE DEF k
  <2>4. len .. len + k - 1 = len .. (len + k - 1)  OBVIOUS
  <2> QED  BY <2>1, <2>2, <2>3, <2>4 DEF Stores, Stored
<1> HIDE DEF k
<1>11. size' = size  BY DEF Produce, fixed
<1>12. Holding(str', g, len + k, size)
  BY <1>4, <1>7, <1>8, <1>10, StoresHolding
<1> QED  BY <1>5, <1>7, <1>9, <1>11, <1>12 DEF Filled, Going

LEMMA QuietFilled ==
  ASSUME Filled, Going, Going', NEW s, Quiet(s)
  PROVE  Filled'
<1>1. UNCHANGED <<len, str, size, fields>>  BY DEF Quiet, fixed
<1> QED  BY <1>1 DEF Filled, Counted, Full, Going

LEMMA ReturnFilled ==
  ASSUME Typed, Filled, Return
  PROVE  Filled'
<1>1. Going /\ ~Going'  BY ReturnTyped DEF Return, Going
<1>2. UNCHANGED <<len, size, fields, overflow>>  BY DEF Return, fixed
<1>3. Full' = Full /\ Counted'  BY <1>2 DEF Filled, Counted, Full
<1>4. len = Len(Full) /\ len \in Nat /\ size \in Nat /\ DOMAIN str = 0..size
  BY DEF Filled, Counted, Typed, TypeOK
<1>5. Cut(str', Full, len, size)
  <2>1. Holding(str, Full, len, size)  BY <1>1 DEF Filled
  <2> DEFINE f == Full
  <2>2. str' = Terminated  BY DEF Return
  <2> HIDE DEF f
  <2> QED  BY <1>4, <2>1, <2>2, TerminatedCut DEF Terminated
<1>6. Returns'
  <2>1. result' = IF overflow \/ len >= INT_MAX THEN -1 ELSE len  BY DEF Return
  <2> QED  BY <1>2, <1>3, <1>4, <2>1 DEF Returns
<1> QED  BY <1>1, <1>2, <1>3, <1>5, <1>6 DEF Filled

LEMMA InitFilled == Init => Filled
<1> SUFFICES ASSUME Init PROVE Filled  OBVIOUS
<1>1. fields = <<>> /\ len = 0 /\ Going  BY DEF Init, Going
<1>2. AllSeqs(fields)  BY <1>1, EmptyIsSeq DEF AllSeqs
<1>3. Outs(fields) = <<>>  BY <1>1 DEF Outs
<1>4. Full = <<>>  BY <1>3, FullMeans, FlattenFirst
<1>5. Counted  BY <1>1, <1>2, <1>4, EmptyIsSeq DEF Counted
<1>6. Holding(str, Full, 0, size)
  <2>1. size \in Nat /\ str = [i \in 0..size |-> Untouched]  BY ArgsAssumption DEF Init
  <2> QED  BY <2>1 DEF Holding
<1> QED  BY <1>1, <1>5, <1>6 DEF Filled

LEMMA NextFilled == ASSUME Typed, Filled, [Next]_vars PROVE Filled'
<1>1. CASE Step /\ Return  BY <1>1, ReturnFilled
<1>2. CASE Step /\ ~Return
  <2>1. Going  BY <1>2, StepGoing
  <2>2. Turn  BY <1>2, <2>1, StepTurns
  <2> QED  BY <2>2, ProduceFilled, QuietFilled DEF Turn
<1>3. CASE UNCHANGED vars
  <2>1. UNCHANGED <<len, size, str, fields, overflow, state, result>>
    BY <1>3 DEF vars, fixed
  <2> QED  BY <2>1 DEF Filled, Counted, Returns, Full, Going
<1> QED  BY <1>1, <1>2, <1>3 DEF Next, Returned

LEMMA FilledAlways == Spec => []Filled
<1>1. Typed /\ Filled /\ [Next]_vars => Typed' /\ Filled'  BY NextTyped, NextFilled
<1>2. Init => Typed /\ Filled  BY InitTyped, InitFilled
<1> QED  BY <1>1, <1>2, PTL DEF Spec

(* However short the buffer, the call leaves in it the beginning of what a *)
(* large one would have got: CutToSize, for all values of the constants.   *)
THEOREM CutAlways == Spec => []CutToSize
<1>1. Filled => CutToSize
  <2> SUFFICES ASSUME Filled, Finished PROVE CutToSize  BY DEF CutToSize
  <2>1. len = Len(Full) /\ Cut(str, Full, len, size)
    BY DEF Filled, Counted, Going, Finished
  <2> QED  BY <2>1 DEF CutToSize, Cut
<1> QED  BY <1>1, FilledAlways, PTL

(* The call returns the length of all the output, cut or not, unless a     *)
(* number was too large or that length is no int: the part of              *)
(* LengthReturned that does not ask which formats have such a number.      *)
THEOREM LengthCounted == Spec => [](Finished => Returns)
<1>1. Filled => (Finished => Returns)  BY DEF Filled, Going, Finished
<1> QED  BY <1>1, FilledAlways, PTL

-----------------------------------------------------------------------------
(* What the conversions of a directive produce, from its record and the    *)
(* arguments it took.                                                      *)
GivenFlags(d, a) == IF LeftOf(d, a) THEN d.flags \cup {"-"} ELSE d.flags
Asked(d, a) ==
  /\ d.flags \subseteq FlagChars /\ d.type \in DOMAIN Bits /\ (d.conv = "p" => d.type = "long")
  /\ WidthOf(d, a) \in Int /\ PrecisionOf(d, a) \in Int /\ PrecisionOf(d, a) >= -1
ShowsSigned(d, a, out) ==
  /\ Last(a) \in Int
  /\ out = fmtint(Signed(Last(a), d.type), 10, WidthOf(d, a), PrecisionOf(d, a), GivenFlags(d, a))
\* The base of a conversion when the directive before it has left none.
FreshBase(c) == IF c \in {"x", "X"} THEN 16 ELSE IF c = "o" THEN 8 ELSE 10
UnsignedFlags(d, a) ==
  GivenFlags(d, a) \cup {"UNSIGNED"} \cup IF d.conv = "X" THEN {"UP"} ELSE {}
ShowsUnsigned(d, a, out) ==
  /\ Last(a) \in Int
  /\ out = fmtint(Unsigned(Last(a), d.type), FreshBase(d.conv), WidthOf(d, a), PrecisionOf(d, a),
                  UnsignedFlags(d, a))
ShowsPointer(d, a, out) ==
  /\ Last(a) \in Int
  /\ out = IF Unsigned(Last(a), "long") = 0 THEN fmtstr(Nil, WidthOf(d, a), -1, GivenFlags(d, a))
           ELSE fmtint(Unsigned(Last(a), "long"), 16, WidthOf(d, a), PrecisionOf(d, a),
                       GivenFlags(d, a) \cup {"#", "UNSIGNED"})
ShowsText(d, a, out) ==
  /\ Last(a) = NULL \/ IsSeq(Last(a))
  /\ out = fmtstr(Last(a), WidthOf(d, a), PrecisionOf(d, a), GivenFlags(d, a))
ShowsFloat(d, a, out) ==
  LET v  == Last(a)
      p  == PrecisionOf(d, a)
      fl == GivenFlags(d, a) \cup Style(d.conv)
      q  == IF d.conv \in {"g", "G"} /\ p = 0 THEN 1 ELSE p
  IN /\ v \in Float /\ ~Decimal(v, q, fl).overflow
     /\ out = fmtflt(v, Decimal(v, q, fl), WidthOf(d, a), fl)
FieldFollows(d, a, out) ==
  /\ Asked(d, a)
  /\ d.conv \in {"d", "i"} => ShowsSigned(d, a, out)
  /\ d.conv \in {"x", "X", "o", "u"} => ShowsUnsigned(d, a, out)
  /\ d.conv = "p" => ShowsPointer(d, a, out)
  /\ d.conv = "s" => ShowsText(d, a, out)
  /\ d.conv \in FloatConversions => ShowsFloat(d, a, out)

\* The flags that fmtint looks at are those of the directive.
LEMMA FlagsApart ==
  /\ FlagChars = {"-", "+", " ", "#", "0", "'"}
  /\ "UP" \notin FlagChars /\ "UNSIGNED" \notin FlagChars
BY DEF FlagChars

(* The value that a numeric directive shows, in the form all of them share. *)
NumberFlags(d, a) ==
  IF d.conv \in {"d", "i"} THEN GivenFlags(d, a)
  ELSE IF d.conv = "p" THEN GivenFlags(d, a) \cup {"#", "UNSIGNED"} ELSE UnsignedFlags(d, a)

LEMMA NumberShown ==
  ASSUME NEW d, NEW a, NEW out, FieldFollows(d, a, out), IsNumber(d, a),
         d.conv \in {"d", "i", "u", "o", "x", "X", "p"},
         NEW v, v = ValueOf(d, a), NEW fl, fl = NumberFlags(d, a)
  PROVE  /\ v \in Int /\ NumberBase(d) \in Bases
         /\ out = fmtint(v, NumberBase(d), WidthOf(d, a), PrecisionOf(d, a), fl)
         /\ UValue(v, fl) = Magnitude(d, a)
         /\ Magnitude(d, a) \in Nat /\ Magnitude(d, a) < Power(2, Bits["long"])
<1>0. Asked(d, a) /\ d.type \in DOMAIN Bits  BY DEF FieldFollows, Asked
<1>1. CASE d.conv \in {"d", "i"}
  <2>1. Last(a) \in Int
        /\ out = fmtint(Signed(Last(a), d.type), 10, WidthOf(d, a), PrecisionOf(d, a), GivenFlags(d, a))
    BY <1>1 DEF FieldFollows, ShowsSigned
  <2>2. v = Signed(Last(a), d.type) /\ NumberBase(d) = 10 /\ fl = GivenFlags(d, a)
    BY <1>1 DEF ValueOf, NumberBase, NumberFlags
  <2>3. v \in Int /\ v < Power(2, Bits["long"]) /\ -v < Power(2, Bits["long"])
    BY <1>0, <2>1, <2>2, SignedBound
  <2>4. "UNSIGNED" \notin fl  BY <1>0, <2>2 DEF Asked, GivenFlags, FlagChars
  <2>5. UValue(v, fl) = Magnitude(d, a)
    <3>1. Magnitude(d, a) = IF v < 0 THEN -v ELSE v  BY DEF Magnitude
    <3>2. UValue(v, fl) = IF v >= 0 THEN v ELSE -v  BY <2>4 DEF UValue
    <3> QED  BY ONLY <2>3, <3>1, <3>2
  <2>6. Magnitude(d, a) \in Nat  BY <2>3, <2>5, UValueNat
  <2>7. Magnitude(d, a) < Power(2, Bits["long"])  BY <2>3 DEF Magnitude
  <2> QED  BY ONLY <2>1, <2>2, <2>3, <2>5, <2>6, <2>7 DEF Bases
<1>2. ASSUME NEW b, b = NumberBase(d), b \in Bases, NEW x, x \in Int, NEW t, t \in DOMAIN Bits,
             v = Unsigned(x, t), out = fmtint(v, b, WidthOf(d, a), PrecisionOf(d, a), fl),
             "UNSIGNED" \in fl
      PROVE  /\ v \in Int /\ NumberBase(d) \in Bases
             /\ out = fmtint(v, NumberBase(d), WidthOf(d, a), PrecisionOf(d, a), fl)
             /\ UValue(v, fl) = Magnitude(d, a)
             /\ Magnitude(d, a) \in Nat /\ Magnitude(d, a) < Power(2, Bits["long"])
  <2>1. v \in Nat /\ v < Power(2, Bits["long"]) /\ Unsigned(v, "long") = v
    BY <1>2, UnsignedNat, UnsignedAgain
  <2>2. UValue(v, fl) = v  BY <1>2, <2>1 DEF UValue
  <2>3. Magnitude(d, a) = v
    <3>1. ~(v < 0)  BY <2>1
    <3> QED  BY <3>1 DEF Magnitude
  <2>4. v \in Int  BY <2>1
  <2> QED  BY ONLY <1>2, <2>1, <2>2, <2>3, <2>4
<1>3. CASE d.conv \in {"u", "o", "x", "X"}
  <2>1. /\ Last(a) \in Int
        /\ out = fmtint(Unsigned(Last(a), d.type), FreshBase(d.conv), WidthOf(d, a),
                        PrecisionOf(d, a), UnsignedFlags(d, a))
    BY <1>3 DEF FieldFollows, ShowsUnsigned
  <2>2. v = Unsigned(Last(a), d.type) /\ fl = UnsignedFlags(d, a)
    BY <1>3 DEF ValueOf, NumberFlags
  <2>3. FreshBase(d.conv) = NumberBase(d) /\ NumberBase(d) \in Bases
    BY <1>3 DEF NumberBase, FreshBase, Bases
  <2>4. "UNSIGNED" \in fl  BY <2>2 DEF UnsignedFlags
  <2> QED  BY <1>0, <1>2, <2>1, <2>2, <2>3, <2>4
<1>4. CASE d.conv = "p"
  <2>1. d.type = "long"  BY <1>0, <1>4 DEF Asked
  <2>2. v = Unsigned(Last(a), "long") /\ v # 0 /\ fl = GivenFlags(d, a) \cup {"#", "UNSIGNED"}
    BY <1>4, <2>1 DEF ValueOf, NumberFlags, IsNumber
  <2>3. /\ Last(a) \in Int
        /\ out = fmtint(v, 16, WidthOf(d, a), PrecisionOf(d, a), fl)
    BY <1>4, <2>2 DEF FieldFollows, ShowsPointer
  <2>4. NumberBase(d) = 16 /\ 16 \in Bases  BY <1>4 DEF NumberBase, Bases
  <2>5. "UNSIGNED" \in fl  BY <2>2
  <2> QED  BY <1>0, <1>2, <2>1, <2>2, <2>3, <2>4, <2>5
<1> QED  BY <1>1, <1>3, <1>4

\* Its flags, one by one.
LEMMA NumberFlagged ==
  ASSUME NEW d, NEW a, Asked(d, a), d.conv \in {"d", "i", "u", "o", "x", "X", "p"},
         NEW fl, fl = NumberFlags(d, a)
  PROVE  /\ "UP" \in fl <=> d.conv = "X"
         /\ "UNSIGNED" \in fl <=> d.conv \notin {"d", "i"}
         /\ "-" \in fl <=> LeftOf(d, a)
         /\ "0" \in fl <=> "0" \in d.flags
         /\ "+" \in fl <=> "+" \in d.flags
         /\ " " \in fl <=> " " \in d.flags
         /\ "'" \in fl <=> "'" \in d.flags
         /\ "#" \in fl <=> ("#" \in d.flags \/ d.conv = "p")
<1> DEFINE Same(g) == /\ "-" \in g <=> LeftOf(d, a)
                      /\ "0" \in g <=> "0" \in d.flags
                      /\ "+" \in g <=> "+" \in d.flags
                      /\ " " \in g <=> " " \in d.flags
                      /\ "'" \in g <=> "'" \in d.flags
<1>1. PICK g : g = GivenFlags(d, a)  OBVIOUS
<1>2. Same(g) /\ "UP" \notin g /\ "UNSIGNED" \notin g /\ ("#" \in g <=> "#" \in d.flags)
  <2>1. "UP" \notin d.flags /\ "UNSIGNED" \notin d.flags  BY DEF Asked, FlagChars
  <2>2. CASE LeftOf(d, a)
    <3>1. g = d.flags \cup {"-"}  BY <1>1, <2>2 DEF GivenFlags
    <3> QED  BY <2>1, <2>2, <3>1
  <2>3. CASE ~LeftOf(d, a)
    <3>1. g = d.flags /\ "-" \notin d.flags  BY <1>1, <2>3 DEF GivenFlags, LeftOf
    <3> QED  BY <2>1, <2>3, <3>1
  <2> QED  BY <2>2, <2>3
<1>3. CASE d.conv \in {"d", "i"}
  <2>1. fl = g /\ d.conv \notin {"X", "p"}  BY <1>1, <1>3 DEF NumberFlags
  <2> QED  BY ONLY <1>2, <1>3, <2>1
<1>4. CASE d.conv = "p"
  <2>1. fl = g \cup {"#", "UNSIGNED"}  BY <1>1, <1>4 DEF NumberFlags
  <2>2. Same(fl) /\ "UP" \notin fl /\ "UNSIGNED" \in fl /\ "#" \in fl  BY <1>2, <2>1
  <2>3. d.conv \notin {"d", "i", "X"}  BY <1>4
  <2> QED  BY ONLY <1>4, <2>2, <2>3
<1>5. CASE d.conv \in {"u", "o", "x", "X"}
  <2>1. fl = g \cup {"UNSIGNED"} \cup IF d.conv = "X" THEN {"UP"} ELSE {}
    BY <1>1, <1>5 DEF NumberFlags, UnsignedFlags
  <2>2. d.conv \notin {"d", "i", "p"}  BY <1>5
  <2>3. Same(fl) /\ "UNSIGNED" \in fl /\ ("#" \in fl <=> "#" \in d.flags)  BY <1>2, <2>1
  <2>4. "UP" \in fl <=> d.conv = "X"  BY <1>2, <2>1
  <2> QED  BY ONLY <2>2, <2>3, <2>4
<1> QED  BY <1>3, <1>4, <1>5

LEMMA NumberFieldReads ==
  ASSUME NEW d, NEW a, NEW out, FieldFollows(d, a, out), IsNumber(d, a),
         d.conv \in {"d", "i", "u", "o", "x", "X", "p"}
  PROVE  NumberReadsBack(d, a, out)
<1>1. PICK v, fl, b, u, caps :
        /\ v = ValueOf(d, a) /\ fl = NumberFlags(d, a) /\ b = NumberBase(d) /\ u = UValue(v, fl)
        /\ caps = ("UP" \in fl)
  OBVIOUS
<1>2. PICK n : n = Len(convert(u, b, "UP" \in fl))  OBVIOUS
<1>3. /\ v \in Int /\ b \in Bases
      /\ out = fmtint(v, b, WidthOf(d, a), PrecisionOf(d, a), fl)
      /\ u = Magnitude(d, a)
  BY <1>1, NumberShown
<1>4. Asked(d, a) /\ WidthOf(d, a) \in Int /\ PrecisionOf(d, a) \in Int  BY DEF FieldFollows, Asked
<1>5. IsInteger(out, v, b, WidthOf(d, a), PrecisionOf(d, a), fl, u, n)
  BY ONLY <1>1, <1>2, <1>3, <1>4, IntegerField, Zenon
<1>6. SaysInteger(out, b, caps, u, v < 0 /\ "UNSIGNED" \notin fl)  BY <1>1, <1>5 DEF IsInteger
<1>7. (caps <=> d.conv = "X") /\ ("UNSIGNED" \in fl <=> d.conv \notin {"d", "i"})
  BY <1>1, <1>4, NumberFlagged
<1>8. ~(v < 0) \/ "UNSIGNED" \notin fl
  <2>1. CASE d.conv \in {"d", "i"}  BY <1>7, <2>1
  <2>2. CASE d.conv \notin {"d", "i"}
    <3>1. d.type \in DOMAIN Bits /\ Last(a) \in Int
      BY <1>4, <2>2 DEF FieldFollows, Asked, ShowsUnsigned, ShowsPointer
    <3>2. v \in Nat  BY <1>1, <2>2, <3>1, UnsignedNat DEF ValueOf
    <3> QED  BY <3>2
  <2> QED  BY <2>1, <2>2
<1>9. PICK l \in Nat : l = Len(out) /\ DOMAIN out = 1..l  BY <1>6, Seqs DEF SaysInteger
<1>10. NumberIn(out, b) = u  BY <1>6 DEF SaysInteger, NumberIn
<1>11. (v < 0) = Contains(out, "-")
  <2>1. "-" \in Chars(out) <=> v < 0  BY <1>6, <1>8 DEF SaysInteger
  <2>2. Contains(out, "-") <=> "-" \in Chars(out)  BY DEF Contains, Chars
  <2>3. Contains(out, "-") \in BOOLEAN /\ (v < 0) \in BOOLEAN  BY DEF Contains
  <2> QED  BY <2>1, <2>2, <2>3
<1>12. /\ DigitSet(b, caps) = {(IF d.conv = "X" THEN Upper ELSE Lower)[j] : j \in 1..b}
       /\ Letter(caps) = IF d.conv = "X" THEN "X" ELSE "x"
  BY <1>7 DEF DigitSet, DigitsFor, Letter
<1>13. \A k \in DOMAIN out : out[k] \in DigitSet(b, caps) \cup {" ", "+", "-", ",", Letter(caps)}
  BY <1>6, <1>9 DEF SaysInteger, Chars
<1>14. \A k \in DOMAIN out : out[k] = Letter(caps) =>
         k > 1 /\ out[k - 1] = "0" /\ \A j \in 1..(k - 2) : out[j] \notin DigitSet(b, caps)
  BY <1>6, <1>9 DEF SaysInteger, Placed
<1>15. b = NumberBase(d) /\ u = Magnitude(d, a) /\ v = ValueOf(d, a)  BY <1>1, <1>3
<1> QED  BY ONLY <1>10, <1>11, <1>12, <1>13, <1>14, <1>15 DEF NumberReadsBack

\* How the reference counts the characters of a number.
LEMMA DigitsMeans ==
  ASSUME NEW d, NEW a, NumberBase(d) \in Bases, Magnitude(d, a) \in Nat,
         Magnitude(d, a) < Power(2, Bits["long"]),
         NEW caps, NEW n \in Nat, n = Len(convert(Magnitude(d, a), NumberBase(d), caps))
  PROVE  Digits(d, a) = n /\ n >= 1
<1>1. PICK b, x : b = NumberBase(d) /\ x = Magnitude(d, a)  OBVIOUS
<1>2. b \in Bases /\ x \in Nat /\ x < Power(2, Bits["long"]) /\ n = Len(convert(x, b, caps))
  BY <1>1
<1>3. n >= 1 /\ IsFewest(n, x, b)  BY <1>2, DigitsFewest DEF IsFewest
<1>4. PICK l \in Nat : l = Bits["long"] /\ l >= 1
  <2>1. Bits["long"] \in Nat \ {0}  BY BitsAssumption
  <2> QED  BY <2>1
<1>5. n <= l  BY <1>2, <1>3, <1>4, FewestBound
<1>6. n \in 1..l  BY <1>3, <1>5
<1>7. \A k \in 1..l : IsFewest(k, x, b) => k = n
  <2> TAKE k \in 1..l
  <2> HAVE IsFewest(k, x, b)
  <2>1. k \in Nat /\ k >= 1  OBVIOUS
  <2> QED  BY <1>2, <1>3, <2>1, FewestUnique
<1>8. (CHOOSE k \in 1..l : IsFewest(k, x, b)) = n  BY <1>3, <1>6, <1>7
<1>9. Digits(d, a) = CHOOSE k \in 1..l : IsFewest(k, x, b)
  BY ONLY <1>1, <1>4, Zenon DEF Digits, IsFewest
<1> QED  BY <1>3, <1>8, <1>9

LEMMA SignCounted ==
  ASSUME NEW d, NEW a, Asked(d, a), d.conv \in {"d", "i", "u", "o", "x", "X", "p"},
         NEW v \in Int, v = ValueOf(d, a), NEW fl, fl = NumberFlags(d, a)
  PROVE  Len(SignText(v, fl)) = SignLength(d, a) /\ SignLength(d, a) \in {0, 1}
<1>1. \A c : Len(<<c>>) = 1  BY Tuples
<1>2. Len(<<>>) = 0  BY EmptyIsSeq
<1>3. PICK t : t = SignText(v, fl)  OBVIOUS
<1>4. /\ "UNSIGNED" \in fl <=> d.conv \notin {"d", "i"}
      /\ "+" \in fl <=> "+" \in d.flags
      /\ " " \in fl <=> " " \in d.flags
  BY NumberFlagged
<1>5. CASE d.conv \in {"d", "i"} /\ (v < 0 \/ "+" \in d.flags \/ " " \in d.flags)
  <2>1. SignLength(d, a) = 1  BY <1>5 DEF SignLength
  <2>2. \E c : t = <<c>>  BY <1>3, <1>4, <1>5 DEF SignText
  <2> QED  BY <1>1, <1>3, <2>1, <2>2
<1>6. CASE ~(d.conv \in {"d", "i"} /\ (v < 0 \/ "+" \in d.flags \/ " " \in d.flags))
  <2>1. SignLength(d, a) = 0  BY <1>6 DEF SignLength
  <2>2. t = <<>>  BY <1>3, <1>4, <1>6 DEF SignText
  <2> QED  BY <1>2, <1>3, <2>1, <2>2
<1> QED  BY <1>5, <1>6

LEMMA NaturalMeans ==
  ASSUME NEW d, NEW a, NEW out, FieldFollows(d, a, out), IsNumber(d, a),
         d.conv \in {"d", "i", "u", "o", "x", "X", "p"},
         NEW v, v = ValueOf(d, a), NEW fl, fl = NumberFlags(d, a), NEW p \in Int, p = PrecisionOf(d, a),
         NEW b, b = NumberBase(d), NEW u, u = UValue(v, fl),
         NEW n \in Nat, n = Len(convert(u, b, "UP" \in fl)),
         NEW asked, asked = DigitsMin(u, n, b, p, fl), NEW sep, sep = SeparatorsIn(n, fl)
  PROVE  /\ Natural(d, a) = NaturalLength(Len(SignText(v, fl)), Len(PrefixText(u, b, fl)), n, asked, sep)
         /\ Natural(d, a) \in Int
         /\ TakenDigits(d, a) = DigitsTaken(n, asked, sep) /\ TakenDigits(d, a) \in Int
<1>0. Asked(d, a)  BY DEF FieldFollows
<1>1. v \in Int /\ b \in Bases /\ u = Magnitude(d, a) /\ u \in Nat /\ u < Power(2, Bits["long"])
  BY NumberShown
<1>2. Digits(d, a) = n /\ n >= 1  BY <1>1, DigitsMeans
<1>3. PICK s \in {0, 1} : s = Len(SignText(v, fl)) /\ s = SignLength(d, a)  BY <1>0, <1>1, SignCounted
<1>4. /\ "'" \in fl <=> "'" \in d.flags
      /\ "#" \in fl <=> ("#" \in d.flags \/ d.conv = "p")
  BY <1>0, NumberFlagged
<1>5. Marked(u, fl) <=> Alternate(d, a)
  <2>1. u # 0 <=> v # 0  BY <1>1 DEF Magnitude
  <2> QED  BY <1>4, <2>1 DEF Marked, Alternate
<1>6. PICK h \in {0, 2} : /\ h = Len(PrefixText(u, b, fl))
                          /\ h = IF Alternate(d, a) /\ NumberBase(d) = 16 THEN 2 ELSE 0
  <2>1. \A x, y : Len(<<x, y>>) = 2  BY Tuples
  <2>2. Len(<<>>) = 0  BY EmptyIsSeq
  <2>3. CASE Alternate(d, a) /\ b = 16
    <3>1. \E x, y : PrefixText(u, b, fl) = <<x, y>>  BY <1>5, <2>3 DEF PrefixText
    <3> QED  BY <2>1, <2>3, <3>1
  <2>4. CASE ~(Alternate(d, a) /\ b = 16)
    <3>1. PrefixText(u, b, fl) = <<>>  BY <1>5, <2>4 DEF PrefixText
    <3> QED  BY <2>2, <2>4, <3>1
  <2> QED  BY <2>3, <2>4
<1>7. sep = Separators(d, a) /\ sep \in Nat
  <2>1. sep = IF "'" \in fl THEN (n - 1) \div 3 ELSE 0  BY <1>2, SeparatorsNat
  <2>2. Separators(d, a) = IF "'" \in d.flags THEN (n - 1) \div 3 ELSE 0  BY <1>2 DEF Separators
  <2>3. (n - 1) \div 3 \in Nat  BY <1>2
  <2> QED  BY <1>4, <2>1, <2>2, <2>3
<1>8. Larger(asked, n) = Larger(FewestDigits(d, a), p) /\ Larger(asked, n) \in Int
  <2>1. b = 8 <=> d.conv = "o"  BY DEF NumberBase
  <2>2. FewestDigits(d, a) = n + IF Alternate(d, a) /\ d.conv = "o" /\ p <= n THEN 1 ELSE 0
    BY <1>2 DEF FewestDigits
  <2>3. asked = IF Alternate(d, a) /\ d.conv = "o" /\ p <= n THEN n + 1 ELSE p
    BY <1>5, <2>1 DEF DigitsMin
  <2>4. CASE Alternate(d, a) /\ d.conv = "o" /\ p <= n
    <3>1. asked = n + 1 /\ FewestDigits(d, a) = n + 1  BY ONLY <2>2, <2>3, <2>4
    <3> QED  BY ONLY n \in Nat, p \in Int, <2>4, <3>1 DEF Larger
  <2>5. CASE ~(Alternate(d, a) /\ d.conv = "o" /\ p <= n)
    <3>1. asked = p /\ FewestDigits(d, a) = n + 0  BY ONLY <2>2, <2>3, <2>5
    <3> QED  BY ONLY n \in Nat, p \in Int, <3>1 DEF Larger
  <2> QED  BY <2>4, <2>5
<1>9. Natural(d, a) = s + h + Larger(asked, n) + sep
  BY ONLY IsNumber(d, a), p = PrecisionOf(d, a), <1>3, <1>6, <1>7, <1>8 DEF Natural
<1>10. Natural(d, a) \in Int  BY ONLY <1>7, <1>8, <1>9, s \in {0, 1}, h \in {0, 2}
<1>11. TakenDigits(d, a) = DigitsTaken(n, asked, sep) /\ TakenDigits(d, a) \in Int
  <2>1. TakenDigits(d, a) = Smaller(Larger(asked, n) - n, sep)
    <3>1. TakenDigits(d, a) = Smaller(Larger(FewestDigits(d, a), PrecisionOf(d, a)) - Digits(d, a),
                                Separators(d, a))
      BY DEF TakenDigits
    <3> QED  BY <1>2, <1>7, <1>8, <3>1
  <2>2. Smaller(Larger(asked, n) - n, sep) \in Int
    <3>1. Larger(asked, n) - n \in Int /\ sep \in Int  BY <1>7, <1>8
    <3> QED  BY <3>1, LargerInt
  <2> QED  BY ONLY <2>1, <2>2 DEF DigitsTaken
<1> QED  BY ONLY <1>3, <1>6, <1>9, <1>10, <1>11 DEF NaturalLength

LEMMA NumberPadded ==
  ASSUME NEW d, NEW a, NEW out, FieldFollows(d, a, out), IsNumber(d, a),
         d.conv \in {"d", "i", "u", "o", "x", "X", "p"}
  PROVE  PaddedAsAsked(d, a, out)
<1>1. PICK v, fl, b, u :
        v = ValueOf(d, a) /\ fl = NumberFlags(d, a) /\ b = NumberBase(d) /\ u = UValue(v, fl)
  OBVIOUS
<1>2. Asked(d, a)  BY DEF FieldFollows
<1>3. PICK w \in Int, p \in Int : w = WidthOf(d, a) /\ p = PrecisionOf(d, a)  BY <1>2 DEF Asked
<1>4. v \in Int /\ b \in Bases /\ u \in Nat /\ out = fmtint(v, b, w, p, fl)
  BY <1>1, <1>3, NumberShown
<1>5. PICK n \in Nat : n = Len(convert(u, b, "UP" \in fl))
  <2>1. Len(convert(u, b, "UP" \in fl)) \in Nat  BY <1>4, DigitsIsSeq
  <2> QED  BY <2>1
<1>6. PICK asked, sep : asked = DigitsMin(u, n, b, p, fl) /\ sep = SeparatorsIn(n, fl)  OBVIOUS
<1>7. PICK s, m, taken, x :
        /\ s = Len(SignText(v, fl)) /\ taken = DigitsTaken(n, asked, sep)
        /\ m = NaturalLength(s, Len(PrefixText(u, b, fl)), n, asked, sep) - taken
        /\ x = w - taken
  OBVIOUS
<1>8. /\ Natural(d, a) - TakenDigits(d, a) = m /\ m \in Int /\ x - m = w - Natural(d, a)
      /\ x \in Int
  <2>1. /\ Natural(d, a) = NaturalLength(s, Len(PrefixText(u, b, fl)), n, asked, sep)
        /\ Natural(d, a) \in Int /\ TakenDigits(d, a) = taken /\ TakenDigits(d, a) \in Int
    BY <1>1, <1>3, <1>5, <1>6, <1>7, NaturalMeans
  <2> QED  BY ONLY <1>7, <2>1, w \in Int
<1>9. IsInteger(out, v, b, w, p, fl, u, n)
  BY ONLY <1>1, <1>4, <1>5, w \in Int, p \in Int, IntegerField, Zenon
<1>10. /\ SaysInteger(out, b, "UP" \in fl, u, v < 0 /\ "UNSIGNED" \notin fl)
       /\ IF ZeroPad(p, fl) THEN IsZeroPadded(out, m, x, s) ELSE IsPadded(out, m, x, "-" \in fl)
  BY ONLY <1>6, <1>7, <1>9, Zenon DEF IsInteger
<1>11. s = SignLength(d, a) /\ s \in {0, 1}  BY <1>1, <1>2, <1>4, <1>7, SignCounted
<1>12. ("-" \in fl <=> LeftOf(d, a)) /\ ("0" \in fl <=> "0" \in d.flags)
  BY <1>1, <1>2, NumberFlagged
<1>13. PICK l \in Nat : l = Len(out) /\ DOMAIN out = 1..l  BY <1>10, Seqs DEF SaysInteger
<1>14. PICK pads \in Nat : pads = Larger(x - m, 0)
  <2>1. Larger(x - m, 0) \in Nat  BY <1>8 DEF Larger
  <2> QED  BY <2>1
<1>21. PICK o : /\ o = Natural(d, a) /\ o - TakenDigits(d, a) = m
                /\ pads = Larger(WidthOf(d, a) - o, 0)
  BY ONLY <1>3, <1>8, <1>14
<1>15. l = m + pads  BY ONLY <1>10, <1>13, <1>14, Zenon DEF IsPadded, IsZeroPadded
<1>16. CASE ZeroPad(p, fl)
  <2>1. ~LeftOf(d, a) /\ "0" \in d.flags /\ p = -1  BY <1>12, <1>16 DEF ZeroPad
  <2>2. \A k \in 1..l : out[k] = " " => k <= s
    <3>1. BlankOnly(out, s)  BY <1>10, <1>16 DEF IsZeroPadded
    <3> QED  BY ONLY <1>13, <3>1, Zenon DEF BlankOnly
  <2>3. \A k \in 1..l : out[k] = " " => k = 1 /\ SignLength(d, a) = 1
    <3>1. \A k \in 1..l : k <= s => k = 1 /\ s = 1  BY ONLY l \in Nat, <1>11
    <3> QED  BY ONLY <1>11, <2>2, <3>1, Zenon
  <2>4. l - m = pads  BY ONLY <1>8, <1>15, pads \in Nat
  <2> QED  BY ONLY <1>3, <1>13, <1>21, <2>1, <2>3, <2>4, IsNumber(d, a), Zenon DEF PaddedAsAsked
<1>17. CASE ~ZeroPad(p, fl)
  <2>1. LeftOf(d, a) \/ ~("0" \in d.flags /\ p = -1)  BY <1>12, <1>17 DEF ZeroPad
  <2>2. \A k \in 1..pads : out[IF LeftOf(d, a) THEN m + k ELSE k] = " "
    <3>1. IsPadded(out, m, x, "-" \in fl)  BY <1>10, <1>17
    <3>2. \A k \in 1..pads : out[IF "-" \in fl THEN m + k ELSE k] = " "
      BY ONLY <1>14, <3>1, Zenon DEF IsPadded
    <3> QED  BY ONLY <1>12, <3>2
  <2>3. LeftOf(d, a) => \A k \in 1..l : k > l - pads => out[k] = " "
    <3> SUFFICES ASSUME LeftOf(d, a), NEW k \in 1..l, k > l - pads PROVE out[k] = " "  OBVIOUS
    <3>1. k - m \in 1..pads /\ m + (k - m) = k  BY ONLY <1>8, <1>15, pads \in Nat, k \in 1..l, k > l - pads, l \in Nat
    <3>2. out[m + (k - m)] = " "  BY <2>2, <3>1
    <3> QED  BY <3>1, <3>2
  <2>4. ~LeftOf(d, a) => \A k \in 1..pads : out[k] = " "  BY <2>2
  <2>5. l - m = pads  BY ONLY <1>8, <1>15, pads \in Nat
  <2> QED  BY ONLY <1>3, <1>13, <1>21, <2>1, <2>3, <2>4, <2>5, Zenon DEF PaddedAsAsked
<1> QED  BY <1>16, <1>17

(* A field that shows n characters of a text.                              *)
LEMMA TextPadded ==
  ASSUME NEW d, NEW a, NEW out, ~IsNumber(d, a), NEW w \in Int, w = WidthOf(d, a),
         NEW n \in Nat, n = Natural(d, a), NEW text, NEW left, left <=> LeftOf(d, a),
         IsString(out, text, n, w, left)
  PROVE  PaddedAsAsked(d, a, out)
<1>1. PICK pads \in Nat : pads = Larger(w - n, 0)
  <2>1. Larger(w - n, 0) \in Nat  BY DEF Larger
  <2> QED  BY <2>1
<1>2. IsSeq(out) /\ IsPadded(out, n, w, left)  BY DEF IsString
<1>3. PICK l \in Nat : l = Len(out) /\ DOMAIN out = 1..l  BY <1>2, Seqs
<1>4. l = n + pads  BY ONLY <1>1, <1>2, <1>3, Zenon DEF IsPadded
<1>5. l - n = pads  BY ONLY <1>4, l \in Nat, n \in Nat, pads \in Nat
<1>6. \A k \in 1..pads : out[IF left THEN n + k ELSE k] = " "
  BY ONLY <1>1, <1>2, Zenon DEF IsPadded
<1>7. LeftOf(d, a) => \A k \in 1..l : k > l - pads => out[k] = " "
  <2> SUFFICES ASSUME LeftOf(d, a), NEW k \in 1..l, k > l - pads PROVE out[k] = " "  OBVIOUS
  <2>1. k - n \in 1..pads /\ n + (k - n) = k
    BY ONLY n \in Nat, <1>4, pads \in Nat, k \in 1..l, k > l - pads, l \in Nat
  <2>2. out[n + (k - n)] = " "  BY <1>6, <2>1
  <2> QED  BY <2>1, <2>2
<1>8. ~LeftOf(d, a) => \A k \in 1..pads : out[k] = " "  BY <1>6
<1>9. TakenDigits(d, a) = 0 /\ n - 0 = n  BY DEF TakenDigits
<1> QED  BY ONLY <1>1, <1>3, <1>5, <1>7, <1>8, <1>9, w = WidthOf(d, a), n = Natural(d, a), ~IsNumber(d, a), Zenon
         DEF PaddedAsAsked

LEMMA TextReads ==
  ASSUME NEW d, NEW a, NEW out, NEW w \in Int, NEW n \in Nat, n = Natural(d, a),
         NEW text, text = TextOf(d, a), IsSeq(text), n <= Len(text), NEW left, left <=> LeftOf(d, a),
         IsString(out, text, n, w, left)
  PROVE  TextReadsBack(d, a, out)
<1>1. PICK pads \in Nat : pads = Larger(w - n, 0)
  <2>1. Larger(w - n, 0) \in Nat  BY DEF Larger
  <2> QED  BY <2>1
<1>2. IsSeq(out) /\ IsPadded(out, n, w, left)  BY DEF IsString
<1>3. \A k \in 1..n : out[IF left THEN k ELSE pads + k] = text[k]  BY <1>1 DEF IsString
<1>4. PICK l \in Nat : l = Len(out)  BY <1>2, Seqs
<1>5. l = n + pads  BY ONLY <1>1, <1>2, <1>4, Zenon DEF IsPadded
<1>6. SubSeq(text, 1, n) = IF left THEN SubSeq(out, 1, n) ELSE SubSeq(out, l - n + 1, l)
  <2>1. SubSeq(text, 1, n) = [k \in 1..n |-> text[k]]
    <3>1. (n - 1) + 1 = n /\ \A k \in 1..n : (k + 1) - 1 = k  OBVIOUS
    <3> QED  BY <3>1
  <2>2. CASE left
    <3>1. SubSeq(out, 1, n) = [k \in 1..n |-> out[k]]
      <4>1. (n - 1) + 1 = n /\ \A k \in 1..n : (k + 1) - 1 = k  OBVIOUS
      <4> QED  BY <4>1
    <3> QED  BY <1>3, <2>1, <2>2, <3>1
  <2>3. CASE ~left
    <3>1. SubSeq(out, l - n + 1, l) = [k \in 1..n |-> out[pads + k]]
      <4>1. PICK i \in Nat : i = pads + 1 /\ i = l - n + 1  BY <1>5
      <4>2. (l - i) + 1 = n /\ \A k \in 1..n : (k + i) - 1 = pads + k
        BY ONLY <1>5, <4>1, n \in Nat, pads \in Nat
      <4>3. SubSeq(out, i, l) = [k \in 1..n |-> out[pads + k]]
        <5>1. 1 + l - i = n /\ \A k \in 1..n : k + i - 1 = pads + k /\ i + k - 1 = pads + k
          BY ONLY <1>5, <4>1, <4>2, n \in Nat, pads \in Nat
        <5>2. SubSeq(out, i, l) = [k \in 1..n |-> out[k + i - 1]]  BY ONLY <4>2, i \in Nat, l \in Nat
        <5> QED  BY ONLY <5>1, <5>2
      <4> QED  BY <4>1, <4>3
    <3> QED  BY <1>3, <2>1, <2>3, <3>1
  <2> QED  BY <2>2, <2>3
<1>7. l >= n  BY <1>5
<1> QED  BY <1>4, <1>6, <1>7 DEF TextReadsBack

\* %s, and %p of the null pointer.
LEMMA StringFollows ==
  ASSUME NEW d, NEW a, NEW out, FieldFollows(d, a, out), d.conv = "s" \/ (d.conv = "p" /\ ~IsNumber(d, a))
  PROVE  /\ PaddedAsAsked(d, a, out)
         /\ d.conv = "s" => TextReadsBack(d, a, out)
<1>1. Asked(d, a)  BY DEF FieldFollows
<1>2. PICK w \in Int : w = WidthOf(d, a)  BY <1>1 DEF Asked
<1>3. ~IsNumber(d, a)  BY DEF IsNumber
<1>4. ASSUME NEW t, t = NULL \/ IsSeq(t), NEW p, p \in Int, p >= -1,
             out = fmtstr(t, w, p, GivenFlags(d, a)),
             NEW text, text = TextOf(d, a), text = IF t = NULL THEN Null ELSE t,
             Natural(d, a) = StringLength(text, p)
      PROVE  PaddedAsAsked(d, a, out) /\ TextReadsBack(d, a, out)
  <2>1. PICK n, left : n = StringLength(text, p) /\ left = ("-" \in GivenFlags(d, a))  OBVIOUS
  <2>2. n \in Nat /\ n <= Len(text) /\ IsString(out, text, n, w, left)
    BY ONLY <1>4, <2>1, w \in Int, StringField, Zenon
  <2>3. left <=> LeftOf(d, a)
    <3>1. "-" \in d.flags => LeftOf(d, a)  BY DEF LeftOf
    <3> QED  BY <2>1, <3>1 DEF GivenFlags
  <2>4. IsSeq(text)  BY <1>4, Tuples DEF Null
  <2>5. n = Natural(d, a)  BY <1>4, <2>1
  <2>6. PaddedAsAsked(d, a, out)  BY <1>2, <1>3, <2>2, <2>3, <2>5, TextPadded
  <2>7. TextReadsBack(d, a, out)  
    <3>1. text = TextOf(d, a) /\ n \in Nat /\ n <= Len(text) /\ w \in Int  BY <1>2, <1>4, <2>2
    <3>2. IsString(out, text, n, w, left)  BY ONLY <2>2, Zenon
    <3> HIDE DEF IsString
    <3> QED  BY ONLY <2>3, <2>4, <2>5, <3>1, <3>2, TextReads
  <2> QED  BY <2>6, <2>7
<1>5. CASE d.conv = "s"
  <2>1. PICK p : p = PrecisionOf(d, a) /\ p \in Int /\ p >= -1  BY <1>1 DEF Asked
  <2>2. PICK t : t = Last(a) /\ (t = NULL \/ IsSeq(t))  BY <1>5 DEF FieldFollows, ShowsText
  <2>3. out = fmtstr(t, w, p, GivenFlags(d, a))
    BY <1>2, <1>5, <2>1, <2>2 DEF FieldFollows, ShowsText
  <2>4. PICK text : text = TextOf(d, a)  OBVIOUS
  <2>5. text = IF t = NULL THEN Null ELSE t  BY <1>5, <2>2, <2>4 DEF TextOf
  <2>6. Natural(d, a) = StringLength(text, p)
    <3>1. PICK l \in Nat : l = Len(text)
      <4>1. IsSeq(text)  BY <2>2, <2>5, Tuples DEF Null
      <4> QED  BY <4>1, Seqs
    <3>2. Natural(d, a) = IF p # -1 THEN Smaller(p, l) ELSE l
      BY <1>3, <1>5, <2>1, <2>4, <3>1 DEF Natural
    <3>3. StringLength(text, p) = IF p = -1 THEN l ELSE Smaller(l, p)  BY <3>1 DEF StringLength
    <3>4. Smaller(p, l) = Smaller(l, p)  BY <2>1 DEF Smaller
    <3> QED  BY <3>2, <3>3, <3>4
  <2> QED  BY <1>4, <2>1, <2>2, <2>3, <2>4, <2>5, <2>6
<1>6. CASE d.conv = "p"
  <2>1. d.type = "long" /\ ValueOf(d, a) = 0  BY <1>1, <1>3, <1>6 DEF Asked, IsNumber
  <2>2. Unsigned(Last(a), "long") = 0  BY <1>6, <2>1 DEF ValueOf
  <2>3. out = fmtstr(Nil, w, -1, GivenFlags(d, a))
    BY <1>2, <1>6, <2>2 DEF FieldFollows, ShowsPointer
  <2>4. PICK t : t = Nil /\ IsSeq(t) /\ t # NULL
    <3>1. IsSeq(Nil)  BY Tuples DEF Nil
    <3> QED  BY <3>1, NullAssumption
  <2>5. TextOf(d, a) = t  BY <1>6, <2>4 DEF TextOf
  <2>6. PICK p \in Int : p = -1 /\ p >= -1  OBVIOUS
  <2>7. Natural(d, a) = StringLength(t, p)  BY <1>3, <1>6, <2>5, <2>6 DEF Natural, StringLength
  <2>8. out = fmtstr(t, w, p, GivenFlags(d, a))  BY <2>3, <2>4, <2>6
  <2>9. t = IF t = NULL THEN Null ELSE t  BY <2>4
  <2> QED  BY <1>4, <1>6, <2>4, <2>5, <2>6, <2>7, <2>8, <2>9
<1> QED  BY <1>5, <1>6

\* What the properties ask of a finished field.
LEMMA FieldShows ==
  ASSUME NEW d, NEW a, NEW out, FieldFollows(d, a, out)
  PROVE  /\ d.conv \in {"d", "i", "u", "o", "x", "X", "p"} /\ IsNumber(d, a)
              => NumberReadsBack(d, a, out)
         /\ d.conv = "s" => TextReadsBack(d, a, out)
         /\ d.conv \in {"d", "i", "u", "o", "x", "X", "p", "s"} => PaddedAsAsked(d, a, out)
<1>1. d.conv \in {"d", "i", "u", "o", "x", "X"} => IsNumber(d, a)  BY DEF IsNumber
<1>2. d.conv = "s" => ~IsNumber(d, a)  BY DEF IsNumber
<1> QED  BY <1>1, <1>2, NumberFieldReads, NumberPadded, StringFollows

-----------------------------------------------------------------------------
(* Where the directives are in the text: starts[k] characters come before  *)
(* the first one that follows the k-th directive.                          *)
AllTexts(ds) == IsSeq(ds) /\ \A i \in 1..Len(ds) : IsSeq(ds[i].text)
Places(ds, n, starts) ==
  /\ starts[0] = 0 /\ \A k \in 0..n : starts[k] \in Nat
  /\ \A k \in 1..n : starts[k] = starts[k - 1] + Len(ds[k].text)
Holds(t, ds, n, starts) ==
  /\ IsSeq(t) /\ Len(t) = starts[n]
  /\ \A k \in 1..n : \A i \in 1..Len(ds[k].text) : t[starts[k - 1] + i] = ds[k].text[i]
Firstly(ds, j) == FlattenSeq([i \in 1..j |-> ds[i].text])

LEMMA PlaceNext ==
  ASSUME NEW ds, AllTexts(ds), NEW n, n \in Nat, n + 1 <= Len(ds), NEW starts, Places(ds, n, starts),
         NEW t, Holds(t, ds, n, starts), NEW u, u = t \o ds[n + 1].text,
         NEW ext, ext = [k \in 0..(n + 1) |-> IF k <= n THEN starts[k] ELSE Len(u)]
  PROVE  Places(ds, n + 1, ext) /\ Holds(u, ds, n + 1, ext)
<1>1. PICK l \in Nat : l = Len(ds)  BY Seqs DEF AllTexts
<1>2. n + 1 \in 1..l  BY <1>1
<1>3. PICK x : x = ds[n + 1].text /\ IsSeq(x)  BY <1>1, <1>2 DEF AllTexts
<1>4. PICK m \in Nat, b \in Nat : m = Len(x) /\ b = starts[n] /\ b = Len(t)
  <2>1. Len(x) \in Nat /\ starts[n] \in Nat  BY <1>3, Seqs DEF Places
  <2> QED  BY <2>1 DEF Holds
<1>5. IsSeq(t)  BY DEF Holds
<1>6. IsSeq(u) /\ Len(u) = b + m /\ (\A i \in 1..b : u[i] = t[i]) /\ \A i \in 1..m : u[b + i] = x[i]
  <2>1. IsJoined(u, t, b, x, m)  BY ONLY <1>3, <1>4, <1>5, u = t \o ds[n + 1].text, Joined, Zenon
  <2> QED  BY <2>1 DEF IsJoined
<1>7. PICK q \in Nat : q = b + m /\ q = Len(u)  BY <1>6
<1>8. ext = [k \in 0..(n + 1) |-> IF k <= n THEN starts[k] ELSE q]  BY <1>7
<1>9. (\A k \in 0..n : ext[k] = starts[k]) /\ ext[n + 1] = q
  <2>1. n + 1 \in 0..(n + 1) /\ ~(n + 1 <= n) /\ \A k \in 0..n : k \in 0..(n + 1) /\ k <= n  OBVIOUS
  <2> QED  BY <1>8, <2>1
<1>10. \A k \in 1..(n + 1) : \/ k \in 1..n /\ k \in 0..n /\ k - 1 \in 0..n
                             \/ k = n + 1 /\ k - 1 = n /\ n \in 0..n
  OBVIOUS
<1>11. Places(ds, n + 1, ext)
  <2>1. ext[0] = 0
    <3>1. 0 \in 0..n  OBVIOUS
    <3> QED  BY <1>9, <3>1 DEF Places
  <2>2. \A k \in 0..(n + 1) : ext[k] \in Nat
    <3>1. \A k \in 0..(n + 1) : k \in 0..n \/ k = n + 1  OBVIOUS
    <3> QED  BY <1>9, <3>1 DEF Places
  <2>3. \A k \in 1..(n + 1) : ext[k] = ext[k - 1] + Len(ds[k].text)
    <3> TAKE k \in 1..(n + 1)
    <3>1. CASE k \in 1..n /\ k \in 0..n /\ k - 1 \in 0..n  BY <1>9, <3>1 DEF Places
    <3>2. CASE k = n + 1 /\ k - 1 = n /\ n \in 0..n  BY <1>3, <1>4, <1>7, <1>9, <3>2
    <3> QED  BY <1>10, <3>1, <3>2
  <2> QED  BY <2>1, <2>2, <2>3 DEF Places
<1>12. ASSUME NEW k \in 1..(n + 1), NEW y, y = Len(ds[k].text), NEW i \in 1..y
       PROVE  u[ext[k - 1] + i] = ds[k].text[i]
  <2>1. CASE k \in 1..n /\ k \in 0..n /\ k - 1 \in 0..n
    <3>1. k \in 1..l  BY <1>1, <1>2, <2>1
    <3>2. IsSeq(ds[k].text)  BY <1>1, <3>1 DEF AllTexts
    <3>3. y \in Nat  BY <1>12, <3>2, Seqs
    <3>4. PICK z \in Nat : z = starts[k - 1]  BY <2>1 DEF Places
    <3>5. t[z + i] = ds[k].text[i]  BY <1>12, <2>1, <3>4 DEF Holds
    <3>6. z + y <= b
      <4> DEFINE P == {e \in Nat : k + e <= n => starts[k] <= starts[k + e]}
      <4>1. 0 \in P
        <5>1. k + 0 = k /\ starts[k] \in Nat  BY <2>1 DEF Places
        <5> QED  BY <5>1
      <4>2. ASSUME NEW e \in Nat, e \in P PROVE e + 1 \in P
        <5> SUFFICES ASSUME k + (e + 1) <= n PROVE starts[k] <= starts[k + (e + 1)]  OBVIOUS
        <5>1. PICK c \in 1..n : c = k + (e + 1) /\ c - 1 = k + e /\ c - 1 \in 0..n /\ k + e <= n
          <6>1. k + (e + 1) \in 1..n /\ (k + (e + 1)) - 1 = k + e /\ k + e \in 0..n /\ k + e <= n
            BY <2>1
          <6> QED  BY <6>1
        <5>2. starts[c] = starts[c - 1] + Len(ds[c].text)  BY <5>1 DEF Places
        <5>3. Len(ds[c].text) \in Nat
          <6>1. c \in 1..l  BY <1>1, <1>2
          <6>2. IsSeq(ds[c].text)  BY <1>1, <6>1 DEF AllTexts
          <6> QED  BY <6>2, Seqs
        <5>4. starts[k] \in Nat /\ starts[c - 1] \in Nat  BY <2>1, <5>1 DEF Places
        <5>5. starts[k] <= starts[c - 1]  BY <4>2, <5>1
        <5>6. PICK g \in Nat : g = Len(ds[c].text)  BY <5>3
        <5> QED  BY ONLY <5>1, <5>2, <5>4, <5>5, <5>6
      <4> HIDE DEF P
      <4>3. Nat \subseteq P  BY <4>1, <4>2, Induction
      <4>4. PICK e \in Nat : k + e = n
        <5>1. n - k \in Nat /\ k + (n - k) = n  BY <2>1
        <5> QED  BY <5>1
      <4>5. starts[k] <= starts[n]
        <5>1. k + e <= n  BY <4>4
        <5>2. starts[k] <= starts[k + e]  BY <4>3, <5>1 DEF P
        <5> QED  BY <4>4, <5>2
      <4>6. starts[k] = z + y  BY <1>12, <2>1, <3>4 DEF Places
      <4> QED  BY <1>4, <4>5, <4>6
    <3>7. z + i \in 1..b  BY <3>3, <3>6
    <3>8. u[z + i] = t[z + i]  BY <1>6, <3>7
    <3>9. ext[k - 1] = z  BY <1>9, <2>1, <3>4
    <3> QED  BY <3>5, <3>8, <3>9
  <2>2. CASE k = n + 1 /\ k - 1 = n /\ n \in 0..n
    <3>1. ext[k - 1] = b  BY <1>4, <1>9, <2>2
    <3>2. y = m /\ ds[k].text = x  BY <1>3, <1>4, <1>12, <2>2
    <3> QED  BY <1>6, <3>1, <3>2
  <2> QED  BY <1>10, <2>1, <2>2
<1>13. Holds(u, ds, n + 1, ext)  BY ONLY <1>6, <1>7, <1>9, <1>12, Zenon DEF Holds
<1> QED  BY <1>11, <1>13

LEMMA FirstlyNext ==
  ASSUME NEW ds, AllTexts(ds), NEW n \in Nat, n + 1 <= Len(ds)
  PROVE  Firstly(ds, n + 1) = Firstly(ds, n) \o ds[n + 1].text
<1> DEFINE F(j) == [i \in 1..j |-> ds[i].text]
<1>1. ASSUME NEW j \in Nat PROVE IsSeq(F(j)) /\ Len(F(j)) = j /\ \A i \in 1..j : F(j)[i] = ds[i].text
  <2>1. PICK p : p = F(j)  OBVIOUS
  <2>2. p = [i \in 1..j |-> p[i]] /\ \A i \in 1..j : p[i] = ds[i].text  BY <2>1
  <2>3. IsSeq(p) /\ Len(p) = j  BY <2>2, SeqFrom
  <2> QED  BY <2>1, <2>2, <2>3, Zenon
<1> HIDE DEF F
<1>2. PICK l, m, k : l = F(n) /\ m = F(k) /\ k = n + 1  OBVIOUS
<1>3. k \in Nat /\ k \in 1..Len(ds) /\ k \in 1..k /\ \A i \in 1..n : i \in 1..k
  <2>1. Len(ds) \in Nat  BY Seqs DEF AllTexts
  <2> QED  BY <1>2, <2>1
<1>4. IsSeq(l) /\ Len(l) = n /\ \A i \in 1..n : l[i] = ds[i].text  BY <1>1, <1>2, Zenon
<1>5. IsSeq(m) /\ Len(m) = k /\ \A i \in 1..k : m[i] = ds[i].text  BY <1>1, <1>2, <1>3, Zenon
<1>6. l = <<>> \/ n # 0  BY <1>4 DEF IsSeq
<1>7. m[n + 1] = ds[n + 1].text /\ IsSeq(m[n + 1])  BY <1>2, <1>3, <1>5 DEF AllTexts
<1>8. \A i \in 1..n : m[i] = l[i]  BY <1>3, <1>4, <1>5
<1>9. Len(m) = n + 1  BY <1>2, <1>5
<1>10. FlattenSeq(m) = FlattenSeq(l) \o m[n + 1]
  <2>1. Len(l) = n /\ IsSeq(m[n + 1])  BY ONLY <1>4, <1>7
  <2>2. Extends(l, m, n)  BY ONLY <1>6, <1>8, <1>9, <2>1 DEF Extends
  <2> QED  BY ONLY n \in Nat, <2>2, FlattenExtended
<1>11. Firstly(ds, n + 1) = FlattenSeq(m) /\ Firstly(ds, n) = FlattenSeq(l)
  BY <1>2 DEF Firstly, F
<1> QED  BY ONLY <1>7, <1>10, <1>11, Zenon

LEMMA PlacesExist ==
  ASSUME NEW ds, AllTexts(ds), NEW n \in Nat, n = Len(ds)
  PROVE  \E starts : Places(ds, n, starts) /\ Holds(Text(ds), ds, n, starts)
<1> DEFINE P == {j \in Nat : j <= n => \E starts : Places(ds, j, starts) /\ Holds(Firstly(ds, j), ds, j, starts)}
<1>1. 0 \in P
  <2>1. Firstly(ds, 0) = <<>>
    <3>1. PICK p : p = [i \in 1..0 |-> ds[i].text]  OBVIOUS
    <3>2. PICK z \in Int : z = 0 /\ p = [i \in 1..z |-> p[i]]  BY <3>1
    <3>3. IsSeq(p) /\ Len(p) = 0
      <4>1. IsSeq(p) /\ Len(p) = IF z < 0 THEN 0 ELSE z  BY <3>2, SeqFrom
      <4> QED  BY <3>2, <4>1
    <3>4. p = <<>>  BY <3>3 DEF IsSeq
    <3> QED  BY <3>1, <3>4, FlattenFirst DEF Firstly
  <2>2. PICK starts : starts = [k \in {0} |-> 0]  OBVIOUS
  <2>3. starts[0] = 0 /\ \A k \in 0..0 : k = 0  BY <2>2
  <2>4. Places(ds, 0, starts)  BY <2>3 DEF Places
  <2>5. Holds(<<>>, ds, 0, starts)  BY <2>3, EmptyIsSeq DEF Holds
  <2>6. Holds(Firstly(ds, 0), ds, 0, starts)  BY ONLY <2>1, <2>5, Zenon
  <2> QED  BY <2>4, <2>6
<1>2. ASSUME NEW j \in Nat, j \in P PROVE j + 1 \in P
  <2> SUFFICES ASSUME j + 1 <= n
               PROVE  \E starts : Places(ds, j + 1, starts) /\ Holds(Firstly(ds, j + 1), ds, j + 1, starts)
    OBVIOUS
  <2>1. j <= n  OBVIOUS
  <2>2. PICK starts : Places(ds, j, starts) /\ Holds(Firstly(ds, j), ds, j, starts)  BY <1>2, <2>1
  <2>3. PICK t, u : t = Firstly(ds, j) /\ u = t \o ds[j + 1].text  OBVIOUS
  <2>4. u = Firstly(ds, j + 1)  BY <2>3, FirstlyNext
  <2>5. PICK ext : ext = [k \in 0..(j + 1) |-> IF k <= j THEN starts[k] ELSE Len(u)]  OBVIOUS
  <2>6. Places(ds, j + 1, ext) /\ Holds(u, ds, j + 1, ext)
    BY ONLY AllTexts(ds), j \in Nat, j + 1 <= n, n = Len(ds), <2>2, <2>3, <2>5, PlaceNext
  <2> QED  BY <2>4, <2>6
<1> HIDE DEF P
<1>3. Nat \subseteq P  BY <1>1, <1>2, Induction
<1>4. Text(ds) = Firstly(ds, n)
  <2>1. DOMAIN ds = 1..n  BY Seqs DEF AllTexts
  <2> QED  BY <2>1 DEF Text, Firstly
<1>5. \E starts : Places(ds, n, starts) /\ Holds(Firstly(ds, n), ds, n, starts)  BY <1>3 DEF P
<1> QED  BY ONLY <1>4, <1>5, Zenon

\* The character c is number p of the text, and fmt is what follows it.
Source(ds) == Text(ds) \o <<NUL>>
Spot(t, p, c, fmt) ==
  /\ IsSeq(fmt) /\ p \in Nat /\ p >= 1 /\ p + Len(fmt) = Len(t)
  /\ c = t[p] /\ \A i \in 1..Len(fmt) : fmt[i] = t[p + i]
Base(ds) == CHOOSE starts : Places(ds, Len(ds), starts) /\ Holds(Text(ds), ds, Len(ds), starts)

\* k directives are over, and j characters of the next one.
At(ds, k, j, c, fmt) == Spot(Source(ds), Base(ds)[k] + j + 1, c, fmt)

LEMMA Tails ==
  ASSUME NEW s, IsSeq(s), NEW n \in Nat, Len(s) = n + 1
  PROVE  /\ IsSeq(Tail(s)) /\ Len(Tail(s)) = n
         /\ Head(s) = s[1] /\ \A i \in 1..n : Tail(s)[i] = s[i + 1]
<1>1. PICK S : s \in Seq(S)  BY DEF IsSeq
<1>2. s # <<>>  BY <1>1
<1>3. Tail(s) \in Seq(S) /\ Len(Tail(s)) = n  BY <1>1, <1>2
<1>4. Head(s) = s[1] /\ \A i \in 1..n : Tail(s)[i] = s[i + 1]  BY <1>1, <1>2
<1> QED  BY <1>3, <1>4 DEF IsSeq

LEMMA SpotNext ==
  ASSUME NEW t, NEW p, NEW c, NEW fmt, Spot(t, p, c, fmt), t[Len(t)] # c
  PROVE  Spot(t, p + 1, Head(fmt), Tail(fmt))
<1>1. PICK l \in Nat : l = Len(fmt)  BY Seqs DEF Spot
<1>2. p \in Nat /\ p >= 1 /\ p + l = Len(t) /\ c = t[p] /\ \A i \in 1..l : fmt[i] = t[p + i]
  BY <1>1 DEF Spot
<1>3. l # 0
  <2>1. l = 0 => p + l = p  BY <1>2
  <2> QED  BY <1>2, <2>1
<1>4. PICK n \in Nat : l = n + 1
  <2>1. l - 1 \in Nat /\ l = (l - 1) + 1  BY <1>3
  <2> QED  BY <2>1
<1>5. PICK h, u : h = Head(fmt) /\ u = Tail(fmt)  OBVIOUS
<1>6. IsSeq(u) /\ Len(u) = n /\ h = fmt[1] /\ \A i \in 1..n : u[i] = fmt[i + 1]
  <2>1. IsSeq(fmt) /\ Len(fmt) = n + 1  BY <1>1, <1>4 DEF Spot
  <2> QED  BY ONLY n \in Nat, <1>5, <2>1, Tails
<1>7. 1 \in 1..l /\ \A i \in 1..n : i + 1 \in 1..l /\ p + (i + 1) = (p + 1) + i  BY <1>2, <1>4
<1>8. h = t[p + 1] /\ \A i \in 1..n : u[i] = t[(p + 1) + i]  BY <1>2, <1>6, <1>7
<1>9. p + 1 \in Nat /\ p + 1 >= 1 /\ (p + 1) + n = Len(t)  BY <1>2, <1>4
<1>10. Spot(t, p + 1, h, u)  BY ONLY <1>6, <1>8, <1>9, Zenon DEF Spot
<1> QED  BY ONLY <1>5, <1>10, Zenon

\* The source, character by character.
IsSource(t, ds, n, starts) ==
  /\ IsSeq(t) /\ Len(t) = starts[n] + 1 /\ t[starts[n] + 1] = NUL
  /\ \A k \in 1..n : \A i \in 1..Len(ds[k].text) : t[starts[k - 1] + i] = ds[k].text[i]

LEMMA Sources ==
  ASSUME NEW ds, AllTexts(ds), NEW n \in Nat, n = Len(ds)
  PROVE  Places(ds, n, Base(ds)) /\ IsSource(Source(ds), ds, n, Base(ds))
<1>1. PICK starts : starts = Base(ds)  OBVIOUS
<1>2. Places(ds, n, starts) /\ Holds(Text(ds), ds, n, starts)
  <2>1. \E x : Places(ds, n, x) /\ Holds(Text(ds), ds, n, x)  BY PlacesExist
  <2>2. starts = CHOOSE x : Places(ds, n, x) /\ Holds(Text(ds), ds, n, x)  BY <1>1 DEF Base
  <2> QED  BY ONLY <2>1, <2>2, Zenon
<1>3. PICK s, t, e : s = Text(ds) /\ e = <<NUL>> /\ t = s \o e  OBVIOUS
<1>4. t = Source(ds)  BY <1>3 DEF Source
<1>5. PICK b \in Nat : b = starts[n] /\ b = Len(s) /\ IsSeq(s)
  <2>1. starts[n] \in Nat  BY <1>2 DEF Places
  <2> QED  BY <1>2, <1>3, <2>1 DEF Holds
<1>6. PICK o \in Nat : o = 1 /\ o = Len(e) /\ IsSeq(e) /\ e[o] = NUL  BY <1>3, Tuples
<1>7. IsJoined(t, s, b, e, o)  BY ONLY <1>3, <1>5, <1>6, Joined, Zenon
<1>8. IsSeq(t) /\ Len(t) = b + o /\ (\A i \in 1..b : t[i] = s[i]) /\ \A i \in 1..o : t[b + i] = e[i]
  BY ONLY <1>7, Zenon DEF IsJoined
<1>9. Len(t) = b + 1 /\ t[b + 1] = NUL
  <2>1. o \in 1..o /\ b + o = b + 1  BY ONLY <1>6, o \in Nat, b \in Nat
  <2>2. t[b + o] = e[o]  BY ONLY <1>8, <2>1, Zenon
  <2> QED  BY ONLY <1>6, <1>8, <2>1, <2>2, Zenon
<1>10. ASSUME NEW k \in 1..n, NEW y, y = Len(ds[k].text), NEW i \in 1..y
       PROVE  t[starts[k - 1] + i] = ds[k].text[i]
  <2>1. s[starts[k - 1] + i] = ds[k].text[i]  BY <1>2, <1>3, <1>10 DEF Holds
  <2>2. starts[k - 1] + i \in 1..b
    <3>1. IsSeq(ds[k].text)  BY DEF AllTexts
    <3>2. y \in Nat  BY <1>10, <3>1, Seqs
    <3> DEFINE P == {x \in Nat : k + x <= n => starts[k] <= starts[k + x]}
    <3>3. k \in 0..n /\ k - 1 \in 0..n  OBVIOUS
    <3>4. 0 \in P
      <4>1. k + 0 = k /\ starts[k] \in Nat  BY <1>2, <3>3 DEF Places
      <4> QED  BY <4>1
    <3>5. ASSUME NEW x \in Nat, x \in P PROVE x + 1 \in P
      <4> SUFFICES ASSUME k + (x + 1) <= n PROVE starts[k] <= starts[k + (x + 1)]  OBVIOUS
      <4>1. PICK c \in 1..n : c = k + (x + 1) /\ c - 1 = k + x /\ c - 1 \in 0..n /\ k + x <= n
        <5>1. k + (x + 1) \in 1..n /\ (k + (x + 1)) - 1 = k + x /\ k + x \in 0..n /\ k + x <= n
          OBVIOUS
        <5> QED  BY <5>1
      <4>2. starts[c] = starts[c - 1] + Len(ds[c].text)  BY <1>2, <4>1 DEF Places
      <4>3. PICK g \in Nat : g = Len(ds[c].text)
        <5>1. IsSeq(ds[c].text)  BY DEF AllTexts
        <5> QED  BY <5>1, Seqs
      <4>4. starts[k] \in Nat /\ starts[c - 1] \in Nat  BY <1>2, <3>3, <4>1 DEF Places
      <4>5. starts[k] <= starts[c - 1]  BY <3>5, <4>1
      <4> QED  BY ONLY <4>1, <4>2, <4>3, <4>4, <4>5
    <3> HIDE DEF P
    <3>6. Nat \subseteq P  BY <3>4, <3>5, Induction
    <3>7. PICK x \in Nat : k + x = n
      <4>1. n - k \in Nat /\ k + (n - k) = n  OBVIOUS
      <4> QED  BY <4>1
    <3>8. starts[k] <= b
      <4>1. k + x <= n  BY <3>7
      <4>2. starts[k] <= starts[k + x]  BY <3>6, <4>1 DEF P
      <4> QED  BY <1>5, <3>7, <4>2
    <3>9. starts[k] = starts[k - 1] + y /\ starts[k - 1] \in Nat  BY <1>2, <1>10, <3>3 DEF Places
    <3> QED  BY <3>2, <3>8, <3>9
  <2>3. t[starts[k - 1] + i] = s[starts[k - 1] + i]  BY <1>8, <2>2
  <2> QED  BY <2>1, <2>3
<1>11. IsSource(t, ds, n, starts)  BY ONLY <1>5, <1>8, <1>9, <1>10, Zenon DEF IsSource
<1> QED  BY ONLY <1>1, <1>2, <1>4, <1>11, Zenon

LEMMA AtFirst ==
  ASSUME NEW ds, AllTexts(ds), NEW c, c = Head(Source(ds)), NEW fmt, fmt = Tail(Source(ds))
  PROVE  At(ds, 0, 0, c, fmt)
<1>1. PICK n \in Nat : n = Len(ds)  BY Seqs DEF AllTexts
<1>2. PICK t, starts : t = Source(ds) /\ starts = Base(ds)  OBVIOUS
<1>3. Places(ds, n, starts) /\ IsSource(t, ds, n, starts)  BY ONLY AllTexts(ds), <1>1, <1>2, n \in Nat, Sources
<1>4. PICK b \in Nat : b = starts[n] /\ starts[0] = 0
  <2>1. starts[n] \in Nat /\ starts[0] = 0  BY <1>3 DEF Places
  <2> QED  BY <2>1
<1>5. IsSeq(t) /\ Len(t) = b + 1  BY <1>3, <1>4 DEF IsSource
<1>6. IsSeq(fmt) /\ Len(fmt) = b /\ c = t[1] /\ \A i \in 1..b : fmt[i] = t[i + 1]
  <2>1. c = Head(t) /\ fmt = Tail(t)  BY <1>2
  <2> QED  BY ONLY b \in Nat, <1>5, <2>1, Tails
<1>7. PICK p \in Nat : p = 1 /\ p >= 1 /\ p + b = b + 1 /\ p = 0 + 0 + 1 /\ \A i \in 1..b : i + 1 = p + i
  <2>1. 1 + b = b + 1 /\ \A i \in 1..b : i + 1 = 1 + i  OBVIOUS
  <2> QED  BY <2>1
<1>8. \A i \in 1..b : fmt[i] = t[p + i]  BY <1>6, <1>7
<1>9. Spot(t, p, c, fmt)  BY ONLY <1>5, <1>6, <1>7, <1>8, p \in Nat, Zenon DEF Spot
<1> QED  BY ONLY <1>2, <1>4, <1>7, <1>9, Zenon DEF At

LEMMA AtChar ==
  ASSUME NEW ds, AllTexts(ds), NEW k \in Nat, k < Len(ds), NEW j \in Nat, j < Len(ds[k + 1].text),
         NEW c, NEW fmt, At(ds, k, j, c, fmt)
  PROVE  c = ds[k + 1].text[j + 1]
<1>1. PICK n \in Nat : n = Len(ds)  BY Seqs DEF AllTexts
<1>2. PICK t, starts : t = Source(ds) /\ starts = Base(ds)  OBVIOUS
<1>3. Places(ds, n, starts) /\ IsSource(t, ds, n, starts)  BY ONLY AllTexts(ds), <1>1, <1>2, n \in Nat, Sources
<1>4. k + 1 \in 1..n /\ k \in 0..n /\ (k + 1) - 1 = k  BY <1>1
<1>5. PICK m \in Nat : m = Len(ds[k + 1].text)
  <2>1. IsSeq(ds[k + 1].text)  BY <1>1, <1>4 DEF AllTexts
  <2> QED  BY <2>1, Seqs
<1>6. j + 1 \in 1..m  BY <1>5
<1>7. PICK b \in Nat : b = starts[k]
  <2>1. starts[k] \in Nat  BY <1>3, <1>4 DEF Places
  <2> QED  BY <2>1
<1>8. \A q \in 1..n : \A i \in 1..Len(ds[q].text) : t[starts[q - 1] + i] = ds[q].text[i]
  BY ONLY <1>3, Zenon DEF IsSource
<1>9. t[starts[(k + 1) - 1] + (j + 1)] = ds[k + 1].text[j + 1]
  BY ONLY <1>4, <1>5, <1>6, <1>8, Zenon
<1>10. t[b + (j + 1)] = ds[k + 1].text[j + 1]  BY ONLY <1>4, <1>7, <1>9
<1>11. b + j + 1 = b + (j + 1)  BY ONLY b \in Nat, j \in Nat
<1>12. c = t[b + j + 1]  BY ONLY At(ds, k, j, c, fmt), <1>2, <1>7, Zenon DEF At, Spot
<1> QED  BY ONLY <1>10, <1>11, <1>12

LEMMA AtEnd ==
  ASSUME NEW ds, AllTexts(ds), NEW k, k = Len(ds), NEW c, NEW fmt, At(ds, k, 0, c, fmt)
  PROVE  c = NUL
<1>1. k \in Nat  BY Seqs DEF AllTexts
<1>2. PICK t, starts : t = Source(ds) /\ starts = Base(ds)  OBVIOUS
<1>3. Places(ds, k, starts) /\ IsSource(t, ds, k, starts)
  BY ONLY AllTexts(ds), k = Len(ds), <1>1, <1>2, Sources
<1>4. PICK b \in Nat : b = starts[k]
  <2>1. starts[k] \in Nat  BY <1>1, <1>3 DEF Places
  <2> QED  BY <2>1
<1>5. t[b + 1] = NUL  BY <1>3, <1>4 DEF IsSource
<1>6. c = t[b + 0 + 1]  BY ONLY At(ds, k, 0, c, fmt), <1>2, <1>4, Zenon DEF At, Spot
<1>7. b + 0 + 1 = b + 1  BY ONLY b \in Nat
<1> QED  BY ONLY <1>5, <1>6, <1>7

LEMMA AtDone ==
  ASSUME NEW ds, AllTexts(ds), NEW k \in Nat, k < Len(ds), NEW j \in Nat, j = Len(ds[k + 1].text),
         NEW c, NEW fmt, At(ds, k, j, c, fmt)
  PROVE  At(ds, k + 1, 0, c, fmt)
<1>1. PICK n \in Nat : n = Len(ds)  BY Seqs DEF AllTexts
<1>2. PICK starts : starts = Base(ds)  OBVIOUS
<1>3. Places(ds, n, starts)  BY ONLY AllTexts(ds), <1>1, <1>2, n \in Nat, Sources
<1>4. k + 1 \in 1..n /\ k \in 0..n /\ (k + 1) - 1 = k  BY <1>1
<1>5. starts[k + 1] = starts[(k + 1) - 1] + Len(ds[k + 1].text)  BY <1>3, <1>4 DEF Places
<1>6. PICK b \in Nat : b = starts[k]
  <2>1. starts[k] \in Nat  BY <1>3, <1>4 DEF Places
  <2> QED  BY <2>1
<1>7. starts[k + 1] = b + j  BY <1>4, <1>5, <1>6
<1>8. (b + j) + 0 + 1 = b + j + 1  BY ONLY b \in Nat, j \in Nat
<1>9. Spot(Source(ds), b + j + 1, c, fmt)  BY ONLY At(ds, k, j, c, fmt), <1>2, <1>6, Zenon DEF At
<1> QED  BY ONLY <1>2, <1>7, <1>8, <1>9 DEF At

LEMMA AtNext ==
  ASSUME NEW ds, AllTexts(ds), NEW k \in Nat, k <= Len(ds), NEW j \in Nat,
         NEW c, c # NUL, NEW fmt, At(ds, k, j, c, fmt)
  PROVE  At(ds, k, j + 1, Head(fmt), Tail(fmt))
<1>1. PICK n \in Nat : n = Len(ds)  BY Seqs DEF AllTexts
<1>2. PICK t, starts : t = Source(ds) /\ starts = Base(ds)  OBVIOUS
<1>3. Places(ds, n, starts) /\ IsSource(t, ds, n, starts)  BY ONLY AllTexts(ds), <1>1, <1>2, n \in Nat, Sources
<1>4. PICK b \in Nat, e \in Nat : b = starts[k] /\ e = starts[n]
  <2>1. k \in 0..n /\ n \in 0..n  BY <1>1
  <2>2. starts[k] \in Nat /\ starts[n] \in Nat  BY <1>3, <2>1 DEF Places
  <2> QED  BY <2>2
<1>5. t[Len(t)] = NUL
  <2>1. Len(t) = e + 1 /\ t[e + 1] = NUL  BY ONLY <1>3, <1>4, Zenon DEF IsSource
  <2> QED  BY ONLY <2>1, Zenon
<1>6. Spot(t, b + j + 1, c, fmt)  BY ONLY At(ds, k, j, c, fmt), <1>2, <1>4, Zenon DEF At
<1>7. Spot(t, (b + j + 1) + 1, Head(fmt), Tail(fmt))  BY ONLY c # NUL, <1>5, <1>6, SpotNext, Zenon
<1>8. (b + j + 1) + 1 = b + (j + 1) + 1  BY ONLY b \in Nat, j \in Nat
<1>9. Spot(t, b + (j + 1) + 1, Head(fmt), Tail(fmt))  BY ONLY <1>7, <1>8, Zenon
<1> QED  BY ONLY <1>2, <1>4, <1>9, Zenon DEF At

-----------------------------------------------------------------------------
(* What LaidOut says of the characters the code meets one after the other. *)
(* CharAt is the one after j others; behind an unfinished directive the    *)
(* format ends.                                                            *)
CharAt(d, j) == IF j < Len(d.text) THEN d.text[j + 1] ELSE NUL
Decimals(d, i, j) == NumberIn(SubSeq(d.text, i + 1, j), 10)

IsPart(u, s, i, j) == IsSeq(u) /\ Len(u) = j - i /\ \A q \in 1..(j - i) : u[q] = s[i + q]

LEMMA Parts ==
  ASSUME NEW s, IsSeq(s), NEW i \in Nat, NEW j \in Nat, i <= j, j <= Len(s), NEW u, u = SubSeq(s, i + 1, j)
  PROVE  IsPart(u, s, i, j)
<1>1. PICK S : s \in Seq(S)  BY DEF IsSeq
<1>2. u \in Seq(S) /\ Len(u) = j - i /\ \A q \in 1..(j - i) : u[q] = s[i + 1 + q - 1]
  <2>1. Len(s) \in Nat /\ \A q \in 1..Len(s) : s[q] \in S  BY <1>1
  <2>2. u = [q \in 1..(j - i) |-> s[i + 1 + q - 1]]  BY <1>1
  <2>3. \A q \in 1..(j - i) : i + 1 + q - 1 \in 1..Len(s)  BY <2>1
  <2> QED  BY <2>1, <2>2, <2>3
<1>3. \A q \in 1..(j - i) : i + 1 + q - 1 = i + q  OBVIOUS
<1> QED  BY <1>2, <1>3 DEF IsSeq, IsPart

LEMMA DigitIs == ASSUME NEW c, ISDIGIT(c) PROVE c \notin PassedOver /\ DigitValue(c) = CHARTOINT(c)
<1>1. DOMAIN Num = 1..10 /\ \A i \in 1..10 : Num[i] = Lower[i]
  <2>1. DOMAIN Num = 1..10  BY DEF Num
  <2>2. \A i \in 1..10 : i \in {1,2,3,4,5,6,7,8,9,10}  OBVIOUS
  <2>3. /\ Num[1] = "0" /\ Num[2] = "1" /\ Num[3] = "2" /\ Num[4] = "3" /\ Num[5] = "4"
        /\ Num[6] = "5" /\ Num[7] = "6" /\ Num[8] = "7" /\ Num[9] = "8" /\ Num[10] = "9"
    BY DEF Num
  <2> QED  BY <2>1, <2>2, <2>3, Hexadecimal
<1>2. PICK i \in 1..10 : Num[i] = c  BY <1>1 DEF ISDIGIT
<1>3. i \in 1..16 /\ \A j \in 1..10 : j \in 1..16  OBVIOUS
<1>4. DigitsFor(FALSE)[i] = c  BY <1>1, <1>2 DEF DigitsFor
<1>5. DigitValue(c) = i - 1 /\ c \notin PassedOver  BY <1>3, <1>4, DigitRead
<1>6. \A j \in 1..10 : Num[j] = c => j = i  BY <1>1, <1>2, <1>3, DigitsDiffer
<1>7. (CHOOSE j \in 1..10 : Num[j] = c) = i  BY <1>2, <1>6
<1> QED  BY <1>1, <1>5, <1>7 DEF CHARTOINT

LEMMA DecimalsNone ==
  ASSUME NEW d, IsSeq(d.text), NEW i \in Nat, i <= Len(d.text)
  PROVE  Decimals(d, i, i) = 0
<1>1. PICK j \in Nat : j = i /\ i <= j /\ j <= Len(d.text) /\ j - i = 0  OBVIOUS
<1>2. PICK u : u = SubSeq(d.text, i + 1, j)  OBVIOUS
<1>3. IsPart(u, d.text, i, j)  BY <1>1, <1>2, Parts
<1>4. Len(u) = 0  BY <1>1, <1>3 DEF IsPart
<1>5. PICK z, b : z = 0 /\ b = 10  OBVIOUS
<1>6. ReadAfter(z, u, b) = z  BY ONLY <1>4, ReadNone, Zenon
<1>7. Decimals(d, i, i) = ReadAfter(z, u, b)  BY ONLY <1>1, <1>2, <1>5 DEF Decimals, NumberIn
<1> QED  BY ONLY <1>5, <1>6, <1>7

LEMMA DecimalsNext ==
  ASSUME NEW d, IsSeq(d.text), NEW i \in Nat, NEW j \in Nat, i <= j, j < Len(d.text),
         NEW c, c = CharAt(d, j), ISDIGIT(c), Decimals(d, i, j) \in Nat
  PROVE  Decimals(d, i, j + 1) = 10 * Decimals(d, i, j) + CHARTOINT(c)
<1>1. PICK u, v : u = SubSeq(d.text, i + 1, j) /\ v = SubSeq(d.text, i + 1, j + 1)  OBVIOUS
<1>2. PICK n \in Nat : n = j - i /\ (j + 1) - i = n + 1 /\ i + (n + 1) = j + 1
  <2>1. j - i \in Nat /\ (j + 1) - i = (j - i) + 1 /\ i + ((j - i) + 1) = j + 1  OBVIOUS
  <2> QED  BY <2>1
<1>3. Len(u) = n /\ \A q \in 1..n : u[q] = d.text[i + q]
  <2>1. PICK l \in Nat : l = Len(d.text)  BY Seqs
  <2>2. j <= Len(d.text)  BY <2>1
  <2>3. IsPart(u, d.text, i, j)  BY <1>1, <2>2, Parts
  <2> QED  BY <1>2, <2>3 DEF IsPart
<1>4. Len(v) = n + 1 /\ \A q \in 1..(n + 1) : v[q] = d.text[i + q]
  <2>1. PICK l \in Nat : l = Len(d.text)  BY Seqs
  <2>2. i <= j + 1 /\ j + 1 <= Len(d.text) /\ j + 1 \in Nat  BY <2>1
  <2>3. IsPart(v, d.text, i, j + 1)  BY <1>1, <2>2, Parts
  <2> QED  BY <1>2, <2>3 DEF IsPart
<1>5. Alike(u, v, n)
  <2>1. \A q \in 1..n : q \in 1..(n + 1)  OBVIOUS
  <2> QED  BY <1>3, <1>4, <2>1 DEF Alike
<1>6. v[n + 1] = c
  <2>1. n + 1 \in 1..(n + 1)  OBVIOUS
  <2> QED  BY <1>2, <1>4, <2>1 DEF CharAt
<1>7. PICK z, b : z = 0 /\ b = 10  OBVIOUS
<1>8. ReadAfter(z, v, b) = Taken(ReadAfter(z, u, b), v[n + 1], b)
  BY ONLY n \in Nat, <1>3, <1>4, <1>5, ReadNext, Zenon
<1>9. ReadAfter(z, v, b) = ReadAfter(z, u, b) * b + DigitValue(c)
  BY <1>6, <1>8, DigitIs DEF Taken
<1>10. Decimals(d, i, j + 1) = ReadAfter(z, v, b) /\ Decimals(d, i, j) = ReadAfter(z, u, b)
  BY <1>1, <1>7 DEF Decimals, NumberIn
<1>11. DigitValue(c) = CHARTOINT(c) /\ CHARTOINT(c) \in 0..9  BY DigitIs, DigitInt
<1>12. PICK x \in Nat, y \in Nat : x = ReadAfter(z, u, b) /\ y = CHARTOINT(c)
  BY <1>10, <1>11
<1>13. Decimals(d, i, j + 1) = x * 10 + y  BY <1>7, <1>9, <1>10, <1>11, <1>12
<1>14. Decimals(d, i, j) = x  BY <1>10, <1>12
<1> QED  BY ONLY <1>12, <1>13, <1>14, x \in Nat, y \in Nat

ShapeFlags(d, f) ==
  /\ f \in Nat /\ f >= 1 /\ CharAt(d, 0) = "%"
  /\ d.flags \subseteq FlagChars /\ d.flags = {CharAt(d, i) : i \in 1..(f - 1)}
  /\ CharAt(d, f) \notin FlagChars
\* A number n, or the asterisk in its place, is between i and j.
NumberAt(d, n, i, j) ==
  IF n = Star THEN j = i + 1 /\ CharAt(d, i) = "*"
  ELSE /\ n = Decimals(d, i, j) /\ \A q \in i..(j - 1) : ISDIGIT(CharAt(d, q))
       /\ ~ISDIGIT(CharAt(d, j)) /\ CharAt(d, j) # "*"
ShapeWidth(d, f, w) == w \in Nat /\ w >= f /\ NumberAt(d, d.width, f, w)
ShapePrecision(d, w, p) ==
  /\ p \in Nat
  /\ \/ p = w /\ d.precision = -1 /\ CharAt(d, w) # "."
     \/ p >= w + 1 /\ CharAt(d, w) = "." /\ NumberAt(d, d.precision, w + 1, p)
ModifierAt(d, p, m, c) ==
  \/ c = "" /\ m = p /\ CharAt(d, p) \notin Letters
  \/ c \in Letters /\ m = p + 1 /\ CharAt(d, p) = c /\ CharAt(d, p + 1) \notin Letters
  \/ c = "hh" /\ m = p + 2 /\ CharAt(d, p) = "h" /\ CharAt(d, p + 1) = "h"
  \/ c = "ll" /\ m = p + 2 /\ CharAt(d, p) = "l" /\ CharAt(d, p + 1) = "l"
ShapeModifier(d, p, m, c) ==
  /\ d.type = IF d.conv = "p" THEN "long" ELSE TypeNamed(c)
  /\ ModifierAt(d, p, m, c)
ShapeEnd(d, m) ==
  /\ m \in Nat /\ IsSeq(d.text) /\ CharAt(d, m) = IF d.conv = "" THEN NUL ELSE d.conv
  /\ d.conv # NUL /\ d.conv # "literal"
  /\ IF d.conv = "" THEN m = Len(d.text) ELSE m + 1 = Len(d.text)
\* The flags of d end at f, its width at w, its precision at p, its modifier c at m.
Shape(d, f, w, p, m, c) ==
  /\ ShapeFlags(d, f) /\ ShapeWidth(d, f, w) /\ ShapePrecision(d, w, p)
  /\ p <= m /\ ShapeModifier(d, p, m, c) /\ ShapeEnd(d, m)

Kinds == FlagChars \cup Letters \cup {"*", ".", NUL}
LEMMA Apart ==
  /\ "." \notin FlagChars \cup Letters /\ "*" \notin FlagChars \cup Letters /\ "." # "*"
  /\ NUL \notin FlagChars \cup Letters \cup {".", "*", "%"}
  /\ \A c \in Letters : c \notin FlagChars
  /\ \A c \in Letters \cup {".", "*", NUL} : ~ISDIGIT(c)
  /\ \A c : ISDIGIT(c) /\ c # "0" => c \notin FlagChars
  /\ \A c : ISDIGIT(c) => c \notin {".", "*"}
<1>1. DOMAIN Num = 1..10  BY DEF Num
<1>2. \A i \in 1..10 : i \in {1,2,3,4,5,6,7,8,9,10}  OBVIOUS
<1>3. /\ Num[1] = "0" /\ Num[2] = "1" /\ Num[3] = "2" /\ Num[4] = "3" /\ Num[5] = "4"
      /\ Num[6] = "5" /\ Num[7] = "6" /\ Num[8] = "7" /\ Num[9] = "8" /\ Num[10] = "9"
  BY DEF Num
<1>4. \A c : ISDIGIT(c) => c \in {"0", "1", "2", "3", "4", "5", "6", "7", "8", "9"}
  BY <1>1, <1>2, <1>3 DEF ISDIGIT
<1> QED  BY <1>4 DEF FlagChars, Letters, NUL

\* What is between i and j of the text, and what follows it.
IsSpan(u, d, i, j) == Len(u) = j - i /\ \A q \in 1..(j - i) : u[q] = CharAt(d, i + q - 1)
LEMMA Spans ==
  ASSUME NEW d, IsSeq(d.text), NEW i \in Nat, NEW j \in Nat, i <= j, j <= Len(d.text),
         NEW u, u = SubSeq(d.text, i + 1, j)
  PROVE  IsSpan(u, d, i, j) /\ DOMAIN u = 1..(j - i)
<1>0. PICK s : s = d.text /\ IsSeq(s)  OBVIOUS
<1>1. IsSeq(u) /\ Len(u) = j - i /\ \A q \in 1..(j - i) : u[q] = s[i + q]
  <2>1. u = SubSeq(s, i + 1, j)  BY <1>0
  <2>2. j <= Len(s)  BY <1>0
  <2>3. IsSeq(s)  BY <1>0
  <2>4. IsPart(u, s, i, j)  BY <2>1, <2>2, <2>3, Parts
  <2> QED  BY <2>4 DEF IsPart
<1>2. PICK l \in Nat : l = Len(s)  BY <1>0, Seqs
<1>3. \A q \in 1..(j - i) : i + q - 1 < l /\ (i + q - 1) + 1 = i + q
  <2>1. j <= l  BY <1>0, <1>2
  <2> QED  BY <2>1
<1>4. ASSUME NEW q \in 1..(j - i) PROVE CharAt(d, i + q - 1) = s[i + q]
  <2>1. CharAt(d, i + q - 1) = s[(i + q - 1) + 1]  BY <1>0, <1>2, <1>3 DEF CharAt
  <2> QED  BY <1>3, <2>1
<1>5. DOMAIN u = 1..(j - i)  BY <1>1, Seqs
<1> QED  BY <1>1, <1>4, <1>5 DEF IsSpan

Closed(d, m) ==
  /\ IF d.conv = "" THEN m = Len(d.text) ELSE m + 1 = Len(d.text) /\ d.text[m + 1] = d.conv
  /\ d.conv \notin Kinds \cup {"literal"} /\ ~ISDIGIT(d.conv)
Plain(c) == c \notin FlagChars \cup {"*", "."} /\ ~ISDIGIT(c)
LEMMA ClosedEnd ==
  ASSUME NEW d, IsSeq(d.text), NEW m \in Nat, Closed(d, m)
  PROVE  ShapeEnd(d, m) /\ m <= Len(d.text) /\ Plain(CharAt(d, m)) /\ CharAt(d, m) \notin Letters
<1>1. PICK l \in Nat : l = Len(d.text)  BY Seqs
<1>2. d.conv \notin Kinds /\ d.conv # "literal" /\ ~ISDIGIT(d.conv)  BY DEF Closed
<1>3. CASE d.conv = ""
  <2>1. m = l  BY <1>1, <1>3 DEF Closed
  <2>2. ~(m < l)  BY <2>1
  <2>3. CharAt(d, m) = NUL  BY <1>1, <2>2 DEF CharAt
  <2>4. ShapeEnd(d, m)  BY <1>1, <1>2, <1>3, <2>1, <2>3 DEF ShapeEnd, Kinds
  <2>5. m <= l  BY <2>1
  <2> QED  BY <1>1, <2>3, <2>4, <2>5, Apart DEF Plain
<1>4. CASE d.conv # ""
  <2>1. m + 1 = l /\ d.text[m + 1] = d.conv  BY <1>1, <1>4 DEF Closed
  <2>2. m < l /\ m <= l  BY <2>1
  <2>3. CharAt(d, m) = d.conv  BY <1>1, <2>1, <2>2 DEF CharAt
  <2>4. ShapeEnd(d, m)  BY <1>1, <1>2, <1>4, <2>1, <2>3 DEF ShapeEnd, Kinds
  <2> QED  BY <1>1, <1>2, <2>2, <2>3, <2>4 DEF Plain, Kinds
<1> QED  BY <1>3, <1>4

LEMMA Spellings ==
  ASSUME NEW c, NEW u, u = Spelled(c)
  PROVE  /\ c = "" => Len(u) = 0
         /\ c \in Letters => Len(u) = 1 /\ u[1] = c
         /\ c = "hh" => Len(u) = 2 /\ u[1] = "h" /\ u[2] = "h"
         /\ c = "ll" => Len(u) = 2 /\ u[1] = "l" /\ u[2] = "l"
<1>1. c = "" => u = <<>>  BY DEF Spelled, Letters
<1>2. c \in Letters => u = <<c>>  BY DEF Spelled, Letters
<1>3. c = "hh" => u = <<"h", "h">>  BY DEF Spelled, Letters
<1>4. c = "ll" => u = <<"l", "l">>  BY DEF Spelled, Letters
<1>5. c = "" => Len(u) = 0  BY <1>1, EmptyIsSeq
<1>6. c \in Letters => Len(u) = 1 /\ u[1] = c  BY <1>2
<1>7. c = "hh" => Len(u) = 2 /\ u[1] = "h" /\ u[2] = "h"  BY <1>3
<1>8. c = "ll" => Len(u) = 2 /\ u[1] = "l" /\ u[2] = "l"  BY <1>4
<1> QED  BY <1>5, <1>6, <1>7, <1>8

LEMMA Modified ==
  ASSUME NEW d, IsSeq(d.text), NEW p \in Nat, NEW m \in Nat, p <= m, Closed(d, m),
         NEW c, c \in Letters \cup {"", "hh", "ll"}, SubSeq(d.text, p + 1, m) = Spelled(c)
  PROVE  ModifierAt(d, p, m, c) /\ Plain(CharAt(d, p))
<1>1. m <= Len(d.text) /\ Plain(CharAt(d, m)) /\ CharAt(d, m) \notin Letters  BY ClosedEnd
<1>2. PICK u : u = SubSeq(d.text, p + 1, m) /\ u = Spelled(c)  OBVIOUS
<1>3. PICK n \in Nat : n = m - p /\ m = p + n
  <2>1. m - p \in Nat /\ m = p + (m - p)  BY ONLY p <= m, p \in Nat, m \in Nat
  <2> QED  BY <2>1
<1>4. Len(u) = n /\ \A q \in 1..n : u[q] = CharAt(d, p + q - 1)
  <2>1. IsSpan(u, d, p, m)
    <3>1. u = SubSeq(d.text, p + 1, m)  BY <1>2
    <3>2. m <= Len(d.text)  BY <1>1
    <3> QED  BY <3>1, <3>2, Spans
  <2> QED  BY ONLY <1>3, <2>1 DEF IsSpan
<1>5. CASE c = ""
  <2>1. n = 0  BY <1>2, <1>4, <1>5, Spellings
  <2>2. m = p  BY ONLY <1>3, <2>1, p \in Nat
  <2> QED  BY <1>1, <1>5, <2>2 DEF ModifierAt
<1>6. CASE c \in Letters
  <2>1. n = 1 /\ u[1] = c  BY <1>2, <1>4, <1>6, Spellings
  <2>2. m = p + 1 /\ 1 \in 1..n /\ p + 1 - 1 = p  BY ONLY <1>3, <2>1, p \in Nat
  <2>3. CharAt(d, p) = c  BY ONLY <1>4, <2>1, <2>2
  <2>4. Plain(c)  BY <1>6, Apart DEF Plain
  <2> QED  BY <1>1, <1>6, <2>2, <2>3, <2>4 DEF ModifierAt
<1>7. ASSUME NEW h, h \in {"h", "l"}, Len(u) = 2, u[1] = h, u[2] = h
      PROVE  m = p + 2 /\ CharAt(d, p) = h /\ CharAt(d, p + 1) = h /\ Plain(h)
  <2>1. n = 2  BY <1>4, <1>7
  <2>2. /\ m = p + 2 /\ 1 \in 1..n /\ p + 1 - 1 = p
        /\ 2 \in 1..n /\ p + 2 - 1 = p + 1
    BY ONLY <1>3, <2>1, p \in Nat
  <2>3. CharAt(d, p) = h /\ CharAt(d, p + 1) = h  BY ONLY <1>4, <1>7, <2>2
  <2>4. h \in Letters  BY <1>7 DEF Letters
  <2>5. Plain(h)  BY <2>4, Apart DEF Plain
  <2> QED  BY <2>2, <2>3, <2>5
<1>8. CASE c = "hh"
  <2>1. Len(u) = 2 /\ u[1] = "h" /\ u[2] = "h"  BY <1>2, <1>8, Spellings
  <2>2. m = p + 2 /\ CharAt(d, p) = "h" /\ CharAt(d, p + 1) = "h" /\ Plain("h")  BY <1>7, <2>1
  <2> QED  BY <1>8, <2>2 DEF ModifierAt
<1>9. CASE c = "ll"
  <2>1. Len(u) = 2 /\ u[1] = "l" /\ u[2] = "l"  BY <1>2, <1>9, Spellings
  <2>2. m = p + 2 /\ CharAt(d, p) = "l" /\ CharAt(d, p + 1) = "l" /\ Plain("l")  BY <1>7, <2>1
  <2> QED  BY <1>9, <2>2 DEF ModifierAt
<1> QED  BY <1>5, <1>6, <1>8, <1>9

LEMMA SaysNumber ==
  ASSUME NEW d, IsSeq(d.text), NEW i \in Nat, NEW j \in Nat, i <= j, j <= Len(d.text), NEW n,
         NEW u, u = SubSeq(d.text, i + 1, j), Says(n, u), ~ISDIGIT(CharAt(d, j)), CharAt(d, j) # "*"
  PROVE  NumberAt(d, n, i, j)
<1>1. IsSpan(u, d, i, j) /\ DOMAIN u = 1..(j - i)  BY Spans
<1>2. PICK k \in Nat : k = j - i /\ j = i + k
  <2>1. j - i \in Nat /\ j = i + (j - i)  BY ONLY i \in Nat, j \in Nat, i <= j
  <2> QED  BY <2>1
<1>3. Len(u) = k /\ DOMAIN u = 1..k /\ \A q \in 1..k : u[q] = CharAt(d, i + q - 1)
  BY ONLY <1>1, <1>2 DEF IsSpan
<1>4. CASE n = Star
  <2>1. u = <<"*">>  BY <1>4 DEF Says
  <2>2. Len(u) = 1 /\ u[1] = "*"  BY ONLY <2>1
  <2>3. k = 1  BY <1>3, <2>2
  <2>4. j = i + 1 /\ 1 \in 1..k /\ i + 1 - 1 = i  BY ONLY <1>2, <2>3, i \in Nat
  <2>5. CharAt(d, i) = "*"  BY ONLY <1>3, <2>2, <2>4
  <2> QED  BY <1>4, <2>4, <2>5 DEF NumberAt
<1>5. CASE n # Star
  <2>1. NumberIn(u, 10) = n /\ \A q \in 1..k : ISDIGIT(u[q])  BY <1>3, <1>5 DEF Says
  <2>2. n = Decimals(d, i, j)  BY <2>1 DEF Decimals
  <2>3. ASSUME NEW q \in i..(j - 1) PROVE ISDIGIT(CharAt(d, q))
    <3>1. PICK r \in 1..k : q = i + r - 1
      <4>1. q - i + 1 \in 1..k /\ q = i + (q - i + 1) - 1  BY ONLY <1>2, i \in Nat, q \in i..(j - 1)
      <4> QED  BY <4>1
    <3>2. u[r] = CharAt(d, q)  BY ONLY <1>3, <3>1
    <3> QED  BY <2>1, <3>2
  <2> QED  BY <1>5, <2>2, <2>3 DEF NumberAt
<1> QED  BY <1>4, <1>5

LEMMA FlagsShape ==
  ASSUME NEW d, IsSeq(d.text), NEW f \in Nat, f >= 1, f <= Len(d.text), d.text[1] = "%",
         d.flags = {d.text[i] : i \in 2..f}, d.flags \subseteq FlagChars, CharAt(d, f) \notin FlagChars
  PROVE  ShapeFlags(d, f)
<1>1. PICK l \in Nat : l = Len(d.text)  BY Seqs
<1>2. 0 < l /\ 0 + 1 = 1  BY <1>1
<1>3. CharAt(d, 0) = "%"  BY <1>1, <1>2 DEF CharAt
<1>4. \A i \in 1..(f - 1) : i < l /\ i + 1 \in 2..f  BY <1>1
<1>5. \A i \in 1..(f - 1) : CharAt(d, i) = d.text[i + 1]  BY <1>1, <1>4 DEF CharAt
<1>6. \A i \in 2..f : i - 1 \in 1..(f - 1) /\ (i - 1) + 1 = i  OBVIOUS
<1>7. d.flags = {CharAt(d, i) : i \in 1..(f - 1)}
  <2>1. ASSUME NEW x, x \in d.flags PROVE x \in {CharAt(d, i) : i \in 1..(f - 1)}
    <3>1. PICK i \in 2..f : x = d.text[i]  BY <2>1
    <3>2. PICK e : e = i - 1 /\ e \in 1..(f - 1) /\ e + 1 = i  BY <1>6
    <3>3. x = CharAt(d, e)  BY <1>5, <3>1, <3>2
    <3> QED  BY <3>2, <3>3
  <2>2. ASSUME NEW e \in 1..(f - 1) PROVE CharAt(d, e) \in d.flags
    <3>1. e + 1 \in 2..f  BY <1>4
    <3> QED  BY <1>5, <3>1
  <2> QED  BY <2>1, <2>2
<1> QED  BY <1>3, <1>7 DEF ShapeFlags

LEMMA Shapes ==
  ASSUME NEW d, IsDirective(d), d.conv # "literal"
  PROVE  IsSeq(d.text) /\ \E f, w, p, m, c : Shape(d, f, w, p, m, c) /\ m <= Len(d.text)
<1>1. IsSeq(d.text)  BY DEF IsDirective, IsSeq
<1>2. PICK l \in Nat : l = Len(d.text)  BY <1>1, Seqs
<1>3. PICK f, w, p, m :
        /\ f \in 1..l /\ w \in f..l /\ p \in w..l /\ m \in p..l
        /\ LaidOut(d, f, w, p, m)
  BY <1>2 DEF IsDirective
<1>4. /\ f \in Nat /\ w \in Nat /\ p \in Nat /\ m \in Nat /\ f >= 1 /\ f <= w /\ w <= p /\ p <= m
      /\ f <= l /\ w <= l /\ p <= l /\ m <= l
  BY ONLY <1>3, l \in Nat
<1>5. PICK c : /\ c \in Letters \cup {"", "hh", "ll"} /\ SubSeq(d.text, p + 1, m) = Spelled(c)
               /\ d.type = IF d.conv = "p" THEN "long" ELSE TypeNamed(c)
  BY <1>3 DEF LaidOut
<1>6. Closed(d, m)
  <2>1. IF d.conv = "" THEN m = Len(d.text) ELSE m + 1 = Len(d.text) /\ d.text[m + 1] = d.conv
    BY <1>3 DEF LaidOut
  <2>2. d.conv \notin Kinds \cup {"literal"} /\ ~ISDIGIT(d.conv)  BY <1>3 DEF LaidOut, Kinds
  <2> QED  BY ONLY <2>1, <2>2 DEF Closed
<1>7. ShapeEnd(d, m)  BY ONLY <1>1, <1>4, <1>6, ClosedEnd, Zenon
<1>8. ModifierAt(d, p, m, c) /\ Plain(CharAt(d, p))
  BY ONLY <1>1, <1>4, <1>5, <1>6, Modified, Zenon
<1>9. ShapeModifier(d, p, m, c)  BY ONLY <1>5, <1>8, Zenon DEF ShapeModifier
<1>10. ASSUME p = w PROVE ShapePrecision(d, w, p) /\ Plain(CharAt(d, w))
  <2>1. d.precision = -1  BY <1>3, <1>10 DEF LaidOut
  <2>2. ShapePrecision(d, w, p)  BY <1>4, <1>8, <1>10, <2>1 DEF ShapePrecision, Plain
  <2>3. Plain(CharAt(d, w))  BY <1>8, <1>10
  <2> QED  BY <2>2, <2>3
<1>11. ASSUME p # w PROVE CharAt(d, w) = "." /\ ShapePrecision(d, w, p)
  <2>1. d.text[w + 1] = "." /\ Says(d.precision, SubSeq(d.text, w + 2, p))
    BY <1>3, <1>11 DEF LaidOut
  <2>2. PICK e \in Nat : e = w + 1 /\ e + 1 = w + 2 /\ e <= p /\ w < l
    <3>1. w + 1 \in Nat /\ (w + 1) + 1 = w + 2 /\ w + 1 <= p /\ w < l
      BY ONLY <1>4, <1>11, l \in Nat
    <3> QED  BY <3>1
  <2>3. CharAt(d, w) = "."  BY <1>2, <2>1, <2>2 DEF CharAt
  <2>4. PICK u : u = SubSeq(d.text, e + 1, p) /\ Says(d.precision, u)
    <3>1. Says(d.precision, SubSeq(d.text, e + 1, p))  BY ONLY <2>1, <2>2
    <3> QED  BY <3>1
  <2>5. NumberAt(d, d.precision, e, p)
    <3>1. ~ISDIGIT(CharAt(d, p)) /\ CharAt(d, p) # "*"  BY <1>8 DEF Plain
    <3>2. p <= Len(d.text)  BY <1>2, <1>4
    <3> QED  BY ONLY <1>1, <1>4, <2>2, <2>4, <3>1, <3>2, e \in Nat, SaysNumber, Zenon
  <2>6. ShapePrecision(d, w, p)
    <3>1. p >= w + 1  BY ONLY <2>2, <1>4
    <3>2. NumberAt(d, d.precision, w + 1, p)  BY ONLY <2>2, <2>5
    <3> QED  BY ONLY <1>4, <2>3, <3>1, <3>2, Zenon DEF ShapePrecision
  <2> QED  BY ONLY <2>3, <2>6
<1>12. ShapePrecision(d, w, p) /\ CharAt(d, w) \notin FlagChars
       /\ ~ISDIGIT(CharAt(d, w)) /\ CharAt(d, w) # "*"
  BY ONLY <1>10, <1>11, Apart DEF Plain
<1>13. Says(d.width, SubSeq(d.text, f + 1, w)) /\ (w > f => d.text[f + 1] # "0")
  BY <1>3 DEF LaidOut
<1>14. PICK u : u = SubSeq(d.text, f + 1, w) /\ Says(d.width, u)  BY <1>13
<1>15. NumberAt(d, d.width, f, w)
  <2>1. w <= Len(d.text)  BY <1>2, <1>4
  <2> QED  BY ONLY <1>1, <1>4, <1>12, <1>14, <2>1, SaysNumber, Zenon
<1>16. ShapeWidth(d, f, w)  BY <1>4, <1>15 DEF ShapeWidth
<1>17. CharAt(d, f) \notin FlagChars
  <2>1. CASE w = f  BY <1>12, <2>1
  <2>2. CASE w # f
    <3>1. w > f /\ f < l /\ f \in f..(w - 1)  BY ONLY <1>4, <2>2
    <3>2. CharAt(d, f) # "0"  BY <1>2, <1>13, <3>1 DEF CharAt
    <3>3. CharAt(d, f) = "*" \/ ISDIGIT(CharAt(d, f))  BY ONLY <1>15, <3>1 DEF NumberAt
    <3> QED  BY ONLY <3>2, <3>3, Apart
  <2> QED  BY <2>1, <2>2
<1>18. ShapeFlags(d, f)
  <2>1. /\ d.text[1] = "%" /\ d.flags = {d.text[i] : i \in 2..f}
        /\ d.flags \subseteq FlagChars
    BY <1>3 DEF LaidOut
  <2>2. f <= Len(d.text)  BY <1>2, <1>4
  <2> QED  BY ONLY <1>1, <1>4, <1>17, <2>1, <2>2, FlagsShape
<1>19. Shape(d, f, w, p, m, c)  BY ONLY <1>4, <1>7, <1>9, <1>12, <1>16, <1>18, Zenon DEF Shape
<1>20. m <= Len(d.text)  BY <1>2, <1>4
<1> QED  BY ONLY <1>1, <1>19, <1>20, Zenon

-----------------------------------------------------------------------------
(* Where the machine is, in the layout of the directive it reads.          *)
WellFormed(ds) ==
  /\ AllTexts(ds)
  /\ \A i \in 1..Len(ds) : IsDirective(ds[i]) /\ (ds[i].conv = "" => i = Len(ds))

LEMMA FormatsWellFormed == \A ds \in Formats : WellFormed(ds)
<1> SUFFICES ASSUME NEW ds \in Formats PROVE WellFormed(ds)  OBVIOUS
<1>1. IsSeq(ds)  BY LayoutAssumption DEF IsSeq
<1>2. PICK n \in Nat : n = Len(ds) /\ DOMAIN ds = 1..n  BY <1>1, Seqs
<1>3. \A i \in 1..n : IsDirective(ds[i]) /\ (ds[i].conv = "" => i = n)
  BY <1>2, LayoutAssumption
<1>4. \A i \in 1..n : IsSeq(ds[i].text)  BY <1>3 DEF IsDirective, IsSeq
<1> QED  BY <1>1, <1>2, <1>3, <1>4 DEF WellFormed, AllTexts

\* k directives are over; the machine is behind j characters of the next one, d.
Within(ds, k, d, j, m, c, fmt) ==
  /\ k \in Nat /\ k < Len(ds) /\ d = ds[k + 1]
  /\ j \in Nat /\ j <= m /\ m <= Len(d.text) /\ ShapeEnd(d, m)
  /\ At(ds, k, j, c, fmt)

LEMMA WithinChar ==
  ASSUME NEW ds, WellFormed(ds), NEW k, NEW d, NEW j, NEW m, NEW c, NEW fmt,
         Within(ds, k, d, j, m, c, fmt)
  PROVE  c = CharAt(d, j)
<1>1. AllTexts(ds)  BY DEF WellFormed
<1>2. PICK n \in Nat : n = Len(ds)  BY <1>1, Seqs DEF AllTexts
<1>3. k \in Nat /\ k < n /\ d = ds[k + 1] /\ j \in Nat /\ j <= m /\ m \in Nat /\ m <= Len(d.text)
      /\ At(ds, k, j, c, fmt) /\ ShapeEnd(d, m)
  BY <1>2 DEF Within, ShapeEnd
<1>4. PICK l \in Nat : l = Len(d.text)
  <2>1. IsSeq(d.text)  BY <1>3 DEF ShapeEnd
  <2> QED  BY <2>1, Seqs
<1>5. CASE j < l
  <2>1. c = ds[k + 1].text[j + 1]
    BY ONLY <1>1, <1>2, <1>3, <1>4, <1>5, AtChar
  <2> QED  BY <1>3, <1>4, <1>5, <2>1 DEF CharAt
<1>6. CASE ~(j < l)
  <2>1. j = l /\ m = l  BY <1>3, <1>4, <1>6
  <2>2. d.conv = ""
    <3>1. d.conv # "" => m + 1 = l  BY <1>3, <1>4 DEF ShapeEnd
    <3>2. m + 1 # l  BY <2>1
    <3> QED  BY <3>1, <3>2
  <2>3. k + 1 = n
    <3>1. k + 1 \in 1..n  BY <1>3
    <3> QED  BY <1>2, <1>3, <2>2, <3>1 DEF WellFormed
  <2>4. j = Len(ds[k + 1].text)  BY <1>3, <1>4, <2>1
  <2>5. At(ds, k + 1, 0, c, fmt)
    BY ONLY <1>1, <1>2, <1>3, <2>4, AtDone
  <2>6. c = NUL
    <3>1. k + 1 = Len(ds)  BY <1>2, <2>3
    <3> QED  BY ONLY <1>1, <2>5, <3>1, AtEnd
  <2> QED  BY <1>4, <1>6, <2>6 DEF CharAt
<1> QED  BY <1>5, <1>6

LEMMA WithinNext ==
  ASSUME NEW ds, WellFormed(ds), NEW k, NEW d, NEW j, NEW m, NEW c, NEW fmt,
         Within(ds, k, d, j, m, c, fmt), c # NUL, NEW i, i = j + 1, i <= m
  PROVE  Within(ds, k, d, i, m, Head(fmt), Tail(fmt))
<1>1. AllTexts(ds)  BY DEF WellFormed
<1>2. PICK n \in Nat : n = Len(ds)  BY <1>1, Seqs DEF AllTexts
<1>3. k \in Nat /\ k < n /\ d = ds[k + 1] /\ j \in Nat /\ j <= m /\ m \in Nat /\ m <= Len(d.text)
      /\ At(ds, k, j, c, fmt) /\ ShapeEnd(d, m)
  BY <1>2 DEF Within, ShapeEnd
<1>4. k <= Len(ds)  BY <1>2, <1>3
<1>5. At(ds, k, j + 1, Head(fmt), Tail(fmt))
  BY ONLY <1>1, <1>3, <1>4, c # NUL, AtNext
<1>6. i \in Nat /\ At(ds, k, i, Head(fmt), Tail(fmt)) /\ k < Len(ds)  BY <1>2, <1>3, <1>5
<1>7. d = ds[k + 1] /\ k \in Nat /\ m <= Len(d.text) /\ ShapeEnd(d, m)  BY <1>3
<1>8. i <= m  OBVIOUS
<1> QED  BY ONLY <1>6, <1>7, <1>8, Zenon DEF Within

\* The last character of a directive has been read.
LEMMA WithinDone ==
  ASSUME NEW ds, WellFormed(ds), NEW k, NEW d, NEW m, NEW c, NEW fmt,
         Within(ds, k, d, m, m, c, fmt), c # NUL
  PROVE  /\ c = d.conv /\ k \in Nat /\ k + 1 <= Len(ds)
         /\ At(ds, k + 1, 0, Head(fmt), Tail(fmt))
<1>1. AllTexts(ds)  BY DEF WellFormed
<1>2. PICK n \in Nat : n = Len(ds)  BY <1>1, Seqs DEF AllTexts
<1>3. k \in Nat /\ k < n /\ d = ds[k + 1] /\ m \in Nat /\ m <= Len(d.text)
      /\ At(ds, k, m, c, fmt) /\ ShapeEnd(d, m)
  BY <1>2 DEF Within, ShapeEnd
<1>4. c = CharAt(d, m)  BY WithinChar
<1>5. d.conv # "" /\ c = d.conv  BY <1>3, <1>4 DEF ShapeEnd
<1>6. m + 1 = Len(d.text)  BY <1>3, <1>5 DEF ShapeEnd
<1>7. k <= Len(ds)  BY <1>2, <1>3
<1>8. At(ds, k, m + 1, Head(fmt), Tail(fmt))
  BY ONLY <1>1, <1>3, <1>7, c # NUL, AtNext
<1>9. PICK j \in Nat : j = m + 1  BY <1>3
<1>10. At(ds, k, j, Head(fmt), Tail(fmt)) /\ j = Len(ds[k + 1].text)  BY <1>3, <1>6, <1>8, <1>9
<1>11. At(ds, k + 1, 0, Head(fmt), Tail(fmt))
  BY ONLY <1>1, <1>2, <1>3, <1>10, j \in Nat, AtDone
<1>12. k + 1 <= n  BY <1>3
<1> QED  BY <1>2, <1>3, <1>5, <1>11, <1>12

\* A directive begins: a literal character is all of it.
LEMMA Begins ==
  ASSUME NEW ds, WellFormed(ds), NEW k \in Nat, k <= Len(ds), NEW c, NEW fmt,
         At(ds, k, 0, c, fmt), c # NUL
  PROVE  /\ k < Len(ds) /\ c = ds[k + 1].text[1] /\ At(ds, k, 1, Head(fmt), Tail(fmt))
         /\ c = "%" <=> ds[k + 1].conv # "literal"
         /\ c # "%" => At(ds, k + 1, 0, Head(fmt), Tail(fmt))
<1>1. AllTexts(ds)  BY DEF WellFormed
<1>2. PICK n \in Nat : n = Len(ds)  BY <1>1, Seqs DEF AllTexts
<1>3. k # n
  <2>1. k = n => k = Len(ds)  BY <1>2
  <2> QED  BY ONLY <1>1, <2>1, At(ds, k, 0, c, fmt), c # NUL, AtEnd
<1>4. k < n /\ k + 1 \in 1..n  BY <1>2, <1>3
<1>5. PICK d : d = ds[k + 1] /\ IsDirective(d)  BY <1>2, <1>4 DEF WellFormed
<1>6. PICK l \in Nat : l = Len(d.text) /\ l >= 1 /\ (d.conv = "literal" => l = 1)
                       /\ (d.text[1] = "%" <=> d.conv # "literal")
  <2>1. IsSeq(d.text)  BY <1>5 DEF IsDirective, IsSeq
  <2>2. PICK l \in Nat : l = Len(d.text)  BY <2>1, Seqs
  <2>3. CASE d.conv = "literal"
    <3>1. \A f, w, p, m : ~LaidOut(d, f, w, p, m)  BY <2>3 DEF LaidOut
    <3>2. Len(d.text) = 1 /\ d.text[1] # "%"  BY <1>5, <3>1 DEF IsDirective
    <3> QED  BY <2>2, <2>3, <3>2
  <2>4. CASE d.conv # "literal"
    <3>1. PICK f \in 1..l : \E w, p, m : LaidOut(d, f, w, p, m)  BY <1>5, <2>2, <2>4 DEF IsDirective
    <3>2. d.text[1] = "%"  BY <3>1 DEF LaidOut
    <3>3. l >= 1  BY <3>1
    <3> QED  BY <2>2, <2>4, <3>2, <3>3
  <2> QED  BY <2>3, <2>4
<1>7. PICK z \in Nat : z = 0 /\ z + 1 = 1 /\ z < Len(ds[k + 1].text)  BY <1>5, <1>6
<1>8. At(ds, k, z, c, fmt)  BY <1>7
<1>9. k < Len(ds)  BY <1>2, <1>4
<1>10. c = ds[k + 1].text[z + 1]
  BY ONLY <1>1, <1>7, <1>8, <1>9, k \in Nat, z \in Nat, AtChar
<1>11. At(ds, k, z + 1, Head(fmt), Tail(fmt))
  BY ONLY <1>1, <1>8, k \in Nat, z \in Nat, k <= Len(ds), c # NUL, AtNext
<1>12. c = d.text[1] /\ At(ds, k, 1, Head(fmt), Tail(fmt))  BY <1>5, <1>7, <1>10, <1>11
<1>13. c # "%" => At(ds, k + 1, 0, Head(fmt), Tail(fmt))
  <2>1. SUFFICES ASSUME c # "%" PROVE At(ds, k + 1, 0, Head(fmt), Tail(fmt))  OBVIOUS
  <2>2. PICK o \in Nat : o = 1 /\ o = Len(ds[k + 1].text)  BY <1>5, <1>6, <1>12, <2>1
  <2>3. At(ds, k, o, Head(fmt), Tail(fmt))  BY <1>12, <2>2
  <2> QED  BY ONLY <1>1, <1>9, <2>2, <2>3, k \in Nat, o \in Nat, AtDone
<1> QED  BY <1>5, <1>6, <1>9, <1>12, <1>13

(* What the machine knows in each state, behind j characters of d.         *)
InFlags(d, f, j, fl, cf, wd, pr, a) ==
  /\ j >= 1 /\ j <= f /\ fl = {CharAt(d, i) : i \in 1..(j - 1)}
  /\ cf = "" /\ wd = 0 /\ pr = -1 /\ a = <<>>
InWidth(d, f, w, j, fl, cf, wd, pr, a) ==
  /\ j >= f /\ j <= w /\ (d.width = Star => j = f)
  /\ fl = d.flags /\ wd = Decimals(d, f, j)
  /\ cf = "" /\ pr = -1 /\ a = <<>>
\* The arguments taken for the width and the precision.
WidthTaken(d, a) == IF d.width = Star THEN \E x \in Widths : a = <<x>> ELSE a = <<>>
BothTaken(d, a) ==
  \E b : WidthTaken(d, b) /\ IF d.precision = Star THEN \E x \in Widths : a = Append(b, x) ELSE a = b
TookWidth(d, fl, wd, a) == WidthTaken(d, a) /\ fl = GivenFlags(d, a) /\ wd = WidthOf(d, a)
TookBoth(d, fl, wd, pr, a) ==
  BothTaken(d, a) /\ fl = GivenFlags(d, a) /\ wd = WidthOf(d, a) /\ pr = PrecisionOf(d, a)
InDot(d, w, j, fl, cf, wd, pr, a) == j = w /\ TookWidth(d, fl, wd, a) /\ cf = "" /\ pr = -1
InPrecision(d, w, p, j, fl, cf, wd, pr, a) ==
  /\ j >= w + 1 /\ j <= p /\ CharAt(d, w) = "." /\ (d.precision = Star => j = w + 1)
  /\ TookWidth(d, fl, wd, a) /\ cf = "" /\ Larger(pr, 0) = Decimals(d, w + 1, j)
InMod(d, p, j, fl, cf, wd, pr, a) == j = p /\ TookBoth(d, fl, wd, pr, a) /\ cf = ""
InConv(d, m, j, fl, cf, wd, pr, a) ==
  j = m /\ TookBoth(d, fl, wd, pr, a) /\ (d.conv # "p" => ArgType(cf) = d.type)

\* What a shape gives: its four ends, and the width and the precision as the code meets them.
LEMMA ShapeEnds ==
  ASSUME NEW d, NEW f, NEW w, NEW p, NEW m, NEW t, Shape(d, f, w, p, m, t)
  PROVE  /\ f \in Nat /\ w \in Nat /\ p \in Nat /\ m \in Nat /\ 1 <= f /\ f <= w /\ w <= p /\ p <= m
         /\ IsSeq(d.text) /\ ShapeEnd(d, m)
         /\ m \in Nat /\ m <= Len(d.text)
<1>1. f \in Nat /\ 1 <= f  BY DEF Shape, ShapeFlags
<1>2. w \in Nat /\ f <= w  BY <1>1 DEF Shape, ShapeWidth
<1>3. p \in Nat /\ w <= p  BY <1>2 DEF Shape, ShapePrecision
<1>4. ShapeEnd(d, m) /\ m \in Nat /\ p <= m /\ IsSeq(d.text)  BY DEF Shape, ShapeEnd
<1>5. PICK l \in Nat : l = Len(d.text)  BY <1>4, Seqs
<1>6. m <= l
  <2>1. m = l \/ m + 1 = l  BY <1>4, <1>5 DEF ShapeEnd
  <2> QED  BY ONLY <1>4, <2>1, l \in Nat
<1> QED  BY <1>1, <1>2, <1>3, <1>4, <1>5, <1>6

\* A number in the text: where it ends, where its asterisk is.
IsMet(d, n, i, e, j, c) ==
  /\ ISDIGIT(c) => n # Star /\ j + 1 <= e
  /\ c = "*" => n = Star /\ j = i /\ e = j + 1
  /\ ~ISDIGIT(c) /\ c # "*" => n # Star /\ j = e /\ n = Decimals(d, i, j)
LEMMA NumberMet ==
  ASSUME NEW d, NEW n, NEW i \in Nat, NEW e \in Nat, i <= e, NumberAt(d, n, i, e),
         NEW j \in Nat, i <= j, j <= e, n = Star => j = i, NEW c, c = CharAt(d, j)
  PROVE  IsMet(d, n, i, e, j, c)
<1>1. CASE n = Star
  <2>1. e = i + 1 /\ CharAt(d, i) = "*" /\ j = i  BY <1>1 DEF NumberAt
  <2>2. c = "*" /\ ~ISDIGIT(c) /\ e = j + 1  BY <2>1, Apart
  <2> QED  BY <1>1, <2>1, <2>2 DEF IsMet
<1>2. CASE n # Star
  <2>1. /\ n = Decimals(d, i, e) /\ \A q \in i..(e - 1) : ISDIGIT(CharAt(d, q))
        /\ ~ISDIGIT(CharAt(d, e)) /\ CharAt(d, e) # "*"
    BY <1>2 DEF NumberAt
  <2>2. CASE j = e  BY <1>2, <2>1, <2>2 DEF IsMet
  <2>3. CASE j # e
    <3>1. j \in i..(e - 1) /\ j + 1 <= e  BY <2>3
    <3>2. ISDIGIT(c)  BY <2>1, <3>1
    <3>3. c # "*"  BY <3>2, Apart
    <3> QED  BY <1>2, <3>1, <3>2, <3>3 DEF IsMet
  <2> QED  BY <2>2, <2>3
<1> QED  BY <1>1, <1>2

LEMMA FlagMet ==
  ASSUME NEW d, NEW f, ShapeFlags(d, f), NEW j \in Nat, NEW fl, NEW cf, NEW wd, NEW pr, NEW a,
         InFlags(d, f, j, fl, cf, wd, pr, a), NEW c, c = CharAt(d, j)
  PROVE  /\ c \in FlagChars => j + 1 <= f /\ InFlags(d, f, j + 1, fl \cup {c}, cf, wd, pr, a)
         /\ c \notin FlagChars => j = f /\ fl = d.flags
<1>1. /\ f \in Nat /\ d.flags \subseteq FlagChars /\ d.flags = {CharAt(d, i) : i \in 1..(f - 1)}
      /\ CharAt(d, f) \notin FlagChars
  BY DEF ShapeFlags
<1>2. j >= 1 /\ j <= f /\ fl = {CharAt(d, i) : i \in 1..(j - 1)}  BY DEF InFlags
<1>3. CASE j = f  BY <1>1, <1>2, <1>3
<1>4. CASE j # f
  <2>1. j \in 1..(f - 1) /\ j + 1 <= f /\ j + 1 >= 1  BY <1>1, <1>2, <1>4
  <2>2. c \in FlagChars  BY <1>1, <2>1
  <2>3. 1..((j + 1) - 1) = 1..(j - 1) \cup {j}  BY <1>2
  <2>4. fl \cup {c} = {CharAt(d, i) : i \in 1..((j + 1) - 1)}
    <3>1. fl \cup {c} = {CharAt(d, i) : i \in 1..(j - 1) \cup {j}}  BY <1>2
    <3> QED  BY <2>3, <3>1
  <2>5. InFlags(d, f, j + 1, fl \cup {c}, cf, wd, pr, a)  BY <2>1, <2>4 DEF InFlags
  <2> QED  BY <2>1, <2>2, <2>5
<1> QED  BY <1>3, <1>4

\* What the width is once it has been read.
LEMMA WidthGiven ==
  ASSUME NEW d, d.width # Star, d.width \in Int
  PROVE  TookWidth(d, d.flags, d.width, <<>>)
<1>1. LeftOf(d, <<>>) <=> "-" \in d.flags  BY DEF LeftOf
<1>2. GivenFlags(d, <<>>) = d.flags  BY <1>1 DEF GivenFlags
<1> QED  BY <1>2 DEF TookWidth, WidthTaken, WidthOf

LEMMA WidthArgued ==
  ASSUME NEW d, d.width = Star, NEW x \in Widths
  PROVE  TookWidth(d, IF x < 0 THEN d.flags \cup {"-"} ELSE d.flags, IF x < 0 THEN -x ELSE x, <<x>>)
<1>1. PICK a : a = <<x>>  OBVIOUS
<1>2. a[1] = x  BY <1>1
<1>3. WidthOf(d, a) = IF x < 0 THEN -x ELSE x  BY <1>2 DEF WidthOf
<1>4. WidthTaken(d, a)  BY <1>1 DEF WidthTaken
<1>5. GivenFlags(d, a) = IF x < 0 THEN d.flags \cup {"-"} ELSE d.flags
  <2>1. LeftOf(d, a) <=> "-" \in d.flags \/ x < 0  BY <1>2 DEF LeftOf
  <2> QED  BY <2>1 DEF GivenFlags
<1> QED  BY <1>1, <1>3, <1>4, <1>5 DEF TookWidth

\* The arguments, one by one.
LEMMA TakenOnes ==
  ASSUME NEW d, NEW a, WidthTaken(d, a), NEW n
  PROVE  /\ WidthOf(d, Append(a, n)) = WidthOf(d, a) /\ GivenFlags(d, Append(a, n)) = GivenFlags(d, a)
         /\ Append(a, n)[IF d.width = Star THEN 2 ELSE 1] = n
         /\ Last(Append(a, n)) = n
<1>1. PICK b : b = Append(a, n)  OBVIOUS
<1>2. CASE d.width = Star
  <2>1. PICK x \in Widths : a = <<x>>  BY <1>2 DEF WidthTaken
  <2>2. IsSeq(a) /\ Len(a) = 1 /\ a[1] = x  BY <2>1, Tuples
  <2>3. a[1] = x /\ b[1] = x /\ b[2] = n /\ Len(b) = 2
    <3>1. /\ IsSeq(Append(a, n)) /\ Len(Append(a, n)) = Len(a) + 1
          /\ \A i \in 1..Len(a) : Append(a, n)[i] = a[i]
          /\ Append(a, n)[Len(a) + 1] = n
      BY ONLY <2>2, AppendIsSeq, ZenonT(30)
    <3>2. 1 \in 1..1 /\ 1 + 1 = 2  OBVIOUS
    <3> QED  BY <1>1, <2>2, <3>1, <3>2
  <2>4. WidthOf(d, b) = WidthOf(d, a)  BY <1>2, <2>3 DEF WidthOf
  <2>5. LeftOf(d, b) <=> LeftOf(d, a)  BY <1>2, <2>3 DEF LeftOf
  <2>6. GivenFlags(d, b) = GivenFlags(d, a)  BY <2>5 DEF GivenFlags
  <2>7. Last(b) = n  BY <2>3 DEF Last
  <2> QED  BY <1>1, <1>2, <2>3, <2>4, <2>6, <2>7
<1>3. CASE d.width # Star
  <2>1. a = <<>>  BY <1>3 DEF WidthTaken
  <2>2. b = <<n>>  BY <1>1, <2>1
  <2>3. b[1] = n /\ Len(b) = 1  BY <2>2
  <2>4. WidthOf(d, b) = WidthOf(d, a)  BY <1>3 DEF WidthOf
  <2>5. LeftOf(d, b) <=> LeftOf(d, a)  BY <1>3 DEF LeftOf
  <2>6. GivenFlags(d, b) = GivenFlags(d, a)  BY <2>5 DEF GivenFlags
  <2>7. Last(b) = n  BY <2>3 DEF Last
  <2> QED  BY <1>1, <1>3, <2>3, <2>4, <2>6, <2>7
<1> QED  BY <1>2, <1>3

LEMMA BothNone ==
  ASSUME NEW d, NEW fl, NEW wd, NEW a, TookWidth(d, fl, wd, a), d.precision # Star
  PROVE  TookBoth(d, fl, wd, d.precision, a)
BY DEF TookWidth, TookBoth, BothTaken, PrecisionOf

LEMMA BothArgued ==
  ASSUME NEW d, NEW fl, NEW wd, NEW a, TookWidth(d, fl, wd, a), d.precision = Star, NEW x \in Widths
  PROVE  TookBoth(d, fl, wd, Larger(x, -1), Append(a, x))
<1>1. WidthTaken(d, a) /\ fl = GivenFlags(d, a) /\ wd = WidthOf(d, a)  BY DEF TookWidth
<1>2. PICK b : b = Append(a, x)  OBVIOUS
<1>3. WidthOf(d, b) = wd /\ GivenFlags(d, b) = fl /\ b[IF d.width = Star THEN 2 ELSE 1] = x
  <2>1. /\ WidthOf(d, Append(a, x)) = WidthOf(d, a) /\ GivenFlags(d, Append(a, x)) = GivenFlags(d, a)
        /\ Append(a, x)[IF d.width = Star THEN 2 ELSE 1] = x
    BY ONLY <1>1, TakenOnes, ZenonT(30)
  <2> QED  BY ONLY <1>1, <1>2, <2>1, Zenon
<1>4. BothTaken(d, b)  BY <1>1, <1>2 DEF BothTaken
<1>5. PrecisionOf(d, b) = Larger(x, -1)  BY <1>3 DEF PrecisionOf
<1> QED  BY <1>2, <1>3, <1>4, <1>5 DEF TookBoth

\* The argument of the conversion comes after those of the width and the precision.
LEMMA BothOnes ==
  ASSUME NEW d, NEW a, BothTaken(d, a), NEW n
  PROVE  /\ WidthOf(d, Append(a, n)) = WidthOf(d, a) /\ GivenFlags(d, Append(a, n)) = GivenFlags(d, a)
         /\ PrecisionOf(d, Append(a, n)) = PrecisionOf(d, a) /\ Last(Append(a, n)) = n
<1>1. PICK b : WidthTaken(d, b)
               /\ IF d.precision = Star THEN \E x \in Widths : a = Append(b, x) ELSE a = b
  BY DEF BothTaken
<1>2. PICK c : c = Append(a, n)  OBVIOUS
<1>3. CASE d.precision # Star
  <2>1. WidthTaken(d, a)  BY <1>1, <1>3
  <2>2. PrecisionOf(d, c) = PrecisionOf(d, a)  BY <1>3 DEF PrecisionOf
  <2> QED  BY <1>2, <2>1, <2>2, TakenOnes
<1>4. CASE d.precision = Star
  <2>1. PICK x : a = Append(b, x)  BY <1>1, <1>4
  <2>2. PICK l \in Nat : l = Len(b) /\ IsSeq(b) /\ l = IF d.width = Star THEN 1 ELSE 0
    <3>1. CASE d.width = Star
      <4>1. PICK y : b = <<y>>  BY <1>1, <3>1 DEF WidthTaken
      <4>2. IsSeq(b) /\ Len(b) = 1  BY <4>1, Tuples
      <4> QED  BY <3>1, <4>2
    <3>2. CASE d.width # Star
      <4>1. b = <<>>  BY <1>1, <3>2 DEF WidthTaken
      <4>2. IsSeq(b) /\ Len(b) = 0  BY <4>1, EmptyIsSeq
      <4> QED  BY <3>2, <4>2
    <3> QED  BY <3>1, <3>2
  <2>3. IsSeq(a) /\ Len(a) = l + 1
    <3>1. IsSeq(Append(b, x)) /\ Len(Append(b, x)) = Len(b) + 1
      BY ONLY <2>2, AppendIsSeq, ZenonT(30)
    <3> QED  BY ONLY <2>1, <2>2, <3>1
  <2>4. PICK o \in Nat : o = Len(a) /\ o = l + 1  BY <2>3
  <2>5. Len(c) = o + 1 /\ (\A i \in 1..o : c[i] = a[i]) /\ c[o + 1] = n
    <3>1. /\ Len(Append(a, n)) = Len(a) + 1
          /\ \A i \in 1..Len(a) : Append(a, n)[i] = a[i]
          /\ Append(a, n)[Len(a) + 1] = n
      BY ONLY <2>3, AppendIsSeq, ZenonT(30)
    <3> QED  BY ONLY <1>2, <2>4, <3>1
  <2>6. 1 \in 1..o /\ (d.width = Star => 2 \in 1..o)  BY <2>2, <2>4
  <2>7. c[1] = a[1] /\ (d.width = Star => c[2] = a[2])  BY ONLY <2>5, <2>6
  <2>8. WidthOf(d, c) = WidthOf(d, a)  BY <2>7 DEF WidthOf
  <2>9. LeftOf(d, c) <=> LeftOf(d, a)  BY <2>7 DEF LeftOf
  <2>10. GivenFlags(d, c) = GivenFlags(d, a)  BY <2>9 DEF GivenFlags
  <2>11. c[IF d.width = Star THEN 2 ELSE 1] = a[IF d.width = Star THEN 2 ELSE 1]  BY <2>7
  <2>12. PrecisionOf(d, c) = PrecisionOf(d, a)  BY ONLY <2>11 DEF PrecisionOf
  <2>13. Last(c) = n  BY ONLY <2>5 DEF Last
  <2> QED  BY ONLY <1>2, <2>8, <2>10, <2>12, <2>13
<1> QED  BY <1>3, <1>4

-----------------------------------------------------------------------------
(* What a directive that is over has produced.                             *)
Shown == {"d", "i", "u", "o", "x", "X", "p", "s"}
FieldOK(d, a, out) == d.conv \in Shown \cup FloatConversions => FieldFollows(d, a, out)

\* The types of arguments.
LEMMA TypesNamed ==
  ASSUME NEW c, c \in Letters \cup {"", "hh", "ll"}
  PROVE  ArgType(c) = TypeNamed(c) /\ TypeNamed(c) \in DOMAIN Bits /\ "long" \in DOMAIN Bits
<1>1. DOMAIN Bits = {"char", "short", "int", "long"}  BY BitsAssumption
<1>2. CASE c = "hh"  BY <1>1, <1>2 DEF ArgType, TypeNamed
<1>3. CASE c = "h"  BY <1>1, <1>3 DEF ArgType, TypeNamed
<1>4. CASE c \in {"", "L"}  BY <1>1, <1>4 DEF ArgType, TypeNamed
<1>5. CASE c \in {"l", "ll", "j", "t", "z"}  BY <1>1, <1>5 DEF ArgType, TypeNamed
<1> QED  BY <1>2, <1>3, <1>4, <1>5 DEF Letters

LEMMA TypeShaped ==
  ASSUME NEW d, NEW p, NEW m, NEW t, ShapeModifier(d, p, m, t)
  PROVE  /\ d.type \in DOMAIN Bits /\ (d.conv = "p" => d.type = "long")
         /\ (d.conv # "p" => d.type = ArgType(t))
<1>1. t \in Letters \cup {"", "hh", "ll"}  BY DEF ShapeModifier, ModifierAt
<1>2. ArgType(t) = TypeNamed(t) /\ TypeNamed(t) \in DOMAIN Bits /\ "long" \in DOMAIN Bits
  BY <1>1, TypesNamed
<1>3. d.type = IF d.conv = "p" THEN "long" ELSE TypeNamed(t)  BY DEF ShapeModifier
<1> QED  BY ONLY <1>2, <1>3

\* What the conversions need of the directive.
Ready(d, fl, cf, wd, pr, a) ==
  /\ d.flags \subseteq FlagChars /\ d.type \in DOMAIN Bits
  /\ (d.conv = "p" => d.type = "long") /\ (d.conv # "p" => ArgType(cf) = d.type)
  /\ TookBoth(d, fl, wd, pr, a) /\ wd \in Int /\ pr \in Int /\ pr >= -1

Complete(d, b, n, fl, wd, pr) ==
  /\ Asked(d, b) /\ WidthOf(d, b) = wd /\ PrecisionOf(d, b) = pr
  /\ GivenFlags(d, b) = fl /\ Last(b) = n

LEMMA ReadyAsked ==
  ASSUME NEW d, NEW fl, NEW cf, NEW wd, NEW pr, NEW a, Ready(d, fl, cf, wd, pr, a),
         NEW n, NEW b, b = Append(a, n)
  PROVE  Complete(d, b, n, fl, wd, pr)
<1>1. BothTaken(d, a) /\ fl = GivenFlags(d, a) /\ wd = WidthOf(d, a) /\ pr = PrecisionOf(d, a)
  BY DEF Ready, TookBoth
<1>2. WidthOf(d, b) = wd /\ PrecisionOf(d, b) = pr /\ GivenFlags(d, b) = fl /\ Last(b) = n
  BY <1>1, BothOnes
<1> QED  BY <1>2 DEF Asked, Ready, Complete

LEMMA SignedField ==
  ASSUME NEW d, NEW fl, NEW cf, NEW wd, NEW pr, NEW a, Ready(d, fl, cf, wd, pr, a),
         d.conv \in {"d", "i"}, NEW n \in Int, NEW b, b = Append(a, n),
         NEW out, out = fmtint(Signed(n, ArgType(cf)), 10, wd, pr, fl)
  PROVE  FieldOK(d, b, out)
<1>0. Complete(d, b, n, fl, wd, pr)
  BY ONLY Ready(d, fl, cf, wd, pr, a), b = Append(a, n), ReadyAsked, Zenon
<1>1. Asked(d, b) /\ WidthOf(d, b) = wd /\ PrecisionOf(d, b) = pr /\ GivenFlags(d, b) = fl /\ Last(b) = n
  BY ONLY <1>0 DEF Complete
<1>2. ArgType(cf) = d.type  BY DEF Ready
<1>3. ShowsSigned(d, b, out)  BY <1>1, <1>2 DEF ShowsSigned
<1> QED  BY <1>1, <1>3 DEF FieldOK, FieldFollows, FloatConversions

LEMMA UnsignedField ==
  ASSUME NEW d, NEW fl, NEW cf, NEW wd, NEW pr, NEW a, Ready(d, fl, cf, wd, pr, a),
         d.conv \in {"x", "X", "o", "u"}, NEW n \in Int, NEW b, b = Append(a, n),
         NEW gl, gl = fl \cup {"UNSIGNED"} \cup IF d.conv = "X" THEN {"UP"} ELSE {},
         NEW out, out = fmtint(Unsigned(n, ArgType(cf)), FreshBase(d.conv), wd, pr, gl)
  PROVE  FieldOK(d, b, out)
<1>0. Complete(d, b, n, fl, wd, pr)
  BY ONLY Ready(d, fl, cf, wd, pr, a), b = Append(a, n), ReadyAsked, Zenon
<1>1. Asked(d, b) /\ WidthOf(d, b) = wd /\ PrecisionOf(d, b) = pr /\ GivenFlags(d, b) = fl /\ Last(b) = n
  BY ONLY <1>0 DEF Complete
<1>2. ArgType(cf) = d.type  BY DEF Ready
<1>3. gl = UnsignedFlags(d, b)  BY <1>1 DEF UnsignedFlags
<1>4. ShowsUnsigned(d, b, out)  BY <1>1, <1>2, <1>3 DEF ShowsUnsigned
<1> QED  BY <1>1, <1>4 DEF FieldOK, FieldFollows, FloatConversions

LEMMA PointerField ==
  ASSUME NEW d, NEW fl, NEW cf, NEW wd, NEW pr, NEW a, Ready(d, fl, cf, wd, pr, a),
         d.conv = "p", NEW n \in Int, NEW b, b = Append(a, n),
         NEW out, out = IF Unsigned(n, "long") = 0 THEN fmtstr(Nil, wd, -1, fl)
                        ELSE fmtint(Unsigned(n, "long"), 16, wd, pr, fl \cup {"#", "UNSIGNED"})
  PROVE  FieldOK(d, b, out)
<1>0. Complete(d, b, n, fl, wd, pr)
  BY ONLY Ready(d, fl, cf, wd, pr, a), b = Append(a, n), ReadyAsked, Zenon
<1>1. Asked(d, b) /\ WidthOf(d, b) = wd /\ PrecisionOf(d, b) = pr /\ GivenFlags(d, b) = fl /\ Last(b) = n
  BY ONLY <1>0 DEF Complete
<1>2. ShowsPointer(d, b, out)  BY <1>1 DEF ShowsPointer
<1> QED  BY <1>1, <1>2 DEF FieldOK, FieldFollows, FloatConversions

LEMMA TextField ==
  ASSUME NEW d, NEW fl, NEW cf, NEW wd, NEW pr, NEW a, Ready(d, fl, cf, wd, pr, a),
         d.conv = "s", NEW t, t = NULL \/ IsSeq(t), NEW b, b = Append(a, t),
         NEW out, out = fmtstr(t, wd, pr, fl)
  PROVE  FieldOK(d, b, out)
<1>0. Complete(d, b, t, fl, wd, pr)
  BY ONLY Ready(d, fl, cf, wd, pr, a), b = Append(a, t), ReadyAsked, Zenon
<1>1. Asked(d, b) /\ WidthOf(d, b) = wd /\ PrecisionOf(d, b) = pr /\ GivenFlags(d, b) = fl /\ Last(b) = t
  BY ONLY <1>0 DEF Complete
<1>2. ShowsText(d, b, out)  BY <1>1 DEF ShowsText
<1> QED  BY <1>1, <1>2 DEF FieldOK, FieldFollows, FloatConversions

LEMMA FloatingField ==
  ASSUME NEW d, NEW fl, NEW cf, NEW wd, NEW pr, NEW a, Ready(d, fl, cf, wd, pr, a),
         d.conv \in FloatConversions, NEW v \in Float, NEW b, b = Append(a, v),
         NEW gl, gl = fl \cup Style(d.conv),
         NEW q, q = (IF d.conv \in {"g", "G"} /\ pr = 0 THEN 1 ELSE pr),
         ~Decimal(v, q, gl).overflow, NEW out, out = fmtflt(v, Decimal(v, q, gl), wd, gl)
  PROVE  FieldOK(d, b, out)
<1>0. Complete(d, b, v, fl, wd, pr)
  BY ONLY Ready(d, fl, cf, wd, pr, a), b = Append(a, v), ReadyAsked, Zenon
<1>1. Asked(d, b) /\ WidthOf(d, b) = wd /\ PrecisionOf(d, b) = pr /\ GivenFlags(d, b) = fl /\ Last(b) = v
  BY ONLY <1>0 DEF Complete
<1>2. ShowsFloat(d, b, out)  BY <1>1 DEF ShowsFloat
<1> QED  BY <1>1, <1>2 DEF FieldOK, FieldFollows, FloatConversions

(* The machine has read j characters of d, whose layout is f, w, p, m, t.  *)
Reading(ds, k, d, f, w, p, m, t, j, c, fmt) ==
  Shape(d, f, w, p, m, t) /\ Within(ds, k, d, j, m, c, fmt)

LEMMA ReadingMeans ==
  ASSUME NEW ds, WellFormed(ds), NEW k, NEW d, NEW f, NEW w, NEW p, NEW m, NEW t, NEW j, NEW c, NEW fmt,
         Reading(ds, k, d, f, w, p, m, t, j, c, fmt)
  PROVE  /\ f \in Nat /\ w \in Nat /\ p \in Nat /\ m \in Nat /\ 1 <= f /\ f <= w /\ w <= p /\ p <= m
         /\ IsSeq(d.text) /\ ShapeEnd(d, m) /\ m <= Len(d.text)
         /\ j \in Nat /\ j <= m /\ c = CharAt(d, j) /\ k \in Nat
<1>1. Shape(d, f, w, p, m, t) /\ Within(ds, k, d, j, m, c, fmt)  BY DEF Reading
<1>2. c = CharAt(d, j)  BY <1>1, WithinChar
<1>3. j \in Nat /\ j <= m /\ k \in Nat  BY <1>1 DEF Within
<1> QED  BY ONLY <1>1, <1>2, <1>3, ShapeEnds, Zenon

LEMMA ReadingNext ==
  ASSUME NEW ds, WellFormed(ds), NEW k, NEW d, NEW f, NEW w, NEW p, NEW m, NEW t, NEW j, NEW c, NEW fmt,
         Reading(ds, k, d, f, w, p, m, t, j, c, fmt), c # NUL, j + 1 <= m
  PROVE  Reading(ds, k, d, f, w, p, m, t, j + 1, Head(fmt), Tail(fmt))
<1>1. Shape(d, f, w, p, m, t) /\ Within(ds, k, d, j, m, c, fmt)  BY DEF Reading
<1>2. PICK i : i = j + 1 /\ i <= m  OBVIOUS
<1>3. Within(ds, k, d, i, m, Head(fmt), Tail(fmt))  BY ONLY WellFormed(ds), c # NUL, <1>1, <1>2, WithinNext, Zenon
<1> QED  BY <1>1, <1>2, <1>3 DEF Reading

LEMMA ReadFlag ==
  ASSUME NEW ds, WellFormed(ds), NEW k, NEW d, NEW f, NEW w, NEW p, NEW m, NEW t, NEW j, NEW c, NEW fmt,
         Reading(ds, k, d, f, w, p, m, t, j, c, fmt), c # NUL,
         NEW fl, NEW cf, NEW wd, NEW pr, NEW a, InFlags(d, f, j, fl, cf, wd, pr, a), c \in FlagChars
  PROVE  /\ Reading(ds, k, d, f, w, p, m, t, j + 1, Head(fmt), Tail(fmt))
         /\ InFlags(d, f, j + 1, fl \cup {c}, cf, wd, pr, a)
<1>1. /\ f \in Nat /\ w \in Nat /\ p \in Nat /\ m \in Nat /\ f <= w /\ w <= p /\ p <= m
      /\ j \in Nat /\ c = CharAt(d, j)
  BY ReadingMeans
<1>2. ShapeFlags(d, f)  BY DEF Reading, Shape
<1>3. j + 1 <= f /\ InFlags(d, f, j + 1, fl \cup {c}, cf, wd, pr, a)  BY <1>1, <1>2, FlagMet
<1>4. j + 1 <= m  BY ONLY <1>1, <1>3
<1> QED  BY <1>3, <1>4, ReadingNext

LEMMA NoFlag ==
  ASSUME NEW ds, WellFormed(ds), NEW k, NEW d, NEW f, NEW w, NEW p, NEW m, NEW t, NEW j, NEW c, NEW fmt,
         Reading(ds, k, d, f, w, p, m, t, j, c, fmt),
         NEW fl, NEW cf, NEW wd, NEW pr, NEW a, InFlags(d, f, j, fl, cf, wd, pr, a), c \notin FlagChars
  PROVE  InWidth(d, f, w, j, fl, cf, wd, pr, a)
<1>1. /\ f \in Nat /\ w \in Nat /\ p \in Nat /\ m \in Nat /\ f <= w /\ w <= p /\ p <= m
      /\ j \in Nat /\ c = CharAt(d, j) /\ IsSeq(d.text) /\ m <= Len(d.text)
  BY ReadingMeans
<1>2. ShapeFlags(d, f)  BY DEF Reading, Shape
<1>3. j = f /\ fl = d.flags  BY <1>1, <1>2, FlagMet
<1>4. f <= Len(d.text)
  <2>1. PICK l \in Nat : l = Len(d.text)  BY <1>1, Seqs
  <2> QED  BY <1>1, <2>1
<1>5. Decimals(d, f, f) = 0  BY <1>1, <1>4, DecimalsNone
<1>6. cf = "" /\ wd = 0 /\ pr = -1 /\ a = <<>>  BY DEF InFlags
<1>7. j >= f /\ j <= w  BY ONLY <1>1, <1>3
<1> QED  BY ONLY <1>3, <1>5, <1>6, <1>7 DEF InWidth

LEMMA ReadWidth ==
  ASSUME NEW ds, WellFormed(ds), NEW k, NEW d, NEW f, NEW w, NEW p, NEW m, NEW t, NEW j, NEW c, NEW fmt,
         Reading(ds, k, d, f, w, p, m, t, j, c, fmt), c # NUL,
         NEW fl, NEW cf, NEW wd \in Nat, NEW pr, NEW a, InWidth(d, f, w, j, fl, cf, wd, pr, a), ISDIGIT(c)
  PROVE  /\ Reading(ds, k, d, f, w, p, m, t, j + 1, Head(fmt), Tail(fmt))
         /\ InWidth(d, f, w, j + 1, fl, cf, 10 * wd + CHARTOINT(c), pr, a)
<1>1. /\ f \in Nat /\ w \in Nat /\ p \in Nat /\ m \in Nat /\ f <= w /\ w <= p /\ p <= m
      /\ j \in Nat /\ c = CharAt(d, j) /\ IsSeq(d.text) /\ m <= Len(d.text)
  BY ReadingMeans
<1>2. NumberAt(d, d.width, f, w)  BY DEF Reading, Shape, ShapeWidth
<1>3. /\ j >= f /\ j <= w /\ (d.width = Star => j = f)
      /\ fl = d.flags /\ wd = Decimals(d, f, j) /\ cf = "" /\ pr = -1 /\ a = <<>>
  BY DEF InWidth
<1>0. f <= j /\ j >= f /\ j <= w
  <2>1. j >= f /\ j <= w  BY <1>3
  <2> QED  BY ONLY <1>1, <2>1
<1>4. d.width # Star /\ j + 1 <= w
  <2>1. IsMet(d, d.width, f, w, j, c)  BY ONLY <1>0, <1>1, <1>2, <1>3, NumberMet, Zenon
  <2> QED  BY ONLY ISDIGIT(c), <2>1, Zenon DEF IsMet
<1>5. j + 1 <= m  BY ONLY <1>1, <1>4
<1>6. f <= j /\ j < Len(d.text)
  <2>1. PICK l \in Nat : l = Len(d.text)  BY <1>1, Seqs
  <2> QED  BY ONLY <1>0, <1>1, <1>5, <2>1, l \in Nat
<1>7. Decimals(d, f, j) \in Nat  BY <1>3
<1>8. Decimals(d, f, j + 1) = 10 * Decimals(d, f, j) + CHARTOINT(c)
  BY ONLY ISDIGIT(c), <1>1, <1>6, <1>7, DecimalsNext
<1>9. 10 * wd + CHARTOINT(c) = Decimals(d, f, j + 1)  BY <1>3, <1>8
<1>10. j + 1 >= f  BY ONLY <1>0, <1>1
<1>11. InWidth(d, f, w, j + 1, fl, cf, 10 * wd + CHARTOINT(c), pr, a)
  BY ONLY <1>3, <1>4, <1>9, <1>10 DEF InWidth
<1> QED  BY <1>5, <1>11, ReadingNext

LEMMA ReadStar ==
  ASSUME NEW ds, WellFormed(ds), NEW k, NEW d, NEW f, NEW w, NEW p, NEW m, NEW t, NEW j, NEW c, NEW fmt,
         Reading(ds, k, d, f, w, p, m, t, j, c, fmt), c # NUL,
         NEW fl, NEW cf, NEW wd, NEW pr, NEW a, InWidth(d, f, w, j, fl, cf, wd, pr, a), c = "*",
         NEW x \in Widths
  PROVE  /\ Reading(ds, k, d, f, w, p, m, t, j + 1, Head(fmt), Tail(fmt))
         /\ InDot(d, w, j + 1, IF x < 0 THEN fl \cup {"-"} ELSE fl, cf, IF x < 0 THEN -x ELSE x,
                  pr, Append(a, x))
<1>1. /\ f \in Nat /\ w \in Nat /\ p \in Nat /\ m \in Nat /\ f <= w /\ w <= p /\ p <= m
      /\ j \in Nat /\ c = CharAt(d, j)
  BY ReadingMeans
<1>2. NumberAt(d, d.width, f, w)  BY DEF Reading, Shape, ShapeWidth
<1>3. /\ j >= f /\ j <= w /\ (d.width = Star => j = f)
      /\ fl = d.flags /\ cf = "" /\ pr = -1 /\ a = <<>>
  BY DEF InWidth
<1>0. f <= j /\ j >= f /\ j <= w
  <2>1. j >= f /\ j <= w  BY <1>3
  <2> QED  BY ONLY <1>1, <2>1
<1>4. d.width = Star /\ w = j + 1
  <2>1. IsMet(d, d.width, f, w, j, c)  BY ONLY <1>0, <1>1, <1>2, <1>3, NumberMet, Zenon
  <2> QED  BY ONLY c = "*", <2>1, Zenon DEF IsMet
<1>5. j + 1 <= m  BY ONLY <1>1, <1>4
<1>6. TookWidth(d, IF x < 0 THEN d.flags \cup {"-"} ELSE d.flags, IF x < 0 THEN -x ELSE x, <<x>>)
  BY ONLY x \in Widths, <1>4, WidthArgued, Zenon
<1>7. Append(a, x) = <<x>>
  <2>1. a = <<>>  BY <1>3
  <2> QED  BY ONLY <2>1
<1>8. InDot(d, w, j + 1, IF x < 0 THEN fl \cup {"-"} ELSE fl, cf, IF x < 0 THEN -x ELSE x,
            pr, Append(a, x))
  BY ONLY <1>3, <1>4, <1>6, <1>7, Zenon DEF InDot
<1> QED  BY <1>5, <1>8, ReadingNext

LEMMA NoWidthRead ==
  ASSUME NEW ds, WellFormed(ds), NEW k, NEW d, NEW f, NEW w, NEW p, NEW m, NEW t, NEW j, NEW c, NEW fmt,
         Reading(ds, k, d, f, w, p, m, t, j, c, fmt),
         NEW fl, NEW cf, NEW wd \in Nat, NEW pr, NEW a, InWidth(d, f, w, j, fl, cf, wd, pr, a),
         ~ISDIGIT(c), c # "*"
  PROVE  InDot(d, w, j, fl, cf, wd, pr, a)
<1>1. /\ f \in Nat /\ w \in Nat /\ p \in Nat /\ m \in Nat /\ f <= w /\ w <= p /\ p <= m
      /\ j \in Nat /\ c = CharAt(d, j)
  BY ReadingMeans
<1>2. NumberAt(d, d.width, f, w)  BY DEF Reading, Shape, ShapeWidth
<1>3. /\ j >= f /\ j <= w /\ (d.width = Star => j = f)
      /\ fl = d.flags /\ wd = Decimals(d, f, j) /\ cf = "" /\ pr = -1 /\ a = <<>>
  BY DEF InWidth
<1>0. f <= j /\ j >= f /\ j <= w
  <2>1. j >= f /\ j <= w  BY <1>3
  <2> QED  BY ONLY <1>1, <2>1
<1>4. d.width # Star /\ j = w /\ d.width = Decimals(d, f, j)
  <2>1. IsMet(d, d.width, f, w, j, c)  BY ONLY <1>0, <1>1, <1>2, <1>3, NumberMet, Zenon
  <2> QED  BY ONLY ~ISDIGIT(c), c # "*", <2>1, Zenon DEF IsMet
<1>5. d.width = wd /\ d.width \in Int
  <2>1. d.width = wd  BY ONLY <1>3, <1>4, Zenon
  <2> QED  BY ONLY <2>1, wd \in Nat
<1>6. TookWidth(d, d.flags, d.width, <<>>)  BY <1>4, <1>5, WidthGiven
<1> QED  BY ONLY <1>3, <1>4, <1>5, <1>6 DEF InDot

LEMMA ReadDot ==
  ASSUME NEW ds, WellFormed(ds), NEW k, NEW d, NEW f, NEW w, NEW p, NEW m, NEW t, NEW j, NEW c, NEW fmt,
         Reading(ds, k, d, f, w, p, m, t, j, c, fmt), c # NUL,
         NEW fl, NEW cf, NEW wd, NEW pr, NEW a, InDot(d, w, j, fl, cf, wd, pr, a), c = "."
  PROVE  /\ Reading(ds, k, d, f, w, p, m, t, j + 1, Head(fmt), Tail(fmt))
         /\ InPrecision(d, w, p, j + 1, fl, cf, wd, pr, a)
<1>1. /\ w \in Nat /\ p \in Nat /\ m \in Nat /\ w <= p /\ p <= m /\ j \in Nat
  BY ReadingMeans
<1>2. c = CharAt(d, j) /\ IsSeq(d.text) /\ m <= Len(d.text)  BY ReadingMeans
<1>3. j = w /\ TookWidth(d, fl, wd, a) /\ cf = "" /\ pr = -1  BY DEF InDot
<1>4. p >= w + 1
  <2>1. \/ p = w /\ d.precision = -1 /\ CharAt(d, w) # "."
        \/ p >= w + 1 /\ CharAt(d, w) = "."
    BY DEF Reading, Shape, ShapePrecision
  <2> QED  BY <1>2, <1>3, <2>1
<1>5. j + 1 <= m /\ j + 1 = w + 1 /\ j + 1 <= p /\ j + 1 >= w + 1 /\ w + 1 \in Nat
  <2>1. j = w  BY <1>3
  <2> QED  BY ONLY <1>1, <1>4, <2>1
<1>6. Decimals(d, w + 1, w + 1) = 0
  <2>1. PICK l \in Nat : l = Len(d.text)  BY <1>2, Seqs
  <2>2. w + 1 <= l
    <3>1. m <= l  BY <1>2, <2>1
    <3> QED  BY ONLY <1>1, <1>5, <3>1, l \in Nat
  <2>3. PICK e \in Nat : e = w + 1 /\ e <= Len(d.text)  BY <1>5, <2>1, <2>2
  <2>4. Decimals(d, e, e) = 0  BY ONLY <1>2, <2>3, e \in Nat, DecimalsNone
  <2> QED  BY <2>3, <2>4
<1>7. Larger(pr, 0) = 0
  <2>1. pr = -1  BY <1>3
  <2> QED  BY ONLY <2>1 DEF Larger
<1>8. CharAt(d, w) = "."  BY <1>2, <1>3
<1>9. InPrecision(d, w, p, j + 1, fl, cf, wd, pr, a)
  BY ONLY <1>3, <1>5, <1>6, <1>7, <1>8, Zenon DEF InPrecision
<1> QED  BY <1>5, <1>9, ReadingNext

LEMMA NoDot ==
  ASSUME NEW ds, WellFormed(ds), NEW k, NEW d, NEW f, NEW w, NEW p, NEW m, NEW t, NEW j, NEW c, NEW fmt,
         Reading(ds, k, d, f, w, p, m, t, j, c, fmt),
         NEW fl, NEW cf, NEW wd, NEW pr, NEW a, InDot(d, w, j, fl, cf, wd, pr, a), c # "."
  PROVE  InMod(d, p, j, fl, cf, wd, pr, a)
<1>1. c = CharAt(d, j)  BY ReadingMeans
<1>2. j = w /\ TookWidth(d, fl, wd, a) /\ cf = "" /\ pr = -1  BY DEF InDot
<1>3. p = w /\ d.precision = -1
  <2>1. \/ p = w /\ d.precision = -1 /\ CharAt(d, w) # "."
        \/ p >= w + 1 /\ CharAt(d, w) = "."
    BY DEF Reading, Shape, ShapePrecision
  <2> QED  BY <1>1, <1>2, <2>1
<1>4. d.precision # Star
  <2>1. d.precision = -1  BY <1>3
  <2> QED  BY ONLY <2>1 DEF Star
<1>5. TookBoth(d, fl, wd, d.precision, a)  BY <1>2, <1>4, BothNone
<1> QED  BY ONLY <1>2, <1>3, <1>5 DEF InMod

LEMMA ReadPrecision ==
  ASSUME NEW ds, WellFormed(ds), NEW k, NEW d, NEW f, NEW w, NEW p, NEW m, NEW t, NEW j, NEW c, NEW fmt,
         Reading(ds, k, d, f, w, p, m, t, j, c, fmt), c # NUL,
         NEW fl, NEW cf, NEW wd, NEW pr, NEW a, InPrecision(d, w, p, j, fl, cf, wd, pr, a), ISDIGIT(c),
         NEW q, q \in Nat, q = Larger(pr, 0), NEW pr2, pr2 = 10 * q + CHARTOINT(c)
  PROVE  /\ Reading(ds, k, d, f, w, p, m, t, j + 1, Head(fmt), Tail(fmt))
         /\ InPrecision(d, w, p, j + 1, fl, cf, wd, pr2, a)
<1>1. w \in Nat /\ p \in Nat /\ m \in Nat /\ w <= p /\ p <= m /\ j \in Nat  BY ReadingMeans
<1>2. c = CharAt(d, j) /\ IsSeq(d.text) /\ m <= Len(d.text)  BY ReadingMeans
<1>3. /\ j >= w + 1 /\ j <= p /\ CharAt(d, w) = "." /\ (d.precision = Star => j = w + 1)
      /\ TookWidth(d, fl, wd, a) /\ cf = "" /\ q = Decimals(d, w + 1, j)
  BY DEF InPrecision
<1>4. PICK e \in Nat : e = w + 1 /\ e <= j /\ j <= p
  <2>1. j >= w + 1 /\ j <= p  BY <1>3
  <2> QED  BY ONLY <1>1, <2>1
<1>5. NumberAt(d, d.precision, e, p)
  <2>1. \/ p = w
        \/ NumberAt(d, d.precision, w + 1, p)
    BY DEF Reading, Shape, ShapePrecision
  <2>2. p # w  BY ONLY <1>1, <1>4
  <2> QED  BY ONLY <1>4, <2>1, <2>2
<1>6. d.precision = Star => j = e  BY <1>3, <1>4
<1>7. IsMet(d, d.precision, e, p, j, c)
  <2>1. e <= p  BY ONLY <1>1, <1>4
  <2> QED  BY ONLY <1>1, <1>2, <1>4, <1>5, <1>6, <2>1, e \in Nat, NumberMet, Zenon
<1>8. d.precision # Star /\ j + 1 <= p  BY ONLY ISDIGIT(c), <1>7, Zenon DEF IsMet
<1>9. j + 1 <= m /\ j + 1 >= w + 1
  <2>1. j + 1 <= p  BY <1>8
  <2> QED  BY ONLY <1>1, <1>4, <2>1
<1>10. j < Len(d.text)
  <2>1. PICK l \in Nat : l = Len(d.text)  BY <1>2, Seqs
  <2>2. m <= l  BY <1>2, <2>1
  <2>3. j < l  BY ONLY <1>1, <1>9, <2>2, l \in Nat
  <2> QED  BY <2>1, <2>3
<1>11. Decimals(d, e, j) = q /\ Decimals(d, e, j) \in Nat
  <2>1. Decimals(d, e, j) = q  BY <1>3, <1>4
  <2> QED  BY <2>1
<1>12. Decimals(d, e, j + 1) = 10 * Decimals(d, e, j) + CHARTOINT(c)
  BY ONLY ISDIGIT(c), <1>1, <1>2, <1>4, <1>10, <1>11, e \in Nat, DecimalsNext
<1>13. pr2 = Decimals(d, w + 1, j + 1)
  <2>1. pr2 = Decimals(d, e, j + 1)  BY ONLY <1>11, <1>12, pr2 = 10 * q + CHARTOINT(c)
  <2> QED  BY ONLY <1>4, <2>1
<1>14. Larger(pr2, 0) = pr2
  <2>1. CHARTOINT(c) \in 0..9  BY DigitInt
  <2>2. 10 * q + CHARTOINT(c) \in Nat  BY ONLY <2>1, q \in Nat
  <2>3. pr2 \in Nat  BY ONLY <2>2, pr2 = 10 * q + CHARTOINT(c)
  <2> QED  BY ONLY <2>3 DEF Larger
<1>15. Larger(pr2, 0) = Decimals(d, w + 1, j + 1)  BY ONLY <1>13, <1>14
<1>16. InPrecision(d, w, p, j + 1, fl, cf, wd, pr2, a)
  BY ONLY <1>3, <1>8, <1>9, <1>15, Zenon DEF InPrecision
<1> QED  BY <1>9, <1>16, ReadingNext

LEMMA ReadPrecisionStar ==
  ASSUME NEW ds, WellFormed(ds), NEW k, NEW d, NEW f, NEW w, NEW p, NEW m, NEW t, NEW j, NEW c, NEW fmt,
         Reading(ds, k, d, f, w, p, m, t, j, c, fmt), c # NUL,
         NEW fl, NEW cf, NEW wd, NEW pr, NEW a, InPrecision(d, w, p, j, fl, cf, wd, pr, a), c = "*",
         NEW x \in Widths
  PROVE  /\ Reading(ds, k, d, f, w, p, m, t, j + 1, Head(fmt), Tail(fmt))
         /\ InMod(d, p, j + 1, fl, cf, wd, Larger(x, -1), Append(a, x))
<1>1. w \in Nat /\ p \in Nat /\ m \in Nat /\ w <= p /\ p <= m /\ j \in Nat  BY ReadingMeans
<1>2. c = CharAt(d, j)  BY ReadingMeans
<1>3. /\ j >= w + 1 /\ j <= p /\ (d.precision = Star => j = w + 1)
      /\ TookWidth(d, fl, wd, a) /\ cf = ""
  BY DEF InPrecision
<1>4. PICK e \in Nat : e = w + 1 /\ e <= j /\ j <= p
  <2>1. j >= w + 1 /\ j <= p  BY <1>3
  <2> QED  BY ONLY <1>1, <2>1
<1>5. NumberAt(d, d.precision, e, p)
  <2>1. \/ p = w
        \/ NumberAt(d, d.precision, w + 1, p)
    BY DEF Reading, Shape, ShapePrecision
  <2>2. p # w  BY ONLY <1>1, <1>4
  <2> QED  BY ONLY <1>4, <2>1, <2>2
<1>6. d.precision = Star => j = e  BY <1>3, <1>4
<1>7. IsMet(d, d.precision, e, p, j, c)
  <2>1. e <= p  BY ONLY <1>1, <1>4
  <2> QED  BY ONLY <1>1, <1>2, <1>4, <1>5, <1>6, <2>1, e \in Nat, NumberMet, Zenon
<1>8. d.precision = Star /\ p = j + 1  BY ONLY c = "*", <1>7, Zenon DEF IsMet
<1>9. j + 1 <= m
  <2>1. p = j + 1  BY <1>8
  <2> QED  BY ONLY <1>1, <2>1
<1>10. TookBoth(d, fl, wd, Larger(x, -1), Append(a, x))
  BY ONLY <1>3, <1>8, x \in Widths, BothArgued, Zenon
<1>11. InMod(d, p, j + 1, fl, cf, wd, Larger(x, -1), Append(a, x))
  BY ONLY <1>3, <1>8, <1>10, Zenon DEF InMod
<1> QED  BY <1>9, <1>11, ReadingNext

LEMMA NoPrecisionRead ==
  ASSUME NEW ds, WellFormed(ds), NEW k, NEW d, NEW f, NEW w, NEW p, NEW m, NEW t, NEW j, NEW c, NEW fmt,
         Reading(ds, k, d, f, w, p, m, t, j, c, fmt),
         NEW fl, NEW cf, NEW wd, NEW pr, NEW a, InPrecision(d, w, p, j, fl, cf, wd, pr, a),
         ~ISDIGIT(c), c # "*"
  PROVE  InMod(d, p, j, fl, cf, wd, Larger(pr, 0), a)
<1>1. w \in Nat /\ p \in Nat /\ m \in Nat /\ w <= p /\ p <= m /\ j \in Nat  BY ReadingMeans
<1>2. c = CharAt(d, j)  BY ReadingMeans
<1>3. /\ j >= w + 1 /\ j <= p /\ (d.precision = Star => j = w + 1)
      /\ TookWidth(d, fl, wd, a) /\ cf = "" /\ Larger(pr, 0) = Decimals(d, w + 1, j)
  BY DEF InPrecision
<1>4. PICK e \in Nat : e = w + 1 /\ e <= j /\ j <= p
  <2>1. j >= w + 1 /\ j <= p  BY <1>3
  <2> QED  BY ONLY <1>1, <2>1
<1>5. NumberAt(d, d.precision, e, p)
  <2>1. \/ p = w
        \/ NumberAt(d, d.precision, w + 1, p)
    BY DEF Reading, Shape, ShapePrecision
  <2>2. p # w  BY ONLY <1>1, <1>4
  <2> QED  BY ONLY <1>4, <2>1, <2>2
<1>6. d.precision = Star => j = e  BY <1>3, <1>4
<1>7. IsMet(d, d.precision, e, p, j, c)
  <2>1. e <= p  BY ONLY <1>1, <1>4
  <2> QED  BY ONLY <1>1, <1>2, <1>4, <1>5, <1>6, <2>1, e \in Nat, NumberMet, Zenon
<1>8. d.precision # Star /\ p = j /\ d.precision = Decimals(d, e, j)
  BY ONLY ~ISDIGIT(c), c # "*", <1>7, Zenon DEF IsMet
<1>9. Larger(pr, 0) = d.precision  BY ONLY <1>3, <1>4, <1>8, Zenon
<1>10. TookBoth(d, fl, wd, d.precision, a)  BY <1>3, <1>8, BothNone
<1> QED  BY ONLY <1>3, <1>8, <1>9, <1>10, Zenon DEF InMod

\* The three ways in which the code takes a modifier.
LEMMA NoModifier ==
  ASSUME NEW ds, WellFormed(ds), NEW k, NEW d, NEW f, NEW w, NEW p, NEW m, NEW t, NEW j, NEW c, NEW fmt,
         Reading(ds, k, d, f, w, p, m, t, j, c, fmt),
         NEW fl, NEW cf, NEW wd, NEW pr, NEW a, InMod(d, p, j, fl, cf, wd, pr, a), c \notin Letters
  PROVE  InConv(d, m, j, fl, cf, wd, pr, a)
<1>1. c = CharAt(d, j)  BY ReadingMeans
<1>2. j = p /\ TookBoth(d, fl, wd, pr, a) /\ cf = ""  BY DEF InMod
<1>3. ShapeModifier(d, p, m, t)  BY DEF Reading, Shape
<1>4. t = "" /\ m = p  BY <1>1, <1>2, <1>3 DEF ShapeModifier, ModifierAt, Letters
<1>5. d.conv # "p" => d.type = ArgType(t)  BY <1>3, TypeShaped
<1> QED  BY <1>2, <1>4, <1>5 DEF InConv

LEMMA OneModifier ==
  ASSUME NEW ds, WellFormed(ds), NEW k, NEW d, NEW f, NEW w, NEW p, NEW m, NEW t, NEW j, NEW c, NEW fmt,
         Reading(ds, k, d, f, w, p, m, t, j, c, fmt), c # NUL,
         NEW fl, NEW cf, NEW wd, NEW pr, NEW a, InMod(d, p, j, fl, cf, wd, pr, a), c \in Letters,
         c \in {"h", "l"} => Head(fmt) # c
  PROVE  /\ Reading(ds, k, d, f, w, p, m, t, j + 1, Head(fmt), Tail(fmt))
         /\ InConv(d, m, j + 1, fl, c, wd, pr, a)
<1>1. c = CharAt(d, j) /\ j \in Nat /\ p \in Nat /\ m \in Nat /\ p <= m  BY ReadingMeans
<1>2. j = p /\ TookBoth(d, fl, wd, pr, a) /\ cf = ""  BY DEF InMod
<1>3. ShapeModifier(d, p, m, t)  BY DEF Reading, Shape
<1>4. ASSUME j + 1 <= m
      PROVE  /\ Reading(ds, k, d, f, w, p, m, t, j + 1, Head(fmt), Tail(fmt))
             /\ Head(fmt) = CharAt(d, p + 1)
  <2>1. Reading(ds, k, d, f, w, p, m, t, j + 1, Head(fmt), Tail(fmt))  BY <1>4, ReadingNext
  <2>2. Head(fmt) = CharAt(d, j + 1)  BY <2>1, ReadingMeans
  <2> QED  BY <2>1, <2>2, <1>2
<1>5. t \notin {"hh", "ll"}
  <2> SUFFICES ASSUME t \in {"hh", "ll"} PROVE FALSE  OBVIOUS
  <2>1. m = p + 2 /\ CharAt(d, p + 1) = CharAt(d, p) /\ CharAt(d, p) \in {"h", "l"}
    BY <1>3 DEF ShapeModifier, ModifierAt, Letters
  <2>2. j + 1 <= m
    <3>1. m = p + 2 /\ j = p  BY <1>2, <2>1
    <3> QED  BY ONLY <1>1, <3>1
  <2> QED  BY <1>1, <1>2, <1>4, <2>1, <2>2
<1>6. t \in Letters /\ m = p + 1 /\ t = c
  BY <1>1, <1>2, <1>3, <1>5 DEF ShapeModifier, ModifierAt
<1>7. j + 1 <= m /\ j + 1 = m
  <2>1. m = p + 1 /\ j = p  BY <1>2, <1>6
  <2> QED  BY ONLY <1>1, <2>1
<1>8. d.conv # "p" => d.type = ArgType(t)  BY <1>3, TypeShaped
<1>9. InConv(d, m, j + 1, fl, c, wd, pr, a)  BY <1>2, <1>6, <1>7, <1>8 DEF InConv
<1> QED  BY <1>4, <1>7, <1>9

LEMMA TwoModifiers ==
  ASSUME NEW ds, WellFormed(ds), NEW k, NEW d, NEW f, NEW w, NEW p, NEW m, NEW t, NEW j, NEW c, NEW fmt,
         Reading(ds, k, d, f, w, p, m, t, j, c, fmt), c # NUL,
         NEW fl, NEW cf, NEW wd, NEW pr, NEW a, InMod(d, p, j, fl, cf, wd, pr, a),
         c \in {"h", "l"}, Head(fmt) = c, NEW cf2, cf2 = IF c = "h" THEN "hh" ELSE "ll"
  PROVE  /\ Reading(ds, k, d, f, w, p, m, t, j + 2, Head(Tail(fmt)), Tail(Tail(fmt)))
         /\ InConv(d, m, j + 2, fl, cf2, wd, pr, a)
<1>1. c = CharAt(d, j) /\ j \in Nat /\ p \in Nat /\ m \in Nat /\ p <= m  BY ReadingMeans
<1>2. j = p /\ TookBoth(d, fl, wd, pr, a) /\ cf = ""  BY DEF InMod
<1>3. ShapeModifier(d, p, m, t)  BY DEF Reading, Shape
<1>4. ASSUME j + 1 <= m
      PROVE  /\ Reading(ds, k, d, f, w, p, m, t, j + 1, Head(fmt), Tail(fmt))
             /\ Head(fmt) = CharAt(d, p + 1)
  <2>1. Reading(ds, k, d, f, w, p, m, t, j + 1, Head(fmt), Tail(fmt))  BY <1>4, ReadingNext
  <2>2. Head(fmt) = CharAt(d, j + 1)  BY <2>1, ReadingMeans
  <2> QED  BY <2>1, <2>2, <1>2
<1>5. t \notin Letters /\ t # ""
  <2>1. t # ""
    BY <1>1, <1>2, <1>3 DEF ShapeModifier, ModifierAt, Letters
  <2>2. ASSUME t \in Letters PROVE FALSE
    <3>1. m = p + 1 /\ CharAt(d, p + 1) \notin Letters  BY <1>3, <2>2 DEF ShapeModifier, ModifierAt, Letters
    <3>2. j + 1 <= m
      <4>1. m = p + 1 /\ j = p  BY <1>2, <3>1
      <4> QED  BY ONLY <1>1, <4>1
    <3> QED  BY <1>4, <3>1, <3>2 DEF Letters
  <2> QED  BY <2>1, <2>2
<1>6. m = p + 2 /\ t = cf2
  <2>1. \/ t = "hh" /\ m = p + 2 /\ CharAt(d, p) = "h"
        \/ t = "ll" /\ m = p + 2 /\ CharAt(d, p) = "l"
    BY <1>3, <1>5 DEF ShapeModifier, ModifierAt
  <2> QED  BY <1>1, <1>2, <2>1
<1>7. PICK i : i = j + 1 /\ i <= m /\ i + 1 <= m /\ i + 1 = j + 2 /\ j + 2 = m
  <2>1. m = p + 2 /\ j = p  BY <1>2, <1>6
  <2> QED  BY ONLY <1>1, <2>1
<1>8. Reading(ds, k, d, f, w, p, m, t, i, Head(fmt), Tail(fmt))  BY <1>4, <1>7
<1>9. Head(fmt) # NUL  OBVIOUS
<1>10. Reading(ds, k, d, f, w, p, m, t, i + 1, Head(Tail(fmt)), Tail(Tail(fmt)))
  BY ONLY WellFormed(ds), <1>7, <1>8, <1>9, ReadingNext
<1>11. d.conv # "p" => d.type = ArgType(t)  BY <1>3, TypeShaped
<1>12. InConv(d, m, j + 2, fl, cf2, wd, pr, a)  BY <1>2, <1>6, <1>7, <1>11 DEF InConv
<1> QED  BY <1>7, <1>10, <1>12

\* A directive starts.
LEMMA Starts ==
  ASSUME NEW ds, WellFormed(ds), NEW k \in Nat, k <= Len(ds), NEW fmt, NEW c, c = "%",
         At(ds, k, 0, c, fmt)
  PROVE  \E d, f, w, p, m, t, j :
           /\ Reading(ds, k, d, f, w, p, m, t, j, Head(fmt), Tail(fmt))
           /\ InFlags(d, f, j, {}, "", 0, -1, <<>>)
<1>1. c # NUL  BY DEF NUL
<1>2. /\ k < Len(ds) /\ At(ds, k, 1, Head(fmt), Tail(fmt))
      /\ ds[k + 1].conv # "literal"
  BY <1>1, Begins
<1>3. PICK d : d = ds[k + 1]  OBVIOUS
<1>4. IsDirective(d)
  <2>1. AllTexts(ds)  BY DEF WellFormed
  <2>2. PICK n \in Nat : n = Len(ds)  BY <2>1, Seqs DEF AllTexts
  <2>3. k < n  BY <1>2, <2>2
  <2>4. k + 1 \in 1..n  BY ONLY <2>3, k \in Nat, n \in Nat
  <2> QED  BY <1>3, <2>2, <2>4 DEF WellFormed
<1>5. d.conv # "literal"  BY <1>2, <1>3
<1>6. PICK f, w, p, m, t : Shape(d, f, w, p, m, t) /\ m <= Len(d.text)  BY <1>4, <1>5, Shapes
<1>7. /\ f \in Nat /\ w \in Nat /\ p \in Nat /\ m \in Nat /\ 1 <= f /\ f <= w /\ w <= p /\ p <= m
      /\ ShapeEnd(d, m)
  BY <1>6, ShapeEnds
<1>8. PICK j \in Nat : j = 1 /\ j <= m /\ j >= 1 /\ j <= f /\ j - 1 = 0  BY ONLY <1>7
<1>9. Within(ds, k, d, j, m, Head(fmt), Tail(fmt))
  BY <1>2, <1>3, <1>6, <1>7, <1>8 DEF Within
<1>10. Reading(ds, k, d, f, w, p, m, t, j, Head(fmt), Tail(fmt))  BY <1>6, <1>9 DEF Reading
<1>11. {} = {CharAt(d, i) : i \in 1..(j - 1)}  BY ONLY <1>8
<1>12. InFlags(d, f, j, {}, "", 0, -1, <<>>)  BY ONLY <1>8, <1>11 DEF InFlags
<1> QED  BY <1>10, <1>12

\* A directive has been read up to its conversion.
LEMMA ReadyWhenRead ==
  ASSUME NEW ds, NEW k, NEW d, NEW f, NEW w, NEW p, NEW m, NEW t, NEW j, NEW c, NEW fmt,
         Reading(ds, k, d, f, w, p, m, t, j, c, fmt),
         NEW fl, NEW cf, NEW wd \in Int, NEW pr \in Int, pr >= -1, NEW a,
         InConv(d, m, j, fl, cf, wd, pr, a)
  PROVE  Ready(d, fl, cf, wd, pr, a)
<1>1. ShapeModifier(d, p, m, t) /\ ShapeFlags(d, f)  BY DEF Reading, Shape
<1>2. d.type \in DOMAIN Bits /\ (d.conv = "p" => d.type = "long")  BY <1>1, TypeShaped
<1>3. d.flags \subseteq FlagChars  BY <1>1 DEF ShapeFlags
<1>4. TookBoth(d, fl, wd, pr, a) /\ (d.conv # "p" => ArgType(cf) = d.type)  BY DEF InConv
<1> QED  BY <1>2, <1>3, <1>4 DEF Ready

\* Its conversion is the character read last.
LEMMA ReadToTheEnd ==
  ASSUME NEW ds, WellFormed(ds), NEW k, NEW d, NEW f, NEW w, NEW p, NEW m, NEW t, NEW j, NEW c, NEW fmt,
         Reading(ds, k, d, f, w, p, m, t, j, c, fmt), j = m, c # NUL
  PROVE  /\ c = d.conv /\ d = ds[k + 1] /\ k \in Nat /\ k + 1 <= Len(ds)
         /\ At(ds, k + 1, 0, Head(fmt), Tail(fmt))
<1>1. Within(ds, k, d, m, m, c, fmt)  BY DEF Reading
<1>2. d = ds[k + 1]  BY <1>1 DEF Within
<1> QED  BY <1>1, <1>2, WithinDone

-----------------------------------------------------------------------------
(* The invariant: between two directives, or somewhere in one.             *)
Midway(st, d, f, w, p, m, j, fl, cf, wd, pr, a) ==
  \/ st = "FLAGS"     /\ InFlags(d, f, j, fl, cf, wd, pr, a)
  \/ st = "WIDTH"     /\ InWidth(d, f, w, j, fl, cf, wd, pr, a)
  \/ st = "DOT"       /\ InDot(d, w, j, fl, cf, wd, pr, a)
  \/ st = "PRECISION" /\ InPrecision(d, w, p, j, fl, cf, wd, pr, a)
  \/ st = "MOD"       /\ InMod(d, p, j, fl, cf, wd, pr, a)
  \/ st = "CONV"      /\ InConv(d, m, j, fl, cf, wd, pr, a)
Between(ds, k, c, fmt, fl, cf, wd, pr, a) ==
  /\ k \in Nat /\ k <= Len(ds) /\ At(ds, k, 0, c, fmt)
  /\ fl = {} /\ cf = "" /\ wd = 0 /\ pr = -1 /\ a = <<>>
Parsed(ds, k, st, c, fmt, fl, cf, wd, pr, a) ==
  \/ st \in {"OUT", "RETURNED"}
  \/ st = "DEFAULT" /\ Between(ds, k, c, fmt, fl, cf, wd, pr, a)
  \/ \E d, f, w, p, m, t, j : /\ Reading(ds, k, d, f, w, p, m, t, j, c, fmt)
                              /\ Midway(st, d, f, w, p, m, j, fl, cf, wd, pr, a)

ParsedSoFar ==
  Parsed(directives, Len(fields), state, ch, format, flags, cflags, width, precision, args)
FieldsOK ==
  \A i \in 1..Len(fields) : FieldOK(directives[i], fields[i].args, fields[i].out)
Tracked == WellFormed(directives) /\ AllSeqs(fields) /\ ParsedSoFar /\ FieldsOK

LEMMA ParsedMidway ==
  ASSUME NEW ds, NEW k, NEW st, NEW c, NEW fmt, NEW fl, NEW cf, NEW wd, NEW pr, NEW a,
         NEW d, NEW f, NEW w, NEW p, NEW m, NEW t, NEW j,
         Reading(ds, k, d, f, w, p, m, t, j, c, fmt),
         Midway(st, d, f, w, p, m, j, fl, cf, wd, pr, a)
  PROVE  Parsed(ds, k, st, c, fmt, fl, cf, wd, pr, a)
BY Zenon DEF Parsed

\* In state st the machine is in the middle of a directive.
LEMMA MidwayParsed ==
  ASSUME NEW ds, NEW k, NEW st, NEW c, NEW fmt, NEW fl, NEW cf, NEW wd, NEW pr, NEW a,
         Parsed(ds, k, st, c, fmt, fl, cf, wd, pr, a),
         st \in {"FLAGS", "WIDTH", "DOT", "PRECISION", "MOD", "CONV"}
  PROVE  \E d, f, w, p, m, t, j : /\ Reading(ds, k, d, f, w, p, m, t, j, c, fmt)
                                  /\ Midway(st, d, f, w, p, m, j, fl, cf, wd, pr, a)
BY DEF Parsed

\* What a quiet turn leaves alone.
LEMMA QuietTracked ==
  ASSUME Tracked, NEW s, Quiet(s), ParsedSoFar'
  PROVE  Tracked'
<1>1. directives' = directives /\ fields' = fields  BY DEF Quiet, fixed
<1> QED  BY <1>1 DEF Tracked, FieldsOK

LEMMA QuietMeans ==
  ASSUME Typed, Tracked, NEW s, Quiet(s)
  PROVE  /\ state = s /\ ch # NUL /\ Len(fields') = Len(fields) /\ directives' = directives
         /\ WellFormed(directives)
         /\ Parsed(directives, Len(fields), s, ch, format, flags, cflags, width, precision, args)
         /\ width \in Nat /\ width \in Int /\ precision \in Int /\ precision >= -1
<1>1. state = s /\ ch # NUL /\ directives' = directives /\ fields' = fields  BY DEF Quiet, fixed
<1>2. Numbers  BY DEF Typed, TypeOK, Numbers
<1>3. width \in Nat /\ width \in Int /\ precision \in Int /\ precision >= -1
  BY ONLY <1>2, IntMax DEF Numbers
<1>4. WellFormed(directives)
      /\ Parsed(directives, Len(fields), s, ch, format, flags, cflags, width, precision, args)
  BY <1>1 DEF Tracked, ParsedSoFar
<1> QED  BY <1>1, <1>3, <1>4

\* The turns that read a directive, one by one, with the state as parameters.
LEMMA ParseStart ==
  ASSUME NEW ds, WellFormed(ds), NEW k, NEW c, NEW fmt, NEW fl, NEW cf, NEW wd, NEW pr, NEW a,
         Parsed(ds, k, "DEFAULT", c, fmt, fl, cf, wd, pr, a), c = "%"
  PROVE  Parsed(ds, k, "FLAGS", Head(fmt), Tail(fmt), fl, cf, wd, pr, a)
<1>1. Between(ds, k, c, fmt, fl, cf, wd, pr, a)  BY DEF Parsed, Midway
<1>2. PICK d, f, w, p, m, t, j :
        /\ Reading(ds, k, d, f, w, p, m, t, j, Head(fmt), Tail(fmt))
        /\ InFlags(d, f, j, {}, "", 0, -1, <<>>)
  BY <1>1, Starts DEF Between
<1>3. InFlags(d, f, j, fl, cf, wd, pr, a)  BY <1>1, <1>2 DEF Between
<1>4. Midway("FLAGS", d, f, w, p, m, j, fl, cf, wd, pr, a)  BY <1>3 DEF Midway
<1> QED  BY ONLY <1>2, <1>4, ParsedMidway, Zenon

LEMMA ParseFlag ==
  ASSUME NEW ds, WellFormed(ds), NEW k, NEW c, NEW fmt, NEW fl, NEW cf, NEW wd, NEW pr, NEW a,
         Parsed(ds, k, "FLAGS", c, fmt, fl, cf, wd, pr, a), c # NUL
  PROVE  /\ c \in FlagChars
              => Parsed(ds, k, "FLAGS", Head(fmt), Tail(fmt), fl \cup {c}, cf, wd, pr, a)
         /\ c \notin FlagChars => Parsed(ds, k, "WIDTH", c, fmt, fl, cf, wd, pr, a)
<1>1. PICK d, f, w, p, m, t, j : /\ Reading(ds, k, d, f, w, p, m, t, j, c, fmt)
                                 /\ Midway("FLAGS", d, f, w, p, m, j, fl, cf, wd, pr, a)
  BY MidwayParsed
<1>2. InFlags(d, f, j, fl, cf, wd, pr, a)  BY <1>1 DEF Midway
<1>3. ASSUME c \in FlagChars
      PROVE  Parsed(ds, k, "FLAGS", Head(fmt), Tail(fmt), fl \cup {c}, cf, wd, pr, a)
  <2>1. /\ Reading(ds, k, d, f, w, p, m, t, j + 1, Head(fmt), Tail(fmt))
        /\ InFlags(d, f, j + 1, fl \cup {c}, cf, wd, pr, a)
    BY ONLY WellFormed(ds), c # NUL, <1>1, <1>2, <1>3, ReadFlag, Zenon
  <2>2. Midway("FLAGS", d, f, w, p, m, j + 1, fl \cup {c}, cf, wd, pr, a)  BY <2>1 DEF Midway
  <2> QED  BY ONLY <2>1, <2>2, ParsedMidway, Zenon
<1>4. ASSUME c \notin FlagChars PROVE Parsed(ds, k, "WIDTH", c, fmt, fl, cf, wd, pr, a)
  <2>1. InWidth(d, f, w, j, fl, cf, wd, pr, a)
    BY ONLY WellFormed(ds), <1>1, <1>2, <1>4, NoFlag, Zenon
  <2>2. Midway("WIDTH", d, f, w, p, m, j, fl, cf, wd, pr, a)  BY <2>1 DEF Midway
  <2> QED  BY ONLY <1>1, <2>2, ParsedMidway, Zenon
<1> QED  BY <1>3, <1>4

LEMMA ParseWidth ==
  ASSUME NEW ds, WellFormed(ds), NEW k, NEW c, NEW fmt, NEW fl, NEW cf, NEW wd \in Nat, NEW pr, NEW a,
         Parsed(ds, k, "WIDTH", c, fmt, fl, cf, wd, pr, a), c # NUL
  PROVE  /\ ISDIGIT(c) => Parsed(ds, k, "WIDTH", Head(fmt), Tail(fmt),
                                 fl, cf, 10 * wd + CHARTOINT(c), pr, a)
         /\ c = "*" => \A x \in Widths :
              Parsed(ds, k, "DOT", Head(fmt), Tail(fmt), IF x < 0 THEN fl \cup {"-"} ELSE fl, cf,
                     IF x < 0 THEN -x ELSE x, pr, Append(a, x))
         /\ ~ISDIGIT(c) /\ c # "*" => Parsed(ds, k, "DOT", c, fmt, fl, cf, wd, pr, a)
<1>1. PICK d, f, w, p, m, t, j : /\ Reading(ds, k, d, f, w, p, m, t, j, c, fmt)
                                 /\ Midway("WIDTH", d, f, w, p, m, j, fl, cf, wd, pr, a)
  BY MidwayParsed
<1>2. InWidth(d, f, w, j, fl, cf, wd, pr, a)  BY <1>1 DEF Midway
<1>3. ASSUME ISDIGIT(c)
      PROVE  Parsed(ds, k, "WIDTH", Head(fmt), Tail(fmt), fl, cf, 10 * wd + CHARTOINT(c), pr, a)
  <2>1. /\ Reading(ds, k, d, f, w, p, m, t, j + 1, Head(fmt), Tail(fmt))
        /\ InWidth(d, f, w, j + 1, fl, cf, 10 * wd + CHARTOINT(c), pr, a)
    BY ONLY WellFormed(ds), c # NUL, wd \in Nat, <1>1, <1>2, <1>3, ReadWidth, Zenon
  <2>2. Midway("WIDTH", d, f, w, p, m, j + 1, fl, cf, 10 * wd + CHARTOINT(c), pr, a)
    BY ONLY <2>1, Zenon DEF Midway
  <2> QED  BY ONLY <2>1, <2>2, ParsedMidway, Zenon
<1>4. ASSUME c = "*", NEW x \in Widths
      PROVE  Parsed(ds, k, "DOT", Head(fmt), Tail(fmt), IF x < 0 THEN fl \cup {"-"} ELSE fl, cf,
                    IF x < 0 THEN -x ELSE x, pr, Append(a, x))
  <2>1. /\ Reading(ds, k, d, f, w, p, m, t, j + 1, Head(fmt), Tail(fmt))
        /\ InDot(d, w, j + 1, IF x < 0 THEN fl \cup {"-"} ELSE fl, cf, IF x < 0 THEN -x ELSE x,
                 pr, Append(a, x))
    BY ONLY WellFormed(ds), c # NUL, <1>1, <1>2, <1>4, ReadStar, Zenon
  <2>2. Midway("DOT", d, f, w, p, m, j + 1, IF x < 0 THEN fl \cup {"-"} ELSE fl, cf,
               IF x < 0 THEN -x ELSE x, pr, Append(a, x))
    BY ONLY <2>1, Zenon DEF Midway
  <2> QED  BY ONLY <2>1, <2>2, ParsedMidway, Zenon
<1>5. ASSUME ~ISDIGIT(c), c # "*" PROVE Parsed(ds, k, "DOT", c, fmt, fl, cf, wd, pr, a)
  <2>1. InDot(d, w, j, fl, cf, wd, pr, a)
    BY ONLY WellFormed(ds), wd \in Nat, <1>1, <1>2, <1>5, NoWidthRead, Zenon
  <2>2. Midway("DOT", d, f, w, p, m, j, fl, cf, wd, pr, a)  BY ONLY <2>1, Zenon DEF Midway
  <2> QED  BY ONLY <1>1, <2>2, ParsedMidway, Zenon
<1> QED  BY <1>3, <1>4, <1>5, Zenon

LEMMA ParseDot ==
  ASSUME NEW ds, WellFormed(ds), NEW k, NEW c, NEW fmt, NEW fl, NEW cf, NEW wd, NEW pr, NEW a,
         Parsed(ds, k, "DOT", c, fmt, fl, cf, wd, pr, a), c # NUL
  PROVE  /\ c = "." => Parsed(ds, k, "PRECISION", Head(fmt), Tail(fmt), fl, cf, wd, pr, a)
         /\ c # "." => Parsed(ds, k, "MOD", c, fmt, fl, cf, wd, pr, a)
<1>1. PICK d, f, w, p, m, t, j : /\ Reading(ds, k, d, f, w, p, m, t, j, c, fmt)
                                 /\ Midway("DOT", d, f, w, p, m, j, fl, cf, wd, pr, a)
  BY MidwayParsed
<1>2. InDot(d, w, j, fl, cf, wd, pr, a)  BY <1>1 DEF Midway
<1>3. ASSUME c = "."
      PROVE  Parsed(ds, k, "PRECISION", Head(fmt), Tail(fmt), fl, cf, wd, pr, a)
  <2>1. /\ Reading(ds, k, d, f, w, p, m, t, j + 1, Head(fmt), Tail(fmt))
        /\ InPrecision(d, w, p, j + 1, fl, cf, wd, pr, a)
    BY ONLY WellFormed(ds), c # NUL, <1>1, <1>2, <1>3, ReadDot, Zenon
  <2>2. Midway("PRECISION", d, f, w, p, m, j + 1, fl, cf, wd, pr, a)  BY ONLY <2>1, Zenon DEF Midway
  <2> QED  BY ONLY <2>1, <2>2, ParsedMidway, Zenon
<1>4. ASSUME c # "." PROVE Parsed(ds, k, "MOD", c, fmt, fl, cf, wd, pr, a)
  <2>1. InMod(d, p, j, fl, cf, wd, pr, a)
    BY <1>1, <1>2, <1>4, NoDot
  <2>2. Midway("MOD", d, f, w, p, m, j, fl, cf, wd, pr, a)  BY ONLY <2>1, Zenon DEF Midway
  <2> QED  BY ONLY <1>1, <2>2, ParsedMidway, Zenon
<1> QED  BY <1>3, <1>4

LEMMA ParsePrecision ==
  ASSUME NEW ds, WellFormed(ds), NEW k, NEW c, NEW fmt, NEW fl, NEW cf, NEW wd, NEW pr, NEW a,
         Parsed(ds, k, "PRECISION", c, fmt, fl, cf, wd, pr, a), c # NUL,
         NEW q \in Nat, q = Larger(pr, 0)
  PROVE  /\ ISDIGIT(c) => Parsed(ds, k, "PRECISION", Head(fmt), Tail(fmt),
                                 fl, cf, wd, 10 * q + CHARTOINT(c), a)
         /\ c = "*" => \A x \in Widths :
              Parsed(ds, k, "MOD", Head(fmt), Tail(fmt), fl, cf, wd, Larger(x, -1), Append(a, x))
         /\ ~ISDIGIT(c) /\ c # "*" => Parsed(ds, k, "MOD", c, fmt, fl, cf, wd, q, a)
<1>1. PICK d, f, w, p, m, t, j : /\ Reading(ds, k, d, f, w, p, m, t, j, c, fmt)
                                 /\ Midway("PRECISION", d, f, w, p, m, j, fl, cf, wd, pr, a)
  BY MidwayParsed
<1>2. InPrecision(d, w, p, j, fl, cf, wd, pr, a)  BY <1>1 DEF Midway
<1>3. ASSUME ISDIGIT(c)
      PROVE  Parsed(ds, k, "PRECISION", Head(fmt), Tail(fmt), fl, cf, wd, 10 * q + CHARTOINT(c), a)
  <2>0. PICK pr2 : pr2 = 10 * q + CHARTOINT(c)  OBVIOUS
  <2>1. /\ Reading(ds, k, d, f, w, p, m, t, j + 1, Head(fmt), Tail(fmt))
        /\ InPrecision(d, w, p, j + 1, fl, cf, wd, pr2, a)
    BY ONLY WellFormed(ds), c # NUL, q \in Nat, q = Larger(pr, 0), <1>1, <1>2, <1>3, <2>0,
            ReadPrecision, Zenon
  <2>2. Midway("PRECISION", d, f, w, p, m, j + 1, fl, cf, wd, pr2, a)
    BY ONLY <2>1, Zenon DEF Midway
  <2>3. Parsed(ds, k, "PRECISION", Head(fmt), Tail(fmt), fl, cf, wd, pr2, a)
    BY ONLY <2>1, <2>2, ParsedMidway, Zenon
  <2> QED  BY ONLY <2>0, <2>3, Zenon
<1>4. ASSUME c = "*", NEW x \in Widths
      PROVE  Parsed(ds, k, "MOD", Head(fmt), Tail(fmt), fl, cf, wd, Larger(x, -1), Append(a, x))
  <2>1. /\ Reading(ds, k, d, f, w, p, m, t, j + 1, Head(fmt), Tail(fmt))
        /\ InMod(d, p, j + 1, fl, cf, wd, Larger(x, -1), Append(a, x))
    BY ONLY WellFormed(ds), c # NUL, <1>1, <1>2, <1>4, ReadPrecisionStar, Zenon
  <2>2. Midway("MOD", d, f, w, p, m, j + 1, fl, cf, wd, Larger(x, -1), Append(a, x))
    BY ONLY <2>1, Zenon DEF Midway
  <2> QED  BY ONLY <2>1, <2>2, ParsedMidway, Zenon
<1>5. ASSUME ~ISDIGIT(c), c # "*" PROVE Parsed(ds, k, "MOD", c, fmt, fl, cf, wd, q, a)
  <2>1. InMod(d, p, j, fl, cf, wd, Larger(pr, 0), a)
    BY ONLY WellFormed(ds), <1>1, <1>2, <1>5, NoPrecisionRead, Zenon
  <2>2. Midway("MOD", d, f, w, p, m, j, fl, cf, wd, q, a)
    BY ONLY q = Larger(pr, 0), <2>1, Zenon DEF Midway
  <2> QED  BY ONLY <1>1, <2>2, ParsedMidway, Zenon
<1> QED  BY <1>3, <1>4, <1>5, Zenon

LEMMA ParseModifier ==
  ASSUME NEW ds, WellFormed(ds), NEW k, NEW c, NEW fmt, NEW fl, NEW cf, NEW wd, NEW pr, NEW a,
         Parsed(ds, k, "MOD", c, fmt, fl, cf, wd, pr, a), c # NUL
  PROVE  /\ c \in {"h", "l"} /\ Head(fmt) = c
              => Parsed(ds, k, "CONV", Head(Tail(fmt)), Tail(Tail(fmt)), fl,
                        IF c = "h" THEN "hh" ELSE "ll", wd, pr, a)
         /\ c \in Letters /\ (c \in {"h", "l"} => Head(fmt) # c)
              => Parsed(ds, k, "CONV", Head(fmt), Tail(fmt), fl, c, wd, pr, a)
         /\ c \notin Letters => Parsed(ds, k, "CONV", c, fmt, fl, cf, wd, pr, a)
<1>1. PICK d, f, w, p, m, t, j : /\ Reading(ds, k, d, f, w, p, m, t, j, c, fmt)
                                 /\ Midway("MOD", d, f, w, p, m, j, fl, cf, wd, pr, a)
  BY MidwayParsed
<1>2. InMod(d, p, j, fl, cf, wd, pr, a)  BY <1>1 DEF Midway
<1>3. ASSUME c \in {"h", "l"}, Head(fmt) = c
      PROVE  Parsed(ds, k, "CONV", Head(Tail(fmt)), Tail(Tail(fmt)), fl,
                    IF c = "h" THEN "hh" ELSE "ll", wd, pr, a)
  <2>0. PICK cf2 : cf2 = IF c = "h" THEN "hh" ELSE "ll"  OBVIOUS
  <2>1. /\ Reading(ds, k, d, f, w, p, m, t, j + 2, Head(Tail(fmt)), Tail(Tail(fmt)))
        /\ InConv(d, m, j + 2, fl, cf2, wd, pr, a)
    BY ONLY WellFormed(ds), c # NUL, <1>1, <1>2, <1>3, <2>0, TwoModifiers, Zenon
  <2>2. Midway("CONV", d, f, w, p, m, j + 2, fl, cf2, wd, pr, a)  BY ONLY <2>1, Zenon DEF Midway
  <2>3. Parsed(ds, k, "CONV", Head(Tail(fmt)), Tail(Tail(fmt)), fl, cf2, wd, pr, a)
    BY ONLY <2>1, <2>2, ParsedMidway, Zenon
  <2> QED  BY ONLY <2>0, <2>3, Zenon
<1>4. ASSUME c \in Letters, c \in {"h", "l"} => Head(fmt) # c
      PROVE  Parsed(ds, k, "CONV", Head(fmt), Tail(fmt), fl, c, wd, pr, a)
  <2>1. /\ Reading(ds, k, d, f, w, p, m, t, j + 1, Head(fmt), Tail(fmt))
        /\ InConv(d, m, j + 1, fl, c, wd, pr, a)
    BY ONLY WellFormed(ds), c # NUL, <1>1, <1>2, <1>4, OneModifier, Zenon
  <2>2. Midway("CONV", d, f, w, p, m, j + 1, fl, c, wd, pr, a)  BY ONLY <2>1, Zenon DEF Midway
  <2> QED  BY ONLY <2>1, <2>2, ParsedMidway, Zenon
<1>5. ASSUME c \notin Letters PROVE Parsed(ds, k, "CONV", c, fmt, fl, cf, wd, pr, a)
  <2>1. InConv(d, m, j, fl, cf, wd, pr, a)
    BY ONLY WellFormed(ds), <1>1, <1>2, <1>5, NoModifier, Zenon
  <2>2. Midway("CONV", d, f, w, p, m, j, fl, cf, wd, pr, a)  BY ONLY <2>1, Zenon DEF Midway
  <2> QED  BY ONLY <1>1, <2>2, ParsedMidway, Zenon
<1> QED  BY <1>3, <1>4, <1>5, Zenon

\* The state after a quiet turn, put together.
LEMMA QuietParsed ==
  ASSUME Typed, Tracked, NEW s, Quiet(s),
         NEW st, state' = st, NEW c, ch' = c, NEW fmt, format' = fmt, NEW fl, flags' = fl,
         NEW cf, cflags' = cf, NEW wd, width' = wd, NEW pr, precision' = pr, NEW a, args' = a,
         Parsed(directives, Len(fields), st, c, fmt, fl, cf, wd, pr, a)
  PROVE  Tracked'
<1>1. Len(fields') = Len(fields) /\ directives' = directives  BY QuietMeans
<1>2. ParsedSoFar'  BY <1>1 DEF ParsedSoFar
<1> QED  BY <1>2, QuietTracked

LEMMA PercentTracked == ASSUME Typed, Tracked, Percent PROVE Tracked'
<1>1. Quiet("DEFAULT") /\ ch = "%" /\ Read /\ state' = "FLAGS" /\ UNCHANGED directive
  BY DEF Percent
<1>2. WellFormed(directives)
      /\ Parsed(directives, Len(fields), "DEFAULT", ch, format, flags, cflags, width, precision, args)
  BY <1>1, QuietMeans
<1>3. Parsed(directives, Len(fields), "FLAGS", Head(format), Tail(format), flags, cflags, width,
             precision, args)
  BY ONLY <1>1, <1>2, ParseStart, Zenon
<1> QED  BY <1>1, <1>3, QuietParsed DEF Read, directive

LEMMA FlagsTracked == ASSUME Typed, Tracked, Flags PROVE Tracked'
<1>1. Quiet("FLAGS") /\ UNCHANGED <<cflags, width, precision, args>>  BY DEF Flags
<1>2. WellFormed(directives) /\ ch # NUL
      /\ Parsed(directives, Len(fields), "FLAGS", ch, format, flags, cflags, width, precision, args)
  BY <1>1, QuietMeans
<1>3. CASE ch \in FlagChars
  <2>1. flags' = flags \cup {ch} /\ Read /\ UNCHANGED state  BY <1>3 DEF Flags
  <2>2. Parsed(directives, Len(fields), "FLAGS", Head(format), Tail(format), flags \cup {ch}, cflags,
               width, precision, args)
    BY ONLY <1>2, <1>3, ParseFlag, Zenon
  <2>3. state' = "FLAGS"  BY <1>1, <2>1 DEF Quiet
  <2> QED  BY <1>1, <2>1, <2>2, <2>3, QuietParsed DEF Read
<1>4. CASE ch \notin FlagChars
  <2>1. state' = "WIDTH" /\ UNCHANGED <<flags, ch, format>>  BY <1>4 DEF Flags
  <2>2. Parsed(directives, Len(fields), "WIDTH", ch, format, flags, cflags, width, precision, args)
    BY ONLY <1>2, <1>4, ParseFlag, Zenon
  <2> QED  BY <1>1, <2>1, <2>2, QuietParsed
<1> QED  BY <1>3, <1>4

\* A machine that has given up parses no more.
LEMMA OutTracked == ASSUME Typed, Tracked, NEW s, Quiet(s), state' = "OUT" PROVE Tracked'
<1>1. ParsedSoFar'  BY DEF ParsedSoFar, Parsed
<1> QED  BY <1>1, QuietTracked

LEMMA WidthDigitTracked == ASSUME Typed, Tracked, WidthDigit PROVE Tracked'
<1>1. Quiet("WIDTH") /\ ISDIGIT(ch) /\ UNCHANGED <<flags, cflags, precision, args>>
  BY DEF WidthDigit
<1>2. WellFormed(directives) /\ ch # NUL /\ width \in Nat
      /\ Parsed(directives, Len(fields), "WIDTH", ch, format, flags, cflags, width, precision, args)
  BY <1>1, QuietMeans
<1>3. CASE TooLarge(width)
  <2>1. state' = "OUT"  BY <1>3 DEF WidthDigit
  <2> QED  BY <1>1, <2>1, OutTracked
<1>4. CASE ~TooLarge(width)
  <2>1. width' = 10 * width + CHARTOINT(ch) /\ Read /\ UNCHANGED state  BY <1>4 DEF WidthDigit
  <2>2. Parsed(directives, Len(fields), "WIDTH", Head(format), Tail(format), flags, cflags,
               10 * width + CHARTOINT(ch), precision, args)
    BY ONLY <1>1, <1>2, ParseWidth, Zenon
  <2>3. state' = "WIDTH"  BY <1>1, <2>1 DEF Quiet
  <2>4. PICK wd : wd = 10 * width + CHARTOINT(ch)  OBVIOUS
  <2>5. Parsed(directives, Len(fields), "WIDTH", Head(format), Tail(format), flags, cflags, wd,
               precision, args)
    BY ONLY <2>2, <2>4, Zenon
  <2> QED  BY <1>1, <2>1, <2>3, <2>4, <2>5, QuietParsed DEF Read
<1> QED  BY <1>3, <1>4

LEMMA WidthArgumentTracked == ASSUME Typed, Tracked, WidthArgument PROVE Tracked'
<1>1. Quiet("WIDTH") /\ ch = "*" /\ Read /\ state' = "DOT" /\ UNCHANGED <<cflags, precision>>
  BY DEF WidthArgument
<1>2. WellFormed(directives) /\ ch # NUL /\ width \in Nat
      /\ Parsed(directives, Len(fields), "WIDTH", ch, format, flags, cflags, width, precision, args)
  BY <1>1, QuietMeans
<1>3. PICK x \in Widths : /\ width' = IF x < 0 THEN -x ELSE x
                          /\ flags' = IF x < 0 THEN flags \cup {"-"} ELSE flags
                          /\ args' = Append(args, x)
  BY DEF WidthArgument
<1>4. Parsed(directives, Len(fields), "DOT", Head(format), Tail(format),
             IF x < 0 THEN flags \cup {"-"} ELSE flags, cflags, IF x < 0 THEN -x ELSE x,
             precision, Append(args, x))
  BY ONLY <1>1, <1>2, x \in Widths, ParseWidth, Zenon
<1>5. PICK wd, fl : wd = (IF x < 0 THEN -x ELSE x) /\ fl = IF x < 0 THEN flags \cup {"-"} ELSE flags
  OBVIOUS
<1>6. Parsed(directives, Len(fields), "DOT", Head(format), Tail(format), fl, cflags, wd, precision,
             Append(args, x))
  BY ONLY <1>4, <1>5, Zenon
<1>7. width' = wd /\ flags' = fl  BY ONLY <1>3, <1>5, Zenon
<1> QED  BY <1>1, <1>3, <1>6, <1>7, QuietParsed DEF Read

LEMMA NoWidthTracked == ASSUME Typed, Tracked, NoWidth PROVE Tracked'
<1>1. Quiet("WIDTH") /\ ~ISDIGIT(ch) /\ ch # "*" /\ state' = "DOT"
      /\ UNCHANGED <<ch, format, directive>>
  BY DEF NoWidth
<1>2. WellFormed(directives) /\ ch # NUL /\ width \in Nat
      /\ Parsed(directives, Len(fields), "WIDTH", ch, format, flags, cflags, width, precision, args)
  BY <1>1, QuietMeans
<1>3. Parsed(directives, Len(fields), "DOT", ch, format, flags, cflags, width, precision, args)
  BY ONLY <1>1, <1>2, ParseWidth, Zenon
<1> QED  BY <1>1, <1>3, QuietParsed DEF directive

LEMMA DotTracked == ASSUME Typed, Tracked, Dot PROVE Tracked'
<1>1. Quiet("DOT") /\ UNCHANGED directive  BY DEF Dot
<1>2. WellFormed(directives) /\ ch # NUL
      /\ Parsed(directives, Len(fields), "DOT", ch, format, flags, cflags, width, precision, args)
  BY <1>1, QuietMeans
<1>3. CASE ch = "."
  <2>1. state' = "PRECISION" /\ Read  BY <1>3 DEF Dot
  <2>2. Parsed(directives, Len(fields), "PRECISION", Head(format), Tail(format), flags, cflags,
               width, precision, args)
    BY <1>2, <1>3, ParseDot
  <2> QED  BY <1>1, <2>1, <2>2, QuietParsed DEF Read, directive
<1>4. CASE ch # "."
  <2>1. state' = "MOD" /\ UNCHANGED <<ch, format>>  BY <1>4 DEF Dot
  <2>2. Parsed(directives, Len(fields), "MOD", ch, format, flags, cflags, width, precision, args)
    BY <1>2, <1>4, ParseDot
  <2> QED  BY <1>1, <2>1, <2>2, QuietParsed DEF directive
<1> QED  BY <1>3, <1>4

\* What every turn in PRINT_S_PRECISION starts from.
LEMMA PrecisionMeans ==
  ASSUME Typed, Tracked, Quiet("PRECISION")
  PROVE  /\ WellFormed(directives) /\ ch # NUL
         /\ Parsed(directives, Len(fields), "PRECISION", ch, format, flags, cflags, width,
                   precision, args)
         /\ \E q \in Nat : q = Larger(precision, 0)
<1>1. WellFormed(directives) /\ ch # NUL /\ precision \in Int
      /\ Parsed(directives, Len(fields), "PRECISION", ch, format, flags, cflags, width,
                precision, args)
  BY QuietMeans
<1>2. Larger(precision, 0) \in Nat
  <2>1. precision \in Int  BY <1>1
  <2> QED  BY ONLY <2>1 DEF Larger
<1> QED  BY <1>1, <1>2

LEMMA PrecisionDigitTracked == ASSUME Typed, Tracked, PrecisionDigit PROVE Tracked'
<1>1. Quiet("PRECISION") /\ ISDIGIT(ch) /\ UNCHANGED <<flags, cflags, width, args>>
  BY DEF PrecisionDigit
<1>2. WellFormed(directives) /\ ch # NUL
      /\ Parsed(directives, Len(fields), "PRECISION", ch, format, flags, cflags, width,
                precision, args)
  BY <1>1, PrecisionMeans
<1>3. PICK q \in Nat : q = Larger(precision, 0)  BY <1>1, PrecisionMeans
<1>4. CASE TooLarge(q)
  <2>1. state' = "OUT"  BY <1>3, <1>4 DEF PrecisionDigit
  <2> QED  BY <1>1, <2>1, OutTracked
<1>5. CASE ~TooLarge(q)
  <2>1. precision' = 10 * q + CHARTOINT(ch) /\ Read /\ UNCHANGED state
    BY <1>3, <1>5 DEF PrecisionDigit
  <2>2. Parsed(directives, Len(fields), "PRECISION", Head(format), Tail(format), flags, cflags,
               width, 10 * q + CHARTOINT(ch), args)
    BY ONLY <1>1, <1>2, <1>3, q \in Nat, ParsePrecision, Zenon
  <2>3. state' = "PRECISION"  BY <1>1, <2>1 DEF Quiet
  <2>4. PICK pr : pr = 10 * q + CHARTOINT(ch)  OBVIOUS
  <2>5. Parsed(directives, Len(fields), "PRECISION", Head(format), Tail(format), flags, cflags,
               width, pr, args)
    BY ONLY <2>2, <2>4, Zenon
  <2> QED  BY <1>1, <2>1, <2>3, <2>4, <2>5, QuietParsed DEF Read
<1> QED  BY <1>4, <1>5

LEMMA PrecisionArgumentTracked == ASSUME Typed, Tracked, PrecisionArgument PROVE Tracked'
<1>1. Quiet("PRECISION") /\ ch = "*" /\ Read /\ state' = "MOD" /\ UNCHANGED <<flags, cflags, width>>
  BY DEF PrecisionArgument
<1>2. WellFormed(directives) /\ ch # NUL
      /\ Parsed(directives, Len(fields), "PRECISION", ch, format, flags, cflags, width,
                precision, args)
  BY <1>1, PrecisionMeans
<1>3. PICK q \in Nat : q = Larger(precision, 0)  BY <1>1, PrecisionMeans
<1>4. PICK x \in Widths : precision' = Larger(x, -1) /\ args' = Append(args, x)
  BY DEF PrecisionArgument
<1>5. Parsed(directives, Len(fields), "MOD", Head(format), Tail(format), flags, cflags, width,
             Larger(x, -1), Append(args, x))
  BY ONLY <1>1, <1>2, <1>3, q \in Nat, x \in Widths, ParsePrecision, Zenon
<1>6. PICK pr : pr = Larger(x, -1)  OBVIOUS
<1>7. Parsed(directives, Len(fields), "MOD", Head(format), Tail(format), flags, cflags, width,
             pr, Append(args, x))
  BY ONLY <1>5, <1>6, Zenon
<1>8. precision' = pr  BY ONLY <1>4, <1>6, Zenon
<1> QED  BY <1>1, <1>4, <1>7, <1>8, QuietParsed DEF Read

LEMMA NoPrecisionTracked == ASSUME Typed, Tracked, NoPrecision PROVE Tracked'
<1>1. Quiet("PRECISION") /\ ~ISDIGIT(ch) /\ ch # "*" /\ state' = "MOD"
      /\ UNCHANGED <<ch, format, flags, cflags, width, args>> /\ precision' = Larger(precision, 0)
  BY DEF NoPrecision
<1>2. WellFormed(directives) /\ ch # NUL
      /\ Parsed(directives, Len(fields), "PRECISION", ch, format, flags, cflags, width,
                precision, args)
  BY <1>1, PrecisionMeans
<1>3. PICK q \in Nat : q = Larger(precision, 0)  BY <1>1, PrecisionMeans
<1>4. Parsed(directives, Len(fields), "MOD", ch, format, flags, cflags, width, q, args)
  BY ONLY <1>1, <1>2, <1>3, q \in Nat, ParsePrecision, Zenon
<1>5. precision' = q  BY <1>1, <1>3
<1> QED  BY <1>1, <1>4, <1>5, QuietParsed

LEMMA ModifierTracked == ASSUME Typed, Tracked, Modifier PROVE Tracked'
<1>1. Quiet("MOD") /\ state' = "CONV" /\ UNCHANGED <<flags, width, precision, args>>
  BY DEF Modifier
<1>2. WellFormed(directives) /\ ch # NUL
      /\ Parsed(directives, Len(fields), "MOD", ch, format, flags, cflags, width, precision, args)
  BY <1>1, QuietMeans
<1>3. \/ /\ ch \in {"h", "l"} /\ Head(format) = ch
         /\ cflags' = IF ch = "h" THEN "hh" ELSE "ll"
         /\ ch' = Head(Tail(format)) /\ format' = Tail(Tail(format))
      \/ /\ ch \in Letters /\ (ch \in {"h", "l"} => Head(format) # ch)
         /\ cflags' = ch /\ Read
      \/ ch \notin Letters /\ UNCHANGED <<cflags, ch, format>>
  BY DEF Modifier, Letters
<1>4. CASE /\ ch \in {"h", "l"} /\ Head(format) = ch
           /\ cflags' = IF ch = "h" THEN "hh" ELSE "ll"
           /\ ch' = Head(Tail(format)) /\ format' = Tail(Tail(format))
  <2>1. Parsed(directives, Len(fields), "CONV", Head(Tail(format)), Tail(Tail(format)), flags,
               IF ch = "h" THEN "hh" ELSE "ll", width, precision, args)
    BY ONLY <1>2, <1>4, ParseModifier, Zenon
  <2>2. PICK cf : cf = IF ch = "h" THEN "hh" ELSE "ll"  OBVIOUS
  <2>3. Parsed(directives, Len(fields), "CONV", Head(Tail(format)), Tail(Tail(format)), flags,
               cf, width, precision, args)
    BY ONLY <2>1, <2>2, Zenon
  <2>4. cflags' = cf  BY ONLY <1>4, <2>2, Zenon
  <2> QED  BY <1>1, <1>4, <2>3, <2>4, QuietParsed
<1>5. CASE /\ ch \in Letters /\ (ch \in {"h", "l"} => Head(format) # ch)
           /\ cflags' = ch /\ Read
  <2>1. Parsed(directives, Len(fields), "CONV", Head(format), Tail(format), flags, ch, width,
               precision, args)
    BY ONLY <1>2, <1>5, ParseModifier, Zenon
  <2> QED  BY <1>1, <1>5, <2>1, QuietParsed DEF Read
<1>6. CASE ch \notin Letters /\ UNCHANGED <<cflags, ch, format>>
  <2>1. Parsed(directives, Len(fields), "CONV", ch, format, flags, cflags, width, precision, args)
    BY ONLY <1>2, <1>6, ParseModifier, Zenon
  <2> QED  BY <1>1, <1>6, <2>1, QuietParsed
<1> QED  BY <1>3, <1>4, <1>5, <1>6

\* One more field is there, and the next directive starts.
LEMMA ProduceTracked ==
  ASSUME Tracked, NEW k, k = Len(fields), NEW s, NEW taken, NEW chars, Produce(s, taken, chars), Read,
         state' = "DEFAULT", flags' = {}, cflags' = "", width' = 0, precision' = -1, args' = <<>>,
         k + 1 <= Len(directives), At(directives, k + 1, 0, Head(format), Tail(format)),
         FieldOK(directives[k + 1], taken, chars), AllSeqs(fields')
  PROVE  Tracked'
<1>1. IsSeq(fields) /\ WellFormed(directives)  BY DEF Tracked, AllSeqs
<1>2. k \in Nat  BY <1>1, Seqs
<1>3. PICK r : r = [args |-> taken, out |-> chars]  OBVIOUS
<1>4. fields' = Append(fields, r) /\ directives' = directives  BY <1>3 DEF Produce, fixed
<1>5. r.args = taken /\ r.out = chars  BY <1>3
<1>6. Len(fields') = k + 1 /\ fields'[k + 1] = r /\ \A i \in 1..k : fields'[i] = fields[i]
  <2>1. Len(Append(fields, r)) = Len(fields) + 1  BY ONLY <1>1, AppendIsSeq
  <2>2. PICK fs : fs = fields /\ IsSeq(fs)  BY <1>1
  <2>3. \A i \in 1..Len(fs) : Append(fs, r)[i] = fs[i]  BY ONLY <2>2, AppendIsSeq
  <2>4. Append(fs, r)[Len(fs) + 1] = r  BY ONLY <2>2, AppendIsSeq, ZenonT(30)
  <2> QED  BY ONLY <1>4, <2>1, <2>2, <2>3, <2>4, k = Len(fields)
<1>7. FieldsOK'
  <2>1. ASSUME NEW i \in 1..(k + 1)
        PROVE  FieldOK(directives[i], fields'[i].args, fields'[i].out)
    <3>1. CASE i \in 1..k
      <4>1. FieldOK(directives[i], fields[i].args, fields[i].out)  BY <3>1 DEF Tracked, FieldsOK
      <4> QED  BY <1>6, <3>1, <4>1
    <3>2. CASE i = k + 1  BY <1>5, <1>6, <3>2
    <3>3. i \in 1..k \/ i = k + 1  BY ONLY <1>2, i \in 1..(k + 1)
    <3> QED  BY <3>1, <3>2, <3>3
  <2> QED  BY <1>4, <1>6, <2>1 DEF FieldsOK
<1>8. PICK n : n = k + 1 /\ n \in Nat  BY ONLY <1>2
<1>9. Between(directives, n, Head(format), Tail(format), {}, "", 0, -1, <<>>)
  BY <1>8 DEF Between
<1>10. ParsedSoFar'
  <2>1. ch' = Head(format) /\ format' = Tail(format) /\ Len(fields') = n  BY <1>6, <1>8 DEF Read
  <2>2. Between(directives, n, ch', format', flags', cflags', width', precision', args')
    BY <1>9, <2>1
  <2>3. Between(directives, Len(fields), ch, format, flags, cflags, width, precision, args)'
    BY <1>4, <2>1, <2>2
  <2> QED  BY <2>3 DEF ParsedSoFar, Parsed
<1> QED  BY <1>1, <1>4, <1>7, <1>10 DEF Tracked

LEMMA LiteralTracked == ASSUME Typed, Tracked, Literal, AllSeqs(fields') PROVE Tracked'
<1>1. /\ Produce("DEFAULT", <<>>, <<ch>>) /\ state = "DEFAULT" /\ ch # NUL /\ ch # "%" /\ Read
      /\ UNCHANGED <<state, directive>>
  BY DEF Literal, Produce
<1>2. WellFormed(directives) /\ IsSeq(fields)  BY DEF Tracked, AllSeqs
<1>3. PICK k : k = Len(fields)  OBVIOUS
<1>4. Between(directives, k, ch, format, flags, cflags, width, precision, args)
  BY <1>1, <1>3 DEF Tracked, ParsedSoFar, Parsed, Midway
<1>5. k \in Nat /\ k <= Len(directives) /\ At(directives, k, 0, ch, format)
      /\ flags = {} /\ cflags = "" /\ width = 0 /\ precision = -1 /\ args = <<>>
  BY <1>4 DEF Between
<1>6. /\ k < Len(directives) /\ directives[k + 1].conv = "literal"
      /\ At(directives, k + 1, 0, Head(format), Tail(format))
  BY <1>1, <1>2, <1>5, Begins
<1>7. k + 1 <= Len(directives)
  <2>1. AllTexts(directives)  BY <1>2 DEF WellFormed
  <2>2. PICK n \in Nat : n = Len(directives)  BY <2>1, Seqs DEF AllTexts
  <2>3. k < n  BY <1>6, <2>2
  <2>4. k \in Nat  BY <1>5
  <2>5. k + 1 <= n  BY ONLY <2>3, <2>4, n \in Nat
  <2> QED  BY <2>2, <2>5
<1>8. FieldOK(directives[k + 1], <<>>, <<ch>>)  BY <1>6 DEF FieldOK, Shown, FloatConversions
<1>9. state' = "DEFAULT" /\ flags' = {} /\ cflags' = "" /\ width' = 0 /\ precision' = -1 /\ args' = <<>>
  BY <1>1, <1>5 DEF directive
<1> QED  BY <1>1, <1>3, <1>6, <1>7, <1>8, <1>9, ProduceTracked

\* What a conversion starts from.
LEMMA ConversionMeans ==
  ASSUME Typed, Tracked, NEW k, k = Len(fields), state = "CONV", ch # NUL
  PROVE  \E d : /\ d = directives[k + 1] /\ ch = d.conv /\ k + 1 <= Len(directives)
                /\ At(directives, k + 1, 0, Head(format), Tail(format))
                /\ Ready(d, flags, cflags, width, precision, args)
<1>1. WellFormed(directives)  BY DEF Tracked
<1>2. Parsed(directives, k, "CONV", ch, format, flags, cflags, width, precision, args)
  BY DEF Tracked, ParsedSoFar
<1>3. PICK d, f, w, p, m, t, j :
        /\ Reading(directives, k, d, f, w, p, m, t, j, ch, format)
        /\ Midway("CONV", d, f, w, p, m, j, flags, cflags, width, precision, args)
  BY ONLY <1>2, MidwayParsed
<1>4. InConv(d, m, j, flags, cflags, width, precision, args)  BY ONLY <1>3 DEF Midway
<1>5. j = m  BY ONLY <1>4 DEF InConv
<1>6. /\ ch = d.conv /\ d = directives[k + 1] /\ k \in Nat /\ k + 1 <= Len(directives)
      /\ At(directives, k + 1, 0, Head(format), Tail(format))
  BY <1>1, <1>3, <1>5, ReadToTheEnd
<1>7. width \in Int /\ precision \in Int /\ precision >= -1
  <2>1. Numbers  BY DEF Typed, TypeOK, Numbers
  <2> QED  BY ONLY <2>1, IntMax DEF Numbers
<1>8. Ready(d, flags, cflags, width, precision, args)
  BY ONLY <1>3, <1>4, <1>7, ReadyWhenRead
<1> QED  BY <1>6, <1>8

\* What it produces is as was asked, whichever it is.
LEMMA ConversionShows ==
  ASSUME Conversion, base = 0, NEW d, ch = d.conv,
         Ready(d, flags, cflags, width, precision, args)
  PROVE  \E taken, chars : Convert(taken, chars) /\ FieldOK(d, taken, chars)
<1>0. \A n \in Ints : n \in Int  BY ArgsAssumption
<1>1. CASE ConvertSigned
  <2>1. PICK n \in Ints :
          Convert(Append(args, n), fmtint(Signed(n, ArgType(cflags)), 10, width, precision, flags))
    BY <1>1 DEF ConvertSigned
  <2>2. d.conv \in {"d", "i"} /\ n \in Int  BY <1>0, <1>1 DEF ConvertSigned
  <2>3. PICK b, out : b = Append(args, n)
                      /\ out = fmtint(Signed(n, ArgType(cflags)), 10, width, precision, flags)
    OBVIOUS
  <2>4. FieldOK(d, b, out)
    BY ONLY Ready(d, flags, cflags, width, precision, args), <2>2, <2>3, SignedField
  <2> QED  BY <2>1, <2>3, <2>4
<1>2. CASE ConvertUnsigned
  <2>0. ch \in {"x", "X", "o", "u"}  BY <1>2 DEF ConvertUnsigned
  <2>1. PICK gl : gl = flags \cup {"UNSIGNED"} \cup IF ch = "X" THEN {"UP"} ELSE {}  OBVIOUS
  <2>2. PICK n \in Ints :
          Convert(Append(args, n),
                  fmtint(Unsigned(n, ArgType(cflags)), FreshBase(ch), width, precision, gl))
    <3>1. BaseOf(ch) = FreshBase(ch)  BY DEF BaseOf, FreshBase
    <3> QED  BY <1>2, <2>1, <3>1 DEF ConvertUnsigned
  <2>3. d.conv \in {"x", "X", "o", "u"} /\ n \in Int
        /\ gl = flags \cup {"UNSIGNED"} \cup IF d.conv = "X" THEN {"UP"} ELSE {}
    BY <1>0, <2>0, <2>1
  <2>4. PICK b, out : b = Append(args, n)
                      /\ out = fmtint(Unsigned(n, ArgType(cflags)), FreshBase(d.conv), width, precision, gl)
    OBVIOUS
  <2>5. FieldOK(d, b, out)
    BY ONLY Ready(d, flags, cflags, width, precision, args), <2>3, <2>4, UnsignedField
  <2> QED  BY <2>2, <2>4, <2>5
<1>3. CASE ConvertPointer
  <2>1. PICK n \in Ints :
          Convert(Append(args, n),
                  IF Unsigned(n, "long") = 0 THEN fmtstr(Nil, width, -1, flags)
                  ELSE fmtint(Unsigned(n, "long"), 16, width, precision,
                              flags \cup {"#", "UNSIGNED"}))
    BY <1>3 DEF ConvertPointer
  <2>2. d.conv = "p" /\ n \in Int  BY <1>0, <1>3 DEF ConvertPointer
  <2>3. PICK b, out : /\ b = Append(args, n)
                      /\ out = IF Unsigned(n, "long") = 0 THEN fmtstr(Nil, width, -1, flags)
                               ELSE fmtint(Unsigned(n, "long"), 16, width, precision,
                                           flags \cup {"#", "UNSIGNED"})
    OBVIOUS
  <2>4. FieldOK(d, b, out)
    BY ONLY Ready(d, flags, cflags, width, precision, args), <2>2, <2>3, PointerField
  <2> QED  BY <2>1, <2>3, <2>4
<1>4. CASE ConvertString
  <2>1. PICK t \in Texts : Convert(Append(args, t), fmtstr(t, width, precision, flags))
    BY <1>4 DEF ConvertString
  <2>2. d.conv = "s" /\ (t = NULL \/ IsSeq(t))
    BY <1>4, ArgsAssumption DEF ConvertString, IsSeq
  <2>3. PICK b, out : b = Append(args, t) /\ out = fmtstr(t, width, precision, flags)  OBVIOUS
  <2>4. FieldOK(d, b, out)
    BY ONLY Ready(d, flags, cflags, width, precision, args), <2>2, <2>3, TextField
  <2> QED  BY <2>1, <2>3, <2>4
<1>6. CASE ConvertFloat
  <2>1. PICK gl, q : gl = flags \cup Style(ch) /\ q = FloatPrecision(ch)  OBVIOUS
  <2>2. ch \in FloatConversions /\ \E v \in Floats : \E e \in {Decimal(v, q, gl)} :
          ~e.overflow /\ \E chars \in {fmtflt(v, e, width, gl)} : Convert(Append(args, v), chars)
    BY <1>6, <2>1 DEF ConvertFloat
  <2>3. PICK v \in Floats : /\ ~Decimal(v, q, gl).overflow
                            /\ Convert(Append(args, v), fmtflt(v, Decimal(v, q, gl), width, gl))
    BY <2>2
  <2>4. v \in Float  BY ArgsAssumption
  <2>5. /\ d.conv \in FloatConversions /\ gl = flags \cup Style(d.conv)
        /\ q = IF d.conv \in {"g", "G"} /\ precision = 0 THEN 1 ELSE precision
    BY <2>1, <2>2 DEF FloatPrecision
  <2>6. PICK b, out : b = Append(args, v) /\ out = fmtflt(v, Decimal(v, q, gl), width, gl)
    OBVIOUS
  <2>7. FieldOK(d, b, out)
    BY ONLY Ready(d, flags, cflags, width, precision, args), <2>3, <2>4, <2>5, <2>6, FloatingField
  <2> QED  BY <2>3, <2>6, <2>7
<1>5. CASE ConvertChar \/ ConvertCount \/ ConvertPercent \/ Skip
  <2>1. ch \notin Shown \cup FloatConversions
    BY <1>5 DEF ConvertChar, ConvertCount, ConvertPercent, Skip, Conversions,
                FloatConversions, Shown
  <2>2. \A a, out : FieldOK(d, a, out)  BY <2>1 DEF FieldOK
  <2>3. \E taken, chars : Convert(taken, chars)
    BY <1>5 DEF ConvertChar, ConvertCount, ConvertPercent, Skip
  <2> QED  BY <2>2, <2>3
<1> QED  BY <1>1, <1>2, <1>3, <1>4, <1>5, <1>6 DEF Conversion

LEMMA ConversionTracked == ASSUME Typed, Tracked, Conversion, AllSeqs(fields') PROVE Tracked'
<1>1. \E taken, chars : Convert(taken, chars)
  BY DEF Conversion, ConvertSigned, ConvertUnsigned, ConvertFloat, ConvertString,
         ConvertChar, ConvertPointer, ConvertCount, ConvertPercent, Skip
<1>2. state = "CONV" /\ ch # NUL  BY <1>1 DEF Convert, Produce
<1>3. PICK k : k = Len(fields)  OBVIOUS
<1>4. PICK d : /\ d = directives[k + 1] /\ ch = d.conv /\ k + 1 <= Len(directives)
               /\ At(directives, k + 1, 0, Head(format), Tail(format))
               /\ Ready(d, flags, cflags, width, precision, args)
  BY <1>2, <1>3, ConversionMeans
<1>5. PICK taken, chars : Convert(taken, chars) /\ FieldOK(d, taken, chars)
  <2>1. base = 0  BY DEF Typed
  <2> QED  BY <1>4, <2>1, ConversionShows
<1>6. Produce("CONV", taken, chars) /\ Read /\ state' = "DEFAULT" /\ flags' = {} /\ cflags' = ""
      /\ width' = 0 /\ precision' = -1 /\ args' = <<>>
  BY <1>5 DEF Convert, Reset
<1>7. FieldOK(directives[k + 1], taken, chars)  BY <1>4, <1>5
<1> QED  BY <1>3, <1>4, <1>6, <1>7, ProduceTracked

LEMMA ReturnTracked == ASSUME Tracked, Return PROVE Tracked'
<1>1. directives' = directives /\ fields' = fields /\ state' = "RETURNED"  BY DEF Return, fixed
<1>2. ParsedSoFar'  BY <1>1 DEF ParsedSoFar, Parsed
<1> QED  BY <1>1, <1>2 DEF Tracked, FieldsOK

LEMMA InitTracked == Init => Tracked
<1> SUFFICES ASSUME Init PROVE Tracked  OBVIOUS
<1>1. WellFormed(directives)  BY FormatsWellFormed DEF Init
<1>2. fields = <<>>  BY DEF Init
<1>3. IsSeq(fields) /\ Len(fields) = 0 /\ AllSeqs(fields)  BY <1>2, EmptyIsSeq DEF AllSeqs
<1>4. FieldsOK  BY <1>3 DEF FieldsOK
<1>5. ch = Head(Source(directives)) /\ format = Tail(Source(directives))  BY DEF Init, Source
<1>6. AllTexts(directives)  BY <1>1 DEF WellFormed
<1>7. At(directives, 0, 0, ch, format)  BY <1>5, <1>6, AtFirst
<1>8. 0 <= Len(directives)  BY <1>6, Seqs DEF AllTexts
<1>9. Between(directives, 0, ch, format, flags, cflags, width, precision, args)
  BY <1>7, <1>8 DEF Between, Init
<1>10. ParsedSoFar  BY <1>3, <1>9 DEF ParsedSoFar, Parsed, Init
<1> QED  BY <1>1, <1>3, <1>4, <1>10 DEF Tracked

LEMMA NextTracked == ASSUME Typed, Tracked, Filled', [Next]_vars PROVE Tracked'
<1>0. AllSeqs(fields')  BY DEF Filled, Counted
<1>1. CASE Literal            BY <1>0, <1>1, LiteralTracked
<1>2. CASE Percent            BY <1>2, PercentTracked
<1>3. CASE Flags              BY <1>3, FlagsTracked
<1>4. CASE WidthDigit         BY <1>4, WidthDigitTracked
<1>5. CASE WidthArgument      BY <1>5, WidthArgumentTracked
<1>6. CASE NoWidth            BY <1>6, NoWidthTracked
<1>7. CASE Dot                BY <1>7, DotTracked
<1>8. CASE PrecisionDigit     BY <1>8, PrecisionDigitTracked
<1>9. CASE PrecisionArgument  BY <1>9, PrecisionArgumentTracked
<1>10. CASE NoPrecision       BY <1>10, NoPrecisionTracked
<1>11. CASE Modifier          BY <1>11, ModifierTracked
<1>12. CASE Conversion        BY <1>0, <1>12, ConversionTracked
<1>13. CASE FloatTooLarge
  <2>1. Quiet("CONV") /\ state' = "OUT"  BY <1>13 DEF FloatTooLarge
  <2> QED  BY <2>1, OutTracked
<1>14. CASE Return            BY <1>14, ReturnTracked
<1>15. CASE UNCHANGED vars
  <2>1. UNCHANGED <<directives, fields, state, ch, format, flags, cflags, width, precision, args>>
    BY <1>15 DEF vars, fixed, directive
  <2> QED  BY <2>1 DEF Tracked, ParsedSoFar, FieldsOK
<1> QED  BY <1>1, <1>2, <1>3, <1>4, <1>5, <1>6, <1>7, <1>8, <1>9, <1>10, <1>11, <1>12, <1>13,
            <1>14, <1>15 DEF Next, Step, Returned

LEMMA TrackedAlways == Spec => []Tracked
<1>1. Typed /\ Filled /\ Tracked /\ [Next]_vars => Typed' /\ Filled' /\ Tracked'
  BY NextTyped, NextFilled, NextTracked
<1>2. Init => Typed /\ Filled /\ Tracked  BY InitTyped, InitFilled, InitTracked
<1> QED  BY <1>1, <1>2, PTL DEF Spec

LEMMA TrackedShows ==
  ASSUME Tracked, NEW i \in DOMAIN fields, NEW d, d = directives[i],
         NEW a, a = fields[i].args, NEW out, out = fields[i].out,
         d.conv \in Shown \cup FloatConversions
  PROVE  FieldFollows(d, a, out)
<1>1. DOMAIN fields = 1..Len(fields)  BY Seqs DEF Tracked, AllSeqs
<1>2. FieldOK(d, a, out)  BY <1>1 DEF Tracked, FieldsOK
<1> QED  BY <1>2 DEF FieldOK

(* Every integer and every string that a call prints is the one that was   *)
(* passed: ReadsBack, for all formats, arguments and integer types.        *)
THEOREM ShowsArguments == Spec => []ReadsBack
<1>1. ASSUME Tracked PROVE ReadsBack
  <2>1. ASSUME NEW i \in DOMAIN fields, NEW d, d = directives[i], NEW a, a = fields[i].args,
               NEW out, out = fields[i].out
        PROVE  /\ d.conv \in {"d", "i", "u", "o", "x", "X", "p"} /\ IsNumber(d, a)
                    => NumberReadsBack(d, a, out)
               /\ d.conv = "s" => TextReadsBack(d, a, out)
    <3>1. d.conv \in Shown => FieldFollows(d, a, out)  BY <1>1, <2>1, TrackedShows
    <3> QED  BY <3>1, FieldShows DEF Shown
  <2> QED  BY <2>1 DEF ReadsBack
<1>2. Tracked => ReadsBack  BY <1>1
<1> QED  BY <1>2, TrackedAlways, PTL

(* And every field of a string or an integer is as wide as was asked and   *)
(* padded where and with what was asked, for every combination of flags,   *)
(* width and precision, except that a number in which the separators and   *)
(* more digits than it has were asked for is short of one digit for each   *)
(* separator, until there is none left to take, and its field by as much.  *)
THEOREM PadsAsAsked == Spec => []FieldAsAsked
<1>1. ASSUME Tracked PROVE FieldAsAsked
  <2>1. ASSUME NEW i \in DOMAIN fields, NEW d, d = directives[i], NEW a, a = fields[i].args
        PROVE  d.conv \in {"d", "i", "u", "o", "x", "X", "p", "s"}
                 => PaddedAsAsked(d, a, fields[i].out)
    <3>1. PICK out : out = fields[i].out  OBVIOUS
    <3>2. d.conv \in Shown => FieldFollows(d, a, out)  BY <1>1, <2>1, <3>1, TrackedShows
    <3> QED  BY <3>1, <3>2, FieldShows DEF Shown
  <2> QED  BY <2>1 DEF FieldAsAsked
<1>2. Tracked => FieldAsAsked  BY <1>1
<1> QED  BY <1>2, TrackedAlways, PTL

-----------------------------------------------------------------------------
(* Which formats the machine gives up on.                                  *)

\* The directive that is being read.
LEMMA ReadingPlace ==
  ASSUME NEW ds, WellFormed(ds), NEW k, NEW d, NEW f, NEW w, NEW p, NEW m, NEW t, NEW j, NEW c, NEW fmt,
         Reading(ds, k, d, f, w, p, m, t, j, c, fmt)
  PROVE  /\ d = ds[k + 1] /\ k \in Nat /\ k + 1 <= Len(ds) /\ k + 1 \in DOMAIN ds
         /\ d.conv = "" => k + 1 = Len(ds)
<1>1. IsSeq(ds)  BY DEF WellFormed, AllTexts
<1>2. PICK n \in Nat : n = Len(ds) /\ DOMAIN ds = 1..n  BY <1>1, Seqs
<1>3. k \in Nat /\ k < n /\ d = ds[k + 1]  BY <1>2 DEF Reading, Within
<1>4. k + 1 \in 1..n /\ k + 1 <= n  BY <1>3
<1>5. d.conv = "" => k + 1 = n  BY <1>2, <1>3, <1>4 DEF WellFormed
<1> QED  BY <1>2, <1>3, <1>4, <1>5

\* The digits of a number that are still to be read make it no smaller.
LEMMA DecimalsGrow ==
  ASSUME NEW d, IsSeq(d.text), NEW i \in Nat, NEW j \in Nat, i <= j, NEW e \in Nat, j <= e,
         e <= Len(d.text), \A q \in j..(e - 1) : ISDIGIT(CharAt(d, q)), Decimals(d, i, j) \in Nat
  PROVE  Decimals(d, i, e) \in Nat /\ Decimals(d, i, e) >= Decimals(d, i, j)
<1>1. PICK l \in Nat : l = Len(d.text)  BY Seqs
<1>2. PICK x \in Nat : x = Decimals(d, i, j)  OBVIOUS
<1> DEFINE T == {n \in Nat : j + n <= e => Decimals(d, i, j + n) \in Nat /\ Decimals(d, i, j + n) >= x}
<1>3. 0 \in T
  <2>1. j + 0 = j  OBVIOUS
  <2>2. Decimals(d, i, j + 0) = x  BY <1>2, <2>1
  <2> QED  BY <2>2
<1>4. ASSUME NEW n \in Nat, n \in T PROVE n + 1 \in T
  <2>1. SUFFICES ASSUME j + (n + 1) <= e
                 PROVE  Decimals(d, i, j + (n + 1)) \in Nat /\ Decimals(d, i, j + (n + 1)) >= x
    OBVIOUS
  <2>2. PICK q \in Nat : q = j + n /\ q + 1 = j + (n + 1) /\ q <= e /\ i <= q /\ q \in j..(e - 1) /\ q < l
    <3>1. e <= l  BY <1>1
    <3> QED  BY ONLY <2>1, <3>1, i <= j, i \in Nat, j \in Nat, e \in Nat, n \in Nat, l \in Nat
  <2>3. PICK y \in Nat : y = Decimals(d, i, q) /\ y >= x  BY <1>4, <2>2
  <2>4. PICK c : c = CharAt(d, q) /\ ISDIGIT(c)  BY <2>2
  <2>5. PICK z \in Nat : z = CHARTOINT(c)  BY <2>4, DigitInt
  <2>6. Decimals(d, i, q + 1) = 10 * y + z
    <3>1. q < Len(d.text) /\ Decimals(d, i, q) \in Nat  BY <1>1, <2>2, <2>3
    <3>2. Decimals(d, i, q + 1) = 10 * Decimals(d, i, q) + CHARTOINT(c)
      BY ONLY IsSeq(d.text), i \in Nat, q \in Nat, <2>2, <2>4, <3>1, DecimalsNext
    <3> QED  BY <2>3, <2>5, <3>2
  <2>7. 10 * y + z \in Nat /\ 10 * y + z >= x  BY ONLY <2>3, x \in Nat, y \in Nat, z \in Nat
  <2>8. Decimals(d, i, j + (n + 1)) = 10 * y + z  BY <2>2, <2>6
  <2> QED  BY <2>7, <2>8
<1>5. Nat \subseteq T
  <2> HIDE DEF T
  <2> QED  BY <1>3, <1>4, Induction
<1>6. PICK n \in Nat : n = e - j /\ j + n = e
  <2>1. e - j \in Nat /\ j + (e - j) = e  BY ONLY j \in Nat, e \in Nat, j <= e
  <2> QED  BY <2>1
<1>7. n \in T  BY <1>5
<1>8. j + n <= e  BY ONLY <1>6, e \in Nat
<1>9. Decimals(d, i, j + n) \in Nat /\ Decimals(d, i, j + n) >= x  BY <1>7, <1>8
<1> QED  BY <1>2, <1>6, <1>9

\* A number that is too large while it is being read is too large as a whole.
LEMMA TooLargeNumber ==
  ASSUME NEW d, IsSeq(d.text), NEW i \in Nat, NEW j \in Nat, i <= j, NEW e \in Nat, j <= e,
         e <= Len(d.text), NEW n, NumberAt(d, n, i, e), n = Star => j = i,
         NEW c, c = CharAt(d, j), ISDIGIT(c),
         NEW x \in Nat, x = Decimals(d, i, j), NEW z \in Nat, z = CHARTOINT(c),
         x > (INT_MAX - z) \div 10
  PROVE  n \in Nat /\ n > INT_MAX
<1>1. IsMet(d, n, i, e, j, c)
  <2>1. i <= e  BY ONLY i <= j, j <= e, i \in Nat, j \in Nat, e \in Nat
  <2> QED  BY ONLY <2>1, i \in Nat, e \in Nat, j \in Nat, i <= j, j <= e, NumberAt(d, n, i, e),
           n = Star => j = i, c = CharAt(d, j), NumberMet, Zenon
<1>2. n # Star /\ j + 1 <= e  BY ONLY ISDIGIT(c), <1>1, Zenon DEF IsMet
<1>3. n = Decimals(d, i, e) /\ \A q \in i..(e - 1) : ISDIGIT(CharAt(d, q))  BY <1>2 DEF NumberAt
<1>4. Decimals(d, i, j + 1) = 10 * x + z
  <2>1. PICK l \in Nat : l = Len(d.text)  BY Seqs
  <2>2. j < Len(d.text) /\ Decimals(d, i, j) \in Nat  BY <1>2, <2>1
  <2>3. Decimals(d, i, j + 1) = 10 * Decimals(d, i, j) + CHARTOINT(c)
    BY ONLY IsSeq(d.text), i \in Nat, j \in Nat, i <= j, <2>2, c = CharAt(d, j), ISDIGIT(c), DecimalsNext
  <2> QED  BY <2>3
<1>5. PICK k \in Nat : k = j + 1 /\ i <= k /\ k <= e  BY <1>2
<1>6. \A q \in k..(e - 1) : ISDIGIT(CharAt(d, q))
  <2>1. \A q \in k..(e - 1) : q \in i..(e - 1)  BY ONLY <1>5, i \in Nat, e \in Nat
  <2> QED  BY <1>3, <2>1
<1>7. PICK y \in Nat : y = 10 * x + z /\ y = Decimals(d, i, k)
  <2>1. 10 * x + z \in Nat  BY ONLY x \in Nat, z \in Nat
  <2> QED  BY <1>4, <1>5, <2>1
<1>8. Decimals(d, i, e) \in Nat /\ Decimals(d, i, e) >= Decimals(d, i, k)
  BY ONLY IsSeq(d.text), i \in Nat, k \in Nat, e \in Nat, e <= Len(d.text), <1>5, <1>6, <1>7, DecimalsGrow
<1>9. y > INT_MAX
  <2>1. PICK M \in Nat : M = INT_MAX  BY IntMax
  <2>2. x > (M - z) \div 10  BY <2>1
  <2>3. y > M  BY ONLY <1>7, <2>2, x \in Nat, z \in Nat, M \in Nat, y \in Nat
  <2> QED  BY <2>1, <2>3
<1>10. PICK n2 \in Nat : n2 = n /\ n2 >= y  BY <1>3, <1>7, <1>8
<1> QED  BY <1>9, <1>10, IntMax

\* What the turns that give up have met.
LEMMA WidthTooLarge ==
  ASSUME NEW ds, WellFormed(ds), NEW k, NEW c, NEW fmt, NEW fl, NEW cf, NEW wd \in Nat, NEW pr, NEW a,
         Parsed(ds, k, "WIDTH", c, fmt, fl, cf, wd, pr, a), ISDIGIT(c),
         wd > (INT_MAX - CHARTOINT(c)) \div 10
  PROVE  k + 1 \in DOMAIN ds /\ Unrepresentable(ds[k + 1])
<1>1. PICK d, f, w, p, m, t, j : /\ Reading(ds, k, d, f, w, p, m, t, j, c, fmt)
                                 /\ Midway("WIDTH", d, f, w, p, m, j, fl, cf, wd, pr, a)
  BY MidwayParsed
<1>2. InWidth(d, f, w, j, fl, cf, wd, pr, a)  BY <1>1 DEF Midway
<1>3. /\ f \in Nat /\ w \in Nat /\ p \in Nat /\ m \in Nat /\ f <= w /\ w <= p /\ p <= m
      /\ j \in Nat /\ c = CharAt(d, j) /\ IsSeq(d.text) /\ m <= Len(d.text)
  BY <1>1, ReadingMeans
<1>4. NumberAt(d, d.width, f, w)  BY <1>1 DEF Reading, Shape, ShapeWidth
<1>5. j >= f /\ j <= w /\ (d.width = Star => j = f) /\ wd = Decimals(d, f, j)  BY <1>2 DEF InWidth
<1>6. w <= Len(d.text)
  <2>1. PICK l \in Nat : l = Len(d.text)  BY <1>3, Seqs
  <2>2. m <= l  BY <1>3, <2>1
  <2>3. w <= l  BY ONLY <1>3, <2>2, l \in Nat
  <2> QED  BY <2>1, <2>3
<1>7. PICK z \in Nat : z = CHARTOINT(c)  BY DigitInt
<1>8. wd > (INT_MAX - z) \div 10  BY <1>7
<1>9. f <= j  BY ONLY <1>3, <1>5
<1>10. d.width \in Nat /\ d.width > INT_MAX
  BY ONLY <1>3, <1>4, <1>5, <1>6, <1>7, <1>8, <1>9, ISDIGIT(c), wd \in Nat, z \in Nat, TooLargeNumber
<1>11. d = ds[k + 1] /\ k + 1 \in DOMAIN ds  BY <1>1, ReadingPlace
<1> QED  BY <1>10, <1>11 DEF Unrepresentable

LEMMA PrecisionTooLarge ==
  ASSUME NEW ds, WellFormed(ds), NEW k, NEW c, NEW fmt, NEW fl, NEW cf, NEW wd, NEW pr, NEW a,
         Parsed(ds, k, "PRECISION", c, fmt, fl, cf, wd, pr, a), ISDIGIT(c),
         NEW q \in Nat, q = Larger(pr, 0), q > (INT_MAX - CHARTOINT(c)) \div 10
  PROVE  k + 1 \in DOMAIN ds /\ Unrepresentable(ds[k + 1])
<1>1. PICK d, f, w, p, m, t, j : /\ Reading(ds, k, d, f, w, p, m, t, j, c, fmt)
                                 /\ Midway("PRECISION", d, f, w, p, m, j, fl, cf, wd, pr, a)
  BY MidwayParsed
<1>2. InPrecision(d, w, p, j, fl, cf, wd, pr, a)  BY <1>1 DEF Midway
<1>3. /\ f \in Nat /\ w \in Nat /\ p \in Nat /\ m \in Nat /\ f <= w /\ w <= p /\ p <= m
      /\ j \in Nat /\ c = CharAt(d, j) /\ IsSeq(d.text) /\ m <= Len(d.text)
  BY <1>1, ReadingMeans
<1>4. /\ j >= w + 1 /\ j <= p /\ (d.precision = Star => j = w + 1)
      /\ q = Decimals(d, w + 1, j)
  BY <1>2 DEF InPrecision
<1>5. PICK e \in Nat : e = w + 1 /\ e <= j /\ j <= p
  <2>1. j >= w + 1 /\ j <= p  BY <1>4
  <2> QED  BY ONLY <1>3, <2>1
<1>6. NumberAt(d, d.precision, e, p)
  <2>1. \/ p = w
        \/ NumberAt(d, d.precision, w + 1, p)
    BY <1>1 DEF Reading, Shape, ShapePrecision
  <2>2. p # w  BY ONLY <1>3, <1>5
  <2> QED  BY ONLY <1>5, <2>1, <2>2
<1>7. (d.precision = Star => j = e) /\ q = Decimals(d, e, j)  BY <1>4, <1>5
<1>8. p <= Len(d.text)
  <2>1. PICK l \in Nat : l = Len(d.text)  BY <1>3, Seqs
  <2>2. m <= l  BY <1>3, <2>1
  <2>3. p <= l  BY ONLY <1>3, <2>2, l \in Nat
  <2> QED  BY <2>1, <2>3
<1>9. PICK z \in Nat : z = CHARTOINT(c)  BY DigitInt
<1>10. q > (INT_MAX - z) \div 10  BY <1>9
<1>11. d.precision \in Nat /\ d.precision > INT_MAX
  BY ONLY <1>3, <1>5, <1>6, <1>7, <1>8, <1>9, <1>10, ISDIGIT(c), q \in Nat, e \in Nat, z \in Nat,
          TooLargeNumber
<1>12. d = ds[k + 1] /\ k + 1 \in DOMAIN ds  BY <1>1, ReadingPlace
<1> QED  BY <1>11, <1>12 DEF Unrepresentable

\* What has been read into an int does fit.
LEMMA FitsWhenTaken ==
  ASSUME NEW d, NEW fl, NEW wd \in Int, NEW pr \in Int, NEW a, TookBoth(d, fl, wd, pr, a),
         wd <= INT_MAX, pr <= INT_MAX
  PROVE  ~Unrepresentable(d)
<1>1. wd = WidthOf(d, a) /\ pr = PrecisionOf(d, a)  BY DEF TookBoth
<1>2. d.width = wd \/ d.width = -2  BY <1>1 DEF WidthOf, Star
<1>3. d.precision = pr \/ d.precision = -2  BY <1>1 DEF PrecisionOf, Star
<1>4. ~(d.width > INT_MAX)  BY <1>2, IntMax
<1>5. ~(d.precision > INT_MAX)  BY <1>3, IntMax
<1> QED  BY <1>4, <1>5 DEF Unrepresentable

\* The format ends in a directive: it is the last one, has no conversion, and fits.
LEMMA UnfinishedEnd ==
  ASSUME NEW ds, WellFormed(ds), NEW k, NEW st, NEW c, c = NUL, NEW fmt, NEW fl, NEW cf,
         NEW wd \in Nat, wd <= INT_MAX, NEW pr \in Int, pr <= INT_MAX, NEW a,
         NEW d, NEW f, NEW w, NEW p, NEW m, NEW t, NEW j,
         Reading(ds, k, d, f, w, p, m, t, j, c, fmt), Midway(st, d, f, w, p, m, j, fl, cf, wd, pr, a)
  PROVE  d.conv = "" /\ ~Unrepresentable(d)
<1>0. /\ c \notin FlagChars /\ c \notin Letters /\ c # "." /\ c # "*" /\ ~ISDIGIT(c)
  BY Apart
<1>1. ASSUME InMod(d, p, j, fl, cf, wd, pr, a) PROVE InConv(d, m, j, fl, cf, wd, pr, a)
  BY ONLY WellFormed(ds), Reading(ds, k, d, f, w, p, m, t, j, c, fmt), <1>0, <1>1, NoModifier, Zenon
<1>2. ASSUME InDot(d, w, j, fl, cf, wd, pr, a) PROVE InConv(d, m, j, fl, cf, wd, pr, a)
  <2>1. InMod(d, p, j, fl, cf, wd, pr, a)
    BY ONLY WellFormed(ds), Reading(ds, k, d, f, w, p, m, t, j, c, fmt), <1>0, <1>2, NoDot, Zenon
  <2> QED  BY <1>1, <2>1
<1>3. ASSUME InWidth(d, f, w, j, fl, cf, wd, pr, a) PROVE InConv(d, m, j, fl, cf, wd, pr, a)
  <2>1. InDot(d, w, j, fl, cf, wd, pr, a)
    BY ONLY WellFormed(ds), Reading(ds, k, d, f, w, p, m, t, j, c, fmt), <1>0, <1>3, wd \in Nat, NoWidthRead, Zenon
  <2> QED  BY <1>2, <2>1
<1>4. ASSUME InFlags(d, f, j, fl, cf, wd, pr, a) PROVE InConv(d, m, j, fl, cf, wd, pr, a)
  <2>1. InWidth(d, f, w, j, fl, cf, wd, pr, a)
    BY ONLY WellFormed(ds), Reading(ds, k, d, f, w, p, m, t, j, c, fmt), <1>0, <1>4, NoFlag, Zenon
  <2> QED  BY <1>3, <2>1
<1>5. PICK q : (q = pr \/ q = Larger(pr, 0)) /\ InConv(d, m, j, fl, cf, wd, q, a)
  <2>1. ASSUME InPrecision(d, w, p, j, fl, cf, wd, pr, a)
        PROVE  InConv(d, m, j, fl, cf, wd, Larger(pr, 0), a)
    <3>1. InMod(d, p, j, fl, cf, wd, Larger(pr, 0), a)
      BY ONLY WellFormed(ds), Reading(ds, k, d, f, w, p, m, t, j, c, fmt), <1>0, <2>1,
              NoPrecisionRead, Zenon
    <3> QED
      BY ONLY WellFormed(ds), Reading(ds, k, d, f, w, p, m, t, j, c, fmt), <1>0, <3>1, NoModifier, Zenon
  <2> QED  BY <1>1, <1>2, <1>3, <1>4, <2>1 DEF Midway
<1>6. q \in Int /\ q <= INT_MAX
  <2>1. PICK M \in Nat : M = INT_MAX /\ pr <= M  BY IntMax
  <2>2. Larger(pr, 0) \in Int /\ Larger(pr, 0) <= M  BY ONLY <2>1, pr \in Int, M \in Nat DEF Larger
  <2> QED  BY <1>5, <2>1, <2>2
<1>7. TookBoth(d, fl, wd, q, a) /\ j = m  BY <1>5 DEF InConv
<1>8. ~Unrepresentable(d)
  BY ONLY <1>6, <1>7, wd \in Int, wd <= INT_MAX, FitsWhenTaken
<1>9. c = CharAt(d, j) /\ ShapeEnd(d, m)  BY ReadingMeans
<1>10. d.conv = ""  BY <1>7, <1>9 DEF ShapeEnd
<1> QED  BY <1>8, <1>10

\* The format ends between two directives: it was the last one.
LEMMA BetweenEnd ==
  ASSUME NEW ds, WellFormed(ds), NEW k, NEW c, c = NUL, NEW fmt, NEW fl, NEW cf, NEW wd, NEW pr, NEW a,
         Between(ds, k, c, fmt, fl, cf, wd, pr, a)
  PROVE  k = Len(ds)
<1>1. AllTexts(ds)  BY DEF WellFormed
<1>2. PICK n \in Nat : n = Len(ds)  BY <1>1, Seqs DEF AllTexts
<1>3. k \in Nat /\ k <= n /\ At(ds, k, 0, c, fmt)  BY <1>2 DEF Between
<1>4. SUFFICES ASSUME k # n PROVE FALSE  BY <1>2
<1>5. k < n /\ k + 1 \in 1..n  BY ONLY <1>3, <1>4, n \in Nat
<1>6. PICK d : d = ds[k + 1] /\ IsDirective(d)  BY <1>2, <1>5 DEF WellFormed
<1>7. PICK l \in Nat : l = Len(d.text) /\ l >= 1 /\ d.text[1] # NUL
  <2>1. IsSeq(d.text)  BY <1>6 DEF IsDirective, IsSeq
  <2>2. PICK l \in Nat : l = Len(d.text)  BY <2>1, Seqs
  <2>3. CASE Len(d.text) = 1 /\ d.text[1] # NUL  BY <2>2, <2>3
  <2>4. CASE \E f \in 1..Len(d.text) : \E w, p, m : LaidOut(d, f, w, p, m)
    <3>1. PICK f \in 1..l : \E w, p, m : LaidOut(d, f, w, p, m)  BY <2>2, <2>4
    <3>2. d.text[1] = "%"  BY <3>1 DEF LaidOut
    <3>3. l >= 1  BY <3>1
    <3> QED  BY <2>2, <3>2, <3>3 DEF NUL
  <2> QED  BY <1>6, <2>3, <2>4 DEF IsDirective
<1>8. PICK z \in Nat : z = 0 /\ z + 1 = 1 /\ z < Len(ds[k + 1].text)  BY <1>6, <1>7
<1>9. At(ds, k, z, c, fmt) /\ k < Len(ds)  BY <1>2, <1>3, <1>5, <1>8
<1>10. c = ds[k + 1].text[z + 1]
  BY ONLY <1>1, <1>3, <1>8, <1>9, z \in Nat, AtChar
<1> QED  BY <1>6, <1>7, <1>8, <1>10

\* The letter of a floating point conversion says what style its flags ask for.
LEMMA StyleMeans ==
  ASSUME NEW c \in FloatConversions, NEW given, "G" \notin given, "E" \notin given,
         NEW fl, fl = given \cup Style(c)
  PROVE  /\ "G" \in fl <=> c \in {"g", "G"}
         /\ "E" \in fl <=> c \in {"e", "E"}
<1>1. CASE c \in {"f", "a"}  BY <1>1 DEF Style
<1>2. CASE c \in {"F", "A"}  BY <1>2 DEF Style
<1>3. CASE c = "e"  BY <1>3 DEF Style
<1>4. CASE c = "E"  BY <1>4 DEF Style
<1>5. CASE c = "g"  BY <1>5 DEF Style
<1>6. CASE c = "G"  BY <1>6 DEF Style
<1> QED  BY <1>1, <1>2, <1>3, <1>4, <1>5, <1>6 DEF FloatConversions

\* What fmtflt gives up on is what the reference cannot represent.
LEMMA TooLargeSaid ==
  ASSUME NEW d, d.conv \in FloatConversions, NEW a, NEW p, PrecisionOf(d, a) = p,
         NEW v, Last(a) = v, TooLargeFor(v, p, d.conv \in {"g", "G"}, d.conv \in {"e", "E"})
  PROVE  cast(IF InEStyle(d, a) THEN Scaled(v, 99) ELSE v) = UINTMAX_MAX
<1>1. PICK q : q = AskedPrecision(d, a)  OBVIOUS
<1>2. CASE d.conv \in {"g", "G"}
  <2>1. (d.conv \in {"g", "G"}) = TRUE /\ (d.conv \in {"e", "E"}) = FALSE  BY <1>2
  <2>2. TooLargeFor(v, p, TRUE, FALSE)
    BY ONLY <2>1, TooLargeFor(v, p, d.conv \in {"g", "G"}, d.conv \in {"e", "E"}), Zenon
  <2>3. q = FloatAsked(p, TRUE)  BY <1>1, <1>2 DEF AskedPrecision, FloatAsked
  <2>4. InEStyle(d, a) <=> Exponent(v, q) < -4 \/ Exponent(v, q) > q
    BY <1>1, <2>1 DEF InEStyle
  <2> QED  BY <2>2, <2>3, <2>4 DEF TooLargeFor
<1>3. CASE d.conv \in {"e", "E"}
  <2>1. (d.conv \in {"g", "G"}) = FALSE /\ (d.conv \in {"e", "E"}) = TRUE  BY <1>3
  <2>2. TooLargeFor(v, p, FALSE, TRUE)
    BY ONLY <2>1, TooLargeFor(v, p, d.conv \in {"g", "G"}, d.conv \in {"e", "E"}), Zenon
  <2> QED  BY <1>3, <2>2 DEF TooLargeFor, InEStyle
<1>4. CASE d.conv \notin {"g", "G", "e", "E"}
  <2>1. (d.conv \in {"g", "G"}) = FALSE /\ (d.conv \in {"e", "E"}) = FALSE  BY <1>4
  <2>2. TooLargeFor(v, p, FALSE, FALSE)
    BY ONLY <2>1, TooLargeFor(v, p, d.conv \in {"g", "G"}, d.conv \in {"e", "E"}), Zenon
  <2> QED  BY <1>4, <2>2 DEF TooLargeFor, InEStyle
<1> QED  BY <1>2, <1>3, <1>4

LEMMA FloatGivesUp == ASSUME Typed, Tracked, FloatTooLarge PROVE GaveUp'
<1>1. /\ Quiet("CONV") /\ state = "CONV" /\ ch # NUL /\ ch \in FloatConversions
      /\ directives' = directives /\ fields' = fields
  BY DEF FloatTooLarge, Quiet, fixed
<1>2. PICK fl : fl = flags \cup Style(ch)  OBVIOUS
<1>3. PICK q : q = FloatPrecision(ch)  OBVIOUS
<1>4. PICK v \in Floats : Decimal(v, q, fl).overflow /\ args' = Append(args, v)
  BY <1>2, <1>3 DEF FloatTooLarge
<1>5. v \in Float  BY ArgsAssumption
<1>6. PICK k : k = Len(fields)  OBVIOUS
<1>7. PICK d : /\ d = directives[k + 1] /\ ch = d.conv /\ k + 1 <= Len(directives)
               /\ Ready(d, flags, cflags, width, precision, args)
  BY <1>1, <1>6, ConversionMeans
<1>8. k + 1 \in DOMAIN directives
  <2>1. IsSeq(directives) /\ IsSeq(fields)  BY DEF Tracked, WellFormed, AllTexts, AllSeqs
  <2>2. PICK n \in Nat : n = Len(directives) /\ DOMAIN directives = 1..n  BY <2>1, Seqs
  <2>3. k \in Nat  BY <1>6, <2>1, Seqs
  <2>4. k + 1 <= n  BY <1>7, <2>2
  <2>5. k + 1 \in 1..n  BY ONLY <2>3, <2>4, n \in Nat
  <2> QED  BY <2>2, <2>5
<1>9. TookBoth(d, flags, width, precision, args) /\ precision \in Int /\ precision >= -1
      /\ d.flags \subseteq FlagChars
  BY <1>7 DEF Ready
<1>10. BothTaken(d, args) /\ flags = GivenFlags(d, args) /\ precision = PrecisionOf(d, args)
  BY <1>9 DEF TookBoth
<1>11. "G" \notin flags /\ "E" \notin flags
  <2>1. flags \subseteq FlagChars  BY <1>9, <1>10 DEF GivenFlags, FlagChars
  <2> QED  BY <2>1 DEF FlagChars
<1>12. PICK b : b = Append(args, v) /\ PrecisionOf(d, b) = precision /\ Last(b) = v
  BY <1>10, BothOnes
<1>13. ("G" \in fl <=> ch \in {"g", "G"}) /\ ("E" \in fl <=> ch \in {"e", "E"})
  BY ONLY <1>1, <1>2, <1>11, StyleMeans
<1>14. q \in Int /\ (q = IF "G" \in fl /\ precision = 0 THEN 1 ELSE precision)
       /\ ~("G" \in fl /\ "E" \in fl)
  BY <1>3, <1>9, <1>13 DEF FloatPrecision
<1>15. TooLargeFor(v, precision, "G" \in fl, "E" \in fl)
  BY ONLY <1>4, <1>5, <1>9, <1>14, DecimalTooLarge
<1>16. TooLargeFor(v, precision, d.conv \in {"g", "G"}, d.conv \in {"e", "E"})
  <2>1. ("G" \in fl) = (d.conv \in {"g", "G"}) /\ ("E" \in fl) = (d.conv \in {"e", "E"})
    BY <1>7, <1>13
  <2> QED  BY ONLY <1>15, <2>1, Zenon
<1>17. cast(IF InEStyle(d, b) THEN Scaled(v, 99) ELSE v) = UINTMAX_MAX
  BY ONLY <1>1, <1>7, <1>12, <1>16, TooLargeSaid
<1>18. b = args' /\ directives'[k + 1] = d /\ Len(fields') + 1 = k + 1
  BY <1>1, <1>4, <1>6, <1>7, <1>12
<1>19. IsFloat(d)  BY <1>1, <1>7 DEF IsFloat
<1> QED  BY <1>1, <1>8, <1>12, <1>17, <1>18, <1>19 DEF GaveUp

(* What the machine has made of the format so far: every directive that is *)
(* over had a conversion and numbers that fit, and it only gives up for a  *)
(* reason.                                                                 *)
Failed == (\E i \in DOMAIN directives : Unrepresentable(directives[i])) \/ GaveUp
AllDone ==
  ~Failed /\ Len(fields) = Cardinality({i \in DOMAIN directives : directives[i].conv # ""})
Fits(d) == d.conv # "" /\ ~Unrepresentable(d)
FieldsFit == \A i \in 1..Len(fields) : Fits(directives[i])
Stopped == {"OUT", "RETURNED"}
Judged ==
  /\ FieldsFit
  /\ state = "OUT" => overflow /\ Failed
  /\ state = "RETURNED" => IF overflow THEN Failed ELSE AllDone
  /\ state \notin Stopped => ~overflow

LEMMA GoingOn ==
  ASSUME Judged, NEW s, Quiet(s), s \notin Stopped, state' \notin Stopped, overflow' = overflow
  PROVE  Judged'
<1>1. directives' = directives /\ fields' = fields /\ state = s  BY DEF Quiet, fixed
<1> QED  BY <1>1 DEF Judged, FieldsFit, Stopped

LEMMA GivingUp ==
  ASSUME Judged, NEW s, Quiet(s), state' = "OUT", overflow' = TRUE, Failed'
  PROVE  Judged'
<1>1. directives' = directives /\ fields' = fields  BY DEF Quiet, fixed
<1> QED  BY <1>1 DEF Judged, FieldsFit, Stopped

LEMMA TooLargeFails ==
  ASSUME NEW k, k + 1 \in DOMAIN directives, Unrepresentable(directives[k + 1]), directives' = directives
  PROVE  Failed'
BY DEF Failed

LEMMA WidthDigitJudged == ASSUME Typed, Tracked, Judged, WidthDigit PROVE Judged'
<1>1. Quiet("WIDTH") /\ ISDIGIT(ch) /\ directives' = directives  BY DEF WidthDigit, Quiet, fixed
<1>2. WellFormed(directives) /\ width \in Nat
      /\ Parsed(directives, Len(fields), "WIDTH", ch, format, flags, cflags, width, precision, args)
  BY <1>1, QuietMeans
<1>3. CASE TooLarge(width)
  <2>1. overflow' = TRUE /\ state' = "OUT"  BY <1>3 DEF WidthDigit
  <2>2. width > (INT_MAX - CHARTOINT(ch)) \div 10  BY <1>3 DEF TooLarge
  <2>3. PICK k : k = Len(fields)  OBVIOUS
  <2>4. Parsed(directives, k, "WIDTH", ch, format, flags, cflags, width, precision, args)
    BY <1>2, <2>3
  <2>5. k + 1 \in DOMAIN directives /\ Unrepresentable(directives[k + 1])
    BY ONLY <1>1, <1>2, <2>2, <2>4, WidthTooLarge
  <2>6. Failed'  BY ONLY <1>1, <2>5, TooLargeFails
  <2> QED  BY <1>1, <2>1, <2>6, GivingUp
<1>4. CASE ~TooLarge(width)
  <2>1. state' = state /\ overflow' = overflow  BY <1>4 DEF WidthDigit
  <2>2. "WIDTH" \notin Stopped /\ state' \notin Stopped  BY <1>1, <2>1 DEF Quiet, Stopped
  <2> QED  BY <1>1, <2>1, <2>2, GoingOn
<1> QED  BY <1>3, <1>4

LEMMA PrecisionDigitJudged == ASSUME Typed, Tracked, Judged, PrecisionDigit PROVE Judged'
<1>1. Quiet("PRECISION") /\ ISDIGIT(ch) /\ directives' = directives
  BY DEF PrecisionDigit, Quiet, fixed
<1>2. WellFormed(directives)
      /\ Parsed(directives, Len(fields), "PRECISION", ch, format, flags, cflags, width,
                precision, args)
  BY <1>1, PrecisionMeans
<1>3. PICK q \in Nat : q = Larger(precision, 0)  BY <1>1, PrecisionMeans
<1>4. CASE TooLarge(q)
  <2>1. overflow' = TRUE /\ state' = "OUT"  BY <1>3, <1>4 DEF PrecisionDigit
  <2>2. q > (INT_MAX - CHARTOINT(ch)) \div 10  BY <1>4 DEF TooLarge
  <2>3. PICK k : k = Len(fields)  OBVIOUS
  <2>4. Parsed(directives, k, "PRECISION", ch, format, flags, cflags, width, precision, args)
    BY <1>2, <2>3
  <2>5. k + 1 \in DOMAIN directives /\ Unrepresentable(directives[k + 1])
    BY ONLY <1>1, <1>2, <1>3, q \in Nat, <2>2, <2>4, PrecisionTooLarge
  <2>6. Failed'  BY ONLY <1>1, <2>5, TooLargeFails
  <2> QED  BY <1>1, <2>1, <2>6, GivingUp
<1>5. CASE ~TooLarge(q)
  <2>1. state' = state /\ overflow' = overflow  BY <1>3, <1>5 DEF PrecisionDigit
  <2>2. "PRECISION" \notin Stopped /\ state' \notin Stopped  BY <1>1, <2>1 DEF Quiet, Stopped
  <2> QED  BY <1>1, <2>1, <2>2, GoingOn
<1> QED  BY <1>4, <1>5

\* The turns that neither produce anything nor give up.
Moving ==
  \/ Percent \/ Flags \/ WidthArgument \/ NoWidth \/ Dot \/ PrecisionArgument \/ NoPrecision
  \/ Modifier
LEMMA MovingJudged == ASSUME Judged, Moving PROVE Judged'
<1>1. \E s \in {"DEFAULT", "FLAGS", "WIDTH", "DOT", "PRECISION", "MOD"} :
        Quiet(s) /\ overflow' = overflow /\ state' \notin Stopped
  <2>1. CASE Percent            BY <2>1 DEF Percent, Stopped
  <2>2. CASE Flags              BY <2>2 DEF Flags, Quiet, Stopped
  <2>3. CASE WidthArgument      BY <2>3 DEF WidthArgument, Stopped
  <2>4. CASE NoWidth            BY <2>4 DEF NoWidth, Stopped
  <2>5. CASE Dot                BY <2>5 DEF Dot, Stopped
  <2>6. CASE PrecisionArgument  BY <2>6 DEF PrecisionArgument, Stopped
  <2>7. CASE NoPrecision        BY <2>7 DEF NoPrecision, Stopped
  <2>8. CASE Modifier           BY <2>8 DEF Modifier, Stopped
  <2> QED  BY <2>1, <2>2, <2>3, <2>4, <2>5, <2>6, <2>7, <2>8 DEF Moving
<1>2. PICK s : /\ s \in {"DEFAULT", "FLAGS", "WIDTH", "DOT", "PRECISION", "MOD"}
               /\ Quiet(s) /\ overflow' = overflow /\ state' \notin Stopped
  BY <1>1
<1>3. s \notin Stopped  BY <1>2 DEF Stopped
<1> QED  BY <1>2, <1>3, GoingOn

LEMMA FloatJudged == ASSUME Typed, Tracked, Judged, FloatTooLarge PROVE Judged'
<1>1. Quiet("CONV") /\ state' = "OUT" /\ overflow' = TRUE  BY DEF FloatTooLarge
<1>2. Failed'  BY FloatGivesUp DEF Failed
<1> QED  BY <1>1, <1>2, GivingUp

\* One more directive is over.
LEMMA ProduceJudged ==
  ASSUME Tracked, Judged, NEW k, k = Len(fields), NEW s, s \notin Stopped, NEW taken, NEW chars,
         Produce(s, taken, chars), state' = "DEFAULT", Fits(directives[k + 1])
  PROVE  Judged'
<1>1. IsSeq(fields)  BY DEF Tracked, AllSeqs
<1>2. k \in Nat  BY <1>1, Seqs
<1>3. directives' = directives /\ overflow' = overflow /\ state = s  BY DEF Produce, fixed
<1>4. PICK r : fields' = Append(fields, r)  BY DEF Produce
<1>5. Len(fields') = k + 1  BY <1>1, <1>4, AppendIsSeq
<1>6. FieldsFit'
  <2>1. ASSUME NEW i \in 1..(k + 1) PROVE Fits(directives[i])
    <3>1. i \in 1..k \/ i = k + 1  BY ONLY <1>2, i \in 1..(k + 1)
    <3> QED  BY <3>1 DEF Judged, FieldsFit
  <2> QED  BY <1>3, <1>5, <2>1 DEF FieldsFit
<1> QED  BY <1>3, <1>6 DEF Judged, Stopped

LEMMA NumbersMean ==
  ASSUME Typed
  PROVE  width \in Nat /\ width <= INT_MAX /\ precision \in Int /\ precision <= INT_MAX
<1>1. Numbers  BY DEF Typed, TypeOK, Numbers
<1> QED  BY ONLY <1>1, IntMax DEF Numbers

LEMMA LiteralFits == ASSUME NEW d, IsDirective(d), d.conv = "literal" PROVE Fits(d)
<1>1. d.width = 0 /\ d.precision = -1
  <2>1. ~ \E f \in 1..Len(d.text) : \E w \in f..Len(d.text) :
            \E p \in w..Len(d.text) : \E m \in p..Len(d.text) : LaidOut(d, f, w, p, m)
    BY DEF LaidOut
  <2> QED  BY <2>1 DEF IsDirective
<1>2. ~Unrepresentable(d)  BY <1>1, IntMax DEF Unrepresentable
<1> QED  BY <1>2 DEF Fits

LEMMA LiteralJudged == ASSUME Typed, Tracked, Judged, Literal PROVE Judged'
<1>1. /\ Produce("DEFAULT", <<>>, <<ch>>) /\ state = "DEFAULT" /\ ch # NUL /\ ch # "%"
      /\ state' = state
  BY DEF Literal, Produce
<1>2. WellFormed(directives)  BY DEF Tracked
<1>3. PICK k : k = Len(fields)  OBVIOUS
<1>4. Between(directives, k, ch, format, flags, cflags, width, precision, args)
  BY <1>1, <1>3 DEF Tracked, ParsedSoFar, Parsed, Midway
<1>5. k \in Nat /\ k <= Len(directives) /\ At(directives, k, 0, ch, format)  BY <1>4 DEF Between
<1>6. k < Len(directives) /\ directives[k + 1].conv = "literal"  BY <1>1, <1>2, <1>5, Begins
<1>7. IsDirective(directives[k + 1])
  <2>1. IsSeq(directives)  BY <1>2 DEF WellFormed, AllTexts
  <2>2. PICK n \in Nat : n = Len(directives)  BY <2>1, Seqs
  <2>3. k + 1 \in 1..n  BY <1>5, <1>6, <2>2
  <2> QED  BY <1>2, <2>2, <2>3 DEF WellFormed
<1>8. Fits(directives[k + 1])  BY <1>6, <1>7, LiteralFits
<1>9. "DEFAULT" \notin Stopped  BY DEF Stopped
<1> QED  BY <1>1, <1>3, <1>8, <1>9, ProduceJudged

LEMMA ConversionJudged == ASSUME Typed, Tracked, Judged, Conversion PROVE Judged'
<1>1. \E taken, chars : Convert(taken, chars)
  BY DEF Conversion, ConvertSigned, ConvertUnsigned, ConvertFloat, ConvertString,
         ConvertChar, ConvertPointer, ConvertCount, ConvertPercent, Skip
<1>2. PICK taken, chars : Produce("CONV", taken, chars) /\ state' = "DEFAULT"
  BY <1>1 DEF Convert
<1>3. state = "CONV" /\ ch # NUL  BY <1>2 DEF Produce
<1>4. PICK k : k = Len(fields)  OBVIOUS
<1>5. WellFormed(directives)
      /\ Parsed(directives, k, "CONV", ch, format, flags, cflags, width, precision, args)
  BY <1>3, <1>4 DEF Tracked, ParsedSoFar
<1>6. PICK d, f, w, p, m, t, j :
        /\ Reading(directives, k, d, f, w, p, m, t, j, ch, format)
        /\ Midway("CONV", d, f, w, p, m, j, flags, cflags, width, precision, args)
  BY ONLY <1>5, MidwayParsed
<1>7. InConv(d, m, j, flags, cflags, width, precision, args)  BY ONLY <1>6 DEF Midway
<1>8. TookBoth(d, flags, width, precision, args) /\ j = m  BY <1>7 DEF InConv
<1>9. ~Unrepresentable(d)
  <2>1. width \in Int /\ width <= INT_MAX /\ precision \in Int /\ precision <= INT_MAX
    BY NumbersMean
  <2> QED  BY ONLY <1>8, <2>1, FitsWhenTaken
<1>10. ch = CharAt(d, j) /\ ShapeEnd(d, m)  BY ONLY <1>5, <1>6, ReadingMeans
<1>11. d.conv # ""  BY <1>3, <1>8, <1>10 DEF ShapeEnd
<1>12. d = directives[k + 1]  BY <1>5, <1>6, ReadingPlace
<1>13. Fits(directives[k + 1])  BY <1>9, <1>11, <1>12 DEF Fits
<1>14. "CONV" \notin Stopped  BY DEF Stopped
<1> QED  BY <1>2, <1>4, <1>13, <1>14, ProduceJudged

\* The directives that have a conversion, if only the one behind the k-th has none.
LEMMA UpTo == ASSUME NEW k \in Nat PROVE Cardinality(1..k) = k
<1>1. PICK one \in Int : one = 1  OBVIOUS
<1>2. k \in Int  OBVIOUS
<1>3. Cardinality(one..k) = IF one > k THEN 0 ELSE k - one + 1  BY <1>2, FS_Interval
<1>4. (IF one > k THEN 0 ELSE k - one + 1) = k  BY <1>1
<1> QED  BY <1>1, <1>3, <1>4

WithConversion(ds) == {i \in DOMAIN ds : ds[i].conv # ""}
LEMMA AllButLast ==
  ASSUME NEW n \in Nat, NEW k \in Nat, k = n \/ k + 1 = n, NEW ds, DOMAIN ds = 1..n,
         \A i \in 1..k : Fits(ds[i]), k # n => ds[k + 1].conv = "" /\ ~Unrepresentable(ds[k + 1])
  PROVE  /\ ~ \E i \in DOMAIN ds : Unrepresentable(ds[i])
         /\ Cardinality(WithConversion(ds)) = k
<1>1. \A i \in 1..n : i \in 1..k \/ (k # n /\ i = k + 1)
  BY ONLY k = n \/ k + 1 = n, n \in Nat, k \in Nat
<1>2. ~ \E i \in DOMAIN ds : Unrepresentable(ds[i])  BY <1>1 DEF Fits
<1>3. WithConversion(ds) = 1..k
  <2>1. \A i \in 1..k : i \in 1..n  BY ONLY k = n \/ k + 1 = n, n \in Nat, k \in Nat
  <2>2. \A i \in 1..k : i \in WithConversion(ds)  BY <2>1 DEF Fits, WithConversion
  <2>3. \A i \in WithConversion(ds) : i \in 1..k
    <3> SUFFICES ASSUME NEW i \in 1..n, ds[i].conv # "" PROVE i \in 1..k  BY DEF WithConversion
    <3> QED  BY <1>1
  <2> QED  BY <2>2, <2>3
<1>4. Cardinality(1..k) = k  BY UpTo
<1> QED  BY <1>2, <1>3, <1>4

LEMMA EndJudged ==
  ASSUME Typed, Tracked, Judged, ch = NUL, state \notin Stopped
  PROVE  AllDone
<1>1. WellFormed(directives) /\ ParsedSoFar /\ IsSeq(fields) /\ FieldsFit
  BY DEF Tracked, AllSeqs, Judged
<1>2. PICK n \in Nat : n = Len(directives) /\ DOMAIN directives = 1..n
  BY <1>1, Seqs DEF WellFormed, AllTexts
<1>3. PICK k \in Nat : k = Len(fields)  BY <1>1, Seqs
<1>4. Parsed(directives, k, state, ch, format, flags, cflags, width, precision, args)
  BY <1>1, <1>3 DEF ParsedSoFar
<1>5. (k = n \/ k + 1 = n) /\ (k # n => directives[k + 1].conv = "" /\ ~Unrepresentable(directives[k + 1]))
  <2>1. CASE Between(directives, k, ch, format, flags, cflags, width, precision, args)
    <3>1. k = Len(directives)
      BY ONLY <1>1, <2>1, ch = NUL, BetweenEnd
    <3> QED  BY <1>2, <3>1
  <2>2. CASE \E d, f, w, p, m, t, j :
               /\ Reading(directives, k, d, f, w, p, m, t, j, ch, format)
               /\ Midway(state, d, f, w, p, m, j, flags, cflags, width, precision, args)
    <3>1. PICK d, f, w, p, m, t, j :
            /\ Reading(directives, k, d, f, w, p, m, t, j, ch, format)
            /\ Midway(state, d, f, w, p, m, j, flags, cflags, width, precision, args)
      BY ONLY <2>2, Zenon
    <3>2. width \in Nat /\ width <= INT_MAX /\ precision \in Int /\ precision <= INT_MAX
      BY NumbersMean
    <3>3. d.conv = "" /\ ~Unrepresentable(d)
      BY ONLY <1>1, <3>1, <3>2, ch = NUL, UnfinishedEnd
    <3>4. d = directives[k + 1] /\ (d.conv = "" => k + 1 = Len(directives))
      BY ONLY <1>1, <3>1, ReadingPlace
    <3> QED  BY <1>2, <3>3, <3>4
  <2> QED  BY <1>4, <2>1, <2>2 DEF Parsed, Stopped
<1>6. \A i \in 1..k : Fits(directives[i])  BY <1>1, <1>3 DEF FieldsFit
<1>7. ~ \E i \in DOMAIN directives : Unrepresentable(directives[i])
  BY ONLY <1>2, <1>5, <1>6, n \in Nat, k \in Nat, AllButLast
<1>8. Cardinality(WithConversion(directives)) = k
  BY ONLY <1>2, <1>5, <1>6, n \in Nat, k \in Nat, AllButLast
<1>9. ~GaveUp
  <2>1. SUFFICES ASSUME GaveUp PROVE FALSE  OBVIOUS
  <2>2. k + 1 \in DOMAIN directives /\ IsFloat(directives[k + 1])  BY <1>3, <2>1 DEF GaveUp
  <2>3. k # n  BY <1>2, <2>2
  <2> QED  BY <1>5, <2>2, <2>3 DEF IsFloat, FloatConversions
<1> QED  BY <1>3, <1>7, <1>8, <1>9 DEF AllDone, Failed, WithConversion

LEMMA ReturnJudged == ASSUME Typed, Tracked, Judged, Return PROVE Judged'
<1>1. /\ directives' = directives /\ fields' = fields /\ args' = args /\ overflow' = overflow
      /\ state' = "RETURNED" /\ state # "RETURNED" /\ (ch = NUL \/ state = "OUT")
  BY DEF Return, fixed, directive
<1>2. (Failed <=> Failed') /\ (AllDone <=> AllDone')  BY <1>1 DEF Failed, AllDone, GaveUp
<1>3. FieldsFit'  BY <1>1 DEF Judged, FieldsFit
<1>4. IF overflow THEN Failed ELSE AllDone
  <2>1. CASE state = "OUT"  BY <2>1 DEF Judged
  <2>2. CASE state # "OUT"
    <3>1. state \notin Stopped  BY <1>1, <2>2 DEF Stopped
    <3>2. AllDone /\ ~overflow  BY <1>1, <2>2, <3>1, EndJudged DEF Judged
    <3> QED  BY <3>2
  <2> QED  BY <2>1, <2>2
<1> QED  BY <1>1, <1>2, <1>3, <1>4 DEF Judged, Stopped

LEMMA InitJudged == Init => Judged
<1> SUFFICES ASSUME Init PROVE Judged  OBVIOUS
<1>1. fields = <<>> /\ state = "DEFAULT" /\ overflow = FALSE  BY DEF Init
<1>2. Len(fields) = 0  BY <1>1, EmptyIsSeq
<1> QED  BY <1>1, <1>2 DEF Judged, FieldsFit, Stopped

LEMMA NextJudged == ASSUME Typed, Tracked, Judged, [Next]_vars PROVE Judged'
<1>1. CASE Literal            BY <1>1, LiteralJudged
<1>2. CASE Moving             BY <1>2, MovingJudged
<1>3. CASE WidthDigit         BY <1>3, WidthDigitJudged
<1>4. CASE PrecisionDigit     BY <1>4, PrecisionDigitJudged
<1>5. CASE Conversion         BY <1>5, ConversionJudged
<1>6. CASE FloatTooLarge      BY <1>6, FloatJudged
<1>7. CASE Return             BY <1>7, ReturnJudged
<1>8. CASE UNCHANGED vars
  <2>1. UNCHANGED <<directives, fields, state, overflow, args>>
    BY <1>8 DEF vars, fixed, directive
  <2> QED  BY <2>1 DEF Judged, FieldsFit, AllDone, Failed, GaveUp
<1> QED
  BY <1>1, <1>2, <1>3, <1>4, <1>5, <1>6, <1>7, <1>8 DEF Next, Step, Returned, Moving

(* The result of every call is the length of all the output, cut or not,   *)
(* or -1, and -1 exactly when it should be: LengthReturned, whatever the   *)
(* format, the arguments and the widths of the integer types.              *)
THEOREM ReturnsLength == Spec => []LengthReturned
<1>1. Typed /\ Filled /\ Tracked /\ Judged /\ [Next]_vars => Typed' /\ Filled' /\ Tracked' /\ Judged'
  BY NextTyped, NextFilled, NextTracked, NextJudged
<1>2. Init => Typed /\ Filled /\ Tracked /\ Judged
  BY InitTyped, InitFilled, InitTracked, InitJudged
<1>3. Filled /\ Judged => LengthReturned
  <2> SUFFICES ASSUME Filled, Judged, Finished PROVE
        IF Failed THEN result = -1
        ELSE /\ result = IF Len(Full) >= INT_MAX THEN -1 ELSE Len(Full)
             /\ Len(fields) = Cardinality({i \in DOMAIN directives : directives[i].conv # ""})
    BY DEF LengthReturned, Failed
  <2>1. Returns  BY DEF Filled, Going, Finished
  <2>2. IF overflow THEN Failed ELSE AllDone  BY DEF Judged, Finished
  <2> QED  BY <2>1, <2>2 DEF Returns, AllDone
<1> QED  BY <1>1, <1>2, <1>3, PTL DEF Spec

(* What FloatReadsBack says of a field.                                    *)
FloatReads(d, a, out) ==
  LET v == Last(a)        p == AskedPrecision(d, a)
      marks  == {k \in DOMAIN out : out[k] \in {"e", "E"}}
      mark   == IF marks = {} THEN Len(out) + 1 ELSE CHOOSE k \in marks : TRUE
      number == SubSeq(out, 1, mark - 1)
      places == Cardinality({k \in DOMAIN number : /\ ISDIGIT(number[k])
                                                   /\ \E j \in 1..(k - 1) : number[j] = "."})
      read   == NumberIn(number, 10)
      power  == IF marks = {} THEN 0
                ELSE (10 * CHARTOINT(out[mark + 2]) + CHARTOINT(out[mark + 3]))
                       * (IF out[mark + 1] = "-" THEN -1 ELSE 1)
      x      == Exponent(v, p)
      asked  == IF InEStyle(d, a) \/ d.conv \notin {"g", "G"} THEN p ELSE p - x
      rest   == asked - places
  IN IsFloat(d) /\ v.kind = "finite" /\ ~Extreme(v) /\ asked <= MaxDigits =>
       /\ Contains(number, "-") = (v.neg /\ v.m > 0)
       /\ (marks # {}) = InEStyle(d, a)
       /\ marks # {} => power = x
       /\ rest >= 0 /\ read * Power(10, rest) = InUnits(v, power - asked)
       /\ IF d.conv \in {"g", "G"} /\ "#" \notin d.flags
          THEN places = 0 \/ read % 10 # 0
          ELSE rest = 0
       /\ Len(out) >= WidthOf(d, a)

\* A field that says what was asked reads back.
LEMMA SaidReads ==
  ASSUME NEW d, NEW a, NEW out, NEW v, v = Last(a), v \in Finite,
         NEW x, x = Exponent(v, AskedPrecision(d, a)), NEW styled, styled <=> InEStyle(d, a),
         NEW asked, asked = PlacesAsked(AskedPrecision(d, a), x, styled, d.conv \in {"g", "G"}),
         NEW omit, omit <=> (d.conv \in {"g", "G"} /\ "#" \notin d.flags),
         FloatSays(out, v, styled, x, asked, omit, WidthOf(d, a))
  PROVE  FloatReads(d, a, out)
<1>1. asked = IF InEStyle(d, a) \/ d.conv \notin {"g", "G"} THEN AskedPrecision(d, a)
              ELSE AskedPrecision(d, a) - x
  BY DEF PlacesAsked
<1> DEFINE marks  == {k \in DOMAIN out : out[k] \in {"e", "E"}}
           mark   == IF marks = {} THEN Len(out) + 1 ELSE CHOOSE k \in marks : TRUE
           number == SubSeq(out, 1, mark - 1)
           places == Cardinality({k \in DOMAIN number : /\ ISDIGIT(number[k])
                                                        /\ \E j \in 1..(k - 1) : number[j] = "."})
           read   == NumberIn(number, 10)
           power  == IF marks = {} THEN 0
                     ELSE (10 * CHARTOINT(out[mark + 2]) + CHARTOINT(out[mark + 3]))
                            * (IF out[mark + 1] = "-" THEN -1 ELSE 1)
           rest   == asked - places
           Said   == /\ Contains(number, "-") <=> (v.neg /\ v.m > 0)
                     /\ marks # {} <=> styled
                     /\ marks # {} => power = x
                     /\ rest >= 0 /\ read * Power(10, rest) = InUnits(v, power - asked)
                     /\ IF omit THEN places = 0 \/ read % 10 # 0 ELSE rest = 0
                     /\ Len(out) >= WidthOf(d, a)
           Meant  == /\ Contains(number, "-") = (v.neg /\ v.m > 0)
                     /\ (marks # {}) = InEStyle(d, a)
                     /\ marks # {} => power = x
                     /\ rest >= 0 /\ read * Power(10, rest) = InUnits(v, power - asked)
                     /\ IF d.conv \in {"g", "G"} /\ "#" \notin d.flags
                        THEN places = 0 \/ read % 10 # 0
                        ELSE rest = 0
                     /\ Len(out) >= WidthOf(d, a)
<1>2. Said  BY ONLY FloatSays(out, v, styled, x, asked, omit, WidthOf(d, a)), Zenon
              DEF FloatSays, Marks, BehindPoint, PowerAt
<1>3. v.neg \in BOOLEAN  BY DEF Finite
<1>4. Contains(number, "-") \in BOOLEAN  BY DEF Contains
<1>5. InEStyle(d, a) \in BOOLEAN  BY DEF InEStyle
<1>6. Meant
  <2> HIDE DEF marks, number, places, read, power, rest
  <2>1. Contains(number, "-") = (v.neg /\ v.m > 0)  BY <1>2, <1>3, <1>4
  <2>2. (marks # {}) = InEStyle(d, a)  BY <1>2, <1>5
  <2>3. IF d.conv \in {"g", "G"} /\ "#" \notin d.flags THEN places = 0 \/ read % 10 # 0 ELSE rest = 0
    BY <1>2
  <2> QED  BY <1>2, <2>1, <2>2, <2>3
<1>7. Meant => FloatReads(d, a, out)
  <2>1. x = Exponent(Last(a), AskedPrecision(d, a))  OBVIOUS
  <2> QED  BY <1>1, <2>1, Zenon DEF FloatReads
<1> QED  BY <1>6, <1>7

LEMMA ShownReads ==
  ASSUME NEW d, NEW a, NEW out, Asked(d, a), d.conv \in FloatConversions, ShowsFloat(d, a, out)
  PROVE  FloatReads(d, a, out)
<1>1. PICK v, p, x, given, fl, q, e :
        /\ v = Last(a) /\ p = PrecisionOf(d, a) /\ x = Exponent(v, AskedPrecision(d, a))
        /\ given = GivenFlags(d, a) /\ fl = given \cup Style(d.conv)
        /\ q = (IF d.conv \in {"g", "G"} /\ p = 0 THEN 1 ELSE p)
        /\ e = Decimal(v, q, fl)
  OBVIOUS
<1>2. PICK styled \in BOOLEAN : styled = InEStyle(d, a)  BY DEF InEStyle
<1>3. PICK asked : asked = PlacesAsked(AskedPrecision(d, a), x, styled, d.conv \in {"g", "G"})
  OBVIOUS
<1>4. v \in Float /\ ~e.overflow /\ out = fmtflt(v, e, WidthOf(d, a), fl)
  BY <1>1 DEF ShowsFloat
<1>5. CASE v \in Finite /\ ~Extreme(v) /\ asked <= MaxDigits
  <2>1. Usual(v)  BY <1>5 DEF Usual, Extreme
  <2>2. p \in Int /\ p >= -1 /\ WidthOf(d, a) \in Int  BY <1>1 DEF Asked
  <2>3. "G" \notin given /\ "E" \notin given /\ ("#" \in given <=> "#" \in d.flags)
    BY <1>1 DEF Asked, GivenFlags, FlagChars
  <2>4. ("G" \in fl <=> d.conv \in {"g", "G"}) /\ ("E" \in fl <=> d.conv \in {"e", "E"})
    BY ONLY <1>1, <2>3, d.conv \in FloatConversions, StyleMeans
  <2>5. "#" \in fl <=> "#" \in d.flags
    <3>1. "#" \notin Style(d.conv)
      <4>1. \A c \in FloatConversions : "#" \notin Style(c)
        BY DEF FloatConversions, Style
      <4> QED  BY <4>1
    <3> QED  BY <1>1, <2>3, <3>1
  <2>6. q \in Int /\ q = (IF "G" \in fl /\ p = 0 THEN 1 ELSE p) /\ ~("G" \in fl /\ "E" \in fl)
    BY <1>1, <2>2, <2>4
  <2>7. ("G" \in fl) = (d.conv \in {"g", "G"})  BY <2>4
  <2>8. PICK P : P = AskedPrecision(d, a) /\ P = FloatAsked(p, d.conv \in {"g", "G"})
    BY <1>1 DEF AskedPrecision, FloatAsked
  <2>9. P = FloatAsked(p, "G" \in fl)  BY ONLY <2>7, <2>8
  <2>10. x = Exponent(v, P) /\ asked = PlacesAsked(P, x, styled, "G" \in fl)
    BY ONLY <1>1, <1>3, <2>7, <2>8
  <2>11. styled <=> ("E" \in fl \/ ("G" \in fl /\ (x < -4 \/ x > P)))
    BY <1>1, <1>2, <2>4, <2>8, <2>10 DEF InEStyle
  <2>12. Digital(e, v, styled, x, asked)
    BY ONLY <1>1, <1>4, <1>5, <2>1, <2>2, <2>6, <2>9, <2>10, <2>11, DecimalDigits
  <2>13. x \in -99..99  BY <1>5, <2>1, <2>10, ReferenceUsual
  <2>14. PICK omit : omit = ("G" \in fl /\ "#" \notin fl)  OBVIOUS
  <2>15. FloatSays(out, v, styled, x, asked, omit, WidthOf(d, a))
    BY ONLY <1>4, <1>5, <2>2, <2>12, <2>13, <2>14, FloatField
  <2>16. omit <=> (d.conv \in {"g", "G"} /\ "#" \notin d.flags)  BY ONLY <2>4, <2>5, <2>14
  <2> QED  BY ONLY <1>1, <1>2, <1>3, <1>5, <2>15, <2>16, SaidReads
<1>6. CASE ~(v \in Finite /\ ~Extreme(v) /\ asked <= MaxDigits)
  <2>1. asked = IF InEStyle(d, a) \/ d.conv \notin {"g", "G"} THEN AskedPrecision(d, a)
                ELSE AskedPrecision(d, a) - x
    BY <1>2, <1>3 DEF PlacesAsked
  <2>2. v.kind = "finite" => v \in Finite  BY <1>4 DEF Float
  <2> QED  BY <1>1, <1>6, <2>1, <2>2 DEF FloatReads
<1> QED  BY <1>5, <1>6

(* Every floating point field reads back as the value that was passed, to  *)
(* the digits and in the style that were asked for: FloatReadsBack, for    *)
(* all formats, values and integer widths.                                 *)
THEOREM ShowsFloats == Spec => []FloatReadsBack
<1>1. ASSUME Tracked PROVE FloatReadsBack
  <2>1. ASSUME NEW i \in DOMAIN fields, NEW d, d = directives[i], NEW a, a = fields[i].args,
               NEW out, out = fields[i].out
        PROVE  FloatReads(d, a, out)
    <3>1. CASE d.conv \in FloatConversions
      <4>1. FieldFollows(d, a, out)  BY <1>1, <2>1, <3>1, TrackedShows
      <4>2. Asked(d, a) /\ ShowsFloat(d, a, out)  BY <3>1, <4>1 DEF FieldFollows
      <4> QED  BY <3>1, <4>2, ShownReads
    <3>2. CASE d.conv \notin FloatConversions
      <4>1. ~IsFloat(d)  BY <3>2 DEF IsFloat
      <4> QED  BY <4>1 DEF FloatReads
    <3> QED  BY <3>1, <3>2
  <2>2. \A i \in DOMAIN fields : FloatReads(directives[i], fields[i].args, fields[i].out)  BY <2>1
  <2> QED  BY ONLY <2>2, Zenon DEF FloatReads, FloatReadsBack
<1>2. Tracked => FloatReadsBack  BY <1>1
<1> QED  BY <1>2, TrackedAlways, PTL
=============================================================================
