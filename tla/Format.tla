------------------------------- MODULE Format -------------------------------
(***************************************************************************)
(* mt_vsnprintf (vsnprintf.c), which formats every debug trace into the    *)
(* 256 bytes of trace_buf: the machine that reads the format, the integer  *)
(* and the string conversions, and the writer that stops at the end of the *)
(* buffer and goes on counting.                                            *)
(*                                                                         *)
(* Characters are strings of length one.  A format is a sequence of        *)
(* directives, records that keep what the program asked for next to the    *)
(* text the code reads; a literal character is a directive of its own.     *)
(* Arguments are chosen when va_arg takes them.                            *)
(***************************************************************************)
EXTENDS Conversions

CONSTANTS
  Formats,    \* the formats: sequences of directives
  Sizes,      \* the sizes of the buffer; 0 stands for the null pointer too
  Widths,     \* the int arguments for a "*"
  Ints,       \* the arguments of integer conversions, as unbounded numbers
  Floats,     \* those of floating point conversions
  Texts       \* the strings that are arguments of %s

INT_MAX == Power(2, Bits["int"] - 1) - 1

\* -INT_MIN is undefined (line 478).
ASSUME ArgsAssumption ==
  /\ Sizes \subseteq Nat
  /\ Widths \subseteq -INT_MAX .. INT_MAX
  /\ Ints \subseteq Int
  /\ Floats \subseteq Float
  /\ \A t \in Texts : t = NULL \/ t \in Seq(STRING)

VARIABLES
  directives, \* history: the format, as directives
  format,     \* its characters that have not been read
  ch,         \* the character read last
  state,      \* where the machine is: PRINT_S_..., or "OUT", "RETURNED"
  flags,      \* flag characters, and UP and UNSIGNED
  cflags,     \* the type of an integer argument
  base,       \* of an unsigned integer, 0 as long as it is not known
  width, precision,
  overflow,
  len,        \* characters produced
  size,       \* of the buffer
  str,        \* the buffer and the byte after it
  result,     \* what was returned
  args,       \* history: the arguments of the directive being read
  fields      \* history: of each directive that is over, its arguments and output

directive == <<flags, cflags, base, width, precision, args>>
fixed == <<directives, size>>
vars == <<fixed, format, ch, state, directive, len, str, overflow, result, fields>>

NUL == "nul"             \* '\0'
Untouched == "untouched" \* what a byte of the buffer was before
None == 100              \* result before the return
FlagChars == {"-", "+", " ", "#", "0", "'"}

-----------------------------------------------------------------------------
(* OUTCHAR for each of chars: written only below the last byte, counted in *)
(* any case.                                                               *)
Stored_Short(i) == i + 2 < size
Stored(i) == i + 1 < size
Reached(i, chars) == i \in len .. len + Len(chars) - 1
Count(chars) == len' = len + Len(chars)
OUT(chars) ==
  /\ Count(chars)
  /\ str' = [i \in DOMAIN str |->
               IF Stored(i) /\ Reached(i, chars) THEN chars[i - len + 1] ELSE str[i]]

Read == ch' = Head(format) /\ format' = Tail(format)

Text(ds) == FlattenSeq([i \in DOMAIN ds |-> ds[i].text])
ASSUME FormatsAssumption == \A ds \in Formats : Text(ds) \in Seq(STRING)

Init ==
  /\ directives \in Formats
  /\ size \in Sizes
  /\ LET text == Text(directives) \o <<NUL>>
     IN ch = Head(text) /\ format = Tail(text)
  /\ state = "DEFAULT" /\ flags = {} /\ cflags = "" /\ base = 0
  /\ width = 0 /\ precision = -1
  /\ overflow = FALSE /\ len = 0 /\ result = None
  /\ str = [i \in 0..size |-> Untouched]
  /\ args = <<>> /\ fields = <<>>

\* A turn of the loop in state s that produces no character.
Quiet(s) == state = s /\ ch # NUL /\ UNCHANGED <<fixed, len, str, result, fields>>

\* A turn that ends a directive: what it took and what it produced.
Produce(s, taken, chars) ==
  /\ state = s /\ ch # NUL
  /\ OUT(chars)
  /\ fields' = Append(fields, [args |-> taken, out |-> chars])
  /\ UNCHANGED <<fixed, overflow, result>>

-----------------------------------------------------------------------------
Literal ==
  /\ Produce("DEFAULT", <<>>, <<ch>>)
  /\ ch # "%"
  /\ Read
  /\ UNCHANGED <<state, directive>>

Percent ==
  /\ Quiet("DEFAULT")
  /\ ch = "%"
  /\ Read
  /\ state' = "FLAGS"
  /\ UNCHANGED <<directive, overflow>>

Flags ==
  /\ Quiet("FLAGS")
  /\ IF ch \in FlagChars
     THEN flags' = flags \cup {ch} /\ Read /\ UNCHANGED state
     ELSE state' = "WIDTH" /\ UNCHANGED <<flags, ch, format>>
  /\ UNCHANGED <<cflags, base, width, precision, args, overflow>>

TooLarge_Coarse(n) == n > INT_MAX \div 10
TooLarge(n) == n > (INT_MAX - CHARTOINT(ch)) \div 10

WidthDigit ==
  /\ Quiet("WIDTH")
  /\ ISDIGIT(ch)
  /\ IF TooLarge(width)
     THEN overflow' = TRUE /\ state' = "OUT" /\ UNCHANGED <<width, ch, format>>
     ELSE width' = 10 * width + CHARTOINT(ch) /\ Read /\ UNCHANGED <<state, overflow>>
  /\ UNCHANGED <<flags, cflags, base, precision, args>>

WidthArgument_Negative ==
  /\ Quiet("WIDTH")
  /\ ch = "*"
  /\ \E w \in Widths : width' = w /\ flags' = flags /\ args' = Append(args, w)
  /\ Read
  /\ state' = "DOT"
  /\ UNCHANGED <<cflags, base, precision, overflow>>

WidthArgument ==
  /\ Quiet("WIDTH")
  /\ ch = "*"
  /\ \E w \in Widths :
       /\ width' = IF w < 0 THEN -w ELSE w
       /\ flags' = IF w < 0 THEN flags \cup {"-"} ELSE flags
       /\ args' = Append(args, w)
  /\ Read
  /\ state' = "DOT"
  /\ UNCHANGED <<cflags, base, precision, overflow>>

NoWidth ==
  /\ Quiet("WIDTH")
  /\ ~ISDIGIT(ch) /\ ch # "*"
  /\ state' = "DOT"
  /\ UNCHANGED <<ch, format, directive, overflow>>

Dot ==
  /\ Quiet("DOT")
  /\ IF ch = "." THEN state' = "PRECISION" /\ Read
                 ELSE state' = "MOD" /\ UNCHANGED <<ch, format>>
  /\ UNCHANGED <<directive, overflow>>

PrecisionDigit ==
  /\ Quiet("PRECISION")
  /\ ISDIGIT(ch)
  /\ LET p == Larger(precision, 0)
     IN IF TooLarge(p)
        THEN overflow' = TRUE /\ state' = "OUT" /\ precision' = p /\ UNCHANGED <<ch, format>>
        ELSE precision' = 10 * p + CHARTOINT(ch) /\ Read /\ UNCHANGED <<state, overflow>>
  /\ UNCHANGED <<flags, cflags, base, width, args>>

PrecisionArgument ==
  /\ Quiet("PRECISION")
  /\ ch = "*"
  /\ \E p \in Widths : precision' = Larger(p, -1) /\ args' = Append(args, p)
  /\ Read
  /\ state' = "MOD"
  /\ UNCHANGED <<flags, cflags, base, width, overflow>>

NoPrecision_Stuck ==
  /\ Quiet("PRECISION")
  /\ ~ISDIGIT(ch) /\ ch # "*"
  /\ precision' = Larger(precision, 0)
  /\ UNCHANGED <<state, ch, format, flags, cflags, base, width, args, overflow>>

NoPrecision ==
  /\ Quiet("PRECISION")
  /\ ~ISDIGIT(ch) /\ ch # "*"
  /\ precision' = Larger(precision, 0)
  /\ state' = "MOD"
  /\ UNCHANGED <<ch, format, flags, cflags, base, width, args, overflow>>

\* One modifier, of one letter or of the same two.
Modifier ==
  /\ Quiet("MOD")
  /\ \/ /\ ch \in {"h", "l"} /\ Head(format) = ch
        /\ cflags' = IF ch = "h" THEN "hh" ELSE "ll"
        /\ ch' = Head(Tail(format)) /\ format' = Tail(Tail(format))
     \/ /\ ch \in {"L", "j", "t", "z"} \/ (ch \in {"h", "l"} /\ Head(format) # ch)
        /\ cflags' = ch
        /\ Read
     \/ /\ ch \notin {"h", "l", "L", "j", "t", "z"}
        /\ UNCHANGED <<cflags, ch, format>>
  /\ state' = "CONV"
  /\ UNCHANGED <<flags, base, width, precision, args, overflow>>

-----------------------------------------------------------------------------
(* PRINT_S_CONV: each conversion is followed by the next character and the *)
(* state in which a directive starts.                                      *)
BaseOf(c) ==
  IF c \in {"x", "X"} THEN 16
  ELSE IF base # 0 THEN base
  ELSE IF c = "o" THEN 8 ELSE 10

Reset_Width ==
  /\ flags' = {} /\ cflags' = "" /\ base' = 0 /\ width' = width /\ precision' = -1 /\ args' = <<>>
Reset_Base ==
  /\ flags' = {} /\ cflags' = "" /\ width' = 0 /\ precision' = -1 /\ args' = <<>>
  /\ base' = IF ch \in {"x", "X", "o", "u"} THEN BaseOf(ch) ELSE base
Reset ==
  /\ flags' = {} /\ cflags' = "" /\ base' = 0 /\ width' = 0 /\ precision' = -1 /\ args' = <<>>
Convert(taken, chars) ==
  /\ Produce("CONV", taken, chars)
  /\ Read
  /\ state' = "DEFAULT"
  /\ Reset

ConvertSigned ==
  /\ ch \in {"d", "i"}
  /\ \E n \in Ints :
       Convert(Append(args, n),
               fmtint(Signed(n, ArgType(cflags)), 10, width, precision, flags))

ConvertUnsigned ==
  /\ ch \in {"x", "X", "o", "u"}
  /\ \E n \in Ints :
       LET fl == flags \cup {"UNSIGNED"} \cup IF ch = "X" THEN {"UP"} ELSE {}
       IN Convert(Append(args, n),
                  fmtint(Unsigned(n, ArgType(cflags)), BaseOf(ch), width, precision, fl))

ConvertString ==
  /\ ch = "s"
  /\ \E t \in Texts : Convert(Append(args, t), fmtstr(t, width, precision, flags))

\* The width and the flags of %c are not looked at.
ConvertChar ==
  /\ ch = "c"
  /\ Convert(Append(args, "c"), <<"c">>)

ConvertPointer ==
  /\ ch = "p"
  /\ \E n \in Ints :
       Convert(Append(args, n),
               IF Unsigned(n, "long") = 0 THEN fmtstr(Nil, width, -1, flags)
               ELSE fmtint(Unsigned(n, "long"), 16, width, precision,
                           flags \cup {"#", "UNSIGNED"}))

ConvertPercent == ch = "%" /\ Convert(args, <<"%">>)

(* %a is done as %f, which is all that %L changes: the two types of        *)
(* floating point arguments are not told apart.                            *)
Style(c) == CASE c \in {"f", "a"} -> {}          [] c \in {"F", "A"} -> {"UP"}
              [] c = "e"          -> {"E"}       [] c = "E"          -> {"E", "UP"}
              [] c = "g"          -> {"G"}       [] c = "G"          -> {"G", "UP"}
FloatConversions == {"f", "a", "F", "A", "e", "E", "g", "G"}
FloatPrecision(c) == IF c \in {"g", "G"} /\ precision = 0 THEN 1 ELSE precision

ConvertFloat ==
  /\ ch \in FloatConversions
  /\ LET p == FloatPrecision(ch)  fl == flags \cup Style(ch)
     IN \E v \in Floats : \E d \in {Decimal(v, p, fl)} :
          /\ ~d.overflow
          /\ \E chars \in {fmtflt(v, d, width, fl)} : Convert(Append(args, v), chars)

\* fmtflt gives up before it has produced anything.
FloatTooLarge ==
  /\ Quiet("CONV")
  /\ ch \in FloatConversions
  /\ LET p == FloatPrecision(ch)  fl == flags \cup Style(ch)
     IN /\ \E v \in Floats : Decimal(v, p, fl).overflow /\ args' = Append(args, v)
        /\ flags' = fl /\ precision' = p
  /\ overflow' = TRUE /\ state' = "OUT"
  /\ UNCHANGED <<ch, format, cflags, base, width>>

\* %n stores what has been counted so far in an integer of the type asked for.
ConvertCount ==
  /\ ch = "n"
  /\ Convert(Append(args, Signed(len, ArgType(cflags))), <<>>)

Conversions == {"d", "i", "x", "X", "o", "u", "s", "c", "p", "n", "%"} \cup FloatConversions
Skip == ch \notin Conversions /\ Convert(args, <<>>)

Conversion ==
  \/ ConvertSigned \/ ConvertUnsigned \/ ConvertFloat \/ ConvertString \/ ConvertChar
  \/ ConvertPointer \/ ConvertCount \/ ConvertPercent \/ Skip

(* out: the terminator, and the return.                                    *)
Terminated_AtEnd ==
  IF len <= size THEN [str EXCEPT ![len] = NUL] ELSE [str EXCEPT ![size - 1] = NUL]
Terminated ==
  IF len < size THEN [str EXCEPT ![len] = NUL]
  ELSE IF size > 0 THEN [str EXCEPT ![size - 1] = NUL] ELSE str
Return ==
  /\ state # "RETURNED" /\ (ch = NUL \/ state = "OUT")
  /\ state' = "RETURNED"
  /\ str' = Terminated
  /\ result' = IF overflow \/ len >= INT_MAX THEN -1 ELSE len
  /\ UNCHANGED <<fixed, format, ch, directive, len, overflow, fields>>

Step ==
  \/ Literal \/ Percent \/ Flags
  \/ WidthDigit \/ WidthArgument \/ NoWidth
  \/ Dot \/ PrecisionDigit \/ PrecisionArgument \/ NoPrecision
  \/ Modifier \/ Conversion \/ FloatTooLarge \/ Return
Returned == state = "RETURNED" /\ UNCHANGED vars

Next == Step \/ Returned
Spec == Init /\ [][Next]_vars

-----------------------------------------------------------------------------
(* What a directive is (C99 7.19.6.1), and what its record says of it: the *)
(* flags end at f of its text, the width at w, the precision at p, the     *)
(* modifier at m.  Only the properties look at the record; what the code   *)
(* does with other texts is in the model, but no property asks.            *)
Star == -2
Says(n, chars) ==
  IF n = Star THEN chars = <<"*">>
  ELSE NumberIn(chars, 10) = n /\ \A i \in DOMAIN chars : ISDIGIT(chars[i])
Letters == {"h", "l", "L", "j", "t", "z"}
Spelled(c) == CASE c = "" -> <<>> [] c = "hh" -> <<"h", "h">> [] c = "ll" -> <<"l", "l">>
                [] c \in Letters -> <<c>>
TypeNamed(c) == CASE c = "hh" -> "char" [] c = "h" -> "short" [] c \in {"", "L"} -> "int"
                  [] c \in {"l", "ll", "j", "t", "z"} -> "long"
LaidOut(d, f, w, p, m) ==
  /\ d.text[1] = "%"
  /\ d.flags = {d.text[i] : i \in 2..f} /\ d.flags \subseteq FlagChars
  /\ Says(d.width, SubSeq(d.text, f + 1, w)) /\ (w > f => d.text[f + 1] # "0")
  /\ IF p = w THEN d.precision = -1
     ELSE d.text[w + 1] = "." /\ Says(d.precision, SubSeq(d.text, w + 2, p))
  /\ \E c \in Letters \cup {"", "hh", "ll"} :
       /\ SubSeq(d.text, p + 1, m) = Spelled(c)
       /\ d.type = IF d.conv = "p" THEN "long" ELSE TypeNamed(c)
  /\ IF d.conv = "" THEN m = Len(d.text) ELSE m + 1 = Len(d.text) /\ d.text[m + 1] = d.conv
  /\ d.conv \notin FlagChars \cup Letters \cup {"*", ".", NUL, "literal"} /\ ~ISDIGIT(d.conv)
IsDirective(d) ==
  /\ d.text \in Seq(STRING)
  /\ \/ /\ d.conv = "literal" /\ Len(d.text) = 1 /\ d.text[1] \notin {"%", NUL}
        /\ d.width = 0 /\ d.precision = -1
     \/ \E f \in 1..Len(d.text) : \E w \in f..Len(d.text) :
         \E p \in w..Len(d.text) : \E m \in p..Len(d.text) : LaidOut(d, f, w, p, m)

\* Only the last directive of a format may be unfinished.
ASSUME LayoutAssumption ==
  \A ds \in Formats :
    /\ ds \in Seq({ds[i] : i \in DOMAIN ds})
    /\ \A i \in DOMAIN ds : IsDirective(ds[i]) /\ (ds[i].conv = "" => i = Len(ds))

(* What a directive asks for, from its record and the arguments it took.   *)
WidthOf(d, a) == IF d.width # Star THEN d.width ELSE IF a[1] < 0 THEN -a[1] ELSE a[1]
LeftOf(d, a)  == "-" \in d.flags \/ (d.width = Star /\ a[1] < 0)
PrecisionOf(d, a) ==
  IF d.precision # Star THEN d.precision
  ELSE Larger(a[IF d.width = Star THEN 2 ELSE 1], -1)
ValueOf(d, a) == IF d.conv \in {"d", "i"} THEN Signed(Last(a), d.type) ELSE Unsigned(Last(a), d.type)
Magnitude(d, a) == IF ValueOf(d, a) < 0 THEN -ValueOf(d, a) ELSE ValueOf(d, a)
NumberBase(d) == CASE d.conv \in {"d", "i", "u"} -> 10 [] d.conv = "o" -> 8 [] OTHER -> 16
IsNumber(d, a) == d.conv \in {"d", "i", "u", "o", "x", "X"} \/ (d.conv = "p" /\ ValueOf(d, a) # 0)
TextOf(d, a) == IF d.conv = "p" THEN Nil ELSE IF Last(a) = NULL THEN Null ELSE Last(a)

Full == FlattenSeq([i \in DOMAIN fields |-> fields[i].out])
Unrepresentable(d) == d.width > INT_MAX \/ d.precision > INT_MAX
Finished == state = "RETURNED"

(* What a floating point directive asks for.                               *)
IsFloat(d) == d.conv \in FloatConversions
AskedPrecision(d, a) ==
  LET p == IF PrecisionOf(d, a) = -1 THEN 6 ELSE PrecisionOf(d, a)
  IN Smaller(IF d.conv \in {"g", "G"} THEN Larger(p, 1) - 1 ELSE p, MaxDigits)
InEStyle(d, a) ==
  LET x == Exponent(Last(a), AskedPrecision(d, a))
  IN \/ d.conv \in {"e", "E"}
     \/ d.conv \in {"g", "G"} /\ (x < -4 \/ x > AskedPrecision(d, a))
\* No more than two digits of exponent are supported (line 1105).
Extreme(v) == v.m > 0 /\ NumDigits(v.m, 10) + v.e \notin -97 .. 99
GaveUp ==
  LET i == Len(fields) + 1
  IN /\ i \in DOMAIN directives /\ IsFloat(directives[i])
     /\ LET v == Last(args)
        IN cast(IF InEStyle(directives[i], args) THEN Scaled(v, 99) ELSE v) = UINTMAX_MAX

(* The characters of a field that are not padding.                         *)
SignLength(d, a) ==
  IF d.conv \in {"d", "i"} /\ (ValueOf(d, a) < 0 \/ d.flags \cap {"+", " "} # {}) THEN 1 ELSE 0
Alternate(d, a) == ("#" \in d.flags \/ d.conv = "p") /\ ValueOf(d, a) # 0
Digits(d, a) ==
  CHOOSE k \in 1..Bits["long"] :
    /\ Magnitude(d, a) < Power(NumberBase(d), k)
    /\ k = 1 \/ Magnitude(d, a) >= Power(NumberBase(d), k - 1)
FewestDigits(d, a) ==
  LET marked == Alternate(d, a) /\ d.conv = "o" /\ PrecisionOf(d, a) <= Digits(d, a)
  IN Digits(d, a) + IF marked THEN 1 ELSE 0
Separators(d, a) == IF "'" \in d.flags THEN (Digits(d, a) - 1) \div 3 ELSE 0
Natural(d, a) ==
  IF IsNumber(d, a)
  THEN SignLength(d, a) + (IF Alternate(d, a) /\ NumberBase(d) = 16 THEN 2 ELSE 0)
         + Larger(FewestDigits(d, a), PrecisionOf(d, a)) + Separators(d, a)
  ELSE IF d.conv = "s" /\ PrecisionOf(d, a) # -1
       THEN Smaller(PrecisionOf(d, a), Len(TextOf(d, a))) ELSE Len(TextOf(d, a))

-----------------------------------------------------------------------------
TypeOK ==
  /\ state \in {"DEFAULT", "FLAGS", "WIDTH", "DOT", "PRECISION", "MOD", "CONV", "OUT", "RETURNED"}
  /\ flags \subseteq FlagChars \cup {"UP", "E", "G"}
  /\ cflags \in {"", "hh", "h", "l", "ll", "L", "j", "t", "z"}
  /\ base \in {0, 8, 10, 16}
  /\ width \in 0..INT_MAX /\ precision \in -1..INT_MAX
  /\ overflow \in BOOLEAN /\ len \in Nat /\ DOMAIN str = 0..size
  /\ result \in {None} \cup -1..INT_MAX

(* No byte outside the buffer is ever written, whatever its size; a buffer *)
(* of size 0 may be the null pointer.                                      *)
Contained == \A i \in DOMAIN str : i >= size => str[i] = Untouched

(* However short the buffer, the call leaves in it the beginning of what a *)
(* large one would have got, as much as fits with the terminator: trace () *)
(* prints the buffer without a look at the result.                         *)
CutToSize ==
  Finished => LET n == Smaller(Len(Full), size - 1)
              IN \A i \in 0..(size - 1) :
                   str[i] = IF i < n THEN Full[i + 1] ELSE IF i = n THEN NUL ELSE Untouched

(* The call returns the length of all the output, cut or not, and -1       *)
(* exactly if that is no int, a directive has a number that is none or the *)
(* digits of a floating point value do not fit a UINTMAX_T; otherwise      *)
(* every directive has had its turn.                                       *)
LengthReturned ==
  Finished => IF (\E i \in DOMAIN directives : Unrepresentable(directives[i])) \/ GaveUp
              THEN result = -1
              ELSE /\ result = IF Len(Full) >= INT_MAX THEN -1 ELSE Len(Full)
                   /\ Len(fields) = Cardinality({i \in DOMAIN directives : directives[i].conv # ""})

(* What a reader takes a numeric field for is the number that was passed,  *)
(* in the type its modifier names: no flag, width or precision, of this    *)
(* directive or of one before, changes a digit or the sign; and it is      *)
(* written in the digits asked for, behind its prefix if it has one.       *)
NumberReadsBack(d, a, out) ==
  LET digits == {(IF d.conv = "X" THEN Upper ELSE Lower)[j] : j \in 1..NumberBase(d)}
      letter == IF d.conv = "X" THEN "X" ELSE "x"
  IN /\ NumberIn(out, NumberBase(d)) = Magnitude(d, a)
     /\ (ValueOf(d, a) < 0) = Contains(out, "-")
     /\ \A k \in DOMAIN out : out[k] \in digits \cup {" ", "+", "-", ",", letter}
     /\ \A k \in DOMAIN out : out[k] = letter =>
          k > 1 /\ out[k - 1] = "0" /\ \A j \in 1..(k - 2) : out[j] \notin digits

(* A string field has the string it was given, or as much of it as the     *)
(* precision allows.                                                       *)
TextReadsBack(d, a, out) ==
  LET n == Natural(d, a)
  IN /\ Len(out) >= n
     /\ SubSeq(TextOf(d, a), 1, n) = IF LeftOf(d, a) THEN SubSeq(out, 1, n)
                                     ELSE SubSeq(out, Len(out) - n + 1, Len(out))

(* Every field shows the argument its directive took (fmtint, fmtstr).     *)
ReadsBack ==
  Finished => \A i \in DOMAIN fields :
    LET d == directives[i]  a == fields[i].args  out == fields[i].out
    IN /\ d.conv \in {"d", "i", "u", "o", "x", "X", "p"} /\ IsNumber(d, a)
         => NumberReadsBack(d, a, out)
       /\ d.conv = "s" => TextReadsBack(d, a, out)

(* With separators and more digits asked for than the number has, by a     *)
(* precision or by the leading 0 of %#o, fmtint (lines 874-876) counts the *)
(* separators twice: each stands in the place of a digit asked for, and    *)
(* the field is that much shorter than its width.                          *)
TakenDigits(d, a) ==
  IF IsNumber(d, a)
  THEN Smaller(Larger(FewestDigits(d, a), PrecisionOf(d, a)) - Digits(d, a), Separators(d, a))
  ELSE 0

(* A field is as long as it must be or as wide as was asked, the longer of *)
(* the two, but for the digits taken, and padded only where and with what  *)
(* was asked.                                                              *)
PaddedAsAsked(d, a, out) ==
  LET pads == Len(out) - (Natural(d, a) - TakenDigits(d, a))
  IN /\ pads = Larger(WidthOf(d, a) - Natural(d, a), 0)
     /\ IF LeftOf(d, a)
        THEN \A k \in DOMAIN out : k > Len(out) - pads => out[k] = " "
        ELSE IF IsNumber(d, a) /\ "0" \in d.flags /\ PrecisionOf(d, a) = -1
        THEN \A k \in DOMAIN out : out[k] = " " => k = 1 /\ SignLength(d, a) = 1
        ELSE \A k \in 1..pads : out[k] = " "

(* Every integer and every string is padded as was asked (fmtint, fmtstr), *)
(* whatever its flags and its arguments are, and no more than the digits   *)
(* that its separators take is missing.                                    *)
FieldAsAsked ==
  Finished => \A i \in DOMAIN fields :
    LET d == directives[i]  a == fields[i].args
    IN d.conv \in {"d", "i", "u", "o", "x", "X", "p", "s"}
       => PaddedAsAsked(d, a, fields[i].out)

(* A floating point field has the value that was passed, rounded to the    *)
(* digits asked for, half of the last one up: all of them after the point  *)
(* for %f, one before it and the exponent for %e, and for %g the style,    *)
(* the number of digits and the absence of zeros that C99 prescribes       *)
(* (lines 1076-1084), whatever rounding does to the exponent.              *)
FloatReadsBack ==
  Finished => \A i \in DOMAIN fields :
    LET d == directives[i]  a == fields[i].args  out == fields[i].out
        v == Last(a)        p == AskedPrecision(d, a)
        marks  == {k \in DOMAIN out : out[k] \in {"e", "E"}}
        mark   == IF marks = {} THEN Len(out) + 1 ELSE CHOOSE k \in marks : TRUE
        number == SubSeq(out, 1, mark - 1)
        places == Cardinality({k \in DOMAIN number : /\ ISDIGIT(number[k])
                                                     /\ \E j \in 1..(k - 1) : number[j] = "."})
        read   == NumberIn(number, 10)
        power  == IF marks = {} THEN 0
                  ELSE (10 * CHARTOINT(out[mark + 2]) + CHARTOINT(out[mark + 3]))
                         * (IF out[mark + 1] = "-" THEN -1 ELSE 1)
        x      == Exponent(v, p)
        asked  == IF InEStyle(d, a) \/ d.conv \notin {"g", "G"} THEN p ELSE p - x
        rest   == asked - places
    IN IsFloat(d) /\ v.kind = "finite" /\ ~Extreme(v) /\ asked <= MaxDigits =>
         /\ Contains(number, "-") = (v.neg /\ v.m > 0)
         /\ (marks # {}) = InEStyle(d, a)
         /\ marks # {} => power = x
         /\ rest >= 0 /\ read * Power(10, rest) = InUnits(v, power - asked)
         /\ IF d.conv \in {"g", "G"} /\ "#" \notin d.flags
            THEN places = 0 \/ read % 10 # 0
            ELSE rest = 0
         /\ Len(out) >= WidthOf(d, a)

(* The call returns, whatever the format, although half of the states go   *)
(* on without reading: every turn of the loop reads or moves to a state    *)
(* nearer to the end of the directive, and only the return has no next.    *)
Rank == [DEFAULT |-> 8, FLAGS |-> 7, WIDTH |-> 6, DOT |-> 5, PRECISION |-> 4,
         MOD |-> 3, CONV |-> 2, OUT |-> 1, RETURNED |-> 0]
Distance == 9 * Len(format) + Rank[state]
Descends == [][Distance' < Distance]_vars
=============================================================================
