---------------------------- MODULE Conversions ----------------------------
(***************************************************************************)
(* What one conversion of mt_vsnprintf (vsnprintf.c) produces: fmtstr,     *)
(* fmtint and fmtflt as functions from a value, a width, a precision and   *)
(* flags to a sequence of characters.  Characters are strings of length    *)
(* one.                                                                    *)
(***************************************************************************)
EXTENDS Integers, Sequences, FiniteSets, SequencesExt

CONSTANTS
  NULL,       \* the null pointer as an argument of %s
  Bits        \* the width of char, short, int and long in bits

ASSUME BitsAssumption ==
  /\ Bits \in [{"char", "short", "int", "long"} -> Nat \ {0}]
  /\ Bits["int"] >= 2
  /\ \A t \in DOMAIN Bits : Bits[t] <= Bits["long"]

\* The UINTMAX_T that the buffers of fmtflt are made for (lines 313 and 1016).
ASSUME LongAssumption == Bits["long"] \in 4..128

Num == <<"0", "1", "2", "3", "4", "5", "6", "7", "8", "9">>
Lower == <<"0", "1", "2", "3", "4", "5", "6", "7", "8", "9", "a", "b", "c", "d", "e", "f">>
Upper == <<"0", "1", "2", "3", "4", "5", "6", "7", "8", "9", "A", "B", "C", "D", "E", "F">>
ISDIGIT(c) == c \in {Num[i] : i \in DOMAIN Num}
CHARTOINT(c) == (CHOOSE i \in DOMAIN Num : Num[i] = c) - 1
Larger(x, y) == IF x >= y THEN x ELSE y
Smaller(x, y) == IF x <= y THEN x ELSE y
Repeat(c, n) == [i \in 1..n |-> c]

\* base^n, for n >= 0, as mypow10 works it out.
Power(base, n) ==
  LET p[i \in 0..n] == IF i = 0 THEN 1 ELSE base * p[i - 1] IN p[n]

-----------------------------------------------------------------------------
(* Conversions of integers: an unsigned type, and a signed one.            *)
Unsigned(x, t) == x % Power(2, Bits[t])
Signed(x, t) == ((x + Power(2, Bits[t] - 1)) % Power(2, Bits[t])) - Power(2, Bits[t] - 1)

\* The type va_arg and the cast give an integer: j, t, z and ll are long too,
\* because configure finds none of the types they stand for.
ArgType(c) == CASE c = "hh" -> "char" [] c = "h" -> "short"
                [] c \in {"", "L"} -> "int" [] OTHER -> "long"

(* convert: the digits of value, here with the most significant one first. *)
convert(value, base, caps) ==
  LET digits == IF caps THEN Upper ELSE Lower
      text[v \in 0..value] ==
        LET last == <<digits[(v % base) + 1]>>
        IN IF v < base THEN last ELSE text[v \div base] \o last
  IN text[value]
NumDigits(value, base) == Len(convert(value, base, FALSE))

getnumsep(n) == (n - (IF n % 3 = 0 THEN 1 ELSE 0)) \div 3

\* printsep after every digit that has a multiple of three others behind it
Grouped(digits) ==
  FlattenSeq([i \in DOMAIN digits |->
    LET pos == Len(digits) - i
    IN IF pos > 0 /\ pos % 3 = 0 THEN <<digits[i], ",">> ELSE <<digits[i]>>])

-----------------------------------------------------------------------------
(* fmtstr and fmtint: the characters a conversion produces.                *)
Padded(body, n, left) ==
  IF left THEN body \o Repeat(" ", n) ELSE Repeat(" ", n) \o body

Null == <<"(", "n", "u", "l", "l", ")">>
Nil  == <<"(", "n", "i", "l", ")">>
\* The null pointer is no text, %p's "(nil)" among them.
ASSUME NullAssumption == NULL # Nil
fmtstr(value, w, p, fl) ==
  LET text  == IF value = NULL THEN Null ELSE value
      strln == IF p = -1 THEN Len(text) ELSE Smaller(Len(text), p)
  IN Padded(SubSeq(text, 1, strln), Larger(w - strln, 0), "-" \in fl)

fmtint(value, base, w, p, fl) ==
  LET unsigned   == "UNSIGNED" \in fl
      uvalue     == IF unsigned THEN Unsigned(value, "long")
                    ELSE IF value >= 0 THEN value ELSE -value
      sign       == IF unsigned THEN <<>>
                    ELSE IF value < 0 THEN <<"-">>
                    ELSE IF "+" \in fl THEN <<"+">>
                    ELSE IF " " \in fl THEN <<" ">> ELSE <<>>
      digits     == convert(uvalue, base, "UP" \in fl)
      pos        == Len(digits)
      alternate  == "#" \in fl /\ uvalue # 0
      hexprefix  == IF alternate /\ base = 16
                    THEN <<"0", IF "UP" \in fl THEN "X" ELSE "x">> ELSE <<>>
      digitsmin  == IF alternate /\ base = 8 /\ p <= pos THEN pos + 1 ELSE p
      separators == IF "'" \in fl THEN getnumsep(pos) ELSE 0
      zeros      == Larger(digitsmin - pos - separators, 0)
      spaces     == Larger(w - separators - Larger(digitsmin, pos)
                             - Len(sign) - Len(hexprefix), 0)
      zeropad    == "0" \in fl /\ "-" \notin fl /\ p = -1
  IN Padded(sign \o hexprefix
              \o Repeat("0", zeros + IF zeropad THEN spaces ELSE 0)
              \o (IF separators > 0 THEN Grouped(digits) ELSE digits),
            IF zeropad THEN 0 ELSE spaces, "-" \in fl)

-----------------------------------------------------------------------------
(* fmtflt.  A value is infinite, not a number, or the decimal fraction     *)
(* m * 10^e with a sign, and the arithmetic on it is exact: the binary     *)
(* rounding of an LDOUBLE is left out.                                     *)
Finite == [kind : {"finite"}, neg : BOOLEAN, m : Nat, e : Int]
Float  == Finite \cup [kind : {"inf", "nan"}, neg : BOOLEAN]

UINTMAX_MAX == Power(2, Bits["long"]) - 1

\* The digits past the decimal point that a UINTMAX_T can hold.
MaxDigits == NumDigits(UINTMAX_MAX, 10) - 1

BelowOne(v) == NumDigits(v.m, 10) <= -v.e

cast(v) ==
  CASE v.m = 0          -> 0
    [] v.m > 0 /\ v.e >= 0 ->
         IF v.e > MaxDigits \/ v.m > UINTMAX_MAX \div Power(10, v.e) THEN UINTMAX_MAX ELSE v.m * Power(10, v.e)
    [] v.m > 0 /\ v.e < 0  ->
         IF BelowOne(v) THEN 0 ELSE Smaller(v.m \div Power(10, -v.e), UINTMAX_MAX)

\* myround (n / 10^t)
myround_Down(n, t) == IF NumDigits(n, 10) < t THEN 0 ELSE n \div Power(10, t)
myround(n, t) ==
  IF NumDigits(n, 10) < t THEN 0
  ELSE (n \div Power(10, t)) + IF 2 * (n % Power(10, t)) < Power(10, t) THEN 0 ELSE 1

\* The part of v past the point, times 10^p.
Fraction(v, p) ==
  LET n == IF v.e >= 0 THEN 0 ELSE IF BelowOne(v) THEN v.m ELSE v.m % Power(10, -v.e)
  IN CASE n = 0              -> 0
       [] n > 0 /\ p >= -v.e -> n * Power(10, p + v.e)
       [] n > 0 /\ p < -v.e  -> myround(n, -v.e - p)

\* The loops stop at 99, which leaves the value with more or less than one digit.
getexponent(v) ==
  IF v.m = 0 THEN 0 ELSE Larger(-99, Smaller(99, NumDigits(v.m, 10) - 1 + v.e))

\* v / mypow10 (x)
Scaled(v, x) == [v EXCEPT !.e = @ - x]

(* One pass over the value: with e-style its exponent has been divided out *)
(* and rounding up to ten moves on to the next one.                        *)
Pass(v, estyle, precision) ==
  LET p == Smaller(precision, MaxDigits)
      x == IF estyle THEN getexponent(v) ELSE 0
      u == Scaled(v, x)
      i == cast(u)
      carry == Fraction(u, p) >= Power(10, p)
      ten   == estyle /\ carry /\ i = 9
  IN [overflow |-> i = UINTMAX_MAX, estyle |-> estyle, precision |-> p,
      exponent |-> IF ten THEN x + 1 ELSE x,
      int  |-> IF ten THEN 1 ELSE IF carry THEN i + 1 ELSE i,
      frac |-> IF carry THEN 0 ELSE Fraction(u, p)]

(* A conversion of %g starts in e-style, for its exponent, and is done     *)
(* again without when the exponent calls for it.                           *)
Again(v, d) ==
  IF ~d.overflow /\ d.precision + 1 > d.exponent /\ d.exponent >= -4
  THEN Pass(v, FALSE, d.precision - d.exponent) ELSE d
Decimal(v, p, fl) ==
  LET asked == IF p = -1 THEN 6 ELSE p
  IN CASE v.kind # "finite" -> [overflow |-> FALSE]
       [] v.kind = "finite" /\ "G" \in fl    -> Again(v, Pass(v, TRUE, asked - 1))
       [] v.kind = "finite" /\ "G" \notin fl -> Pass(v, "E" \in fl, asked)

\* The fractional digits, for %g without the zeros at their end.
FractionDigits(d, omitzeros) ==
  LET digits == IF d.frac = 0 THEN <<>> ELSE convert(d.frac, 10, FALSE)
      all    == Repeat("0", d.precision - Len(digits)) \o digits
      kept   == {n \in DOMAIN all : all[n] # "0"}
  IN IF ~omitzeros THEN all
     ELSE SubSeq(all, 1, IF kept = {} THEN 0 ELSE CHOOSE n \in kept : \A k \in kept : k <= n)

\* econvert has room for two digits, the lower ones.
ExponentText(x, up) ==
  LET n == (IF x < 0 THEN -x ELSE x) % 100
  IN <<IF up THEN "E" ELSE "e", IF x < 0 THEN "-" ELSE "+", Num[(n \div 10) + 1], Num[(n % 10) + 1]>>

InfNan(v, up) ==
  IF v.kind = "nan" THEN IF up THEN <<"N", "A", "N">> ELSE <<"n", "a", "n">>
                    ELSE IF up THEN <<"I", "N", "F">> ELSE <<"i", "n", "f">>

FloatSign(v, fl) ==
  IF v.kind # "nan" /\ v.neg /\ (v.kind = "inf" \/ v.m > 0) THEN <<"-">>
  ELSE IF "+" \in fl THEN <<"+">>
  ELSE IF " " \in fl THEN <<" ">> ELSE <<>>

\* d is Decimal (v, p, fl), and has not overflown.
fmtflt(v, d, w, fl) ==
  LET up   == "UP" \in fl
      sign == FloatSign(v, fl)
      int  == convert(d.int, 10, FALSE)
      frac == FractionDigits(d, "G" \in fl /\ "#" \notin fl)
      body == (IF "'" \in fl THEN Grouped(int) ELSE int)
                \o (IF frac # <<>> \/ "#" \in fl THEN <<".">> ELSE <<>>) \o frac
                \o (IF d.estyle THEN ExponentText(d.exponent, up) ELSE <<>>)
      padlen  == Larger(w - Len(sign) - Len(body), 0)
      zeropad == "0" \in fl /\ "-" \notin fl
  IN IF v.kind # "finite" THEN fmtstr(sign \o InfNan(v, up), w, Len(sign) + 3, fl)
     ELSE IF zeropad THEN sign \o Repeat("0", padlen) \o body
     ELSE Padded(sign \o body, padlen, "-" \in fl)

-----------------------------------------------------------------------------
(* What a field is read as: blanks, the sign, separators, a point and the  *)
(* letter of a prefix are passed over.                                     *)
DigitValue(c) == (CHOOSE i \in DOMAIN Lower : c \in {Lower[i], Upper[i]}) - 1
PassedOver == {" ", "+", "-", ",", ".", "x", "X"}
ReadAfter(n0, chars, base) ==
  LET n[i \in 0..Len(chars)] ==
        IF i = 0 THEN n0
        ELSE IF chars[i] \in PassedOver THEN n[i - 1]
        ELSE n[i - 1] * base + DigitValue(chars[i])
  IN n[Len(chars)]
NumberIn(chars, base) == ReadAfter(0, chars, base)

(* The floating point reference: v in units of 10^u, the nearest integer;  *)
(* the exponent with which it has one digit and p rounded ones.            *)
InUnits(v, u) ==
  LET t == u - v.e
  IN CASE t <= 0 -> v.m * Power(10, -t)
       [] t > NumDigits(v.m, 10) -> 0
       [] OTHER -> (2 * v.m + Power(10, t)) \div (2 * Power(10, t))
Exponent(v, p) ==
  IF v.m = 0 THEN 0
  ELSE LET x == NumDigits(v.m, 10) - 1 + v.e
       IN IF InUnits(v, x - p) = Power(10, p + 1) THEN x + 1 ELSE x
=============================================================================
