------------------------------ MODULE MCFormat ------------------------------
(* Values for the constants of Format when TLC checks it.                  *)
EXTENDS Format

MCBits == [char |-> 3, short |-> 5, int |-> 8, long |-> 14]
MCWidths == {-5, 0, 2}
MCInts == {-8192, -6, 0, 1000}
Value(neg, m, e) == [kind |-> "finite", neg |-> neg, m |-> m, e |-> e]
\* Carries through every digit, halves, values at the ends of what %g does in
\* either style, of what a UINTMAX_T holds and of a two-digit exponent.
MCFloats == {Value(FALSE, 0, 0), Value(TRUE, 25, -1), Value(FALSE, 99995, -4), Value(FALSE, 99995, -9),
             Value(TRUE, 99995, -1), Value(FALSE, 16383, 0), Value(FALSE, 12345, -9),
             Value(FALSE, 5, 30), Value(FALSE, 1, 99), Value(FALSE, 1, 120), Value(FALSE, 9999, -103), Value(FALSE, 5, -1),
             [kind |-> "inf", neg |-> TRUE], [kind |-> "nan", neg |-> FALSE]}
MCTexts == {<<>>, <<"a", "b", "c", "d">>, NULL}

Numeral(n) ==
  IF n = Star THEN <<"*">>
  ELSE IF n < 10 THEN <<Num[n + 1]>>
  ELSE IF n < 100 THEN <<Num[(n \div 10) + 1], Num[(n % 10) + 1]>>
  ELSE <<Num[n \div 100 + 1], Num[((n \div 10) % 10) + 1], Num[(n % 10) + 1]>>

Directive(fl, w, p, m, c) ==
  [text |-> <<"%">> \o fl \o (IF w = 0 THEN <<>> ELSE Numeral(w))
              \o (CASE p = -1 -> <<>> [] p = 0 -> <<".">> [] OTHER -> <<".">> \o Numeral(p))
              \o m[1] \o (IF c = "" THEN <<>> ELSE <<c>>),
   flags |-> {fl[i] : i \in DOMAIN fl}, width |-> w, precision |-> p,
   type |-> IF c = "p" THEN "long" ELSE m[2], conv |-> c]
Character(c) ==
  [text |-> <<c>>, flags |-> {}, width |-> 0, precision |-> -1, type |-> "", conv |-> "literal"]

Int_ == << <<>>, "int" >>
Long == << <<"l">>, "long" >>
Types == {Int_, Long, << <<"h", "h">>, "char" >>, << <<"h">>, "short" >>,
          << <<"L">>, "int" >>, << <<"l", "l">>, "long" >>, << <<"z">>, "long" >>}
FlagTexts == {<<>>, <<"-">>, <<"0">>, <<"-", "0">>, <<"#">>, <<"+">>, <<" ">>,
              <<"'">>, <<"#", "0">>, <<"'", "0">>, <<"'", "#">>}

\* Every layout of a number and a string, then a string that shows what is left of it.
Layouts == {<<Directive(f, w, p, Long, c), Directive(<<>>, 0, -1, Int_, "s")>> :
              f \in FlagTexts, w \in {0, 7, Star}, p \in {-1, 5, Star}, c \in {"d", "x", "o", "s"}}
\* Every type and every base, then an int.
Modified == {<<Directive(f, 0, -1, m, c), Directive(<<>>, 5, -1, Int_, e)>> :
               f \in {<<>>, <<"+">>}, m \in Types, c \in {"i", "u", "X"}, e \in {"d", "o"}}
\* The other conversions, none and an unfinished one, between characters.
Others == {<<Character("a"), Directive(f, w, -1, m, c)>> \o e :
             f \in {<<>>, <<"-">>}, w \in {0, 7}, m \in {Int_},
             c \in {"c", "p", "%", "k"}, e \in {<<>>, <<Character("b")>>}}
Unfinished == {<<Character("a"), Directive(f, w, p, m, "")>> :
                 f \in {<<>>, <<"-">>}, w \in {0, 7, Star}, p \in {-1, 0, 5}, m \in {Int_, << <<"h">>, "short" >>}}
\* Numbers about INT_MAX.
Large == {<<Character("a"), Directive(<<>>, w, p, Int_, "s"), Character("b")>> :
            w \in {0, 124, 125, 126, 127, 128, 999}, p \in {-1, 127, 128}}

\* Every style of floating point, in a field of its own and before an int.
FloatLayouts == {<<Directive(f, w, p, m, c), Directive(<<>>, 0, -1, Int_, "n")>> :
                   f \in {<<>>, <<"-">>, <<"0">>, <<"#">>, <<"+">>, <<"'">>}, w \in {0, 14},
                   p \in {-1, 0, 1, 4, 9}, m \in {Int_},
                   c \in {"f", "e", "g", "G"}}
                  \cup {<<Directive(<<" ">>, Star, Star, m, c)>> : m \in {Int_, << <<"L">>, "int" >>}, c \in {"a", "A", "F", "E"}}

MCFormats == {<<>>} \cup Layouts \cup Modified \cup Others \cup Unfinished \cup Large \cup FloatLayouts
=============================================================================
