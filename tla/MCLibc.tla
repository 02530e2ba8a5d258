------------------------------- MODULE MCLibc -------------------------------
(***************************************************************************)
(* An instance of Libc for TLC: every memory of five bytes that are zero,  *)
(* "A" or "a"; every combination of flags with widths and precisions below *)
(* and above what the arguments need, and the limits of 8-bit numbers;     *)
(* every array of up to six elements, in memory of eight.                  *)
(***************************************************************************)
EXTENDS Libc

MCValues == 0 .. 2

MCBytes == {0, 65, 97}

Directive(conversion, flags, widths, precisions, values) ==
  [conversion : {conversion}, flags : SUBSET flags, width : widths, precision : precisions,
   value : values]

Real(kind, negative, eighths) == [kind |-> kind, negative |-> negative, eighths |-> eighths]

Widths == {0, 3, -5}
Precisions == {-1, 0, 2, 4}

Numbers ==
  Directive("d", {"left", "plus", "space", "zero"}, Widths, Precisions, {-128, -7, 0, 45, 127})
  \cup Directive("u", {"left", "zero"}, Widths, Precisions, {0, 10, 255})
  \cup Directive("x", {"left", "zero", "alternate"}, Widths, Precisions, {0, 26, 255})
  \cup Directive("p", {"left"}, Widths, {-1}, {0, 254})

Texts ==
  Directive("s", {"left"}, Widths, Precisions, {<<>>, <<"a">>, <<"b", " ", "c">>})
  \cup Directive("c", {"left"}, Widths, {-1}, {"c"})

Reals ==
  Directive("f", {"left", "plus", "zero"}, {0, 9, -9}, {-1, 0, 2, 14},
    {Real("finite", FALSE, 0), Real("finite", FALSE, 103), Real("finite", TRUE, 7),
     Real("infinite", TRUE, 0), Real("nan", FALSE, 0)})

Literal(text) == [conversion |-> "literal", value |-> text]

MCFormats ==
  {<<>>} \cup {<<d>> : d \in Numbers \cup Texts \cup Reals}
  \cup {<<Literal(<<"x", "%">>), d, Literal(<<"y">>)>> :
          d \in Directive("s", {"left"}, {0, 3}, {-1, 2}, {<<>>, <<"b", " ", "c">>})
                \cup Directive("d", {"zero"}, {0, 3}, {-1}, {-7, 45})}
=============================================================================
