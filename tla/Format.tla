------------------------------- MODULE Format -------------------------------
(***************************************************************************)
(* vsnprintf of src/kernel/libc.c.  A format is a sequence of directives,  *)
(* as the code parses them: literal text, or flags, width, precision and   *)
(* conversion with the argument.  One directive is converted per step; it  *)
(* passes characters to the sink, which keeps those that fit.              *)
(*                                                                         *)
(* A character is a string of length one; argument strings are sequences   *)
(* of them.  A real number is a sign and a number of eighths, or infinite, *)
(* or not a number: small enough that the arithmetic of doubles is exact.  *)
(* The exponent form of reals is not modelled, nor are %X and %o, which    *)
(* take the way of %x.                                                     *)
(***************************************************************************)
EXTENDS Integers, Sequences, SequencesExt

CONSTANTS
  Word,       \* 2^64, of uintmax_t
  BufferSize, \* of the memory that holds the buffer
  Capacities, \* sizes that callers pass
  Formats     \* the formats, with their arguments, that occur

ASSUME FormatAssumption ==
  /\ Word \in Nat \ {0, 1} /\ Word % 2 = 0
  /\ BufferSize \in Nat /\ Capacities \subseteq 0 .. BufferSize

(* The directives that occur, which are those that the code can parse: a   *)
(* text, or a conversion of an argument that has its type.                 *)
Directives == UNION {Range(f) : f \in Formats}

IsText(t) == t \in Seq(Range(t))

ASSUME DirectivesAssumption ==
  /\ Formats \subseteq Seq(Directives)
  /\ \A d \in Directives :
       \/ d.conversion = "literal" /\ IsText(d.value)
       \/ /\ d.width \in Int /\ d.precision \in Int
          /\ \/ d.conversion = "s" /\ IsText(d.value)
             \/ d.conversion = "c"
             \/ d.conversion = "d" /\ d.value \in (-(Word \div 2)) .. (Word \div 2 - 1)
             \/ d.conversion \in {"u", "x", "p"} /\ d.value \in 0 .. (Word - 1)
             \/ d.conversion = "f" /\ d.value.eighths \in Nat

VARIABLES
  buffer,    \* the memory; Untouched where nothing was written
  capacity,  \* of the sink, or Closed before and after the call
  length,    \* of what the sink was given
  todo,      \* the directives still to be converted
  directive, \* history: the last one that was, or none,
  piece,     \*   and what it gave to the sink
  full,      \* history: all that the sink was given
  returned   \* what the last call returned, or Closed

format == <<buffer, capacity, length, todo, directive, piece, full, returned>>

NoDirective == [conversion |-> "none"]
Untouched == "untouched"
NUL == "zero"
Closed == -1
Alphabet == <<"0", "1", "2", "3", "4", "5", "6", "7", "8", "9", "a", "b", "c", "d", "e", "f">>

Uint(n) == n % Word

InitFormat ==
  /\ buffer = [i \in 0 .. (BufferSize - 1) |-> Untouched]
  /\ capacity = Closed /\ length = 0 /\ todo = <<>>
  /\ directive = NoDirective /\ piece = <<>> /\ full = <<>>
  /\ returned = Closed

vsnprintf(size, directives) ==
  /\ capacity = Closed
  /\ capacity' = size /\ todo' = directives
  /\ UNCHANGED <<buffer, length, directive, piece, full, returned>>

-----------------------------------------------------------------------------

(* Mutant: no room is left for the terminating zero. *)
KeepsFull(position) == capacity # 0 /\ position < capacity

(* The condition of sink_character. *)
Keeps(position) == capacity # 0 /\ position + 1 < capacity

(* sink_text, sink_repeat: sink_character of each. *)
Sunk(text) ==
  /\ buffer' = [i \in DOMAIN buffer |->
                  IF i \in length .. (length + Len(text) - 1) /\ Keeps(i)
                  THEN text[i - length + 1] ELSE buffer[i]]
  /\ length' = length + Len(text)

Repeat(character, count) == [i \in 1 .. count |-> character]

unsigned_digits(value, base) ==
  LET digits[n \in 0 .. value] ==
        (IF n < base THEN <<>> ELSE digits[n \div base]) \o <<Alphabet[(n % base) + 1]>>
  IN digits[value]

(* fixed_double, without its exponent_mode. *)
fixed_double(real, precision) ==
  LET places == IF precision < 0 THEN 6 ELSE IF precision > 12 THEN 12 ELSE precision
      fraction[i \in 0 .. places] == \* in eighths, before the digit i + 1 is taken off
        IF i = 0 THEN real.eighths % 8 ELSE (fraction[i - 1] * 10) % 8
  IN
  (IF real.negative THEN <<"-">> ELSE <<>>) \o
  CASE real.kind = "infinite" -> <<"I", "n", "f", "i", "n", "i", "t", "y">>
    [] real.kind = "nan" -> <<"N", "a", "N">>
    [] OTHER ->
         unsigned_digits(real.eighths \div 8, 10) \o
         (IF places = 0 THEN <<>>
          ELSE <<".">> \o [i \in 1 .. places |-> Alphabet[((fraction[i - 1] * 10) \div 8) + 1]])

(* The width of a field; a negative one, passed for *, means left. *)
Width(d) ==
  [left |-> "left" \in d.flags \/ d.width < 0,
   width |-> IF d.width < 0 THEN -d.width ELSE d.width]

Padding(d, total) ==
  LET width == Width(d).width IN IF width > total THEN width - total ELSE 0

(* The branch of %s. *)
TextField(d) ==
  LET text == IF d.precision >= 0 /\ d.precision < Len(d.value)
              THEN SubSeq(d.value, 1, d.precision) ELSE d.value
      blanks == Repeat(" ", Padding(d, Len(text))) IN
  IF Width(d).left THEN text \o blanks ELSE blanks \o text

Prefix(d) ==
  CASE d.conversion = "d" ->
         IF d.value < 0 THEN <<"-">>
         ELSE IF "plus" \in d.flags THEN <<"+">>
         ELSE IF "space" \in d.flags THEN <<" ">> ELSE <<>>
    [] d.conversion = "x" -> IF "alternate" \in d.flags /\ d.value # 0 THEN <<"0", "x">> ELSE <<>>
    [] d.conversion = "p" -> <<"0", "x">>
    [] d.conversion = "f" ->
         IF "plus" \in d.flags /\ ~d.value.negative THEN <<"+">> ELSE <<>>
    [] OTHER -> <<>>

(* `temporary`: the digits, or the character of %c.  The magnitude of the  *)
(* most negative number is computed without negating it.                   *)
Digits(d) ==
  CASE d.conversion = "c" -> <<d.value>>
    [] d.conversion = "d" ->
         unsigned_digits(IF d.value < 0 THEN Uint(-(d.value + 1)) + 1 ELSE d.value, 10)
    [] d.conversion = "u" -> unsigned_digits(d.value, 10)
    [] d.conversion \in {"x", "p"} -> unsigned_digits(d.value, 16)
    [] d.conversion = "f" -> fixed_double(d.value, d.precision)

Zeros(d) ==
  IF d.precision > 0 /\ d.conversion # "f" /\ d.precision > Len(Digits(d))
  THEN d.precision - Len(Digits(d)) ELSE 0

(* Mutant: the sign comes after the padding. *)
ZerosBeforeSign(d) ==
  LET core == Prefix(d) \o Repeat("0", Zeros(d)) \o Digits(d)
      padding == Padding(d, Len(core))
      zero == "zero" \in d.flags /\ d.precision < 0 IN
  IF Width(d).left THEN core \o Repeat(" ", padding)
  ELSE Repeat(IF zero THEN "0" ELSE " ", padding) \o core

(* The end of the loop: blanks, prefix, zeros, digits, blanks. *)
Field(d) ==
  LET total == Len(Prefix(d)) + Zeros(d) + Len(Digits(d))
      padding == Padding(d, total)
      left == Width(d).left
      zero == "zero" \in d.flags IN
  (IF ~left /\ (~zero \/ d.precision >= 0) THEN Repeat(" ", padding) ELSE <<>>)
    \o Prefix(d)
    \o (IF ~left /\ zero /\ d.precision < 0 THEN Repeat("0", padding) ELSE <<>>)
    \o Repeat("0", Zeros(d))
    \o Digits(d)
    \o (IF left THEN Repeat(" ", padding) ELSE <<>>)

(* A literal, or a conversion the code does not know: its letter. *)
Converted(d) ==
  CASE d.conversion = "literal" -> d.value
    [] d.conversion = "s" -> TextField(d)
    [] OTHER -> Field(d)

(* One pass of the loop over the format. *)
Convert ==
  /\ todo # <<>>
  /\ todo' = Tail(todo)
  /\ directive' = Head(todo) /\ piece' = Converted(Head(todo))
  /\ Sunk(piece')
  /\ full' = full \o piece'
  /\ UNCHANGED <<capacity, returned>>

Return ==
  /\ capacity # Closed /\ todo = <<>> /\ returned = Closed
  /\ buffer' = IF capacity = 0 THEN buffer
               ELSE [buffer EXCEPT ![IF length < capacity THEN length ELSE capacity - 1] = NUL]
  /\ returned' = length
  /\ UNCHANGED <<capacity, length, todo, directive, piece, full>>

(* The number that atoi reads; that it fits into an int is assumed. *)
atoi(text) ==
  LET skipped == IF text # <<>> /\ text[1] \in {"-", "+"} THEN 1 ELSE 0
      IsDigit(i) == i <= Len(text) /\ \E j \in 1 .. 10 : text[i] = Alphabet[j]
      last == CHOOSE i \in skipped .. Len(text) :
                ~IsDigit(i + 1) /\ \A j \in (skipped + 1) .. i : IsDigit(j)
      value[i \in skipped .. last] ==
        IF i = skipped THEN 0
        ELSE value[i - 1] * 10 + (CHOOSE j \in 1 .. 10 : text[i] = Alphabet[j]) - 1
  IN IF skipped = 1 /\ text[1] = "-" THEN -value[last] ELSE value[last]

NextFormat ==
  \/ \E size \in Capacities, directives \in Formats : vsnprintf(size, directives)
  \/ Convert
  \/ Return

-----------------------------------------------------------------------------

(***************************************************************************)
(* The buffer holds as much of the text as fits, always with room for the  *)
(* terminating zero, and nothing is written behind the size that was       *)
(* passed, not even for a size of zero; the call returns how long the text *)
(* would have been.                                                        *)
(***************************************************************************)
SinkExact ==
  LET kept == IF Len(full) < capacity THEN Len(full) ELSE capacity - 1 IN
  /\ \A i \in DOMAIN buffer :
       buffer[i] = IF i < kept THEN full[i + 1]
                   ELSE IF i = kept /\ returned # Closed THEN NUL ELSE Untouched
  /\ returned # Closed => returned = Len(full)

Numeral(digits, base) ==
  FoldLeft(LAMBDA n, c : n * base + (CHOOSE i \in 1 .. base : Alphabet[i] = c) - 1, 0, digits)

(* digits, and nothing else, that stand for the number. *)
Denotes(digits, base, value) ==
  /\ digits # <<>> /\ \A i \in DOMAIN digits : \E j \in 1 .. base : digits[i] = Alphabet[j]
  /\ Numeral(digits, base) = value

Larger(a, b) == IF a > b THEN a ELSE b

Wide(d) == IF d.width < 0 THEN -d.width ELSE d.width
IsLeft(d) == d.width < 0 \/ "left" \in d.flags

(* Where the field without its blanks begins and ends. *)
Solid(text) == {i \in DOMAIN text : text[i] # " "}
FirstSolid(text) == CHOOSE i \in Solid(text) : \A j \in Solid(text) : i <= j
LastSolid(text) == CHOOSE i \in Solid(text) : \A j \in Solid(text) : i >= j

Negative(d) == IF d.conversion = "f" THEN d.value.negative ELSE d.conversion = "d" /\ d.value < 0
Signed(d) == d.conversion \in {"d", "f"}

Sign(d) ==
  IF Negative(d) THEN <<"-">>
  ELSE IF Signed(d) /\ "plus" \in d.flags THEN <<"+">>
  ELSE IF d.conversion = "p" \/ (d.conversion = "x" /\ "alternate" \in d.flags /\ d.value # 0)
  THEN <<"0", "x">> ELSE <<>>

(* A blank for a sign, which is none of the padding. *)
BlankSign(d) ==
  IF d.conversion = "d" /\ Sign(d) = <<>> /\ "space" \in d.flags THEN 1 ELSE 0

NumberExact(d, text) ==
  LET base == IF d.conversion \in {"x", "p"} THEN 16 ELSE 10
      solid == SubSeq(text, FirstSolid(text), LastSolid(text))
      digits == SubSeq(solid, Len(Sign(d)) + 1, Len(solid))
      significant == CHOOSE n \in 1 .. Len(digits) :
                       /\ n = 1 \/ digits[Len(digits) - n + 1] # "0"
                       /\ \A i \in 1 .. (Len(digits) - n) : digits[i] = "0"
      least == Larger(d.precision, significant)
      zeroed == "zero" \in d.flags /\ d.precision < 0 /\ ~IsLeft(d) IN
  /\ SubSeq(solid, 1, Len(Sign(d))) = Sign(d)
  /\ Denotes(digits, base, IF Negative(d) THEN -d.value ELSE d.value)
  /\ d.conversion = "d" => atoi(solid) = d.value
  /\ Len(text) = Larger(Wide(d), Len(Sign(d)) + BlankSign(d) + least)
  /\ Len(digits) = IF zeroed THEN Len(text) - Len(Sign(d)) - BlankSign(d) ELSE least
  /\ IF IsLeft(d) THEN FirstSolid(text) = 1 + BlankSign(d)
                  ELSE LastSolid(text) = Len(text) /\ FirstSolid(text) > BlankSign(d)

TextExact(d, text) ==
  LET n == IF d.precision \in 0 .. Len(d.value) THEN d.precision ELSE Len(d.value) IN
  /\ Len(text) = Larger(Wide(d), n)
  /\ LET start == IF IsLeft(d) THEN 0 ELSE Len(text) - n IN
     \A i \in DOMAIN text :
       text[i] = IF i - start \in 1 .. n THEN d.value[i - start] ELSE " "

RealExact(d, text) ==
  LET places == IF d.precision < 0 THEN 6 ELSE d.precision
      solid == SubSeq(text, FirstSolid(text), LastSolid(text))
      digits == SelectSeq(SubSeq(solid, Len(Sign(d)) + 1, Len(solid)), LAMBDA c : c # ".") IN
  /\ SubSeq(solid, 1, Len(Sign(d))) = Sign(d)
  /\ Denotes(digits, 10, (d.value.eighths * 10 ^ places) \div 8)
  /\ Len(solid) = Len(Sign(d)) + Len(digits) + (IF places > 0 THEN 1 ELSE 0)
  /\ places > 0 => solid[Len(solid) - places] = "."
  /\ Len(text) = Larger(Wide(d), Len(solid))
  /\ IF IsLeft(d) THEN FirstSolid(text) = 1 ELSE LastSolid(text) = Len(text)

(***************************************************************************)
(* What C promises of a field: it is as wide as asked for, or as wide as   *)
(* it must be; the blanks are on the one side the flags name; a number     *)
(* reads back (by atoi, too) as the argument, from the most negative to    *)
(* the largest, with as many digits as the precision asks for and zeros in *)
(* front only where the precision or the zero flag, which a precision      *)
(* switches off, puts them; a string is cut by the precision.  Where the   *)
(* code keeps less than C promises, so does this: reals are cut, not       *)
(* rounded; a zero keeps its digit under a precision of 0; the zero flag   *)
(* for reals and precisions above 12 are left out.                         *)
(***************************************************************************)
FieldsExact ==
  CASE directive.conversion \in {"d", "u", "x", "p"} -> NumberExact(directive, piece)
    [] directive.conversion \in {"s", "c"} ->
         TextExact(IF directive.conversion = "s" THEN directive
                   ELSE [directive EXCEPT !.value = <<@>>, !.precision = -1], piece)
    [] directive.conversion = "f" /\ directive.value.kind = "finite"
         /\ directive.precision <= 6 /\ "zero" \notin directive.flags ->
         RealExact(directive, piece)
    [] OTHER -> TRUE
=============================================================================
