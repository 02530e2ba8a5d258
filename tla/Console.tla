------------------------------ MODULE Console ------------------------------
(***************************************************************************)
(* The text console on the framebuffer (src/kernel/framebuffer.c): a grid  *)
(* of character cells and a cursor.  console_write_n is modelled one       *)
(* character per step; `out` is the text it has still to write.  A cell    *)
(* shows a character, nothing (the background), or the cursor's block; the *)
(* pixels right of and below the grid are not modelled, colours neither.   *)
(*                                                                         *)
(* The cursor can be set anywhere, also off the screen: what is drawn      *)
(* there is clipped.                                                       *)
(***************************************************************************)
EXTENDS Integers, Sequences

CONSTANTS
  Rows,    \* height / CONSOLE_CELL_HEIGHT
  Columns, \* width / CONSOLE_CELL_WIDTH
  Glyphs   \* the characters that can be told apart on the screen

(* The cursor's first position, (1, 1), is on the screen. *)
ASSUME ConsoleAssumption == Rows \in Nat \ {0, 1} /\ Columns \in Nat \ {0, 1}

VARIABLES cells, row, col, out

console == <<cells, row, col, out>>

Screen == (0 .. Rows - 1) \X (0 .. Columns - 1)
(* The control characters. *)
BS == "backspace"
CR == "carriage return"
LF == "newline"

Blank == " "
Block == "block"

OnScreen == <<row, col>> \in Screen

(* The screen with the cell at r, c drawn over. *)
Drawn(r, c, what) == IF <<r, c>> \in Screen THEN [cells EXCEPT ![<<r, c>>] = what] ELSE cells

(* console_scroll: the screen moves up by a row. *)
Scrolled(screen) ==
  [p \in Screen |-> IF p[1] + 1 < Rows THEN screen[<<p[1] + 1, p[2]>>] ELSE Blank]

InitConsole ==
  /\ cells = [p \in Screen |-> Blank]
  /\ row = 1 /\ col = 1
  /\ out = <<>>

-----------------------------------------------------------------------------

Backspace ==
  LET up == col = 0 /\ row > 0 IN
  /\ row' = IF up THEN row - 1 ELSE row
  /\ col' = IF col > 0 THEN col - 1 ELSE IF up THEN Columns - 1 ELSE col
  /\ cells' = Drawn(row', col', Blank)

CarriageReturn == col' = 0 /\ UNCHANGED <<cells, row>>

(* Mutant: the cursor stays where it was when the screen scrolls. *)
AdvanceStays(r, c, screen) ==
  /\ col' = c
  /\ row' = r
  /\ cells' = IF r >= Rows THEN Scrolled(screen) ELSE screen

(* The cursor moves on to r, c; on a row below the last the screen scrolls *)
(* under it.                                                               *)
Advance(r, c, screen) ==
  /\ col' = c
  /\ row' = IF r >= Rows THEN r - 1 ELSE r
  /\ cells' = IF r >= Rows THEN Scrolled(screen) ELSE screen

Newline == Advance(row + 1, 0, cells)

(* Mutant: the cursor wraps one column late. *)
PutLate(character) ==
  LET screen == Drawn(row, col, character) IN
  IF col + 1 > Columns THEN Advance(row + 1, 0, screen) ELSE Advance(row, col + 1, screen)

Put(character) ==
  LET screen == Drawn(row, col, character) IN
  IF col + 1 >= Columns THEN Advance(row + 1, 0, screen) ELSE Advance(row, col + 1, screen)

(* The loop of console_write_n: one character of what is to be written. *)
WriteCharacter ==
  /\ out # <<>>
  /\ out' = Tail(out)
  /\ CASE Head(out) = BS -> Backspace
       [] Head(out) = CR -> CarriageReturn
       [] Head(out) = LF -> Newline
       [] OTHER -> Put(Head(out))

console_write(text) == out' = text /\ UNCHANGED <<cells, row, col>>

console_clear ==
  /\ cells' = [p \in Screen |-> Blank]
  /\ col' = 1 /\ row' = 1
  /\ UNCHANGED out

console_set_cursor(c, r) == col' = c /\ row' = r /\ UNCHANGED <<cells, out>>

(* console_set_cursor_visible: the cell under the cursor, all or nothing. *)
console_set_cursor_visible(visible) ==
  /\ cells' = Drawn(row, col, IF visible THEN Block ELSE Blank)
  /\ UNCHANGED <<row, col, out>>

-----------------------------------------------------------------------------

(***************************************************************************)
(* Writing never takes the cursor off the screen, and when it was set      *)
(* there (console_set_cursor does not clamp) never further off.            *)
(***************************************************************************)
CursorKept == [][out # <<>> => /\ row' < Rows \/ row' <= row
                               /\ col' < Columns \/ col' <= col]_console
=============================================================================
