------------------------------- MODULE Shell -------------------------------
(***************************************************************************)
(* The line editor of the shell (js_runtime_shell of                       *)
(* src/kernel/runtime.c) on the console.  A key is handled from "waiting"  *)
(* to "waiting"; what the command, while it is evaluated, does to the      *)
(* console is up to the script.  All that is written goes to the serial    *)
(* port first; a terminal there shows it on lines of its own width.        *)
(***************************************************************************)
EXTENDS Console, SequencesExt

CONSTANTS
  LineSize, \* sizeof(line)
  Typed,    \* the printable characters that are typed
  Prompt,   \* what shell_write_prompt writes
  Limited,  \* the message about a line that is too long
  Outputs   \* the texts that scripts write

(* What takes one cell, and all that is ever written. *)
Printable == Glyphs \cup {Blank}
Characters == Printable \cup {BS, CR, LF}

(***************************************************************************)
(* No glyph fills its cell as the cursor's block does.  The prompt is the  *)
(* kernel's or a script's (__shellPrompt); what is said about the line is  *)
(* said for one without control characters, which would go to rows of its  *)
(* own.                                                                    *)
(***************************************************************************)
ASSUME ShellAssumption ==
  /\ LineSize \in Nat \ {0}
  /\ {BS, CR, LF, Block} \cap Glyphs = {}
  /\ "^" \in Glyphs /\ Typed \subseteq Glyphs
  /\ Prompt \in Seq(Printable)
  /\ Limited \in Seq(Characters) /\ Outputs \subseteq Seq(Characters)

VARIABLES
  line,           \* the first `length` characters of line
  phase,          \* what the handler does once `out` is written
  cursor_visible,
  adrift,         \* history: a script left the cursor off the screen
  mirror,         \* what the terminal shows on its line from the prompt on,
  at              \*   and how many characters after that its cursor is

vars == <<cells, row, col, out, line, phase, cursor_visible, adrift, mirror, at>>

terminal == <<mirror, at>>

-----------------------------------------------------------------------------

Init ==
  /\ InitConsole
  /\ line = <<>>
  /\ phase = "prompt"
  /\ cursor_visible = FALSE
  /\ adrift = FALSE
  /\ mirror = <<>> /\ at = 0

(* A terminal, as far as it shows one line: a backspace moves its cursor   *)
(* and leaves what is there.  What scripts write is not followed.          *)
Shows(character) ==
  IF phase = "evaluate" THEN UNCHANGED terminal
  ELSE CASE character = LF -> mirror' = <<>> /\ at' = 0
         [] character = CR -> at' = 0 /\ UNCHANGED mirror
         [] character = BS -> UNCHANGED mirror /\ at' = IF at > 0 THEN at - 1 ELSE 0
         [] OTHER -> /\ mirror' = IF at < Len(mirror)
                                  THEN [mirror EXCEPT ![at + 1] = character]
                                  ELSE Append(mirror, character)
                     /\ at' = at + 1

(* serial_write_n comes before the cells in console_write_n.               *)
Write ==
  /\ WriteCharacter
  /\ Shows(Head(out))
  /\ UNCHANGED <<line, phase, cursor_visible, adrift>>

(* shell_write_prompt; then, or after an edit, the cursor is shown. *)
WritePrompt ==
  /\ phase = "prompt" /\ out = <<>>
  /\ console_write(Prompt)
  /\ phase' = "show"
  /\ adrift' = (adrift /\ ~OnScreen)
  /\ mirror' = <<>> /\ at' = 0
  /\ UNCHANGED <<line, cursor_visible>>

ShowCursor ==
  /\ phase = "show" /\ out = <<>>
  /\ console_set_cursor_visible(TRUE)
  /\ cursor_visible' = TRUE
  /\ phase' = "waiting"
  /\ UNCHANGED <<line, adrift, terminal>>

(* Half a second is over. *)
Blink ==
  /\ phase = "waiting"
  /\ console_set_cursor_visible(~cursor_visible)
  /\ cursor_visible' = ~cursor_visible
  /\ UNCHANGED <<line, phase, adrift, terminal>>

(* Mutant: the cursor is not taken off the screen first. *)
LeavesCursor(text) ==
  /\ phase = "waiting"
  /\ cursor_visible' = FALSE
  /\ out' = text
  /\ UNCHANGED <<cells, row, col, adrift, terminal>>

(* A key: the cursor is taken off the screen, and text written.            *)
Key(text) ==
  /\ phase = "waiting"
  /\ cells' = Drawn(row, col, Blank)
  /\ cursor_visible' = FALSE
  /\ out' = text
  /\ UNCHANGED <<row, col, adrift, terminal>>

Enter ==
  /\ Key(<<LF>>)
  /\ phase' = IF line # <<>> THEN "evaluate" ELSE "prompt"
  /\ UNCHANGED line

(* Mutant: the console needs no more to rub a character out. *)
RubsBySteppingBack ==
  /\ line # <<>>
  /\ Key(<<BS>>)
  /\ line' = Front(line)
  /\ phase' = "show"

Rub ==
  /\ line # <<>>
  /\ Key(<<BS, Blank, BS>>)
  /\ line' = Front(line)
  /\ phase' = "show"

Interrupt ==
  /\ Key(<<"^", LF>>)
  /\ line' = <<>>
  /\ phase' = "prompt"

Type(character) ==
  /\ Len(line) + 1 < LineSize
  /\ Key(<<character>>)
  /\ line' = Append(line, character)
  /\ phase' = "show"

TypeTooMuch ==
  /\ Len(line) + 1 >= LineSize
  /\ Key(Limited)
  /\ line' = <<>>
  /\ phase' = "prompt"

(* Keys without effect: a backspace on an empty line, tab, other events. *)
OtherKey ==
  /\ Key(<<>>)
  /\ phase' = "show"
  /\ UNCHANGED line

(* What a script does to the console. *)
Evaluating ==
  /\ phase = "evaluate" /\ out = <<>>
  /\ UNCHANGED <<line, phase, cursor_visible, terminal>>

ScriptWrites(text) == Evaluating /\ console_write(text) /\ UNCHANGED adrift

ScriptClears == Evaluating /\ console_clear /\ adrift' = FALSE

ScriptSetsCursor(c, r) ==
  /\ Evaluating
  /\ console_set_cursor(c, r)
  /\ adrift' = (<<r, c>> \notin Screen)

(* shell_evaluate is back. *)
Evaluated ==
  /\ phase = "evaluate" /\ out = <<>>
  /\ line' = <<>>
  /\ phase' = "prompt"
  /\ UNCHANGED <<cells, row, col, out, cursor_visible, adrift, terminal>>

Next ==
  \/ Write
  \/ WritePrompt
  \/ ShowCursor
  \/ Blink
  \/ Enter
  \/ Rub
  \/ Interrupt
  \/ \E character \in Typed : Type(character)
  \/ TypeTooMuch
  \/ OtherKey
  \/ \E text \in Outputs : ScriptWrites(text)
  \/ ScriptClears
  \/ \E c \in 0 .. Columns, r \in 0 .. (Rows + 1) : ScriptSetsCursor(c, r)
  \/ Evaluated

Spec == Init /\ [][Next]_vars

-----------------------------------------------------------------------------

(* The cell n cells before the cursor, in reading order. *)
Before(n) ==
  LET position == row * Columns + col - n IN <<position \div Columns, position % Columns>>

(***************************************************************************)
(* What the user sees is what will be evaluated: the cells before the      *)
(* cursor show the prompt and the line, as far back as they have not been  *)
(* scrolled off the screen, through wraps, scrolling and rubouts across    *)
(* rows; unless a script left the cursor off the screen.  And the line     *)
(* buffer always has room for the zero that ENTER writes behind the line.  *)
(***************************************************************************)
LineShown ==
  /\ Len(line) + 1 <= LineSize
  /\ phase \in {"show", "waiting"} /\ out = <<>> /\ ~adrift =>
       LET shown == Prompt \o line IN
       \A n \in 1 .. Len(shown) :
         n <= row * Columns + col => cells[Before(n)] = shown[Len(shown) + 1 - n]

(***************************************************************************)
(* The same for a user at the serial port, whose terminal wipes nothing    *)
(* when it steps back and does not wrap where the screen does: its line    *)
(* shows the prompt, the line and nothing else, with the cursor behind,    *)
(* even where the screen has lost it.                                      *)
(***************************************************************************)
LineMirrored ==
  phase \in {"show", "waiting"} /\ out = <<>> =>
    LET shown == Prompt \o line IN
    /\ at = Len(shown) /\ SubSeq(mirror, 1, at) = shown
    /\ \A i \in (at + 1) .. Len(mirror) : mirror[i] = Blank

(***************************************************************************)
(* The cursor's block is where the cursor is, while it is visible, and     *)
(* nowhere else: no key, output or scrolling leaves one behind.            *)
(***************************************************************************)
OneCursor ==
  \A p \in Screen : cells[p] = Block <=> cursor_visible /\ p = <<row, col>>
=============================================================================
