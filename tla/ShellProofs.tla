----------------------------- MODULE ShellProofs -----------------------------
(***************************************************************************)
(* Proofs about modules Shell and Console, for screens and lines of every  *)
(* size, and every prompt and output.                                      *)
(***************************************************************************)
EXTENDS Shell, SequenceTheorems, TLAPS

-----------------------------------------------------------------------------
(* The cells in reading order.                                             *)

(* The cell at a position, as Before computes it. *)
Cell(k) == <<k \div Columns, k % Columns>>

Cells == Rows * Columns

Position == row * Columns + col

(* A position is in a row and a column: division with a remainder. *)
LEMMA CellIs ==
  ASSUME NEW k \in Nat
  PROVE  \E r \in Nat, c \in 0 .. (Columns - 1) : k = r * Columns + c /\ Cell(k) = <<r, c>>
  <1> DEFINE r == k \div Columns
             c == k % Columns
  <1>1. Columns \in Nat \ {0}
    BY ConsoleAssumption
  <1>2. r \in Nat
    BY <1>1
  <1>3. c \in 0 .. (Columns - 1)
    BY <1>1
  <1>4. c = k - Columns * r
    BY <1>1
  <1>5. Cell(k) = <<r, c>>
    BY DEF Cell
  <1> HIDE DEF r, c
  <1>6. k = r * Columns + c
    BY <1>1, <1>2, <1>3, <1>4
  <1> QED  BY <1>2, <1>3, <1>5, <1>6

(* Only one row and column make a position. *)
LEMMA CellUnique ==
  ASSUME NEW r \in Nat, NEW c \in 0 .. (Columns - 1)
  PROVE  Cell(r * Columns + c) = <<r, c>>
  <1>1. Columns \in Nat \ {0}
    BY ConsoleAssumption
  <1>2. r * Columns + c \in Nat
    BY <1>1
  <1>3. (r * Columns + c) \div Columns = r /\ (r * Columns + c) % Columns = c
    BY <1>1, <1>2
  <1> QED  BY <1>3 DEF Cell

(* The cells are a natural number. *)
LEMMA CellsAre == Cells \in Nat
  <1>1. Columns \in Nat /\ Rows \in Nat
    BY ConsoleAssumption
  <1> QED  BY <1>1 DEF Cells

(* A cell is on the screen if its position is; one row on, it is below.    *)
LEMMA CellsOnScreen ==
  ASSUME NEW k \in Nat
  PROVE  /\ Cell(k) \in Screen <=> k < Cells
         /\ Cell(k + Columns) = <<Cell(k)[1] + 1, Cell(k)[2]>>
  <1>1. Columns \in Nat \ {0, 1} /\ Rows \in Nat \ {0, 1}
    BY ConsoleAssumption
  <1>2. PICK r \in Nat, c \in 0 .. (Columns - 1) : k = r * Columns + c /\ Cell(k) = <<r, c>>
    BY CellIs
  <1>3. r * Columns \in Nat /\ Rows * Columns \in Nat
    BY <1>1, <1>2
  <1>4. r < Rows => k < Cells
    <2>1. r < Rows => (r + 1) * Columns <= Rows * Columns
      BY <1>1, <1>2
    <2>2. (r + 1) * Columns = r * Columns + Columns
      BY <1>1, <1>2
    <2> QED  BY <1>1, <1>2, <1>3, <2>1, <2>2 DEF Cells
  <1>5. r >= Rows => k >= Cells
    <2>1. r >= Rows => r * Columns >= Rows * Columns
      BY <1>1, <1>2
    <2> QED  BY <1>1, <1>2, <1>3, <2>1 DEF Cells
  <1>6. Cell(k) \in Screen <=> r < Rows
    BY <1>1, <1>2 DEF Screen
  <1>7. Cell(k) \in Screen <=> k < Cells
    <2>1. Cells \in Nat
      BY <1>3 DEF Cells
    <2> QED  BY <1>1, <1>2, <1>4, <1>5, <1>6, <2>1
  <1>8. Cell(k + Columns) = <<r + 1, c>>
    <2>1. (r + 1) * Columns + c = k + Columns
      BY <1>1, <1>2
    <2> QED  BY <1>2, <2>1, CellUnique
  <1> QED  BY <1>2, <1>7, <1>8

(* Different positions are different cells. *)
LEMMA CellsDiffer ==
  ASSUME NEW j \in Nat, NEW k \in Nat, Cell(j) = Cell(k)
  PROVE  j = k
  <1>1. PICK r \in Nat, c \in 0 .. (Columns - 1) : j = r * Columns + c /\ Cell(j) = <<r, c>>
    BY CellIs
  <1>2. PICK q \in Nat, b \in 0 .. (Columns - 1) : k = q * Columns + b /\ Cell(k) = <<q, b>>
    BY CellIs
  <1>3. r = q /\ c = b
    BY <1>1, <1>2
  <1> QED  BY <1>1, <1>2, <1>3

(* Where the cursor is when it is on the screen. *)
LEMMA PositionIs ==
  ASSUME OnScreen
  PROVE  /\ row \in 0 .. (Rows - 1) /\ col \in 0 .. (Columns - 1)
         /\ Position \in Nat /\ Position < Cells /\ Cell(Position) = <<row, col>>
  <1>1. Columns \in Nat \ {0, 1} /\ Rows \in Nat \ {0, 1}
    BY ConsoleAssumption
  <1>2. row \in 0 .. (Rows - 1) /\ col \in 0 .. (Columns - 1)
    BY DEF OnScreen, Screen
  <1>3. Position \in Nat
    BY <1>1, <1>2 DEF Position
  <1>4. Cell(Position) = <<row, col>>
    BY <1>2, CellUnique DEF Position
  <1>5. Position < Cells
    BY <1>3, <1>4, CellsOnScreen DEF OnScreen
  <1> QED  BY <1>2, <1>3, <1>4, <1>5

-----------------------------------------------------------------------------
(* A text before the cursor.                                               *)

Pictures == [Screen -> Printable \cup {Block}]

(* A text without its last character. *)
LEMMA FrontIs ==
  ASSUME NEW S, NEW text \in Seq(S), text # <<>>
  PROVE  /\ Len(text) \in Nat \ {0}
         /\ Front(text) \in Seq(S) /\ Len(Front(text)) = Len(text) - 1
         /\ \A i \in 1 .. (Len(text) - 1) : Front(text)[i] = text[i]
  <1>1. Len(text) \in Nat \ {0} /\ \A i \in 1 .. Len(text) : text[i] \in S
    BY EmptySeq, ElementOfSeq
  <1>2. /\ SubSeq(text, 1, Len(text) - 1) \in Seq(S)
        /\ Len(SubSeq(text, 1, Len(text) - 1)) = Len(text) - 1
        /\ \A i \in 1 .. (Len(text) - 1) : SubSeq(text, 1, Len(text) - 1)[i] = text[i]
    <2> DEFINE n == Len(text) - 1
    <2>1. n \in Int /\ \A i \in 1 .. n : text[i] \in S
      BY <1>1
    <2>2. n = Len(text) - 1
      OBVIOUS
    <2> HIDE DEF n
    <2>3. /\ SubSeq(text, 1, n) \in Seq(S)
          /\ Len(SubSeq(text, 1, n)) = IF 1 <= n THEN n - 1 + 1 ELSE 0
          /\ \A i \in 1 .. n - 1 + 1 : SubSeq(text, 1, n)[i] = text[1 + i - 1]
      BY <2>1, SubSeqProperties
    <2> QED  BY <1>1, <2>1, <2>2, <2>3
  <1> QED  BY <1>1, <1>2 DEF Front

(* The cells before a position show text, as far back as there are any.    *)
ShownOn(screen, position, text) ==
  \A n \in 1 .. Len(text) :
    n <= position => screen[Cell(position - n)] = text[Len(text) + 1 - n]

(* Drawing at the cursor changes the cell at its position. *)
LEMMA DrawnIs ==
  ASSUME cells \in Pictures, OnScreen, NEW what \in Printable \cup {Block}
  PROVE  /\ Drawn(row, col, what) \in Pictures
         /\ Drawn(row, col, what)[<<row, col>>] = what
         /\ \A p \in Screen : p # <<row, col>> => Drawn(row, col, what)[p] = cells[p]
  <1>1. Drawn(row, col, what) = [cells EXCEPT ![<<row, col>>] = what] /\ <<row, col>> \in Screen
    BY DEF Drawn, OnScreen
  <1> HIDE DEF Screen
  <1> QED  BY <1>1 DEF Pictures

(* What is drawn at the cursor is not before it. *)
LEMMA DrawnShows ==
  ASSUME cells \in Pictures, OnScreen, NEW what \in Printable \cup {Block},
         NEW text \in Seq(Printable), ShownOn(cells, Position, text)
  PROVE  ShownOn(Drawn(row, col, what), Position, text)
  <1> SUFFICES ASSUME NEW n \in 1 .. Len(text), n <= Position
               PROVE  Drawn(row, col, what)[Cell(Position - n)] = text[Len(text) + 1 - n]
    BY DEF ShownOn
  <1>1. Position \in Nat /\ Position < Cells /\ Cell(Position) = <<row, col>>
    BY PositionIs
  <1>2. Len(text) \in Nat
    BY LenProperties
  <1>3. Position - n \in Nat /\ Position - n < Cells /\ Position - n # Position
    BY <1>1, <1>2, CellsAre
  <1>4. Cell(Position - n) \in Screen /\ Cell(Position - n) # <<row, col>>
    BY <1>1, <1>3, CellsOnScreen, CellsDiffer
  <1>5. cells[Cell(Position - n)] = text[Len(text) + 1 - n]
    BY DEF ShownOn
  <1> QED  BY <1>4, <1>5, DrawnIs

(* A character that is put goes behind the text, also when that scrolls.   *)
LEMMA PutShows ==
  ASSUME cells \in Pictures, OnScreen, NEW c \in Printable, Put(c),
         NEW text \in Seq(Printable), ShownOn(cells, Position, text)
  PROVE  ShownOn(cells', Position', Append(text, c))
  <1> DEFINE s == Drawn(row, col, c)
  <1>1. Columns \in Nat \ {0, 1} /\ Rows \in Nat \ {0, 1} /\ Cells \in Nat
    BY ConsoleAssumption, CellsAre
  <1>2. /\ row \in 0 .. (Rows - 1) /\ col \in 0 .. (Columns - 1)
        /\ Position \in Nat /\ Position < Cells /\ Cell(Position) = <<row, col>>
    BY PositionIs
  <1>3. /\ Len(text) \in Nat /\ Len(Append(text, c)) = Len(text) + 1
        /\ \A i \in 1 .. Len(text) : Append(text, c)[i] = text[i]
        /\ Append(text, c)[Len(text) + 1] = c
    BY LenProperties, AppendProperties
  <1>4. ASSUME NEW k \in Nat, NEW n \in 1 .. (Len(text) + 1), k = Position + 1 - n
        PROVE  /\ Cell(k) \in Screen
               /\ s[Cell(k)] = Append(text, c)[Len(text) + 2 - n]
    <2>1. Cell(k) \in Screen
      BY <1>1, <1>2, <1>4, CellsOnScreen
    <2>2. CASE n = 1
      <3>1. Cell(k) = <<row, col>> /\ Len(text) + 2 - n = Len(text) + 1
        BY <1>2, <1>3, <1>4, <2>2
      <3> QED  BY <1>3, <2>1, <3>1, DrawnIs
    <2>3. CASE n # 1
      <3>1. n - 1 \in 1 .. Len(text) /\ n - 1 <= Position /\ k = Position - (n - 1)
        BY <1>2, <1>3, <1>4, <2>3
      <3>2. ShownOn(s, Position, text)
        BY DrawnShows
      <3>3. s[Cell(k)] = text[Len(text) + 1 - (n - 1)]
        BY <3>1, <3>2 DEF ShownOn
      <3>4. Len(text) + 1 - (n - 1) = Len(text) + 2 - n /\ Len(text) + 2 - n \in 1 .. Len(text)
        BY <1>3, <3>1
      <3> QED  BY <1>3, <2>1, <3>3, <3>4
    <2> QED  BY <2>1, <2>2, <2>3
  <1> HIDE DEF s
  <1>5. CASE col + 1 < Columns \/ row + 1 < Rows
    <2>1. cells' = s /\ Position' = Position + 1
      <3>1. CASE col + 1 < Columns
        <4>1. row' = row /\ col' = col + 1 /\ cells' = s
          BY <1>1, <1>2, <3>1 DEF Put, Advance, s
        <4> QED  BY <1>1, <1>2, <4>1 DEF Position
      <3>2. CASE col + 1 = Columns /\ row + 1 < Rows
        <4>1. row' = row + 1 /\ col' = 0 /\ cells' = s
          BY <1>1, <1>2, <3>2 DEF Put, Advance, s
        <4> QED  BY <1>1, <1>2, <3>2, <4>1 DEF Position
      <3> QED  BY <1>1, <1>2, <1>5, <3>1, <3>2
    <2> DEFINE longer == Append(text, c)
    <2>2. ASSUME NEW n \in 1 .. Len(longer), n <= Position + 1
          PROVE  s[Cell(Position + 1 - n)] = longer[Len(longer) + 1 - n]
      <3>1. /\ n \in 1 .. (Len(text) + 1) /\ Position + 1 - n \in Nat
            /\ Len(longer) + 1 - n = Len(text) + 2 - n
        BY <1>2, <1>3, <2>2
      <3> QED  BY <1>4, <3>1
    <2> HIDE DEF longer
    <2>3. ShownOn(s, Position + 1, longer)
      BY <1>2, <2>2 DEF ShownOn
    <2> QED  BY <2>1, <2>3 DEF longer
  <1>6. CASE col + 1 = Columns /\ row + 1 = Rows
    <2>1. row' = row /\ col' = 0 /\ cells' = Scrolled(s)
      BY <1>1, <1>2, <1>6 DEF Put, Advance, s
    <2>2. Position' = Position + 1 - Columns /\ Position' \in Nat
      BY <1>1, <1>2, <1>6, <2>1 DEF Position
    <2> SUFFICES ASSUME NEW n \in 1 .. (Len(text) + 1), n <= Position'
                 PROVE  cells'[Cell(Position' - n)] = Append(text, c)[Len(text) + 2 - n]
      BY <1>3 DEF ShownOn
    <2> DEFINE k == Position' - n
    <2>3. k \in Nat /\ k + Columns \in Nat /\ k + Columns = Position + 1 - n
      BY <1>1, <1>2, <1>3, <2>2
    <2>4. k < Cells /\ k + Columns < Cells
      BY <1>1, <1>2, <1>3, <2>2, <2>3
    <2> HIDE DEF k
    <2>5. /\ Cell(k) \in Screen /\ Cell(k + Columns) \in Screen
          /\ Cell(k + Columns) = <<Cell(k)[1] + 1, Cell(k)[2]>>
      BY <2>3, <2>4, CellsOnScreen
    <2>6. Cell(k)[1] + 1 < Rows
      BY <2>5, <1>1 DEF Screen
    <2>7. Scrolled(s)[Cell(k)] = s[Cell(k + Columns)]
      BY <2>5, <2>6 DEF Scrolled
    <2>8. s[Cell(k + Columns)] = Append(text, c)[Len(text) + 2 - n]
      BY <1>4, <2>3
    <2> QED  BY <2>1, <2>7, <2>8 DEF k
  <1> QED  BY <1>1, <1>2, <1>5, <1>6

(* A step back takes the last character away, unless the text has no more  *)
(* cells on the screen.                                                    *)
LEMMA BackspaceShows ==
  ASSUME cells \in Pictures, OnScreen, Backspace,
         NEW text \in Seq(Printable), text # <<>>, ShownOn(cells, Position, text)
  PROVE  ShownOn(cells', Position', Front(text))
  <1>1. Columns \in Nat \ {0, 1} /\ Rows \in Nat \ {0, 1} /\ Cells \in Nat
    BY ConsoleAssumption, CellsAre
  <1>2. /\ row \in 0 .. (Rows - 1) /\ col \in 0 .. (Columns - 1)
        /\ Position \in Nat /\ Position < Cells /\ Cell(Position) = <<row, col>>
    BY PositionIs
  <1>3. /\ Len(text) \in Nat \ {0} /\ Len(Front(text)) = Len(text) - 1
        /\ \A i \in 1 .. (Len(text) - 1) : Front(text)[i] = text[i]
    BY FrontIs
  <1>4. CASE row = 0 /\ col = 0
    <2>1. row' = 0 /\ col' = 0
      BY <1>1, <1>4 DEF Backspace
    <2>2. Position' = 0
      BY <1>1, <2>1 DEF Position
    <2> QED  BY <1>3, <2>2 DEF ShownOn
  <1>5. CASE row # 0 \/ col # 0
    <2>1. /\ row' \in 0 .. (Rows - 1) /\ col' \in 0 .. (Columns - 1)
          /\ row' * Columns + col' = Position - 1
      <3>1. CASE col # 0
        <4>1. row' = row /\ col' = col - 1
          BY <1>1, <1>2, <3>1 DEF Backspace
        <4> QED  BY <1>1, <1>2, <3>1, <4>1 DEF Position
      <3>2. CASE col = 0 /\ row # 0
        <4>1. row' = row - 1 /\ col' = Columns - 1
          BY <1>1, <1>2, <3>2 DEF Backspace
        <4> QED  BY <1>1, <1>2, <3>2, <4>1 DEF Position
      <3> QED  BY <1>5, <3>1, <3>2
    <2>2. Position' = Position - 1 /\ Position' \in Nat
      <3>1. row' \in Nat /\ col' \in Nat /\ Columns \in Nat
        BY <1>1, <2>1
      <3>2. \A x, y, z \in Nat : x * y + z \in Nat
        OBVIOUS
      <3>3. row' * Columns + col' \in Nat
        BY <3>1, <3>2
      <3> QED  BY <2>1, <3>3 DEF Position
    <2>3. Cell(Position') = <<row', col'>>
      BY <2>1, CellUnique DEF Position
    <2>4. cells' = Drawn(row', col', Blank)
      BY DEF Backspace
    <2>5. \A p \in Screen : p # <<row', col'>> => cells'[p] = cells[p]
      BY <2>4 DEF Drawn, Pictures
    <2>6. ASSUME NEW n \in 1 .. Len(Front(text)), n <= Position'
          PROVE  cells'[Cell(Position' - n)] = Front(text)[Len(Front(text)) + 1 - n]
      <3>1. /\ Position' - n \in Nat /\ Position' - n < Cells /\ Position' - n # Position'
            /\ Position' - n = Position - (n + 1)
            /\ n + 1 \in 1 .. Len(text) /\ n + 1 <= Position
        BY <1>1, <1>2, <1>3, <2>2, <2>6
      <3>2. Cell(Position' - n) \in Screen /\ Cell(Position' - n) # <<row', col'>>
        BY <2>2, <2>3, <3>1, CellsOnScreen, CellsDiffer
      <3>3. cells[Cell(Position - (n + 1))] = text[Len(text) + 1 - (n + 1)]
        BY <3>1 DEF ShownOn
      <3>4. /\ Len(text) + 1 - (n + 1) = Len(Front(text)) + 1 - n
            /\ Len(Front(text)) + 1 - n \in 1 .. (Len(text) - 1)
        BY <1>3, <2>6
      <3>5. Front(text)[Len(Front(text)) + 1 - n] = text[Len(text) + 1 - (n + 1)]
        BY <1>3, <3>4
      <3> QED  BY <2>5, <3>1, <3>2, <3>3, <3>5
    <2> QED  BY <2>6 DEF ShownOn
  <1> QED  BY <1>2, <1>4, <1>5

-----------------------------------------------------------------------------
(* A text on the line of the terminal.                                     *)

(* What is printed neither moves the cursor otherwise nor fills its cell.  *)
LEMMA PrintableIs ==
  /\ BS \notin Printable /\ CR \notin Printable /\ LF \notin Printable /\ Block \notin Printable
  /\ Blank \in Printable /\ BS # CR /\ BS # LF /\ CR # LF
  BY ShellAssumption DEF Printable, BS, CR, LF, Block, Blank

(* The line shows text with the cursor behind, and blanks from there on,   *)
(* but for the character under the cursor if junk is 1.                    *)
Mirrored(text, junk) ==
  /\ at = Len(text)
  /\ \A i \in 1 .. at : mirror[i] = text[i]
  /\ \A i \in (at + 1 + junk) .. Len(mirror) : mirror[i] = Blank

(* A character that is put replaces what the cursor is on. *)
LEMMA PutMirrored ==
  ASSUME mirror \in Seq(Printable), at \in Nat, at <= Len(mirror), phase # "evaluate",
         NEW c \in Printable, Shows(c),
         NEW text \in Seq(Printable), NEW junk \in {0, 1}, Mirrored(text, junk)
  PROVE  Mirrored(Append(text, c), 0)'
  <1>1. /\ mirror' = IF at < Len(mirror) THEN [mirror EXCEPT ![at + 1] = c]
                                         ELSE Append(mirror, c)
        /\ at' = at + 1
    BY PrintableIs DEF Shows
  <1>2. Len(mirror) \in Nat
    BY LenProperties
  <1>3. /\ Len(mirror') = IF at < Len(mirror) THEN Len(mirror) ELSE Len(mirror) + 1
        /\ \A i \in 1 .. Len(mirror) : mirror'[i] = IF i = at + 1 THEN c ELSE mirror[i]
        /\ mirror'[at + 1] = c
    <2>1. CASE at < Len(mirror)
      <3>1. at + 1 \in 1 .. Len(mirror)
        BY <1>2, <2>1
      <3>2. mirror' = [mirror EXCEPT ![at + 1] = c]
        BY <1>1, <2>1
      <3> QED  BY <2>1, <3>1, <3>2, ExceptSeq
    <2>2. CASE at = Len(mirror)
      <3>1. mirror' = Append(mirror, c)
        BY <1>1, <1>2, <2>2
      <3> QED  BY <1>2, <2>2, <3>1, AppendProperties
    <2> QED  BY <1>2, <2>1, <2>2
  <1>4. /\ Len(text) \in Nat /\ Len(Append(text, c)) = Len(text) + 1
        /\ \A i \in 1 .. Len(text) : Append(text, c)[i] = text[i]
        /\ Append(text, c)[Len(text) + 1] = c
    BY LenProperties, AppendProperties
  <1>5. at' = Len(Append(text, c))
    BY <1>1, <1>4 DEF Mirrored
  <1>6. \A i \in 1 .. at' : mirror'[i] = Append(text, c)[i]
    BY <1>1, <1>2, <1>3, <1>4 DEF Mirrored
  <1>7. \A i \in (at' + 1 + 0) .. Len(mirror') : mirror'[i] = Blank
    BY <1>1, <1>2, <1>3 DEF Mirrored
  <1> QED  BY <1>5, <1>6, <1>7 DEF Mirrored

(* A step back leaves what it steps on. *)
LEMMA BackspaceMirrored ==
  ASSUME mirror \in Seq(Printable), at \in Nat, at <= Len(mirror), phase # "evaluate", Shows(BS),
         NEW text \in Seq(Printable), text # <<>>, Mirrored(text, 0),
         NEW junk \in {0, 1}, junk = 1 \/ text[Len(text)] = Blank
  PROVE  Mirrored(Front(text), junk)'
  <1>1. mirror' = mirror /\ at' = IF at > 0 THEN at - 1 ELSE 0
    BY PrintableIs DEF Shows
  <1>2. /\ Len(text) \in Nat \ {0} /\ Len(Front(text)) = Len(text) - 1
        /\ \A i \in 1 .. (Len(text) - 1) : Front(text)[i] = text[i]
    BY FrontIs
  <1>3. Len(mirror) \in Nat
    BY LenProperties
  <1>4. at' = Len(text) - 1 /\ at = Len(text)
    BY <1>1, <1>2 DEF Mirrored
  <1>5. \A i \in 1 .. at' : mirror'[i] = Front(text)[i]
    BY <1>1, <1>2, <1>4 DEF Mirrored
  <1>6. \A i \in (at' + 1 + junk) .. Len(mirror') : mirror'[i] = Blank
    BY <1>1, <1>2, <1>3, <1>4 DEF Mirrored
  <1> QED  BY <1>2, <1>4, <1>5, <1>6 DEF Mirrored

-----------------------------------------------------------------------------
(* The line while it is written.                                           *)

Shown == Prompt \o line

(***************************************************************************)
(* text is what there is to see so far, while `out` has still to be        *)
(* written: all of it, a part of the prompt, all but the character typed,  *)
(* or, through the three characters of a rubout, one too many, the line    *)
(* itself with what was wiped behind the cursor, and a blank too many.     *)
(***************************************************************************)
Editing(text, junk) ==
  \/ out = <<>> /\ text = Shown /\ junk = 0
  \/ /\ line = <<>> /\ junk = 0
     /\ \E n \in 0 .. Len(Prompt) :
          text = SubSeq(Prompt, 1, n) /\ out = SubSeq(Prompt, n + 1, Len(Prompt))
  \/ \E c \in Typed : out = <<c>> /\ Shown = Append(text, c) /\ junk = 0
  \/ \E c \in Printable : out = <<BS, Blank, BS>> /\ text = Append(Shown, c) /\ junk = 0
  \/ out = <<Blank, BS>> /\ text = Shown /\ junk = 1
  \/ out = <<BS>> /\ text = Append(Shown, Blank) /\ junk = 0

(* What writing c makes of text and junk. *)
Edits(c, text, junk, next, left) ==
  \/ c \in Printable /\ next = Append(text, c) /\ left = 0
  \/ /\ c = BS /\ text # <<>> /\ next = Front(text) /\ junk = 0
     /\ left = 1 \/ text[Len(text)] = Blank

(* The prompt and the line are printable. *)
LEMMA ShownIs ==
  ASSUME line \in Seq(Typed)
  PROVE  Shown \in Seq(Printable) /\ (line = <<>> => Shown = Prompt)
  <1>1. Typed \subseteq Printable /\ Prompt \in Seq(Printable)
    BY ShellAssumption DEF Printable
  <1>2. line \in Seq(Printable)
    BY <1>1, SeqMonotonic
  <1> QED  BY <1>1, <1>2, ConcatProperties, ConcatEmptySeq DEF Shown

(* A character more and one less. *)
LEMMA FrontOfAppend ==
  ASSUME NEW S, NEW text \in Seq(S), NEW c \in S
  PROVE  /\ Append(text, c) \in Seq(S) /\ Append(text, c) # <<>>
         /\ Front(Append(text, c)) = text
         /\ Append(text, c)[Len(Append(text, c))] = c
  <1>1. /\ Append(text, c) \in Seq(S) /\ Append(text, c) # <<>>
        /\ Len(text) \in Nat /\ Len(Append(text, c)) = Len(text) + 1
        /\ \A i \in 1 .. Len(text) : Append(text, c)[i] = text[i]
        /\ Append(text, c)[Len(text) + 1] = c
    BY AppendProperties, LenProperties
  <1> DEFINE longer == Append(text, c)
  <1> HIDE DEF longer
  <1>2. /\ Front(longer) \in Seq(S) /\ Len(Front(longer)) = Len(longer) - 1
        /\ \A i \in 1 .. (Len(longer) - 1) : Front(longer)[i] = longer[i]
    BY <1>1, FrontIs DEF longer
  <1>3. Front(longer) = text
    BY <1>1, <1>2, SeqEqual DEF longer
  <1> QED  BY <1>1, <1>3 DEF longer

(* A text with characters is one with a character behind. *)
LEMMA FrontAndLast ==
  ASSUME NEW S, NEW text \in Seq(S), text # <<>>
  PROVE  \E c \in S : text = Append(Front(text), c)
  <1>1. PICK s \in Seq(S), c \in S : text = Append(s, c)
    BY SequenceEmptyOrAppend
  <1> QED  BY <1>1, FrontOfAppend

(* A character behind the line is one behind the prompt and the line. *)
LEMMA AppendToShown ==
  ASSUME NEW s \in Seq(Typed), NEW c \in Typed
  PROVE  Prompt \o Append(s, c) = Append(Prompt \o s, c)
  <1>1. /\ Prompt \in Seq(Printable) /\ s \in Seq(Printable) /\ c \in Printable
        /\ <<c>> \in Seq(Printable)
    <2>1. Typed \subseteq Printable /\ Prompt \in Seq(Printable)
      BY ShellAssumption DEF Printable
    <2> QED  BY <2>1, SeqMonotonic
  <1>2. Append(s, c) = s \o <<c>>
    BY <1>1, AppendIsConcat
  <1>3. Prompt \o s \in Seq(Printable)
    BY <1>1, ConcatProperties
  <1>4. Append(Prompt \o s, c) = (Prompt \o s) \o <<c>>
    BY <1>1, <1>3, AppendIsConcat
  <1> QED  BY <1>1, <1>2, <1>4, ConcatAssociative

(* When all is written the prompt and the line are there. *)
LEMMA EditingDone ==
  ASSUME line \in Seq(Typed), out = <<>>, NEW text, NEW junk, Editing(text, junk)
  PROVE  text = Shown /\ junk = 0
  <1>1. Prompt \in Seq(Printable) /\ Len(Prompt) \in Nat
    BY ShellAssumption, LenProperties
  <1>2. ASSUME NEW n \in 0 .. Len(Prompt), out = SubSeq(Prompt, n + 1, Len(Prompt))
        PROVE  SubSeq(Prompt, 1, n) = Prompt
    <2>1. CASE n = Len(Prompt)
      BY <1>1, <2>1, SubSeqFull
    <2>2. CASE n # Len(Prompt)
      <3>1. n + 1 \in 1 .. Len(Prompt) /\ Len(Prompt) \in (n + 1) .. Len(Prompt)
        BY <1>1, <2>2
      <3>2. Len(SubSeq(Prompt, n + 1, Len(Prompt))) # 0
        <4> DEFINE m == n + 1
                   k == Len(Prompt)
        <4>1. m \in Int /\ k \in Int /\ m <= k /\ \A i \in m .. k : Prompt[i] \in Printable
          BY <1>1, <3>1, ElementOfSeq
        <4> HIDE DEF m, k
        <4>2. Len(SubSeq(Prompt, m, k)) = IF m <= k THEN k - m + 1 ELSE 0
          BY <4>1, SubSeqProperties
        <4>3. Len(SubSeq(Prompt, m, k)) # 0
          BY <4>1, <4>2
        <4> QED  BY <4>3 DEF m, k
      <3> QED  BY <1>2, <3>2, EmptySeq
    <2> QED  BY <2>1, <2>2
  <1>3. line = <<>> => Shown = Prompt
    BY ShownIs
  <1>4. Len(out) = 0
    BY EmptySeq
  <1> QED  BY <1>2, <1>3, <1>4 DEF Editing

(* Writing a character goes on to the next stage. *)
LEMMA EditingStep ==
  ASSUME line \in Seq(Typed), line' = line, out # <<>>, out' = Tail(out),
         NEW text \in Seq(Printable), NEW junk \in {0, 1}, Editing(text, junk)
  PROVE  \E next \in Seq(Printable), left \in {0, 1} :
           Editing(next, left)' /\ Edits(Head(out), text, junk, next, left)
  <1>1. /\ Prompt \in Seq(Printable) /\ Len(Prompt) \in Nat
        /\ Typed \subseteq Printable /\ Blank \in Printable
    BY ShellAssumption, LenProperties DEF Printable
  <1>2. Shown \in Seq(Printable) /\ Shown' = Shown
    BY ShownIs DEF Shown
  <1>3. ASSUME NEW n \in 0 .. Len(Prompt), line = <<>>,
               text = SubSeq(Prompt, 1, n), out = SubSeq(Prompt, n + 1, Len(Prompt))
        PROVE  \E next \in Seq(Printable), left \in {0, 1} :
                 Editing(next, left)' /\ Edits(Head(out), text, junk, next, left)
    <2>1. n + 1 \in 1 .. Len(Prompt) /\ Len(Prompt) \in (n + 1) .. Len(Prompt)
      <3>1. CASE n = Len(Prompt)
        <4>1. n + 1 \in Int /\ Len(Prompt) \in Int /\ Len(Prompt) < n + 1
          BY <1>1, <3>1
        <4>2. out = <<>>
          BY <1>3, <4>1, SubSeqEmpty
        <4> QED  BY <4>2
      <3> QED  BY <1>1, <3>1
    <2>2. Head(out) = Prompt[n + 1] /\ Tail(out) = SubSeq(Prompt, n + 1 + 1, Len(Prompt))
      BY <1>1, <1>3, <2>1, HeadTailOfSubSeq
    <2>3. Prompt[n + 1] \in Printable
      BY <1>1, <2>1, ElementOfSeq
    <2>4. SubSeq(Prompt, 1, n + 1) = Append(text, Prompt[n + 1])
      <3>1. 1 \in 1 .. Len(Prompt) /\ n + 1 \in 1 .. Len(Prompt)
        BY <2>1
      <3>2. SubSeq(Prompt, 1, n + 1) = SubSeq(Prompt, 1, n + 1 - 1) \o <<Prompt[n + 1]>>
        BY <1>1, <3>1, SubSeqRecursiveSecond
      <3>3. n + 1 - 1 = n
        OBVIOUS
      <3>4. Append(text, Prompt[n + 1]) = text \o <<Prompt[n + 1]>>
        BY <2>3, AppendIsConcat
      <3> QED  BY <1>3, <3>2, <3>3, <3>4
    <2>5. Append(text, Prompt[n + 1]) \in Seq(Printable)
      BY <2>3, AppendProperties
    <2>6. Editing(Append(text, Prompt[n + 1]), 0)'
      <3>1. n + 1 \in 0 .. Len(Prompt)
        BY <2>1
      <3> QED  BY <1>3, <2>2, <2>4, <3>1 DEF Editing
    <2>7. Edits(Head(out), text, junk, Append(text, Prompt[n + 1]), 0)
      BY <2>2, <2>3 DEF Edits
    <2> QED  BY <2>5, <2>6, <2>7
  <1>4. ASSUME NEW c \in Typed, out = <<c>>, Shown = Append(text, c)
        PROVE  \E next \in Seq(Printable), left \in {0, 1} :
                 Editing(next, left)' /\ Edits(Head(out), text, junk, next, left)
    <2>1. Head(out) = c /\ Tail(out) = <<>>
      BY <1>4
    <2>2. Editing(Shown, 0)'
      BY <1>2, <2>1 DEF Editing
    <2>3. Edits(Head(out), text, junk, Shown, 0)
      BY <1>1, <1>4, <2>1 DEF Edits
    <2> QED  BY <1>2, <2>2, <2>3
  <1>5. ASSUME NEW c \in Printable, out = <<BS, Blank, BS>>, text = Append(Shown, c), junk = 0
        PROVE  \E next \in Seq(Printable), left \in {0, 1} :
                 Editing(next, left)' /\ Edits(Head(out), text, junk, next, left)
    <2>1. Head(out) = BS /\ Tail(out) = <<Blank, BS>>
      BY <1>5
    <2>2. text # <<>> /\ Front(text) = Shown
      BY <1>2, <1>5, FrontOfAppend
    <2>3. Editing(Shown, 1)'
      BY <1>2, <2>1 DEF Editing
    <2>4. Edits(Head(out), text, junk, Shown, 1)
      BY <1>5, <2>1, <2>2 DEF Edits
    <2> QED  BY <1>2, <2>3, <2>4
  <1>6. ASSUME out = <<Blank, BS>>, text = Shown
        PROVE  \E next \in Seq(Printable), left \in {0, 1} :
                 Editing(next, left)' /\ Edits(Head(out), text, junk, next, left)
    <2>1. Head(out) = Blank /\ Tail(out) = <<BS>>
      BY <1>6
    <2> DEFINE longer == Append(Shown, Blank)
    <2>2. longer \in Seq(Printable)
      BY <1>1, <1>2, AppendProperties
    <2>3. Editing(longer, 0)'
      BY <1>2, <2>1 DEF Editing
    <2>4. Edits(Head(out), text, junk, longer, 0)
      BY <1>1, <1>6, <2>1 DEF Edits
    <2>5. longer' = longer
      BY <1>2
    <2> HIDE DEF longer
    <2> QED  BY <2>2, <2>3, <2>4, <2>5
  <1>7. ASSUME out = <<BS>>, text = Append(Shown, Blank), junk = 0
        PROVE  \E next \in Seq(Printable), left \in {0, 1} :
                 Editing(next, left)' /\ Edits(Head(out), text, junk, next, left)
    <2>1. Head(out) = BS /\ Tail(out) = <<>>
      BY <1>7
    <2>2. text # <<>> /\ Front(text) = Shown /\ text[Len(text)] = Blank
      BY <1>1, <1>2, <1>7, FrontOfAppend
    <2>3. Editing(Shown, 0)'
      BY <1>2, <2>1 DEF Editing
    <2>4. Edits(Head(out), text, junk, Shown, 0)
      BY <1>7, <2>1, <2>2 DEF Edits
    <2> QED  BY <1>2, <2>3, <2>4
  <1> QED  BY <1>3, <1>4, <1>5, <1>6, <1>7 DEF Editing

-----------------------------------------------------------------------------
(* The invariant.                                                          *)

Typing ==
  /\ cells \in Pictures /\ row \in Nat /\ col \in Nat
  /\ out \in Seq(Characters) /\ line \in Seq(Typed)
  /\ phase \in {"prompt", "show", "waiting", "evaluate"}
  /\ cursor_visible \in BOOLEAN /\ adrift \in BOOLEAN
  /\ mirror \in Seq(Printable) /\ at \in Nat /\ at <= Len(mirror)

(* Where the handler is, and with it the line and the cursor.              *)
Control ==
  /\ phase = "waiting" => out = <<>>
  /\ cursor_visible => phase = "waiting"
  /\ phase = "prompt" => line = <<>>
  /\ Len(line) + 1 <= LineSize
  /\ ~adrift => OnScreen

(* While a line is edited, both screens show what has been written of it. *)
Edited ==
  phase \in {"show", "waiting"} =>
    \E text \in Seq(Printable), junk \in {0, 1} :
      /\ Editing(text, junk)
      /\ ~adrift => ShownOn(cells, Position, text)
      /\ Mirrored(text, junk)

(* Inductive: what is shown, with the control that it depends on. *)
Inv == Typing /\ Control /\ OneCursor /\ Edited

(***************************************************************************)
(* Writing a character keeps the cursor on the screen, or lets it not get  *)
(* further off, and brings nothing on the screen but what is printed.      *)
(***************************************************************************)
LEMMA WriteKeeps ==
  ASSUME NEW S, Printable \subseteq S, cells \in [Screen -> S], row \in Nat, col \in Nat,
         out \in Seq(Characters), WriteCharacter
  PROVE  /\ cells' \in [Screen -> S] /\ row' \in Nat /\ col' \in Nat
         /\ out' \in Seq(Characters) /\ out # <<>> /\ out' = Tail(out)
         /\ OnScreen => OnScreen'
         /\ row' < Rows \/ row' <= row
         /\ col' < Columns \/ col' <= col
  <1>1. Columns \in Nat \ {0, 1} /\ Rows \in Nat \ {0, 1}
    BY ConsoleAssumption
  <1>2. /\ out # <<>> /\ out' = Tail(out) /\ out' \in Seq(Characters)
        /\ Head(out) \in Characters
    BY HeadTailProperties DEF WriteCharacter
  <1>3. ASSUME NEW r, NEW c, NEW what \in S
        PROVE  Drawn(r, c, what) \in [Screen -> S]
    BY <1>3 DEF Drawn
  <1>4. ASSUME NEW s \in [Screen -> S]
        PROVE  Scrolled(s) \in [Screen -> S]
    <2> SUFFICES ASSUME NEW p \in Screen
                 PROVE  (IF p[1] + 1 < Rows THEN s[<<p[1] + 1, p[2]>>] ELSE Blank) \in S
      BY DEF Scrolled
    <2>1. p[1] + 1 < Rows => <<p[1] + 1, p[2]>> \in Screen
      BY <1>1 DEF Screen
    <2> QED  BY <2>1, PrintableIs
  <1>5. ASSUME NEW r \in Nat, NEW c \in 0 .. (Columns - 1), NEW s \in [Screen -> S],
               r <= row + 1, Advance(r, c, s)
        PROVE  /\ cells' \in [Screen -> S] /\ row' \in Nat /\ col' = c
               /\ row' < Rows \/ row' <= row
    <2>1. row' = IF r >= Rows THEN r - 1 ELSE r
      BY <1>5 DEF Advance
    <2>2. cells' \in [Screen -> S] /\ col' = c
      BY <1>4, <1>5 DEF Advance
    <2> QED  BY <1>1, <1>5, <2>1, <2>2
  <1>6. CASE Head(out) = BS
    <2>1. Backspace
      BY <1>6, PrintableIs DEF WriteCharacter
    <2>2. cells' \in [Screen -> S]
      BY <1>3, <2>1, PrintableIs DEF Backspace
    <2>3. /\ row' \in Nat /\ col' \in Nat /\ row' <= row
          /\ col' < Columns \/ col' <= col
      BY <1>1, <2>1 DEF Backspace
    <2> QED  BY <1>1, <1>2, <2>2, <2>3 DEF OnScreen, Screen
  <1>7. CASE Head(out) = CR
    <2>1. col' = 0 /\ cells' = cells /\ row' = row
      BY <1>7, PrintableIs DEF WriteCharacter, CarriageReturn
    <2> QED  BY <1>1, <1>2, <2>1 DEF OnScreen, Screen
  <1>8. CASE Head(out) = LF
    <2>1. Advance(row + 1, 0, cells)
      BY <1>8, PrintableIs DEF WriteCharacter, Newline
    <2>2. /\ cells' \in [Screen -> S] /\ row' \in Nat /\ col' = 0
          /\ row' < Rows \/ row' <= row
      BY <1>1, <1>5, <2>1
    <2> QED  BY <1>1, <1>2, <2>2 DEF OnScreen, Screen
  <1>9. CASE Head(out) \in Printable
    <2> DEFINE s == Drawn(row, col, Head(out))
    <2>1. Put(Head(out))
      BY <1>9, PrintableIs DEF WriteCharacter
    <2>2. s \in [Screen -> S]
      BY <1>3, <1>9
    <2> HIDE DEF s
    <2>3. CASE col + 1 >= Columns
      <3>1. Advance(row + 1, 0, s)
        BY <2>1, <2>3 DEF Put, s
      <3>2. /\ cells' \in [Screen -> S] /\ row' \in Nat /\ col' = 0
            /\ row' < Rows \/ row' <= row
        BY <1>1, <1>5, <2>2, <3>1
      <3> QED  BY <1>1, <1>2, <3>2 DEF OnScreen, Screen
    <2>4. CASE col + 1 < Columns
      <3>1. Advance(row, col + 1, s) /\ col + 1 \in 0 .. (Columns - 1)
        BY <1>1, <2>1, <2>4 DEF Put, s
      <3>2. /\ cells' \in [Screen -> S] /\ row' \in Nat /\ col' = col + 1
            /\ row' < Rows \/ row' <= row
        BY <1>1, <1>5, <2>2, <3>1
      <3> QED  BY <1>1, <1>2, <2>4, <3>2 DEF OnScreen, Screen
    <2> QED  BY <1>1, <2>3, <2>4
  <1> QED  BY <1>2, <1>6, <1>7, <1>8, <1>9 DEF Characters

(* The invariant holds when the shell starts. *)
LEMMA InitInv == Init => Inv
  <1> SUFFICES ASSUME Init PROVE Inv
    OBVIOUS
  <1>1. Columns \in Nat \ {0, 1} /\ Rows \in Nat \ {0, 1} /\ LineSize \in Nat \ {0}
    BY ConsoleAssumption, ShellAssumption
  <1>2. /\ Len(<<>>) = 0
        /\ <<>> \in Seq(Characters) /\ <<>> \in Seq(Typed) /\ <<>> \in Seq(Printable)
    BY EmptySeq
  <1>3. Typing
    <2>1. cells \in Pictures
      BY PrintableIs DEF Init, InitConsole, Pictures
    <2>2. out \in Seq(Characters) /\ line \in Seq(Typed) /\ mirror \in Seq(Printable)
      BY <1>2 DEF Init, InitConsole
    <2>3. /\ row \in Nat /\ col \in Nat /\ at \in Nat /\ at <= Len(mirror)
          /\ phase \in {"prompt", "show", "waiting", "evaluate"}
      BY <1>2 DEF Init, InitConsole
    <2>4. cursor_visible \in BOOLEAN /\ adrift \in BOOLEAN
      BY DEF Init
    <2> QED  BY <2>1, <2>2, <2>3, <2>4 DEF Typing
  <1>4. Control
    BY <1>1, <1>2 DEF Init, InitConsole, Control, OnScreen, Screen
  <1>5. OneCursor
    BY PrintableIs DEF Init, InitConsole, OneCursor
  <1>6. Edited
    BY DEF Init, Edited
  <1> QED  BY <1>3, <1>4, <1>5, <1>6 DEF Inv

(***************************************************************************)
(* The cursor's block or nothing is drawn where the cursor is, as it is    *)
(* remembered: there is one cursor, and the text before it stays.          *)
(***************************************************************************)
LEMMA CursorDrawn ==
  ASSUME Typing, Control, OneCursor, cursor_visible' \in BOOLEAN, UNCHANGED <<row, col>>,
         cells' = Drawn(row, col, IF cursor_visible' THEN Block ELSE Blank)
  PROVE  /\ cells' \in Pictures
         /\ OneCursor'
         /\ \A t \in Seq(Printable) :
              ~adrift /\ ShownOn(cells, Position, t) => ShownOn(cells', Position', t)
  <1> DEFINE what == IF cursor_visible' THEN Block ELSE Blank
  <1>1. cells' = Drawn(row, col, what)
    OBVIOUS
  <1>2. what \in Printable \cup {Block} /\ (what = Block <=> cursor_visible')
    BY PrintableIs
  <1> HIDE DEF what
  <1>3. CASE OnScreen
    <2>1. /\ cells' \in Pictures /\ cells'[<<row, col>>] = what
          /\ \A p \in Screen : p # <<row, col>> => cells'[p] = cells[p]
      BY <1>1, <1>2, <1>3, DrawnIs DEF Typing
    <2>2. OneCursor'
      BY <1>2, <1>3, <2>1 DEF OneCursor
    <2>3. Position' = Position
      BY DEF Position
    <2>4. \A t \in Seq(Printable) : ShownOn(cells, Position, t) => ShownOn(cells', Position', t)
      BY <1>1, <1>2, <1>3, <2>3, DrawnShows DEF Typing
    <2> QED  BY <2>1, <2>2, <2>4
  <1>4. CASE ~OnScreen
    <2>1. cells' = cells
      BY <1>1, <1>4 DEF Drawn, OnScreen
    <2>2. OneCursor'
      BY <1>4, <2>1 DEF OneCursor, OnScreen
    <2>3. cells' \in Pictures /\ adrift
      BY <1>4, <2>1 DEF Typing, Control
    <2> QED  BY <2>2, <2>3
  <1> QED  BY <1>3, <1>4

(* A key: the cursor is taken off the screen before anything is written.   *)
LEMMA KeyKeeps ==
  ASSUME Inv, NEW text \in Seq(Characters), Key(text), line' \in Seq(Typed),
         Len(line') + 1 <= LineSize
  PROVE  /\ phase = "waiting" /\ out = <<>> /\ out' = text
         /\ phase' \in {"prompt", "show", "evaluate"} /\ (phase' = "prompt" => line' = <<>>)
              => Typing' /\ Control'
         /\ OneCursor'
         /\ \E t \in Seq(Printable) :
              /\ t = Shown
              /\ ~adrift' => ShownOn(cells', Position', t)
              /\ Mirrored(t, 0)'
  <1>1. /\ cells' = Drawn(row, col, Blank) /\ out' = text /\ cursor_visible' = FALSE
        /\ UNCHANGED <<row, col, adrift, mirror, at>> /\ phase = "waiting" /\ out = <<>>
    BY DEF Key, Inv, Control, terminal
  <1>2. cells' = Drawn(row, col, IF cursor_visible' THEN Block ELSE Blank)
    BY <1>1
  <1>3. /\ cells' \in Pictures /\ OneCursor'
        /\ \A t \in Seq(Printable) :
             ~adrift /\ ShownOn(cells, Position, t) => ShownOn(cells', Position', t)
    BY <1>1, <1>2, CursorDrawn DEF Inv
  <1>4. PICK t \in Seq(Printable), junk \in {0, 1} :
           /\ Editing(t, junk)
           /\ ~adrift => ShownOn(cells, Position, t)
           /\ Mirrored(t, junk)
    BY <1>1 DEF Inv, Edited
  <1>5. t = Shown /\ junk = 0
    BY <1>1, <1>4, EditingDone DEF Inv, Typing
  <1>6. Mirrored(t, 0)'
    BY <1>1, <1>4, <1>5 DEF Mirrored
  <1>7. phase' \in {"prompt", "show", "evaluate"} /\ (phase' = "prompt" => line' = <<>>)
              => Typing' /\ Control'
    BY <1>1, <1>3 DEF Inv, Typing, Control, OnScreen
  <1> QED  BY <1>1, <1>3, <1>4, <1>5, <1>6, <1>7

(* Characters are written. *)
LEMMA WriteStep == Inv /\ Write => Inv'
  <1> SUFFICES ASSUME Inv, Write PROVE Inv'
    OBVIOUS
  <1>1. /\ cells \in Pictures /\ row \in Nat /\ col \in Nat
        /\ out \in Seq(Characters) /\ line \in Seq(Typed)
        /\ mirror \in Seq(Printable) /\ at \in Nat /\ at <= Len(mirror)
    BY DEF Inv, Typing
  <1>2. /\ WriteCharacter /\ Shows(Head(out))
        /\ UNCHANGED <<line, phase, cursor_visible, adrift>>
    BY DEF Write
  <1>3. /\ cells' \in Pictures /\ row' \in Nat /\ col' \in Nat
        /\ out' \in Seq(Characters) /\ out # <<>> /\ out' = Tail(out)
        /\ OnScreen => OnScreen'
    BY <1>1, <1>2, WriteKeeps DEF Pictures
  <1>4. Head(out) \in Characters
    BY <1>1, <1>3, HeadTailProperties
  <1>5. phase # "waiting" /\ ~cursor_visible
    BY <1>3 DEF Inv, Control
  <1>6. mirror' \in Seq(Printable) /\ at' \in Nat /\ at' <= Len(mirror')
    <2>1. CASE phase = "evaluate"
      BY <1>1, <1>2, <2>1 DEF Shows, terminal
    <2>2. CASE phase # "evaluate" /\ Head(out) \in {BS, CR, LF}
      <3>1. <<>> \in Seq(Printable) /\ Len(<<>>) = 0 /\ Len(mirror) \in Nat
        BY <1>1, EmptySeq, LenProperties
      <3>2. CASE Head(out) = LF
        <4>1. mirror' = <<>> /\ at' = 0
          BY <1>2, <2>2, <3>2, PrintableIs DEF Shows
        <4> QED  BY <3>1, <4>1
      <3>3. CASE Head(out) = CR
        <4>1. mirror' = mirror /\ at' = 0
          BY <1>2, <2>2, <3>3, PrintableIs DEF Shows
        <4> QED  BY <1>1, <3>1, <4>1
      <3>4. CASE Head(out) = BS
        <4>1. mirror' = mirror /\ at' = IF at > 0 THEN at - 1 ELSE 0
          BY <1>2, <2>2, <3>4, PrintableIs DEF Shows
        <4> QED  BY <1>1, <3>1, <4>1
      <3> QED  BY <2>2, <3>2, <3>3, <3>4
    <2>3. CASE phase # "evaluate" /\ Head(out) \in Printable
      <3>1. /\ mirror' = IF at < Len(mirror) THEN [mirror EXCEPT ![at + 1] = Head(out)]
                                             ELSE Append(mirror, Head(out))
            /\ at' = at + 1
        BY <1>2, <2>3, PrintableIs DEF Shows
      <3>2. Len(mirror) \in Nat
        BY <1>1, LenProperties
      <3>3. CASE at < Len(mirror)
        <4>1. at + 1 \in 1 .. Len(mirror)
          BY <1>1, <3>2, <3>3
        <4>2. mirror' = [mirror EXCEPT ![at + 1] = Head(out)]
          BY <3>1, <3>3
        <4> QED  BY <1>1, <2>3, <3>1, <4>1, <4>2, ExceptSeq
      <3>4. CASE at = Len(mirror)
        <4>1. mirror' = Append(mirror, Head(out))
          BY <3>1, <3>2, <3>4
        <4> QED  BY <1>1, <2>3, <3>1, <3>2, <3>4, <4>1, AppendProperties
      <3> QED  BY <1>1, <3>2, <3>3, <3>4
    <2> QED  BY <1>4, <2>1, <2>2, <2>3 DEF Characters
  <1>7. Typing'
    BY <1>2, <1>3, <1>6 DEF Inv, Typing
  <1>8. Control'
    BY <1>2, <1>3, <1>5 DEF Inv, Control
  <1>9. OneCursor'
    <2>1. cells \in [Screen -> Printable]
      BY <1>1, <1>5 DEF Inv, OneCursor, Pictures
    <2>2. cells' \in [Screen -> Printable]
      BY <1>1, <1>2, <2>1, WriteKeeps
    <2> QED  BY <1>2, <1>5, <2>2, PrintableIs DEF OneCursor
  <1>10. Edited'
    <2> SUFFICES ASSUME phase = "show" PROVE Edited'
      BY <1>2, <1>5 DEF Edited
    <2>1. PICK text \in Seq(Printable), junk \in {0, 1} :
             /\ Editing(text, junk)
             /\ ~adrift => ShownOn(cells, Position, text)
             /\ Mirrored(text, junk)
      BY DEF Inv, Edited
    <2>2. PICK next \in Seq(Printable), left \in {0, 1} :
             Editing(next, left)' /\ Edits(Head(out), text, junk, next, left)
      BY <1>1, <1>2, <1>3, <2>1, EditingStep
    <2>3. CASE Head(out) \in Printable /\ next = Append(text, Head(out)) /\ left = 0
      <3>1. Mirrored(next, left)'
        BY <1>1, <1>2, <2>1, <2>3, PutMirrored
      <3>2. Put(Head(out))
        BY <1>2, <2>3, PrintableIs DEF WriteCharacter
      <3>3. ~adrift => ShownOn(cells', Position', next)
        BY <1>1, <2>1, <2>3, <3>2, PutShows DEF Inv, Control
      <3> QED  BY <1>2, <2>2, <3>1, <3>3 DEF Edited
    <2>4. CASE /\ Head(out) = BS /\ text # <<>> /\ next = Front(text) /\ junk = 0
               /\ left = 1 \/ text[Len(text)] = Blank
      <3>1. Mirrored(next, left)'
        BY <1>1, <1>2, <2>1, <2>4, BackspaceMirrored
      <3>2. Backspace
        BY <1>2, <2>4, PrintableIs DEF WriteCharacter
      <3>3. ~adrift => ShownOn(cells', Position', next)
        BY <1>1, <2>1, <2>4, <3>2, BackspaceShows DEF Inv, Control
      <3> QED  BY <1>2, <2>2, <3>1, <3>3 DEF Edited
    <2> QED  BY <2>2, <2>3, <2>4 DEF Edits
  <1> QED  BY <1>7, <1>8, <1>9, <1>10 DEF Inv

(* The prompt is about to be written, on a line of its own. *)
LEMMA PromptStep == Inv /\ WritePrompt => Inv'
  <1> SUFFICES ASSUME Inv, WritePrompt PROVE Inv'
    OBVIOUS
  <1>1. /\ phase = "prompt" /\ phase' = "show" /\ out' = Prompt /\ line = <<>>
        /\ adrift' = (adrift /\ ~OnScreen) /\ mirror' = <<>> /\ at' = 0
        /\ UNCHANGED <<cells, row, col, line, cursor_visible>>
    BY DEF WritePrompt, console_write, Inv, Control
  <1>2. /\ Prompt \in Seq(Printable) /\ Prompt \in Seq(Characters)
        /\ <<>> \in Seq(Printable) /\ Len(<<>>) = 0 /\ Len(Prompt) \in Nat
    <2>1. Prompt \in Seq(Printable) /\ Printable \subseteq Characters
      BY ShellAssumption DEF Characters
    <2> QED  BY <2>1, SeqMonotonic, EmptySeq, LenProperties
  <1>3. Typing'
    <2>1. /\ mirror' \in Seq(Printable) /\ at' \in Nat /\ at' <= Len(mirror')
          /\ out' \in Seq(Characters)
      BY <1>1, <1>2
    <2>2. adrift' \in BOOLEAN
      BY <1>1
    <2> QED  BY <1>1, <2>1, <2>2 DEF Inv, Typing
  <1>4. Control'
    BY <1>1 DEF Inv, Control, OnScreen
  <1>5. OneCursor'
    BY <1>1 DEF Inv, OneCursor
  <1>6. Edited'
    <2>1. SubSeq(Prompt, 1, 0) = <<>> /\ SubSeq(Prompt, 0 + 1, Len(Prompt)) = Prompt
      BY <1>2, SubSeqEmpty, SubSeqFull
    <2>2. Editing(<<>>, 0)'
      BY <1>1, <1>2, <2>1 DEF Editing
    <2>3. ShownOn(cells', Position', <<>>)
      BY <1>2 DEF ShownOn
    <2>4. Mirrored(<<>>, 0)'
      BY <1>1, <1>2 DEF Mirrored
    <2> QED  BY <1>2, <2>2, <2>3, <2>4 DEF Edited
  <1> QED  BY <1>3, <1>4, <1>5, <1>6 DEF Inv

(* The cursor is shown, or blinks, and the line stays. *)
LEMMA CursorStep == Inv /\ (ShowCursor \/ Blink) => Inv'
  <1> SUFFICES ASSUME Inv, ShowCursor \/ Blink PROVE Inv'
    OBVIOUS
  <1>1. /\ phase \in {"show", "waiting"} /\ phase' = "waiting" /\ out = <<>> /\ out' = <<>>
        /\ cells' = Drawn(row, col, IF cursor_visible' THEN Block ELSE Blank)
        /\ cursor_visible' \in BOOLEAN
        /\ UNCHANGED <<row, col, line, adrift, mirror, at>>
    BY DEF ShowCursor, Blink, console_set_cursor_visible, terminal, Inv, Control
  <1>2. /\ cells' \in Pictures /\ OneCursor'
        /\ \A t \in Seq(Printable) :
             ~adrift /\ ShownOn(cells, Position, t) => ShownOn(cells', Position', t)
    BY <1>1, CursorDrawn DEF Inv
  <1>3. Typing'
    BY <1>1, <1>2 DEF Inv, Typing
  <1>4. Control'
    BY <1>1 DEF Inv, Control, OnScreen
  <1>5. Edited'
    <2>1. PICK text \in Seq(Printable), junk \in {0, 1} :
             /\ Editing(text, junk)
             /\ ~adrift => ShownOn(cells, Position, text)
             /\ Mirrored(text, junk)
      BY <1>1 DEF Inv, Edited
    <2>2. Editing(text, junk)'
      BY <1>1, <2>1 DEF Editing, Shown
    <2>3. Mirrored(text, junk)'
      BY <1>1, <2>1 DEF Mirrored
    <2> QED  BY <1>1, <1>2, <2>1, <2>2, <2>3 DEF Edited
  <1> QED  BY <1>2, <1>3, <1>4, <1>5 DEF Inv

(* A command or nothing is entered, the line is given up or is too long.   *)
LEMMA LineEnds == Inv /\ (Enter \/ Interrupt \/ TypeTooMuch) => Inv'
  <1> SUFFICES ASSUME Inv, Enter \/ Interrupt \/ TypeTooMuch PROVE Inv'
    OBVIOUS
  <1>1. /\ <<LF>> \in Seq(Characters) /\ <<"^", LF>> \in Seq(Characters)
        /\ Limited \in Seq(Characters) /\ LineSize \in Nat \ {0}
    BY ShellAssumption DEF Characters, Printable
  <1>2. PICK text \in Seq(Characters) : Key(text)
    BY <1>1 DEF Enter, Interrupt, TypeTooMuch
  <1>3. <<>> \in Seq(Typed) /\ Len(<<>>) = 0
    BY EmptySeq
  <1>4. line' \in Seq(Typed) /\ Len(line') + 1 <= LineSize
    <2>1. CASE Enter
      BY <2>1 DEF Enter, Inv, Typing, Control
    <2>2. CASE Interrupt \/ TypeTooMuch
      <3>1. line' = <<>>
        BY <2>2 DEF Interrupt, TypeTooMuch
      <3> QED  BY <1>1, <1>3, <3>1
    <2> QED  BY <2>1, <2>2
  <1>5. phase' \in {"prompt", "evaluate"} /\ (phase' = "prompt" => line' = <<>>)
    BY DEF Enter, Interrupt, TypeTooMuch
  <1>6. Typing' /\ Control' /\ OneCursor'
    BY <1>2, <1>4, <1>5, KeyKeeps
  <1>7. Edited'
    BY <1>5 DEF Edited
  <1> QED  BY <1>6, <1>7 DEF Inv

(* A character is rubbed out. *)
LEMMA RubStep == Inv /\ Rub => Inv'
  <1> SUFFICES ASSUME Inv, Rub PROVE Inv'
    OBVIOUS
  <1>1. /\ line # <<>> /\ Key(<<BS, Blank, BS>>) /\ line' = Front(line) /\ phase' = "show"
        /\ line \in Seq(Typed) /\ Len(line) + 1 <= LineSize
    BY DEF Rub, Inv, Typing, Control
  <1>2. <<BS, Blank, BS>> \in Seq(Characters) /\ LineSize \in Nat
    BY ShellAssumption DEF Characters, Printable
  <1>3. line' \in Seq(Typed) /\ Len(line') + 1 <= LineSize
    BY <1>1, <1>2, FrontIs
  <1>4. Typing' /\ Control' /\ OneCursor' /\ out' = <<BS, Blank, BS>>
    BY <1>1, <1>2, <1>3, KeyKeeps
  <1>5. PICK t \in Seq(Printable) :
           t = Shown /\ (~adrift' => ShownOn(cells', Position', t)) /\ Mirrored(t, 0)'
    BY <1>1, <1>2, <1>3, KeyKeeps
  <1>6. PICK c \in Typed : line = Append(line', c)
    BY <1>1, FrontAndLast
  <1>7. c \in Printable /\ Typed \subseteq Printable /\ Prompt \in Seq(Printable)
    BY ShellAssumption DEF Printable
  <1>8. Shown = Append(Shown', c)
    BY <1>3, <1>6, <1>7, AppendToShown DEF Shown
  <1>9. Editing(t, 0)'
    BY <1>4, <1>5, <1>7, <1>8 DEF Editing
  <1>10. Edited'
    BY <1>5, <1>9 DEF Edited
  <1> QED  BY <1>4, <1>10 DEF Inv

(* A character is typed, or a key without effect is. *)
LEMMA TypeStep == Inv /\ ((\E c \in Typed : Type(c)) \/ OtherKey) => Inv'
  <1> SUFFICES ASSUME Inv, (\E c \in Typed : Type(c)) \/ OtherKey PROVE Inv'
    OBVIOUS
  <1>1. /\ line \in Seq(Typed) /\ Len(line) + 1 <= LineSize /\ Len(line) \in Nat
        /\ LineSize \in Nat /\ Typed \subseteq Printable /\ Typed \subseteq Characters
    BY ShellAssumption, LenProperties DEF Inv, Typing, Control, Characters, Printable
  <1>2. ASSUME NEW c \in Typed, Type(c) PROVE Inv'
    <2>1. /\ Len(line) + 1 < LineSize /\ Key(<<c>>) /\ line' = Append(line, c)
          /\ phase' = "show"
      BY <1>2 DEF Type
    <2>2. <<c>> \in Seq(Characters)
      BY <1>1
    <2>3. line' \in Seq(Typed) /\ Len(line') + 1 <= LineSize
      <3>1. line' \in Seq(Typed) /\ Len(line') = Len(line) + 1
        BY <1>1, <2>1, AppendProperties
      <3> QED  BY <1>1, <2>1, <3>1
    <2>4. Typing' /\ Control' /\ OneCursor' /\ out' = <<c>>
      BY <2>1, <2>2, <2>3, KeyKeeps
    <2>5. PICK t \in Seq(Printable) :
             t = Shown /\ (~adrift' => ShownOn(cells', Position', t)) /\ Mirrored(t, 0)'
      BY <2>1, <2>2, <2>3, KeyKeeps
    <2>6. Shown' = Append(Shown, c)
      BY <1>1, <2>1, AppendToShown DEF Shown
    <2>7. Editing(t, 0)'
      BY <2>4, <2>5, <2>6 DEF Editing
    <2>8. Edited'
      BY <2>5, <2>7 DEF Edited
    <2> QED  BY <2>4, <2>8 DEF Inv
  <1>3. CASE OtherKey
    <2>1. Key(<<>>) /\ line' = line /\ phase' = "show"
      BY <1>3 DEF OtherKey
    <2>2. <<>> \in Seq(Characters)
      BY EmptySeq
    <2>3. Typing' /\ Control' /\ OneCursor' /\ out' = <<>>
      BY <1>1, <2>1, <2>2, KeyKeeps
    <2>4. PICK t \in Seq(Printable) :
             t = Shown /\ (~adrift' => ShownOn(cells', Position', t)) /\ Mirrored(t, 0)'
      BY <1>1, <2>1, <2>2, KeyKeeps
    <2>5. Editing(t, 0)'
      BY <2>1, <2>3, <2>4 DEF Editing, Shown
    <2>6. Edited'
      BY <2>4, <2>5 DEF Edited
    <2> QED  BY <2>3, <2>6 DEF Inv
  <1> QED  BY <1>2, <1>3

(* What a script does to the console, and its return. *)
LEMMA ScriptStep ==
  ASSUME Inv,
         \/ \E text \in Outputs : ScriptWrites(text)
         \/ ScriptClears
         \/ \E c \in 0 .. Columns, r \in 0 .. (Rows + 1) : ScriptSetsCursor(c, r)
         \/ Evaluated
  PROVE  Inv'
  <1>1. Columns \in Nat \ {0, 1} /\ Rows \in Nat \ {0, 1} /\ LineSize \in Nat \ {0}
    BY ConsoleAssumption, ShellAssumption
  <1>2. phase = "evaluate" /\ ~cursor_visible /\ cursor_visible' = cursor_visible
        /\ UNCHANGED <<mirror, at>>
    BY DEF ScriptWrites, ScriptClears, ScriptSetsCursor, Evaluated, Evaluating, terminal,
           Inv, Control
  <1>3. CASE \E text \in Outputs : ScriptWrites(text)
    <2>1. PICK text \in Outputs : ScriptWrites(text)
      BY <1>3
    <2>2. out' = text /\ text \in Seq(Characters)
          /\ UNCHANGED <<cells, row, col, line, phase, adrift>>
      BY <2>1, ShellAssumption DEF ScriptWrites, Evaluating, console_write
    <2> QED  BY <1>2, <2>2 DEF Inv, Typing, Control, OnScreen, OneCursor, Edited
  <1>4. CASE ScriptClears
    <2>1. /\ cells' = [p \in Screen |-> Blank] /\ row' = 1 /\ col' = 1 /\ adrift' = FALSE
          /\ UNCHANGED <<out, line, phase>>
      BY <1>4 DEF ScriptClears, Evaluating, console_clear
    <2>2. cells' \in Pictures
      BY <2>1, PrintableIs DEF Pictures
    <2>3. Typing'
      BY <1>2, <2>1, <2>2 DEF Inv, Typing
    <2>4. Control'
      BY <1>1, <1>2, <2>1 DEF Inv, Control, OnScreen, Screen
    <2>5. OneCursor'
      BY <1>2, <2>1, PrintableIs DEF OneCursor
    <2>6. Edited'
      BY <1>2, <2>1 DEF Edited
    <2> QED  BY <2>3, <2>4, <2>5, <2>6 DEF Inv
  <1>5. CASE \E c \in 0 .. Columns, r \in 0 .. (Rows + 1) : ScriptSetsCursor(c, r)
    <2>1. PICK c \in 0 .. Columns, r \in 0 .. (Rows + 1) : ScriptSetsCursor(c, r)
      BY <1>5
    <2>2. /\ row' = r /\ col' = c /\ adrift' = (<<r, c>> \notin Screen)
          /\ UNCHANGED <<cells, out, line, phase>>
      BY <2>1 DEF ScriptSetsCursor, Evaluating, console_set_cursor
    <2>3. Typing'
      BY <1>1, <1>2, <2>2 DEF Inv, Typing
    <2>4. Control'
      BY <1>2, <2>2 DEF Inv, Control, OnScreen
    <2>5. OneCursor'
      BY <1>2, <2>2 DEF Inv, OneCursor
    <2>6. Edited'
      BY <1>2, <2>2 DEF Edited
    <2> QED  BY <2>3, <2>4, <2>5, <2>6 DEF Inv
  <1>6. CASE Evaluated
    <2>1. /\ line' = <<>> /\ phase' = "prompt" /\ UNCHANGED <<cells, row, col, out, adrift>>
      BY <1>6 DEF Evaluated
    <2>2. <<>> \in Seq(Typed) /\ Len(<<>>) = 0
      BY EmptySeq
    <2>3. Typing'
      BY <1>2, <2>1, <2>2 DEF Inv, Typing
    <2>4. Control'
      BY <1>1, <1>2, <2>1, <2>2 DEF Inv, Control, OnScreen
    <2>5. OneCursor'
      BY <1>2, <2>1 DEF Inv, OneCursor
    <2>6. Edited'
      BY <2>1 DEF Edited
    <2> QED  BY <2>3, <2>4, <2>5, <2>6 DEF Inv
  <1> QED  BY <1>3, <1>4, <1>5, <1>6

(* Every step keeps the invariant. *)
LEMMA StepInv == Inv /\ [Next]_vars => Inv'
  <1>1. ASSUME Inv, UNCHANGED vars PROVE Inv'
    <2>1. UNCHANGED <<cells, row, col, out, line, phase, cursor_visible, adrift, mirror, at>>
      BY <1>1 DEF vars
    <2>2. Typing' /\ Control' /\ OneCursor'
      BY <1>1, <2>1 DEF Inv, Typing, Control, OneCursor, OnScreen
    <2>3. Edited'
      BY <1>1, <2>1 DEF Inv, Edited, Editing, Shown, Position, ShownOn, Mirrored
    <2> QED  BY <2>2, <2>3 DEF Inv
  <1>2. ASSUME Inv, Next PROVE Inv'
    BY <1>2, WriteStep, PromptStep, CursorStep, LineEnds, RubStep, TypeStep, ScriptStep DEF Next
  <1> QED  BY <1>1, <1>2

(* The invariant always holds. *)
LEMMA AlwaysInv == Spec => []Inv
  BY InitInv, StepInv, PTL DEF Spec

-----------------------------------------------------------------------------

(***************************************************************************)
(* There is one cursor on the screen while it is visible, and none is left *)
(* behind: of console_set_cursor_visible, console_scroll and the order in  *)
(* which js_runtime_shell takes the cursor off and writes.                 *)
(***************************************************************************)
THEOREM CursorIsOne == Spec => []OneCursor
  BY AlwaysInv, PTL DEF Inv

(***************************************************************************)
(* The screen shows the line that will be evaluated, and the line fits its *)
(* buffer: of console_write_n against the edits of js_runtime_shell.       *)
(***************************************************************************)
THEOREM LineIsShown == Spec => []LineShown
  <1>1. ASSUME Inv PROVE LineShown
    <2>1. Len(line) + 1 <= LineSize
      BY <1>1 DEF Inv, Control
    <2>2. SUFFICES ASSUME phase \in {"show", "waiting"}, out = <<>>, ~adrift,
                          NEW n \in 1 .. Len(Shown), n <= Position
                   PROVE  cells[Before(n)] = Shown[Len(Shown) + 1 - n]
      BY <2>1 DEF LineShown, Shown, Position
    <2>3. PICK text \in Seq(Printable), junk \in {0, 1} :
             Editing(text, junk) /\ ShownOn(cells, Position, text)
      BY <1>1, <2>2 DEF Inv, Edited
    <2>4. text = Shown
      BY <1>1, <2>2, <2>3, EditingDone DEF Inv, Typing
    <2>5. cells[Cell(Position - n)] = Shown[Len(Shown) + 1 - n]
      BY <2>2, <2>3, <2>4 DEF ShownOn
    <2>6. Before(n) = Cell(Position - n)
      <3> DEFINE start == row * Columns
                 there == row * Columns + col - n
      <3>1. Before(n) = <<there \div Columns, there % Columns>>
        BY DEF Before
      <3>2. start \in Int /\ col \in Int /\ n \in Int
        BY <1>1, ConsoleAssumption DEF Inv, Typing
      <3>3. there = start + (col - n)
        OBVIOUS
      <3>4. Position - n = (start + col) - n
        BY DEF Position
      <3> HIDE DEF start, there
      <3>5. there = Position - n
        BY <3>2, <3>3, <3>4
      <3> QED  BY <3>1, <3>5 DEF Cell
    <2> QED  BY <2>5, <2>6
  <1> QED  BY <1>1, AlwaysInv, PTL

(***************************************************************************)
(* So does the line of a terminal at the serial port, which a rubout is    *)
(* made for in three characters by js_runtime_shell.                       *)
(***************************************************************************)
THEOREM LineIsMirrored == Spec => []LineMirrored
  <1>1. ASSUME Inv PROVE LineMirrored
    <2>1. SUFFICES ASSUME phase \in {"show", "waiting"}, out = <<>>
                   PROVE  /\ at = Len(Shown) /\ SubSeq(mirror, 1, at) = Shown
                          /\ \A i \in (at + 1) .. Len(mirror) : mirror[i] = Blank
      BY DEF LineMirrored, Shown
    <2>2. PICK text \in Seq(Printable), junk \in {0, 1} :
             Editing(text, junk) /\ Mirrored(text, junk)
      BY <1>1, <2>1 DEF Inv, Edited
    <2>3. text = Shown /\ junk = 0
      BY <1>1, <2>1, <2>2, EditingDone DEF Inv, Typing
    <2>4. /\ at = Len(Shown) /\ at \in Nat /\ at <= Len(mirror)
          /\ \A i \in 1 .. at : mirror[i] = Shown[i]
          /\ \A i \in (at + 1) .. Len(mirror) : mirror[i] = Blank
      BY <1>1, <2>2, <2>3 DEF Mirrored, Inv, Typing
    <2>5. Shown \in Seq(Printable) /\ mirror \in Seq(Printable) /\ Len(mirror) \in Nat
      BY <1>1, ShownIs, LenProperties DEF Inv, Typing
    <2>6. \A i \in 1 .. at : mirror[i] \in Printable
      BY <2>4, <2>5, ElementOfSeq
    <2>7. /\ SubSeq(mirror, 1, at) \in Seq(Printable)
          /\ Len(SubSeq(mirror, 1, at)) = IF 1 <= at THEN at - 1 + 1 ELSE 0
          /\ \A i \in 1 .. at - 1 + 1 : SubSeq(mirror, 1, at)[i] = mirror[1 + i - 1]
      BY <2>4, <2>6, SubSeqProperties
    <2>8. /\ Len(SubSeq(mirror, 1, at)) = Len(Shown)
          /\ \A i \in 1 .. Len(Shown) : SubSeq(mirror, 1, at)[i] = Shown[i]
      BY <2>4, <2>7
    <2>9. SubSeq(mirror, 1, at) = Shown
      BY <2>5, <2>7, <2>8, SeqEqual
    <2> QED  BY <2>4, <2>9
  <1> QED  BY <1>1, AlwaysInv, PTL

(***************************************************************************)
(* Writing takes the cursor nowhere off the screen: of console_write_n's   *)
(* wrapping, backspace and scrolling.                                      *)
(***************************************************************************)
THEOREM WritingKeepsCursor == Spec => CursorKept
  <1> DEFINE Keep == out # <<>> => /\ row' < Rows \/ row' <= row
                                   /\ col' < Columns \/ col' <= col
  <1>1. ASSUME Inv, [Next]_vars PROVE [Keep]_console
    <2> SUFFICES ASSUME out # <<>> PROVE UNCHANGED console \/ Keep
      OBVIOUS
    <2>1. phase # "waiting" /\ cells \in Pictures /\ row \in Nat /\ col \in Nat
          /\ out \in Seq(Characters)
      BY <1>1 DEF Inv, Typing, Control
    <2>2. CASE Write
      <3>1. WriteCharacter /\ Printable \subseteq Printable \cup {Block}
        BY <2>2 DEF Write
      <3> QED  BY <2>1, <3>1, WriteKeeps DEF Pictures
    <2>3. ~(WritePrompt \/ ShowCursor \/ Blink \/ Enter \/ Rub \/ Interrupt \/ TypeTooMuch
             \/ OtherKey \/ ScriptClears \/ Evaluated)
      BY <2>1 DEF WritePrompt, ShowCursor, Blink, Enter, Rub, Interrupt, TypeTooMuch, OtherKey,
                  Key, ScriptClears, Evaluating, Evaluated
    <2>4. /\ \A c \in Typed : ~Type(c)
          /\ \A text \in Outputs : ~ScriptWrites(text)
          /\ \A c \in 0 .. Columns, r \in 0 .. (Rows + 1) : ~ScriptSetsCursor(c, r)
      BY <2>1 DEF Type, Key, ScriptWrites, ScriptSetsCursor, Evaluating
    <2>5. CASE UNCHANGED vars
      BY <2>5 DEF vars, console
    <2> QED  BY <1>1, <2>2, <2>3, <2>4, <2>5 DEF Next
  <1> QED  BY <1>1, AlwaysInv, PTL DEF Spec, CursorKept
=============================================================================
