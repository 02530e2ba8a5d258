------------------------------- MODULE Raster -------------------------------
(***************************************************************************)
(* The drawing primitives of src/kernel/framebuffer.c: rectangles, lines,  *)
(* circles, rounded rectangles, triangles, images and text (in the bitmap  *)
(* font, as without FreeType), drawn in one colour on a cleared screen.  A *)
(* primitive that calls others leaves them in `todo`, in the order of the  *)
(* calls; a line is drawn one pixel per step, a circle one pass of its     *)
(* loop per step, a text one character.  What blending makes of a single   *)
(* pixel is a call of its own, which leaves the screen alone; the pixels   *)
(* of images are opaque or transparent.                                    *)
(*                                                                         *)
(* An int64_t is a number from -IntMax - 1 to IntMax.  Signed overflow     *)
(* wraps, as the compiler the Makefile uses has it at -O0 to -O3.  The     *)
(* accelerator, where there is one, is taken to fill the rectangle it is   *)
(* given.  Of all shapes but filled rectangles only such are drawn whose   *)
(* corners, products and errors do not overflow (OverflowAssumption, and   *)
(* for lines and circles RasterAssumption).  The character 0 ends a text   *)
(* and is not in Texts.                                                    *)
(***************************************************************************)
EXTENDS Integers, FiniteSets, Sequences, SequencesExt, Colors

CONSTANTS
  Width, Height, \* of the screen
  IntMax,        \* INT64_MAX
  Rects,         \* the rectangles callers fill: [x, y, width, height] records,
  Frames,        \*   those they stroke or fill with rounded corners,
  Ends,          \*   the points (<<x, y>>) of lines,
  Corners,       \*   of triangles,
  Centers,       \*   and of circles,
  Radii,         \*   and radii
  Thicknesses,
  Cell,          \* rows and columns of a character in the bitmap font: 8
  Font,          \* for each character the <<column, row>> that are set
  MaxScale,      \* the largest scale of text: 32
  Texts, Scales, Origins,
  Images,        \* images and where to put them
  Blends         \* format, destination, color and alpha of pixels to blend

LF == "newline"

absolute(n) == IF n < 0 THEN -n ELSE n

ASSUME RasterAssumption ==
  /\ Width \in Nat \ {0} /\ Height \in Nat \ {0}
  /\ IntMax \in Nat /\ Width <= IntMax /\ Height <= IntMax
  /\ Rects \cup Frames \subseteq [x : Int, y : Int, width : Int, height : Int]
  /\ Ends \subseteq (-IntMax .. IntMax) \X (-IntMax .. IntMax)
  /\ \A p, q \in Ends : \A i \in 1 .. 2 : 4 * absolute(q[i] - p[i]) <= IntMax
  /\ Corners \subseteq Int \X Int /\ Centers \subseteq Int \X Int
  /\ \A r \in Frames : /\ absolute(r.x) + 2 * absolute(r.width) <= IntMax
                       /\ absolute(r.y) + 2 * absolute(r.height) <= IntMax
  /\ \A p \in Centers, n \in Radii : \A i \in 1 .. 2 : absolute(p[i]) + 4 * absolute(n) <= IntMax
  /\ Radii \subseteq Int /\ Thicknesses \subseteq Nat
  /\ Cell \in Nat \ {0} /\ MaxScale \in Nat
  /\ \A c \in DOMAIN Font : Font[c] \subseteq (0 .. Cell - 1) \X (0 .. Cell - 1)
  /\ Texts \subseteq Seq(DOMAIN Font \cup {LF})
  /\ Scales \subseteq Nat /\ Origins \subseteq Int \X Int
  /\ Images \subseteq [x : Int, y : Int, width : Nat, height : Nat, opaque : SUBSET Nat,
                       length : Nat]
  /\ \A b \in Blends : /\ IsFormat(b.format) /\ b.alpha \in 0 .. 255
                       /\ IsPixel(b.destination, b.format) /\ IsPixel(b.color, b.format)

Ints == -IntMax - 1 .. IntMax

(* Callers pass numbers that int64_t has, and places at which the sides of *)
(* a shape can still be added; of triangles, the area of the rectangle     *)
(* around the corners is at most half of INT64_MAX.                        *)
ASSUME OverflowAssumption ==
  /\ \A r \in Rects : {r.x, r.y, r.width, r.height} \subseteq Ints
  /\ \A r \in Frames, t \in Thicknesses :
       /\ absolute(r.x) + 2 * absolute(r.width) + t <= IntMax
       /\ absolute(r.y) + 2 * absolute(r.height) + t <= IntMax
  /\ Radii \subseteq Ints
  /\ \A p \in Corners, i \in 1 .. 2 : p[i] \in Ints
  /\ \A p, q \in Corners, i \in 1 .. 2 : absolute(q[i] - p[i]) <= IntMax
  /\ \A p, q, r, s \in Corners :
       2 * absolute(q[1] - p[1]) * absolute(s[2] - r[2]) <= IntMax
  /\ \A p \in Origins, text \in Texts, i \in 1 .. 2 :
       absolute(p[i]) + (Len(text) + 1) * Cell * MaxScale <= IntMax
  /\ \A m \in Images : /\ absolute(m.x) + m.width <= IntMax
                       /\ absolute(m.y) + m.height <= IntMax

VARIABLES
  painted, \* the pixels that have the colour
  todo,    \* what the call under way has still to draw
  call     \* history: the call that was made on the cleared screen, or None

vars == <<painted, todo, call>>

None == [op |-> "none"]

Screen == (0 .. Width - 1) \X (0 .. Height - 1)

Int64(n) == ((n + IntMax + 1) % (2 * IntMax + 2)) - IntMax - 1

Smaller(a, b) == IF a < b THEN a ELSE b
Larger(a, b) == IF a > b THEN a ELSE b

-----------------------------------------------------------------------------
(* What is left to draw. *)

Rect(x, y, width, height) ==
  [op |-> "rect", x |-> x, y |-> y, width |-> width, height |-> height]

Line(x0, y0, x1, y1) ==
  LET dx == absolute(x1 - x0)
      dy == -absolute(y1 - y0) IN
  [op |-> "line", x |-> x0, y |-> y0, x1 |-> x1, y1 |-> y1, dx |-> dx, dy |-> dy,
   sx |-> IF x0 < x1 THEN 1 ELSE -1, sy |-> IF y0 < y1 THEN 1 ELSE -1,
   error |-> dx + dy]

Circle(cx, cy, radius, filled) ==
  IF radius < 0 THEN <<>>
  ELSE <<[op |-> "circle", cx |-> cx, cy |-> cy, filled |-> filled,
          x |-> radius, y |-> 0, error |-> 1 - radius]>>

(* framebuffer_stroke_rect: the four sides, which overlap in the corners. *)
Sides(r, t) ==
  IF t = 0 \/ r.width <= 0 \/ r.height <= 0 THEN <<>>
  ELSE <<Rect(r.x, r.y, r.width, t),
         Rect(r.x, r.y + r.height - t, r.width, t),
         Rect(r.x, r.y, t, r.height),
         Rect(r.x + r.width - t, r.y, t, r.height)>>

Clamped(r, radius) ==
  Larger(0, Smaller(radius, Smaller(r.width, r.height) \div 2))

(* framebuffer_fill_rounded_rect: a cross and four discs. *)
Rounded(r, radius) ==
  LET c == Clamped(r, radius)
      right == r.x + r.width - c - 1
      lower == r.y + r.height - c - 1
  IN
  IF r.width <= 0 \/ r.height <= 0 THEN <<>>
  ELSE IF c = 0 THEN <<Rect(r.x, r.y, r.width, r.height)>>
  ELSE <<Rect(r.x + c, r.y, r.width - c * 2, r.height),
         Rect(r.x, r.y + c, r.width, r.height - c * 2)>>
       \o Circle(r.x + c, r.y + c, c, TRUE) \o Circle(right, r.y + c, c, TRUE)
       \o Circle(r.x + c, lower, c, TRUE) \o Circle(right, lower, c, TRUE)

Init == painted = {} /\ todo = <<>> /\ call = None

framebuffer_clear ==
  /\ call # None /\ todo = <<>>
  /\ painted' = {} /\ call' = None
  /\ UNCHANGED todo

Begin(c, jobs) ==
  /\ call = None
  /\ call' = c /\ todo' = jobs
  /\ UNCHANGED painted

framebuffer_fill_rect(r) ==
  Begin([op |-> "rect", r |-> r], <<Rect(r.x, r.y, r.width, r.height)>>)

framebuffer_stroke_rect(r, t) ==
  Begin([op |-> "stroke", r |-> r, t |-> t], Sides(r, t))

framebuffer_line(p, q) ==
  Begin([op |-> "line", p |-> p, q |-> q], <<Line(p[1], p[2], q[1], q[2])>>)

framebuffer_circle(p, radius, filled) ==
  Begin([op |-> "circle", p |-> p, radius |-> radius, filled |-> filled],
        Circle(p[1], p[2], radius, filled))

framebuffer_fill_rounded_rect(r, radius) ==
  Begin([op |-> "rounded", r |-> r, radius |-> radius], Rounded(r, radius))

edge(a, b, p) ==
  LET Difference(q, i) == Int64(q[i] - a[i]) IN
  Int64(Int64(Difference(p, 1) * Difference(b, 2)) - Int64(Difference(p, 2) * Difference(b, 1)))

(* Mutant: triangles that turn the other way are not drawn. *)
FillsOneWay(p, q, r, point) ==
  edge(p, q, point) >= 0 /\ edge(q, r, point) >= 0 /\ edge(r, p, point) >= 0

Fills(p, q, r, point) ==
  IF edge(p, q, r) >= 0
  THEN edge(p, q, point) >= 0 /\ edge(q, r, point) >= 0 /\ edge(r, p, point) >= 0
  ELSE edge(p, q, point) <= 0 /\ edge(q, r, point) <= 0 /\ edge(r, p, point) <= 0

(* The points that framebuffer_fill_triangle looks at. *)
Box(p, q, r) ==
  {s \in Screen : \A i \in 1 .. 2 :
     /\ s[i] >= Smaller(p[i], Smaller(q[i], r[i]))
     /\ s[i] <= Larger(p[i], Larger(q[i], r[i]))}

framebuffer_fill_triangle(p, q, r) ==
  /\ call = None
  /\ call' = [op |-> "triangle", p |-> p, q |-> q, r |-> r]
  /\ painted' = {s \in Box(p, q, r) : Fills(p, q, r, s)}
  /\ UNCHANGED todo

framebuffer_text(p, text, scale) ==
  Begin([op |-> "text", p |-> p, text |-> text, scale |-> scale],
        IF scale = 0 \/ scale > MaxScale THEN <<>>
        ELSE <<[op |-> "text", x |-> p[1], y |-> p[2], origin |-> p[1],
                text |-> text, scale |-> scale, next |-> 1]>>)

(* The loop of framebuffer_measure_text: the length of the last line, and  *)
(* of the longest of the others.                                           *)
Counted(text) ==
  LET after[i \in 0 .. Len(text)] ==
        IF i = 0 THEN [current |-> 0, maximum |-> 0]
        ELSE IF text[i] = LF
        THEN [current |-> 0, maximum |-> Larger(after[i - 1].current, after[i - 1].maximum)]
        ELSE [current |-> after[i - 1].current + 1, maximum |-> after[i - 1].maximum]
  IN after[Len(text)]

Lines(text) == Cardinality({i \in DOMAIN text : text[i] = LF}) + 1

(* Mutant: the last line is not looked at. *)
MeasuresEnded(text, scale) ==
  [width |-> Counted(text).maximum * Cell * scale, height |-> Lines(text) * Cell * scale]

framebuffer_measure_text(text, scale) ==
  [width |-> Larger(Counted(text).current, Counted(text).maximum) * Cell * scale,
   height |-> Lines(text) * Cell * scale]

(* The pixel p of an image is visible if its alpha is 255; `opaque`   *)
(* has the offsets of those, and length is what the caller passed.         *)
framebuffer_put_rgba(m) ==
  /\ call = None
  /\ call' = [op |-> "image", m |-> m]
  /\ painted' =
       IF m.width = 0 \/ m.height = 0 \/ m.width * m.height > m.length \div 4 THEN {}
       ELSE {<<m.x + p[1], m.y + p[2]>> :
               p \in {q \in (0 .. m.width - 1) \X (0 .. m.height - 1) :
                        (q[2] * m.width + q[1]) * 4 \in m.opaque}} \cap Screen
  /\ UNCHANGED todo

framebuffer_blend_pixel(b) ==
  /\ call = None
  /\ call' = [op |-> "blend", b |-> b,
               result |-> blended(b.format, b.destination, b.color, b.alpha)]
  /\ UNCHANGED <<painted, todo>>

-----------------------------------------------------------------------------
(* The steps of a call. *)

Doing(op) == todo # <<>> /\ Head(todo).op = op

(* Mutant: the end is not clipped. *)
ClippedStartOnly(start, length, maximum) ==
  LET end == IF length > Int64(IntMax - start) THEN IntMax ELSE start + length IN
  IF length <= 0 \/ start >= maximum \/ end <= 0 THEN {}
  ELSE Larger(start, 0) .. (end - 1)

(* clip_axis; nothing if it returns false. *)
clip_axis(start, length, maximum) ==
  LET end == IF length > Int64(IntMax - start) THEN IntMax ELSE start + length IN
  IF length <= 0 \/ start >= maximum \/ end <= 0 THEN {}
  ELSE Larger(start, 0) .. (Smaller(end, maximum) - 1)

Filled(r) == clip_axis(r.x, r.width, Width) \X clip_axis(r.y, r.height, Height)

FillRect ==
  /\ Doing("rect")
  /\ painted' = painted \cup Filled(Head(todo))
  /\ todo' = Tail(todo)
  /\ UNCHANGED call

(* framebuffer_set_pixel of some points. *)
SetPixels(points) == painted' = painted \cup (points \cap Screen)

(* The line at its next point. *)
Advanced(l) ==
  LET doubled == Int64(l.error * 2)
      one == IF doubled >= l.dy
             THEN [l EXCEPT !.error = Int64(@ + l.dy), !.x = Int64(@ + l.sx)] ELSE l
  IN
  IF doubled <= l.dx
  THEN [one EXCEPT !.error = Int64(@ + l.dx), !.y = Int64(@ + l.sy)] ELSE one

(* Mutant: a point off the screen is skipped with the rest of the pass. *)
PlotVisible ==
  LET l == Head(todo)
      next == IF <<l.x, l.y>> \in Screen THEN Advanced(l) ELSE l IN
  /\ Doing("line")
  /\ SetPixels({<<l.x, l.y>>})
  /\ todo' = IF l.x = l.x1 /\ l.y = l.y1 THEN Tail(todo) ELSE <<next>> \o Tail(todo)
  /\ UNCHANGED call

(* One pass of the loop of framebuffer_line. *)
PlotLine ==
  LET l == Head(todo) IN
  /\ Doing("line")
  /\ SetPixels({<<l.x, l.y>>})
  /\ todo' = IF l.x = l.x1 /\ l.y = l.y1 THEN Tail(todo) ELSE <<Advanced(l)>> \o Tail(todo)
  /\ UNCHANGED call

(* The points of circle_points, and the lines it draws if it fills. *)
Octants(c) ==
  {<<c.cx + s * p[1], c.cy + t * p[2]>> :
     s \in {-1, 1}, t \in {-1, 1}, p \in {<<c.x, c.y>>, <<c.y, c.x>>}}

Chords(c) ==
  <<Line(c.cx - c.x, c.cy + c.y, c.cx + c.x, c.cy + c.y),
    Line(c.cx - c.x, c.cy - c.y, c.cx + c.x, c.cy - c.y),
    Line(c.cx - c.y, c.cy + c.x, c.cx + c.y, c.cy + c.x),
    Line(c.cx - c.y, c.cy - c.x, c.cx + c.y, c.cy - c.x)>>

(* The circle at its next points. *)
Turned(c) ==
  LET y == c.y + 1 IN
  IF c.error < 0
  THEN [c EXCEPT !.y = y, !.error = @ + 2 * y + 1]
  ELSE [c EXCEPT !.y = y, !.x = @ - 1, !.error = @ + 2 * (y - (c.x - 1)) + 1]

(* One pass of the loop of framebuffer_circle. *)
PlotCircle ==
  LET c == Head(todo) IN
  /\ Doing("circle")
  /\ c.x >= c.y
  /\ IF c.filled
     THEN todo' = Chords(c) \o <<Turned(c)>> \o Tail(todo) /\ UNCHANGED painted
     ELSE todo' = <<Turned(c)>> \o Tail(todo) /\ SetPixels(Octants(c))
  /\ UNCHANGED call

CircleDone ==
  /\ Doing("circle")
  /\ Head(todo).x < Head(todo).y
  /\ todo' = Tail(todo)
  /\ UNCHANGED <<painted, call>>

(* framebuffer_character: a square for each bit that is set. *)
Glyph(x, y, character, scale) ==
  UNION {Filled(Rect(x + b[1] * scale, y + b[2] * scale, scale, scale)) :
           b \in Font[character]}

(* One pass of the loop of framebuffer_text. *)
DrawCharacter ==
  LET t == Head(todo)
      character == t.text[t.next] IN
  /\ Doing("text") /\ t.next <= Len(t.text)
  /\ \/ /\ character = LF
        /\ todo' = <<[t EXCEPT !.next = @ + 1, !.x = t.origin, !.y = @ + Cell * t.scale]>>
        /\ UNCHANGED painted
     \/ /\ character # LF
        /\ painted' = painted \cup Glyph(t.x, t.y, character, t.scale)
        /\ todo' = <<[t EXCEPT !.next = @ + 1, !.x = @ + Cell * t.scale]>>
  /\ UNCHANGED call

TextDone ==
  /\ Doing("text") /\ Head(todo).next > Len(Head(todo).text)
  /\ todo' = <<>>
  /\ UNCHANGED <<painted, call>>

Start ==
  \/ \E r \in Rects : framebuffer_fill_rect(r)
  \/ \E r \in Frames :
       \/ \E t \in Thicknesses : framebuffer_stroke_rect(r, t)
       \/ \E radius \in Radii : framebuffer_fill_rounded_rect(r, radius)
  \/ \E p, q \in Ends : framebuffer_line(p, q)
  \/ \E p \in Centers, radius \in Radii, filled \in BOOLEAN : framebuffer_circle(p, radius, filled)
  \/ \E p, q, r \in Corners : framebuffer_fill_triangle(p, q, r)
  \/ \E p \in Origins, text \in Texts, scale \in Scales : framebuffer_text(p, text, scale)
  \/ \E m \in Images : framebuffer_put_rgba(m)
  \/ \E b \in Blends : framebuffer_blend_pixel(b)

Continue == FillRect \/ PlotLine \/ PlotCircle \/ CircleDone \/ DrawCharacter \/ TextDone

Next == Start \/ Continue \/ framebuffer_clear

(* A call, once started, runs on: there is nothing else to run. *)
Spec == Init /\ [][Next]_vars /\ WF_vars(Continue)

-----------------------------------------------------------------------------

(* No pixel off the screen is written; no more is left to do than the four *)
(* discs of a rounded rectangle and the chords of one of them.             *)
TypeOK ==
  /\ painted \subseteq Screen
  /\ Len(todo) <= 8
  /\ \A i \in DOMAIN todo : todo[i].op \in {"rect", "line", "circle", "text"}
  /\ call.op \in {"none", "rect", "stroke", "line", "circle", "rounded", "triangle",
                "text", "image", "blend"}

Finished(op) == call.op = op /\ todo = <<>>

InRect(s, x, y, width, height) ==
  x <= s[1] /\ s[1] < x + width /\ y <= s[2] /\ s[2] < y + height

(* The points of r at most t - 1 away from one of its sides. *)
OnBorder(s, r, t) ==
  /\ InRect(s, r.x, r.y, r.width, r.height)
  /\ t > 0 /\ ~InRect(s, r.x + t, r.y + t, r.width - 2 * t, r.height - 2 * t)

(* x is the square root of n, rounded to the nearest integer. *)
RootOf(x, n) == (x = 0 \/ x * x - x < n) /\ n <= x * x + x

(* The circle about the origin: in each column the nearest point, or, where*)
(* it is steep, in each row.                                               *)
OnCircle(dx, dy, radius) ==
  LET a == Larger(absolute(dx), absolute(dy))
      b == Smaller(absolute(dx), absolute(dy)) IN
  radius >= b /\ RootOf(a, radius * radius - b * b)

InDisc(dx, dy, radius) ==
  \E x \in absolute(dx) .. radius : OnCircle(x, dy, radius)

(* The rectangle without the corners that lie outside of the discs. *)
InRounded(s, r, radius) ==
  LET c == Clamped(r, radius)
      dx == Larger(0, Larger(r.x + c - s[1], s[1] - (r.x + r.width - c - 1)))
      dy == Larger(0, Larger(r.y + c - s[2], s[2] - (r.y + r.height - c - 1))) IN
  /\ InRect(s, r.x, r.y, r.width, r.height)
  /\ (dx > 0 /\ dy > 0 => InDisc(dx, dy, c))

(* The area that the vectors from a to b and to p span: positive on one    *)
(* side of the line through a and b, negative on the other.                *)
Side(a, b, p) == (p[1] - a[1]) * (b[2] - a[2]) - (p[2] - a[2]) * (b[1] - a[1])

(* s is not on the far side of an edge of the triangle, nor beyond the     *)
(* ends where the triangle is but a line.                                  *)
InTriangle(s, p, q, r) ==
  /\ s \in Box(p, q, r)
  /\ Side(p, q, s) * Side(p, q, r) >= 0
  /\ Side(q, r, s) * Side(q, r, p) >= 0
  /\ Side(r, p, s) * Side(r, p, q) >= 0
  /\ Side(p, q, r) = 0 => Side(p, q, s) = 0 /\ Side(q, r, s) = 0 /\ Side(r, p, s) = 0

FromScreen(r) == r.x >= 0 /\ r.y >= 0

(* s is at most half a pixel off the line from p to q, on the flat axis. *)
NearLine(s, p, q) ==
  /\ \A i \in 1 .. 2 : Smaller(p[i], q[i]) <= s[i] /\ s[i] <= Larger(p[i], q[i])
  /\ 2 * absolute(Side(p, q, s))
       <= Larger(absolute(q[1] - p[1]), absolute(q[2] - p[2]))

(* A line has, along its longer axis, one point in each column (or row), a *)
(* nearest one, and both its ends: no gap, no double point, no detour.     *)
LineTrue(p, q) ==
  LET i == IF absolute(q[1] - p[1]) >= absolute(q[2] - p[2]) THEN 1 ELSE 2
      Nearest(n) == {s \in (Smaller(p[1], q[1]) .. Larger(p[1], q[1]))
                             \X (Smaller(p[2], q[2]) .. Larger(p[2], q[2])) :
                       s[i] = n /\ NearLine(s, p, q)}
  IN
  /\ {p, q} \cap Screen \subseteq painted
  /\ \A s \in painted : NearLine(s, p, q)
  /\ \A n \in Smaller(p[i], q[i]) .. Larger(p[i], q[i]) :
       LET drawn == Cardinality(painted \cap Nearest(n)) IN
       drawn <= 1 /\ (Nearest(n) \subseteq Screen => drawn = 1)

(* The place i of a text is in line l, column k, after so many breaks. *)
At(text, i, l, k) ==
  LET breaks == {j \in 1 .. (i - 1) : text[j] = LF} IN
  /\ Cardinality(breaks) = l
  /\ \E b \in breaks \cup {0} : (\A j \in breaks : j <= b) /\ i - b - 1 = k

(* The characters of the text in line l and column k: one, or none. *)
CharacterAt(text, l, k) == {i \in DOMAIN text : text[i] # LF /\ At(text, i, l, k)}

(* Whether, in a text at p, a bit of a character covers s. *)
InText(s, p, text, scale) ==
  LET side == Cell * scale
      dx == s[1] - p[1]
      dy == s[2] - p[2] IN
  /\ dx >= 0 /\ dy >= 0
  /\ \E i \in CharacterAt(text, dy \div side, dx \div side) :
       <<(dx % side) \div scale, (dy % side) \div scale>> \in Font[text[i]]

InImage(s, m) ==
  /\ InRect(s, m.x, m.y, m.width, m.height)
  /\ 4 * ((s[2] - m.y) * m.width + s[1] - m.x) \in m.opaque

(***************************************************************************)
(* What a rectangle, a frame, a triangle, a text or an image has painted   *)
(* when the call returns is its shape, clipped.  Left out: rectangles that *)
(* start off the screen (see RectsClipped), and strokes that are thicker   *)
(* than the rectangle.                                                     *)
(***************************************************************************)
AreasExact ==
  /\ Finished("rect") /\ FromScreen(call.r) =>
       painted = {s \in Screen : InRect(s, call.r.x, call.r.y, call.r.width, call.r.height)}
  /\ Finished("stroke") /\ FromScreen(call.r)
       /\ call.t <= Smaller(call.r.width, call.r.height) =>
       painted = {s \in Screen : OnBorder(s, call.r, call.t)}
  /\ Finished("triangle") =>
       painted = {s \in Screen : InTriangle(s, call.p, call.q, call.r)}
  /\ Finished("text") /\ call.p[1] >= 0 /\ call.p[2] >= 0 =>
       painted = {s \in Screen : /\ call.scale \in 1 .. MaxScale
                                 /\ InText(s, call.p, call.text, call.scale)}
  /\ Finished("image") =>
       painted = {s \in Screen : /\ 4 * call.m.width * call.m.height <= call.m.length
                                 /\ InImage(s, call.m)}

(***************************************************************************)
(* A line, however steep and wherever it leaves the screen, is the nearest *)
(* point in each column (or row): the running error never drifts, and the  *)
(* pass that reaches the end point is the last.                            *)
(***************************************************************************)
LinesTrue == Finished("line") => LineTrue(call.p, call.q)

(***************************************************************************)
(* Circles are the points nearest to the circle in each of the eight       *)
(* octants, discs what these enclose, and rounded rectangles a rectangle   *)
(* whose corners are cut along them.  Left out: rounded rectangles that    *)
(* start off the screen, and those as narrow as two radii (see             *)
(* RoundedInside).                                                         *)
(***************************************************************************)
CirclesExact ==
  /\ Finished("circle") =>
       painted = {s \in Screen :
                    LET dx == s[1] - call.p[1]
                        dy == s[2] - call.p[2] IN
                    IF call.filled THEN InDisc(dx, dy, call.radius)
                                   ELSE OnCircle(dx, dy, call.radius)}
  /\ Finished("rounded") /\ FromScreen(call.r)
       /\ 2 * Clamped(call.r, call.radius) < Smaller(call.r.width, call.r.height) =>
       painted = {s \in Screen : InRounded(s, call.r, call.radius)}

(***************************************************************************)
(* When a call returns, what it has painted is the shape it was asked for: *)
(* no point of it is missing, and none is beside it.                       *)
(***************************************************************************)
ShapesExact == AreasExact /\ LinesTrue /\ CirclesExact

(* A text whose characters fill their cells, and that ends in one. *)
SolidText(text) ==
  /\ text # <<>> /\ text[Len(text)] # LF
  /\ \A i \in DOMAIN text :
       text[i] = LF \/ Font[text[i]] = (0 .. Cell - 1) \X (0 .. Cell - 1)

(***************************************************************************)
(* A text lies in the box that framebuffer_measure_text gives for it, with *)
(* line breaks where they are; and the box is no larger than it must be:   *)
(* characters that fill their cells reach its right and lower edges.       *)
(***************************************************************************)
TextMeasured ==
  Finished("text") /\ call.p[1] >= 0 /\ call.p[2] >= 0 /\ call.scale \in 1 .. MaxScale =>
    LET size == framebuffer_measure_text(call.text, call.scale)
        right == call.p[1] + size.width - 1
        lower == call.p[2] + size.height - 1 IN
    /\ \A s \in painted : InRect(s, call.p[1], call.p[2], size.width, size.height)
    /\ SolidText(call.text) /\ <<right, lower>> \in Screen =>
         (\E s \in painted : s[1] = right) /\ (\E s \in painted : s[2] = lower)

(* A blended pixel is the weighted mean of the two, channel by channel. *)
BlendsExact ==
  call.op = "blend" =>
    BlendsTrue(call.b.format, call.b.destination, call.b.color, call.b.alpha, call.result)

(* Every call ends: the loops of lines and circles reach their end. *)
ShapesEnd == (todo # <<>>) ~> (todo = <<>>)

(***************************************************************************)
(* What clip_axis is for, by its name and its cases for a negative start   *)
(* and a negative end: of a rectangle that begins left of or above the     *)
(* screen, that part is drawn that lies on the screen.                     *)
(***************************************************************************)
RectsClipped ==
  Finished("rect") =>
    painted = {s \in Screen : InRect(s, call.r.x, call.r.y, call.r.width, call.r.height)}

(***************************************************************************)
(* What framebuffer_fill_rounded_rect limits the radius to maximum_radius  *)
(* for: the discs do not stick out of the rectangle.                       *)
(***************************************************************************)
RoundedInside ==
  Finished("rounded") /\ FromScreen(call.r) =>
    \A s \in painted : InRect(s, call.r.x, call.r.y, call.r.width, call.r.height)
=============================================================================
