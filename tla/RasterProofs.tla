---------------------------- MODULE RasterProofs ----------------------------
(***************************************************************************)
(* Proofs about module Raster, for every screen, font, width of int64_t    *)
(* and set of shapes.                                                      *)
(***************************************************************************)
EXTENDS Raster, SequenceTheorems, Induction

-----------------------------------------------------------------------------
(* Rectangles and their clipping. *)

(* A number that int64_t has is not changed by the conversion to it. *)
LEMMA Int64Is ==
  ASSUME NEW n \in Int, -IntMax - 1 <= n, n <= IntMax
  PROVE  Int64(n) = n
  <1> DEFINE d == 2 * IntMax + 2
             r == n + IntMax + 1
  <1>1. d \in Nat \ {0} /\ r \in 0 .. (d - 1) /\ 0 \in Nat
    BY RasterAssumption
  <1> HIDE DEF d, r
  <1>2. (0 * d + r) % d = r
    BY <1>1, DivisionUnique
  <1>3. 0 * d + r = r
    BY <1>1
  <1>4. r % d = r
    BY <1>2, <1>3
  <1>5. Int64(n) = (r % d) - IntMax - 1
    BY DEF Int64, d, r
  <1>6. r - IntMax - 1 = n
    BY RasterAssumption DEF r
  <1> QED  BY <1>4, <1>5, <1>6

(* clip_axis stays on the axis, whatever the start. *)
LEMMA ClipInside ==
  ASSUME NEW start \in Int, NEW length \in Int, NEW maximum \in Nat
  PROVE  clip_axis(start, length, maximum) \subseteq 0 .. (maximum - 1)
  <1> DEFINE end == IF length > Int64(IntMax - start) THEN IntMax ELSE start + length
  <1>1. end \in Int
    BY RasterAssumption
  <1> HIDE DEF end
  <1>2. clip_axis(start, length, maximum) =
          IF length <= 0 \/ start >= maximum \/ end <= 0 THEN {}
          ELSE Larger(start, 0) .. (Smaller(end, maximum) - 1)
    BY DEF clip_axis, end
  <1> QED  BY <1>1, <1>2 DEF Larger, Smaller

(* From a start that is not negative, clip_axis cuts off what is too much. *)
LEMMA ClipIs ==
  ASSUME NEW start \in Nat, NEW length \in Int, NEW maximum \in Nat, maximum <= IntMax
  PROVE  clip_axis(start, length, maximum)
           = {i \in 0 .. (maximum - 1) : start <= i /\ i < start + length}
  <1> DEFINE end == IF length > Int64(IntMax - start) THEN IntMax ELSE start + length
             all == {i \in 0 .. (maximum - 1) : start <= i /\ i < start + length}
  <1>1. clip_axis(start, length, maximum) =
          IF length <= 0 \/ start >= maximum \/ end <= 0 THEN {}
          ELSE Larger(start, 0) .. (Smaller(end, maximum) - 1)
    BY DEF clip_axis
  <1>2. CASE length <= 0 \/ start >= maximum
    BY <1>1, <1>2
  <1>3. CASE length > 0 /\ start < maximum
    <2>1. IntMax \in Nat /\ IntMax - start \in Int /\ 0 <= IntMax - start /\ IntMax - start <= IntMax
          /\ -IntMax - 1 <= IntMax - start
      BY <1>3, RasterAssumption
    <2>2. Int64(IntMax - start) = IntMax - start
      BY <2>1, Int64Is
    <2>3. end = IF length > IntMax - start THEN IntMax ELSE start + length
      BY <2>2
    <2> HIDE DEF end
    <2>4. end \in Nat /\ end > 0
      BY <1>3, <2>1, <2>3
    <2>5. clip_axis(start, length, maximum) = Larger(start, 0) .. (Smaller(end, maximum) - 1)
      BY <1>1, <1>3, <2>4
    <2>6. Larger(start, 0) = start
      BY DEF Larger
    <2>7. \A i \in Int : i <= Smaller(end, maximum) - 1 <=> i < end /\ i <= maximum - 1
      BY <2>4 DEF Smaller
    <2>8. \A i \in Int : i <= maximum - 1 => (i < end <=> i < start + length)
      BY <1>3, <2>1, <2>3
    <2>9. Smaller(end, maximum) - 1 \in Int
      BY <2>4 DEF Smaller
    <2> DEFINE last == Smaller(end, maximum) - 1
    <2>10. \A i \in Int : i <= last <=> i <= maximum - 1 /\ i < start + length
      BY <2>7, <2>8
    <2> HIDE DEF last
    <2>11. start .. last = all
      BY <2>9, <2>10
    <2> QED  BY <2>5, <2>6, <2>11 DEF last
  <1> QED  BY <1>2, <1>3

(* A rectangle with numbers for corners and sides. *)
RectJob == [op : {"rect"}, x : Int, y : Int, width : Int, height : Int]

(* Filling a rectangle writes nothing off the screen. *)
LEMMA FilledInside ==
  ASSUME NEW r, r.x \in Int, r.y \in Int, r.width \in Int, r.height \in Int
  PROVE  Filled(r) \subseteq Screen
  <1>1. Width \in Nat /\ Height \in Nat
    BY RasterAssumption
  <1>2. /\ clip_axis(r.x, r.width, Width) \subseteq 0 .. (Width - 1)
        /\ clip_axis(r.y, r.height, Height) \subseteq 0 .. (Height - 1)
    BY <1>1, ClipInside
  <1> QED  BY <1>2 DEF Filled, Screen

(* A rectangle that starts on the screen, or right of it or below, is      *)
(* filled as far as the screen goes.                                       *)
LEMMA FilledIs ==
  ASSUME NEW x \in Nat, NEW y \in Nat, NEW width \in Int, NEW height \in Int
  PROVE  Filled(Rect(x, y, width, height)) = {s \in Screen : InRect(s, x, y, width, height)}
  <1>1. Width \in Nat /\ Height \in Nat /\ Width <= IntMax /\ Height <= IntMax
    BY RasterAssumption
  <1> DEFINE columns == {i \in 0 .. (Width - 1) : x <= i /\ i < x + width}
             rows == {i \in 0 .. (Height - 1) : y <= i /\ i < y + height}
  <1>2. clip_axis(x, width, Width) = columns /\ clip_axis(y, height, Height) = rows
    BY <1>1, ClipIs
  <1>3. Filled(Rect(x, y, width, height)) = columns \X rows
    BY <1>2 DEF Filled, Rect
  <1>4. \A s \in Screen : s \in columns \X rows <=> InRect(s, x, y, width, height)
    BY DEF Screen, InRect
  <1>5. columns \X rows \subseteq Screen
    BY DEF Screen
  <1> HIDE DEF columns, rows
  <1> QED  BY <1>3, <1>4, <1>5

-----------------------------------------------------------------------------
(* Triangles. *)

(* A product is no larger than that of the bounds of its factors. *)
LEMMA ProductFits ==
  ASSUME NEW u \in Int, NEW v \in Int, NEW d \in Nat, NEW e \in Nat,
         -d <= u, u <= d, -e <= v, v <= e
  PROVE  -(d * e) <= u * v /\ u * v <= d * e
  <1>1. ASSUME NEW x \in Nat, NEW y \in Nat, x <= d, y <= e
        PROVE  x * y \in Nat /\ x * y <= d * e
    <2>1. x * y <= d * y
      BY <1>1
    <2>2. d * y <= d * e
      BY <1>1
    <2>3. x * y \in Nat /\ d * y \in Nat /\ d * e \in Nat
      OBVIOUS
    <2> QED  BY <2>1, <2>2, <2>3
  <1>2. PICK x \in Nat : x <= d /\ u \in {x, -x}
    <2>1. CASE u >= 0
      BY <2>1
    <2>2. CASE u < 0
      <3>1. -u \in Nat /\ -u <= d /\ u = -(-u)
        BY <2>2
      <3> QED  BY <3>1
    <2> QED  BY <2>1, <2>2
  <1>3. PICK y \in Nat : y <= e /\ v \in {y, -y}
    <2>1. CASE v >= 0
      BY <2>1
    <2>2. CASE v < 0
      <3>1. -v \in Nat /\ -v <= e /\ v = -(-v)
        BY <2>2
      <3> QED  BY <3>1
    <2> QED  BY <2>1, <2>2
  <1>4. x * y \in Nat /\ x * y <= d * e /\ d * e \in Nat
    BY <1>1, <1>2, <1>3
  <1>5. u * v = x * y \/ u * v = -(x * y)
    BY <1>2, <1>3
  <1> QED  BY <1>4, <1>5

(* For points that are not farther apart than d and e, where twice the     *)
(* area d * e fits into int64_t, edge does not overflow.                   *)
LEMMA EdgeFits ==
  ASSUME NEW a \in Int \X Int, NEW b \in Int \X Int, NEW p \in Int \X Int,
         NEW d \in Nat, NEW e \in Nat, d <= IntMax, e <= IntMax, 2 * (d * e) <= IntMax,
         -d <= b[1] - a[1], b[1] - a[1] <= d, -e <= b[2] - a[2], b[2] - a[2] <= e,
         -d <= p[1] - a[1], p[1] - a[1] <= d, -e <= p[2] - a[2], p[2] - a[2] <= e
  PROVE  edge(a, b, p) = Side(a, b, p)
  <1> DEFINE b1 == b[1] - a[1]
             b2 == b[2] - a[2]
             p1 == p[1] - a[1]
             p2 == p[2] - a[2]
             m == p1 * b2
             n == p2 * b1
             k == d * e
  <1>1. b1 \in Int /\ b2 \in Int /\ p1 \in Int /\ p2 \in Int /\ k \in Nat
    OBVIOUS
  <1>2. edge(a, b, p) = Int64(Int64(Int64(p1) * Int64(b2)) - Int64(Int64(p2) * Int64(b1)))
    BY DEF edge
  <1>3. Side(a, b, p) = m - n
    BY DEF Side
  <1>4. /\ -d <= b1 /\ b1 <= d /\ -e <= b2 /\ b2 <= e
        /\ -d <= p1 /\ p1 <= d /\ -e <= p2 /\ p2 <= e /\ 2 * k <= IntMax
    OBVIOUS
  <1> HIDE DEF b1, b2, p1, p2
  <1>5. -k <= m /\ m <= k /\ m \in Int
    BY <1>1, <1>4, ProductFits
  <1>6. -k <= n /\ n <= k /\ n \in Int
    <2>1. p2 * b1 = b1 * p2
      BY <1>1
    <2>2. -k <= b1 * p2 /\ b1 * p2 <= k
      BY <1>1, <1>4, ProductFits
    <2> QED  BY <1>1, <2>1, <2>2
  <1>7. IntMax \in Nat
    BY RasterAssumption
  <1>8. \A i \in Int : (-d <= i /\ i <= d) \/ (-e <= i /\ i <= e) => Int64(i) = i
    <2> SUFFICES ASSUME NEW i \in Int, (-d <= i /\ i <= d) \/ (-e <= i /\ i <= e)
                 PROVE  Int64(i) = i
      OBVIOUS
    <2>1. -IntMax - 1 <= i /\ i <= IntMax
      BY <1>7
    <2> QED  BY <2>1, Int64Is
  <1>9. edge(a, b, p) = Int64(Int64(m) - Int64(n))
    BY <1>1, <1>2, <1>4, <1>8
  <1> HIDE DEF m, n, k
  <1>10. /\ -IntMax - 1 <= m /\ m <= IntMax /\ -IntMax - 1 <= n /\ n <= IntMax
         /\ m - n \in Int /\ -IntMax - 1 <= m - n /\ m - n <= IntMax
    BY <1>1, <1>4, <1>5, <1>6, <1>7
  <1>11. Int64(m) = m /\ Int64(n) = n /\ Int64(m - n) = m - n
    BY <1>5, <1>6, <1>10, Int64Is
  <1> QED  BY <1>3, <1>9, <1>11

(* Of three points, two are the least and the greatest along an axis. *)
LEMMA Spread ==
  ASSUME NEW x \in Int, NEW y \in Int, NEW z \in Int
  PROVE  \E u, v \in {x, y, z} : /\ u = Smaller(x, Smaller(y, z)) /\ v = Larger(x, Larger(y, z))
                                 /\ \A w \in {x, y, z} : u <= w /\ w <= v
  BY DEF Smaller, Larger

(* Neither between the corners of a triangle nor at the points around it   *)
(* does edge overflow.                                                     *)
LEMMA EdgeIs ==
  ASSUME NEW p \in Corners, NEW q \in Corners, NEW r \in Corners,
         NEW s \in Box(p, q, r) \cup {p, q, r}
  PROVE  /\ edge(p, q, s) = Side(p, q, s) /\ edge(q, r, s) = Side(q, r, s)
         /\ edge(r, p, s) = Side(r, p, s)
  <1>1. p \in Int \X Int /\ q \in Int \X Int /\ r \in Int \X Int
    BY RasterAssumption
  <1>2. /\ p[1] \in Int /\ p[2] \in Int /\ q[1] \in Int /\ q[2] \in Int
        /\ r[1] \in Int /\ r[2] \in Int
    BY <1>1
  <1>3. s \in Int \X Int /\ s[1] \in Int /\ s[2] \in Int
    BY <1>1 DEF Box, Screen
  <1>4. PICK u1, v1 \in {p[1], q[1], r[1]} :
          /\ u1 = Smaller(p[1], Smaller(q[1], r[1])) /\ v1 = Larger(p[1], Larger(q[1], r[1]))
          /\ \A w \in {p[1], q[1], r[1]} : u1 <= w /\ w <= v1
    BY <1>2, Spread
  <1>5. PICK u2, v2 \in {p[2], q[2], r[2]} :
          /\ u2 = Smaller(p[2], Smaller(q[2], r[2])) /\ v2 = Larger(p[2], Larger(q[2], r[2]))
          /\ \A w \in {p[2], q[2], r[2]} : u2 <= w /\ w <= v2
    BY <1>2, Spread
  <1>6. u1 \in Int /\ v1 \in Int /\ u2 \in Int /\ v2 \in Int
    BY <1>2, <1>4, <1>5
  <1>7. u1 <= s[1] /\ s[1] <= v1 /\ u2 <= s[2] /\ s[2] <= v2
    <2>1. CASE s \in {p, q, r}
      BY <1>4, <1>5, <2>1
    <2>2. CASE s \in Box(p, q, r)
      <3>1. \A i \in 1 .. 2 : /\ s[i] >= Smaller(p[i], Smaller(q[i], r[i]))
                              /\ s[i] <= Larger(p[i], Larger(q[i], r[i]))
        BY <2>2 DEF Box
      <3>2. s[1] >= u1 /\ s[1] <= v1 /\ s[2] >= u2 /\ s[2] <= v2
        BY <1>4, <1>5, <3>1
      <3> QED  BY <1>3, <1>6, <3>2
    <2> QED  BY <2>1, <2>2
  <1> DEFINE d == v1 - u1
             e == v2 - u2
  <1>8. d \in Nat /\ e \in Nat
    BY <1>3, <1>6, <1>7
  <1>9. d <= IntMax /\ e <= IntMax /\ 2 * (d * e) <= IntMax
    <2>1. PICK a, b \in {p, q, r} : a[1] = u1 /\ b[1] = v1
      BY <1>4
    <2>2. PICK f, g \in {p, q, r} : f[2] = u2 /\ g[2] = v2
      BY <1>5
    <2>3. a \in Corners /\ b \in Corners /\ f \in Corners /\ g \in Corners
      BY <2>1, <2>2
    <2>4. /\ absolute(b[1] - a[1]) <= IntMax /\ absolute(g[2] - f[2]) <= IntMax
          /\ 2 * absolute(b[1] - a[1]) * absolute(g[2] - f[2]) <= IntMax
      BY <2>3, OverflowAssumption
    <2>5. absolute(b[1] - a[1]) = d /\ absolute(g[2] - f[2]) = e
      BY <1>8, <2>1, <2>2 DEF absolute
    <2>6. d <= IntMax /\ e <= IntMax /\ 2 * d * e <= IntMax
      BY <2>4, <2>5
    <2> HIDE DEF d, e
    <2>7. 2 * d * e = 2 * (d * e)
      BY <1>8
    <2> QED  BY <2>6, <2>7
  <1>10. ASSUME NEW w \in {p[1], q[1], r[1]}, NEW x \in {p[1], q[1], r[1], s[1]}
         PROVE  -d <= x - w /\ x - w <= d
    BY <1>2, <1>3, <1>4, <1>6, <1>7, <1>10
  <1>11. ASSUME NEW w \in {p[2], q[2], r[2]}, NEW x \in {p[2], q[2], r[2], s[2]}
         PROVE  -e <= x - w /\ x - w <= e
    BY <1>2, <1>3, <1>5, <1>6, <1>7, <1>11
  <1> HIDE DEF d, e
  <1>12. edge(p, q, s) = Side(p, q, s)
    BY <1>1, <1>3, <1>8, <1>9, <1>10, <1>11, EdgeFits
  <1>13. edge(q, r, s) = Side(q, r, s)
    BY <1>1, <1>3, <1>8, <1>9, <1>10, <1>11, EdgeFits
  <1>14. edge(r, p, s) = Side(r, p, s)
    BY <1>1, <1>3, <1>8, <1>9, <1>10, <1>11, EdgeFits
  <1> QED  BY <1>12, <1>13, <1>14

(* The sides' values at a point add up to the area, which is the same from *)
(* every corner.                                                           *)
LEMMA SidesSum ==
  ASSUME NEW p \in Int \X Int, NEW q \in Int \X Int, NEW r \in Int \X Int, NEW s \in Int \X Int
  PROVE  /\ Side(p, q, s) \in Int /\ Side(q, r, s) \in Int /\ Side(r, p, s) \in Int
         /\ Side(p, q, r) \in Int
         /\ Side(p, q, s) + Side(q, r, s) + Side(r, p, s) = Side(p, q, r)
         /\ Side(q, r, p) = Side(p, q, r) /\ Side(r, p, q) = Side(p, q, r)
  <1>1. /\ p[1] \in Int /\ p[2] \in Int /\ q[1] \in Int /\ q[2] \in Int
        /\ r[1] \in Int /\ r[2] \in Int /\ s[1] \in Int /\ s[2] \in Int
    OBVIOUS
  <1>2. ASSUME NEW a \in Int, NEW b \in Int, NEW c \in Int, NEW d \in Int,
               NEW e \in Int, NEW f \in Int, NEW x \in Int, NEW y \in Int
        PROVE  /\ (x - a) * (d - b) - (y - b) * (c - a) + ((x - c) * (f - d) - (y - d) * (e - c))
                    + ((x - e) * (b - f) - (y - f) * (a - e))
                  = (e - a) * (d - b) - (f - b) * (c - a)
               /\ (a - c) * (f - d) - (b - d) * (e - c) = (e - a) * (d - b) - (f - b) * (c - a)
               /\ (c - e) * (b - f) - (d - f) * (a - e) = (e - a) * (d - b) - (f - b) * (c - a)
    OBVIOUS
  <1> QED  BY <1>1, <1>2 DEF Side

(* The sign of a product. *)
LEMMA SignOfProduct ==
  ASSUME NEW u \in Int, NEW v \in Int
  PROVE  /\ v > 0 => (u * v >= 0 <=> u >= 0)
         /\ v < 0 => (u * v >= 0 <=> u <= 0)
         /\ v = 0 => u * v = 0
  OBVIOUS

(* What framebuffer_fill_triangle draws is the triangle, whichever way its *)
(* corners turn, and if it is but a line.                                  *)
LEMMA TriangleIs ==
  ASSUME NEW p \in Corners, NEW q \in Corners, NEW r \in Corners
  PROVE  {s \in Box(p, q, r) : Fills(p, q, r, s)} = {s \in Screen : InTriangle(s, p, q, r)}
  <1>1. Screen \subseteq Int \X Int /\ Box(p, q, r) \subseteq Screen
    BY DEF Screen, Box
  <1>2. ASSUME NEW s \in Box(p, q, r)
        PROVE  Fills(p, q, r, s) <=> InTriangle(s, p, q, r)
    <2> DEFINE t == Side(p, q, r)
               a == Side(p, q, s)
               b == Side(q, r, s)
               c == Side(r, p, s)
    <2>1. /\ a \in Int /\ b \in Int /\ c \in Int /\ t \in Int /\ a + b + c = t
          /\ Side(q, r, p) = t /\ Side(r, p, q) = t
      <3>1. p \in Int \X Int /\ q \in Int \X Int /\ r \in Int \X Int /\ s \in Int \X Int
        BY <1>1, <1>2, RasterAssumption
      <3> QED  BY <3>1, SidesSum
    <2>2. Fills(p, q, r, s) <=>
            IF t >= 0 THEN a >= 0 /\ b >= 0 /\ c >= 0 ELSE a <= 0 /\ b <= 0 /\ c <= 0
      <3>1. edge(p, q, s) = a /\ edge(q, r, s) = b /\ edge(r, p, s) = c
        BY <1>2, EdgeIs
      <3>2. edge(p, q, r) = t
        BY EdgeIs
      <3> QED  BY <3>1, <3>2 DEF Fills
    <2>3. InTriangle(s, p, q, r) <=>
            a * t >= 0 /\ b * t >= 0 /\ c * t >= 0 /\ (t = 0 => a = 0 /\ b = 0 /\ c = 0)
      BY <1>2, <2>1 DEF InTriangle
    <2> HIDE DEF a, b, c, t
    <2>4. /\ (t > 0 => (a * t >= 0 <=> a >= 0)) /\ (t < 0 => (a * t >= 0 <=> a <= 0))
          /\ (t > 0 => (b * t >= 0 <=> b >= 0)) /\ (t < 0 => (b * t >= 0 <=> b <= 0))
          /\ (t > 0 => (c * t >= 0 <=> c >= 0)) /\ (t < 0 => (c * t >= 0 <=> c <= 0))
          /\ (t = 0 => a * t = 0 /\ b * t = 0 /\ c * t = 0)
      BY <2>1, SignOfProduct
    <2>5. t > 0 \/ t < 0 \/ t = 0
      BY <2>1
    <2> QED  BY <2>1, <2>2, <2>3, <2>4, <2>5
  <1>3. \A s \in Screen : InTriangle(s, p, q, r) => s \in Box(p, q, r)
    BY DEF InTriangle
  <1> QED  BY <1>1, <1>2, <1>3

-----------------------------------------------------------------------------
(* Frames and images. *)

(* The four sides that framebuffer_stroke_rect fills are the border.       *)
LEMMA SidesAreBorder ==
  ASSUME NEW r \in Frames, FromScreen(r), NEW t \in Nat \ {0},
         t <= r.width, t <= r.height, NEW s \in Screen
  PROVE  OnBorder(s, r, t) <=>
           \/ InRect(s, r.x, r.y, r.width, t)
           \/ InRect(s, r.x, r.y + r.height - t, r.width, t)
           \/ InRect(s, r.x, r.y, t, r.height)
           \/ InRect(s, r.x + r.width - t, r.y, t, r.height)
  <1>1. r.x \in Int /\ r.y \in Int /\ r.width \in Int /\ r.height \in Int
    BY RasterAssumption
  <1>2. s[1] \in Int /\ s[2] \in Int
    BY DEF Screen
  <1> QED  BY <1>1, <1>2 DEF OnBorder, InRect

(* The image is drawn where it lies, as far as the screen goes, if there   *)
(* are four bytes for each of its pixels.                                  *)
LEMMA ImageIs ==
  ASSUME NEW m \in Images
  PROVE  (IF m.width = 0 \/ m.height = 0 \/ m.width * m.height > m.length \div 4 THEN {}
          ELSE {<<m.x + p[1], m.y + p[2]>> :
                  p \in {q \in (0 .. m.width - 1) \X (0 .. m.height - 1) :
                           (q[2] * m.width + q[1]) * 4 \in m.opaque}} \cap Screen)
         = {s \in Screen : 4 * m.width * m.height <= m.length /\ InImage(s, m)}
  <1>1. /\ m.x \in Int /\ m.y \in Int /\ m.width \in Nat /\ m.height \in Nat
        /\ m.length \in Nat /\ m.opaque \subseteq Nat
    BY RasterAssumption
  <1> DEFINE cells == {q \in (0 .. m.width - 1) \X (0 .. m.height - 1) :
                         (q[2] * m.width + q[1]) * 4 \in m.opaque}
             image == {<<m.x + p[1], m.y + p[2]>> : p \in cells}
             n == m.width * m.height
  <1>2. n \in Nat /\ 4 * m.width * m.height = 4 * n
    BY <1>1
  <1> HIDE DEF n
  <1>3. n > m.length \div 4 <=> ~(4 * n <= m.length)
    BY <1>1, <1>2
  <1>4. ASSUME NEW s \in Screen
        PROVE  s \in image <=> InImage(s, m)
    <2>1. s[1] \in Int /\ s[2] \in Int /\ s = <<s[1], s[2]>>
      BY DEF Screen
    <2>2. ASSUME s \in image PROVE InImage(s, m)
      <3>1. PICK p \in cells : s = <<m.x + p[1], m.y + p[2]>>
        BY <2>2
      <3>2. /\ p[1] \in 0 .. m.width - 1 /\ p[2] \in 0 .. m.height - 1
            /\ (p[2] * m.width + p[1]) * 4 \in m.opaque
        BY <3>1
      <3>3. p[1] = s[1] - m.x /\ p[2] = s[2] - m.y
        BY <1>1, <3>1, <3>2
      <3>4. InRect(s, m.x, m.y, m.width, m.height)
        BY <1>1, <2>1, <3>2, <3>3 DEF InRect
      <3> DEFINE i == s[2] - m.y
                 j == s[1] - m.x
      <3>5. i \in Int /\ j \in Int /\ p[2] = i /\ p[1] = j
        BY <1>1, <2>1, <3>3
      <3>6. i * m.width + s[1] - m.x = i * m.width + j
        BY <1>1, <2>1
      <3> HIDE DEF i, j
      <3>7. 4 * (i * m.width + j) = (p[2] * m.width + p[1]) * 4
        BY <1>1, <3>5
      <3> QED  BY <3>2, <3>4, <3>6, <3>7 DEF InImage, i
    <2>3. ASSUME InImage(s, m) PROVE s \in image
      <3> DEFINE i == s[2] - m.y
                 j == s[1] - m.x
      <3>1. i \in 0 .. m.height - 1 /\ j \in 0 .. m.width - 1 /\ i \in Int /\ j \in Int
        BY <1>1, <2>1, <2>3 DEF InImage, InRect
      <3>2. 4 * (i * m.width + s[1] - m.x) \in m.opaque
        BY <2>3 DEF InImage
      <3>3. i * m.width + s[1] - m.x = i * m.width + j
        BY <1>1, <2>1
      <3>4. m.x + j = s[1] /\ m.y + i = s[2]
        BY <1>1, <2>1
      <3> HIDE DEF i, j
      <3>5. 4 * (i * m.width + j) = (i * m.width + j) * 4
        BY <1>1, <3>1
      <3>6. <<j, i>> \in cells
        BY <3>1, <3>2, <3>3, <3>5
      <3>7. s = <<m.x + <<j, i>>[1], m.y + <<j, i>>[2]>>
        BY <2>1, <3>4
      <3> QED  BY <3>6, <3>7
    <2> QED  BY <2>2, <2>3
  <1>5. ASSUME NEW s \in Screen, InImage(s, m) PROVE m.width # 0 /\ m.height # 0
    <2>1. s[1] \in Int /\ s[2] \in Int
      BY DEF Screen
    <2> QED  BY <1>1, <1>5, <2>1 DEF InImage, InRect
  <1> HIDE DEF cells, image
  <1> QED  BY <1>2, <1>3, <1>4, <1>5 DEF cells, image, n

-----------------------------------------------------------------------------
(* Places in a text. *)

(* The line breaks before place i. *)
Breaks(text, i) == {j \in 1 .. (i - 1) : text[j] = LF}

(* b is the last of them, or 0. *)
LastOf(b, breaks) == b \in breaks \cup {0} /\ \A j \in breaks : j <= b

(* Line and column of a place, by the last break before it. *)
LEMMA AtIs ==
  ASSUME NEW text, NEW i, NEW l, NEW k
  PROVE  At(text, i, l, k) <=>
           /\ Cardinality(Breaks(text, i)) = l
           /\ \E b : LastOf(b, Breaks(text, i)) /\ i - b - 1 = k
  BY DEF At, Breaks, LastOf

(* The first place is in line 0, column 0. *)
LEMMA AtFirst == \A text : At(text, 1, 0, 0)
  <1> TAKE text
  <1>1. Breaks(text, 1) = {}
    BY DEF Breaks
  <1>2. LastOf(0, Breaks(text, 1)) /\ Cardinality(Breaks(text, 1)) = 0
    BY <1>1, FS_EmptySet DEF LastOf
  <1> QED  BY <1>2, AtIs

(* The breaks are finitely many. *)
LEMMA BreaksFinite ==
  ASSUME NEW text, NEW i \in Nat
  PROVE  /\ IsFiniteSet(Breaks(text, i)) /\ Cardinality(Breaks(text, i)) \in Nat
         /\ Breaks(text, i) \subseteq Nat
  <1>1. Breaks(text, i) \in SUBSET (1 .. (i - 1)) /\ IsFiniteSet(1 .. (i - 1))
    BY FS_Interval DEF Breaks
  <1> QED  BY <1>1, FS_Subset, FS_CardinalityType

(* A place has one line and one column. *)
LEMMA AtOnce ==
  ASSUME NEW text, NEW i \in Nat, NEW l, NEW k, NEW m, NEW n,
         At(text, i, l, k), At(text, i, m, n)
  PROVE  l = m /\ k = n
  <1>1. PICK b : LastOf(b, Breaks(text, i)) /\ i - b - 1 = k
    BY AtIs
  <1>2. PICK c : LastOf(c, Breaks(text, i)) /\ i - c - 1 = n
    BY AtIs
  <1>3. b \in Nat /\ c \in Nat /\ b <= c /\ c <= b
    BY <1>1, <1>2, BreaksFinite DEF LastOf
  <1>4. b = c
    BY <1>3
  <1> QED  BY <1>1, <1>2, <1>4, AtIs

(* After a break comes the next line, after a character the next column.   *)
LEMMA AtNext ==
  ASSUME NEW text, NEW i \in Nat \ {0}, NEW l \in Nat, NEW k \in Nat, At(text, i, l, k)
  PROVE  /\ text[i] = LF => At(text, i + 1, l + 1, 0)
         /\ text[i] # LF => At(text, i + 1, l, k + 1)
  <1> DEFINE old == Breaks(text, i)
             new == Breaks(text, i + 1)
  <1>1. PICK b : LastOf(b, old) /\ i - b - 1 = k
    BY AtIs
  <1>2. Cardinality(old) = l
    BY AtIs
  <1>3. IsFiniteSet(old) /\ i \notin old /\ \A j \in old : j \in Nat /\ j < i
    BY BreaksFinite DEF Breaks
  <1>4. b \in Nat
    BY <1>1, <1>3 DEF LastOf
  <1>5. CASE text[i] = LF
    <2>1. new = old \cup {i}
      BY <1>5 DEF Breaks
    <2>2. Cardinality(new) = l + 1
      BY <1>2, <1>3, <2>1, FS_AddElement
    <2>3. LastOf(i, new) /\ (i + 1) - i - 1 = 0
      BY <1>3, <2>1 DEF LastOf
    <2> QED  BY <1>5, <2>2, <2>3, AtIs
  <1>6. CASE text[i] # LF
    <2>1. new = old
      BY <1>6 DEF Breaks
    <2>2. (i + 1) - b - 1 = k + 1
      BY <1>1, <1>4
    <2> QED  BY <1>1, <1>2, <1>6, <2>1, <2>2, AtIs
  <1> QED  BY <1>5, <1>6

(* Every place of a text is somewhere. *)
LEMMA Somewhere ==
  ASSUME NEW text
  PROVE  \A i \in Nat \ {0} : \E l, k \in Nat : At(text, i, l, k)
  <1> DEFINE good == {i \in Nat : i # 0 => \E l, k \in Nat : At(text, i, l, k)}
  <1>1. ASSUME NEW n \in Nat, \A m \in Nat : m < n => m \in good
        PROVE  n \in good
    <2>1. CASE n <= 1
      <3>1. n = 0 \/ n = 1
        BY <2>1
      <3> QED  BY <3>1, AtFirst
    <2>2. CASE n > 1
      <3>1. n - 1 \in Nat /\ n - 1 # 0 /\ n - 1 < n /\ (n - 1) + 1 = n
        BY <2>2
      <3>2. PICK l \in Nat, k \in Nat : At(text, n - 1, l, k)
        BY <1>1, <3>1
      <3>3. At(text, n, l + 1, 0) \/ At(text, n, l, k + 1)
        BY <3>1, <3>2, AtNext
      <3>4. l + 1 \in Nat /\ k + 1 \in Nat /\ 0 \in Nat
        OBVIOUS
      <3> QED  BY <3>3, <3>4
    <2> QED  BY <2>1, <2>2
  <1> HIDE DEF good
  <1>2. \A n \in Nat : n \in good
    BY <1>1, NumberInduction
  <1> QED  BY <1>2 DEF good

-----------------------------------------------------------------------------
(* Characters on the screen. *)

(* Whether a bit of the character at <<x, y>> covers s. *)
InGlyph(s, x, y, character, scale) ==
  \E b \in Font[character] : InRect(s, x + b[1] * scale, y + b[2] * scale, scale, scale)

(* framebuffer_character draws the bits that are set. *)
LEMMA GlyphIs ==
  ASSUME NEW x \in Int, NEW y \in Int, NEW c \in DOMAIN Font, NEW scale \in Nat
  PROVE  /\ Glyph(x, y, c, scale) \subseteq Screen
         /\ x >= 0 /\ y >= 0 =>
              Glyph(x, y, c, scale) = {s \in Screen : InGlyph(s, x, y, c, scale)}
  <1> DEFINE square(b) == Rect(x + b[1] * scale, y + b[2] * scale, scale, scale)
  <1>1. \A b \in Font[c] : b[1] \in Nat /\ b[2] \in Nat
    BY RasterAssumption
  <1>2. \A b \in Font[c] : b[1] * scale \in Nat /\ b[2] * scale \in Nat
    BY <1>1, ProductIs
  <1>3. Glyph(x, y, c, scale) = UNION {Filled(square(b)) : b \in Font[c]}
    BY DEF Glyph
  <1>4. ASSUME NEW b \in Font[c]
        PROVE  /\ Filled(square(b)) \subseteq Screen
               /\ x >= 0 /\ y >= 0 =>
                    Filled(square(b)) =
                      {s \in Screen : InRect(s, x + b[1] * scale, y + b[2] * scale, scale, scale)}
    <2> DEFINE u == x + b[1] * scale
               v == y + b[2] * scale
    <2>1. u \in Int /\ v \in Int /\ (x >= 0 => u \in Nat) /\ (y >= 0 => v \in Nat)
      BY <1>2
    <2> HIDE DEF u, v
    <2>2. Filled(Rect(u, v, scale, scale)) \subseteq Screen
      <3>1. LET r == Rect(u, v, scale, scale) IN
              r.x \in Int /\ r.y \in Int /\ r.width \in Int /\ r.height \in Int
        BY <2>1 DEF Rect
      <3> QED  BY <3>1, FilledInside
    <2>3. x >= 0 /\ y >= 0 =>
            Filled(Rect(u, v, scale, scale)) = {s \in Screen : InRect(s, u, v, scale, scale)}
      BY <2>1, FilledIs
    <2> QED  BY <2>2, <2>3 DEF u, v
  <1> HIDE DEF square
  <1>5. Glyph(x, y, c, scale) \subseteq Screen
    BY <1>3, <1>4
  <1>6. ASSUME x >= 0, y >= 0, NEW s \in Screen
        PROVE  s \in Glyph(x, y, c, scale) <=> InGlyph(s, x, y, c, scale)
    BY <1>3, <1>4, <1>6 DEF InGlyph
  <1> QED  BY <1>5, <1>6

(* The bit of the character, and the character of the line, that cover a   *)
(* point, are its offset divided by their sizes.                           *)
LEMMA CoveredBit ==
  ASSUME NEW scale \in Nat \ {0}, NEW d \in Int, NEW k \in Nat, NEW b \in 0 .. (Cell - 1)
  PROVE  (k * (Cell * scale) + b * scale <= d /\ d < k * (Cell * scale) + b * scale + scale)
           <=> d >= 0 /\ d \div (Cell * scale) = k /\ (d % (Cell * scale)) \div scale = b
  <1> DEFINE side == Cell * scale
  <1>1. Cell \in Nat \ {0}
    BY RasterAssumption
  <1>2. side \in Nat \ {0}
    BY <1>1
  <1>3. b \in Nat /\ b + 1 <= Cell
    BY <1>1
  <1>4. (b + 1) * scale <= Cell * scale
    BY <1>1, <1>3
  <1>5. (b + 1) * scale = b * scale + scale /\ b * scale \in Nat
    BY <1>3
  <1> DEFINE u == k * side
             v == b * scale
  <1>6. u \in Nat /\ v \in Nat /\ v + scale <= side
    BY <1>2, <1>4, <1>5, ProductIs
  <1> HIDE DEF side, u, v
  <1>7. ASSUME u + v <= d, d < u + v + scale
        PROVE  d >= 0 /\ d \div side = k /\ (d % side) \div scale = b
    <2> DEFINE e == d - u - v
    <2>1. e \in 0 .. (scale - 1) /\ v + e \in 0 .. (side - 1) /\ d = u + (v + e) /\ d >= 0
      BY <1>2, <1>6, <1>7
    <2> HIDE DEF e
    <2> DEFINE f == v + e
    <2>2. f \in 0 .. (side - 1) /\ d = k * side + f
      BY <2>1 DEF u
    <2> HIDE DEF f
    <2>3. d \div side = k /\ d % side = f
      BY <1>2, <2>2, DivisionUnique
    <2>4. (b * scale + e) \div scale = b
      BY <1>3, <2>1, DivisionUnique
    <2> QED  BY <2>1, <2>3, <2>4 DEF f, v
  <1>8. ASSUME d >= 0, d \div side = k, (d % side) \div scale = b
        PROVE  u + v <= d /\ d < u + v + scale
    <2>1. d \in Nat
      BY <1>8
    <2>2. PICK q \in Nat, r \in 0 .. (side - 1) : d = q * side + r /\ d \div side = q /\ d % side = r
      BY <1>2, <2>1, Division
    <2>3. r \in Nat
      OBVIOUS
    <2>4. PICK g \in Nat, e \in 0 .. (scale - 1) : r = g * scale + e /\ r \div scale = g /\ r % scale = e
      BY <2>3, Division
    <2>5. q = k /\ g = b
      BY <1>8, <2>2, <2>4
    <2>6. u = q * side /\ v = g * scale
      BY <2>5 DEF u, v
    <2>7. d = u + r /\ r = v + e
      BY <2>2, <2>4, <2>6
    <2> QED  BY <1>6, <2>4, <2>7
  <1> QED  BY <1>7, <1>8 DEF side, u, v

-----------------------------------------------------------------------------
(* Calls of framebuffer_text. *)

TextCalls == [op : {"text"}, p : Origins, text : Texts, scale : Scales]

(* The parts of such a call. *)
LEMMA TextParts ==
  ASSUME NEW c \in TextCalls
  PROVE  /\ c.p[1] \in Int /\ c.p[2] \in Int /\ c.scale \in Nat
         /\ Len(c.text) \in Nat /\ DOMAIN c.text = 1 .. Len(c.text)
         /\ \A i \in 1 .. Len(c.text) : c.text[i] \in DOMAIN Font \cup {LF}
  <1>1. c.p \in Int \X Int /\ c.scale \in Nat /\ c.text \in Seq(DOMAIN Font \cup {LF})
    BY RasterAssumption DEF TextCalls
  <1> QED  BY <1>1, LenProperties, ElementOfSeq

(* Where the cell in line l, column k begins. *)
CellX(c, k) == c.p[1] + k * (Cell * c.scale)
CellY(c, l) == c.p[2] + l * (Cell * c.scale)

(* A text job, and what a break and another character make of it. *)
TextJob(x, y, origin, text, scale, n) ==
  [op |-> "text", x |-> x, y |-> y, origin |-> origin, text |-> text, scale |-> scale, next |-> n]
NextLine(t, n, x, y) == [t EXCEPT !.next = n, !.x = x, !.y = y]
NextColumn(t, n, x) == [t EXCEPT !.next = n, !.x = x]

(* The call when it comes to place n, in line l, column k. *)
TextAt(c, n, l, k) == TextJob(CellX(c, k), CellY(c, l), c.p[1], c.text, c.scale, n)

(* Whether the character at place i covers s. *)
CoveredBy(s, c, i) ==
  /\ c.text[i] # LF
  /\ \E l, k \in Nat : /\ At(c.text, i, l, k)
                       /\ InGlyph(s, CellX(c, k), CellY(c, l), c.text[i], c.scale)

(* Whether one of the characters before place n covers s. *)
Covered(s, c, n) == \E i \in 1 .. (n - 1) : CoveredBy(s, c, i)

(* A character at a known place covers what its bits cover there.          *)
LEMMA CoveredAt ==
  ASSUME NEW s, NEW c, NEW i \in Nat, NEW l \in Nat, NEW k \in Nat, At(c.text, i, l, k)
  PROVE  CoveredBy(s, c, i) <=>
           /\ c.text[i] # LF
           /\ InGlyph(s, CellX(c, k), CellY(c, l), c.text[i], c.scale)
  <1>1. \A m, n \in Nat : At(c.text, i, m, n) => m = l /\ n = k
    BY AtOnce
  <1> QED  BY <1>1 DEF CoveredBy

(* The cells begin at whole numbers, and go on by their size.              *)
LEMMA CellsAre ==
  ASSUME NEW c \in TextCalls, NEW k \in Nat
  PROVE  /\ CellX(c, k) \in Int /\ CellY(c, k) \in Int
         /\ CellX(c, 0) = c.p[1] /\ CellY(c, 0) = c.p[2]
         /\ CellX(c, k + 1) = CellX(c, k) + Cell * c.scale
         /\ CellY(c, k + 1) = CellY(c, k) + Cell * c.scale
         /\ c.p[1] >= 0 => CellX(c, k) >= 0
         /\ c.p[2] >= 0 => CellY(c, k) >= 0
  <1> DEFINE side == Cell * c.scale
  <1>1. c.p[1] \in Int /\ c.p[2] \in Int /\ side \in Nat
    BY TextParts, ProductIs, RasterAssumption
  <1> HIDE DEF side
  <1>2. k * side \in Nat /\ 0 * side = 0 /\ (k + 1) * side = k * side + side
    BY <1>1, ProductIs
  <1> QED  BY <1>1, <1>2 DEF CellX, CellY, side

(* The characters of a text cover what InText says: a point has one line   *)
(* and column, and in the character that is there one bit.                 *)
LEMMA TextIs ==
  ASSUME NEW c \in TextCalls, c.scale # 0, NEW s \in Screen
  PROVE  Covered(s, c, Len(c.text) + 1) <=> InText(s, c.p, c.text, c.scale)
  <1> DEFINE side == Cell * c.scale
             dx == s[1] - c.p[1]
             dy == s[2] - c.p[2]
             bit == <<(dx % side) \div c.scale, (dy % side) \div c.scale>>
  <1>1. /\ c.p[1] \in Int /\ c.p[2] \in Int /\ c.scale \in Nat \ {0} /\ Len(c.text) \in Nat
        /\ DOMAIN c.text = 1 .. Len(c.text)
        /\ \A i \in 1 .. Len(c.text) : c.text[i] \in DOMAIN Font \cup {LF}
    BY TextParts
  <1>2. s[1] \in Int /\ s[2] \in Int
    BY DEF Screen
  <1>3. side \in Nat \ {0}
    BY <1>1, RasterAssumption
  <1>4. ASSUME NEW b, b \in (0 .. Cell - 1) \X (0 .. Cell - 1), NEW l \in Nat, NEW k \in Nat
        PROVE  InRect(s, CellX(c, k) + b[1] * c.scale, CellY(c, l) + b[2] * c.scale, c.scale, c.scale)
                 <=> dx >= 0 /\ dy >= 0 /\ dx \div side = k /\ dy \div side = l /\ b = bit
    <2>1. b[1] \in 0 .. (Cell - 1) /\ b[2] \in 0 .. (Cell - 1) /\ b = <<b[1], b[2]>>
      BY <1>4
    <2>2. dx \in Int /\ dy \in Int
      BY <1>1, <1>2
    <2> HIDE DEF dx, dy
    <2>3. (k * (Cell * c.scale) + b[1] * c.scale <= dx
             /\ dx < k * (Cell * c.scale) + b[1] * c.scale + c.scale)
          <=> dx >= 0 /\ dx \div side = k /\ (dx % side) \div c.scale = b[1]
      BY <1>1, <2>1, <2>2, CoveredBit
    <2>4. (l * (Cell * c.scale) + b[2] * c.scale <= dy
             /\ dy < l * (Cell * c.scale) + b[2] * c.scale + c.scale)
          <=> dy >= 0 /\ dy \div side = l /\ (dy % side) \div c.scale = b[2]
      BY <1>1, <2>1, <2>2, CoveredBit
    <2> DEFINE u == k * (Cell * c.scale)
               v == b[1] * c.scale
               w == l * (Cell * c.scale)
               z == b[2] * c.scale
    <2>5. u \in Nat /\ v \in Nat /\ w \in Nat /\ z \in Nat
      <3>1. b[1] \in Nat /\ b[2] \in Nat
        BY <2>1
      <3> HIDE DEF side
      <3> QED  BY <1>1, <1>3, <3>1, ProductIs DEF side
    <2> HIDE DEF u, v, w, z
    <2>6. InRect(s, CellX(c, k) + b[1] * c.scale, CellY(c, l) + b[2] * c.scale, c.scale, c.scale)
            <=> /\ u + v <= dx /\ dx < u + v + c.scale
                /\ w + z <= dy /\ dy < w + z + c.scale
      <3>1. /\ CellX(c, k) + b[1] * c.scale = c.p[1] + u + v
            /\ CellY(c, l) + b[2] * c.scale = c.p[2] + w + z
        BY DEF CellX, CellY, u, v, w, z
      <3> DEFINE m == c.p[1] + u + v
                 n == c.p[2] + w + z
      <3>2. InRect(s, m, n, c.scale, c.scale) <=>
              /\ u + v <= dx /\ dx < u + v + c.scale
              /\ w + z <= dy /\ dy < w + z + c.scale
        <4> DEFINE px == c.p[1]
                   py == c.p[2]
                   sx == s[1]
                   sy == s[2]
                   d == c.scale
        <4>1. px \in Int /\ py \in Int /\ sx \in Int /\ sy \in Int /\ d \in Nat
          BY <1>1, <1>2
        <4>2. InRect(s, m, n, d, d) <=>
                px + u + v <= sx /\ sx < px + u + v + d /\ py + w + z <= sy /\ sy < py + w + z + d
          BY DEF InRect
        <4>3. dx = sx - px /\ dy = sy - py
          BY DEF dx, dy
        <4> HIDE DEF px, py, sx, sy, d
        <4> QED  BY <2>5, <4>1, <4>2, <4>3 DEF d
      <3> HIDE DEF m, n
      <3> QED  BY <3>1, <3>2 DEF m, n
    <2>7. bit = b <=> (dx % side) \div c.scale = b[1] /\ (dy % side) \div c.scale = b[2]
      BY <2>1
    <2> HIDE DEF bit
    <2> QED  BY <2>3, <2>4, <2>6, <2>7 DEF u, v, w, z
  <1> HIDE DEF bit, side, dx, dy
  <1>5. InText(s, c.p, c.text, c.scale) <=>
          /\ dx >= 0 /\ dy >= 0
          /\ \E i \in 1 .. Len(c.text) : /\ c.text[i] # LF
                                         /\ At(c.text, i, dy \div side, dx \div side)
                                         /\ bit \in Font[c.text[i]]
    BY <1>1 DEF InText, CharacterAt, bit, side, dx, dy
  <1>6. \A i \in 1 .. Len(c.text) : c.text[i] # LF =>
          Font[c.text[i]] \subseteq (0 .. Cell - 1) \X (0 .. Cell - 1)
    BY <1>1, RasterAssumption
  <1>7. ASSUME NEW i \in 1 .. Len(c.text), CoveredBy(s, c, i)
        PROVE  InText(s, c.p, c.text, c.scale)
    <2>1. PICK l \in Nat, k \in Nat :
            At(c.text, i, l, k) /\ InGlyph(s, CellX(c, k), CellY(c, l), c.text[i], c.scale)
      BY <1>7 DEF CoveredBy
    <2>2. c.text[i] # LF
      BY <1>7 DEF CoveredBy
    <2>3. PICK b \in Font[c.text[i]] :
            InRect(s, CellX(c, k) + b[1] * c.scale, CellY(c, l) + b[2] * c.scale, c.scale, c.scale)
      BY <2>1 DEF InGlyph
    <2>4. dx >= 0 /\ dy >= 0 /\ dx \div side = k /\ dy \div side = l /\ b = bit
      BY <1>4, <1>6, <2>2, <2>3
    <2> QED  BY <1>5, <2>1, <2>2, <2>3, <2>4
  <1>8. ASSUME InText(s, c.p, c.text, c.scale)
        PROVE  \E i \in 1 .. Len(c.text) : CoveredBy(s, c, i)
    <2> DEFINE l == dy \div side
               k == dx \div side
    <2>1. PICK i \in 1 .. Len(c.text) :
            c.text[i] # LF /\ At(c.text, i, l, k) /\ bit \in Font[c.text[i]]
      BY <1>5, <1>8
    <2>2. dx \in Nat /\ dy \in Nat
      BY <1>1, <1>2, <1>5, <1>8 DEF dx, dy
    <2>3. l \in Nat /\ k \in Nat
      BY <1>3, <2>2, Division
    <2>4. bit \in (0 .. Cell - 1) \X (0 .. Cell - 1)
      BY <1>6, <2>1
    <2>5. InRect(s, CellX(c, k) + bit[1] * c.scale, CellY(c, l) + bit[2] * c.scale, c.scale, c.scale)
      BY <1>4, <2>2, <2>3, <2>4
    <2> HIDE DEF l, k
    <2>6. InGlyph(s, CellX(c, k), CellY(c, l), c.text[i], c.scale)
      BY <2>1, <2>5 DEF InGlyph
    <2> QED  BY <2>1, <2>3, <2>6 DEF CoveredBy
  <1>9. Covered(s, c, Len(c.text) + 1) <=> \E i \in 1 .. Len(c.text) : CoveredBy(s, c, i)
    BY <1>1 DEF Covered
  <1> QED  BY <1>7, <1>8, <1>9

(* What is painted of a text, and what is left, when place n comes next:   *)
(* nothing at all if the scale is none.                                    *)
TextCall ==
  /\ call \in TextCalls
  /\ painted \subseteq Screen
  /\ \/ call.scale \notin 1 .. MaxScale /\ todo = <<>> /\ painted = {}
     \/ /\ call.scale \in 1 .. MaxScale
        /\ \E n \in 1 .. (Len(call.text) + 1), l, k \in Nat :
             /\ At(call.text, n, l, k)
             /\ \/ todo = <<TextAt(call, n, l, k)>>
                \/ todo = <<>> /\ n = Len(call.text) + 1
             /\ call.p[1] >= 0 /\ call.p[2] >= 0 =>
                  \A s \in Screen : s \in painted <=> Covered(s, call, n)

(* What changes of the record when the text goes on. *)
LEMMA MovedOn ==
  ASSUME NEW x, NEW y, NEW origin, NEW text, NEW scale, NEW n, NEW u, NEW m
  PROVE  NextColumn(TextJob(x, y, origin, text, scale, n), m, u)
           = TextJob(u, y, origin, text, scale, m)
  <1> DEFINE a == [TextJob(x, y, origin, text, scale, n) EXCEPT !.next = m]
  <1>1. NextColumn(TextJob(x, y, origin, text, scale, n), m, u) = [a EXCEPT !.x = u]
    BY DEF NextColumn
  <1>2. a = TextJob(x, y, origin, text, scale, m)
    BY DEF TextJob
  <1> HIDE DEF a
  <1> QED  BY <1>1, <1>2 DEF TextJob

(* And when it comes to the next line. *)
LEMMA MovedDown ==
  ASSUME NEW x, NEW y, NEW origin, NEW text, NEW scale, NEW n, NEW u, NEW v, NEW m
  PROVE  NextLine(TextJob(x, y, origin, text, scale, n), m, u, v)
           = TextJob(u, v, origin, text, scale, m)
  <1> DEFINE a == NextColumn(TextJob(x, y, origin, text, scale, n), m, u)
  <1>1. NextLine(TextJob(x, y, origin, text, scale, n), m, u, v) = [a EXCEPT !.y = v]
    BY DEF NextLine, NextColumn
  <1>2. a = TextJob(u, y, origin, text, scale, m)
    BY MovedOn
  <1> HIDE DEF a
  <1> QED  BY <1>1, <1>2 DEF TextJob

(* The list of one job. *)
LEMMA OneJob ==
  ASSUME NEW j
  PROVE  /\ <<j>> # <<>> /\ Head(<<j>>) = j /\ Tail(<<j>>) = <<>> /\ Len(<<j>>) = 1
         /\ \A h : <<h>> \o Tail(<<j>>) = <<h>>
  OBVIOUS

(* A text begins at its first place. *)
LEMMA TextStarts ==
  ASSUME call = None, painted = {}, NEW p \in Origins, NEW text \in Texts, NEW scale \in Scales,
         framebuffer_text(p, text, scale)
  PROVE  TextCall'
  <1> DEFINE c == [op |-> "text", p |-> p, text |-> text, scale |-> scale]
  <1>1. c \in TextCalls /\ call' = c /\ painted' = {}
    BY DEF TextCalls, framebuffer_text, Begin
  <1>2. c.scale = scale /\ c.text = text /\ c.p = p
    OBVIOUS
  <1>3. Len(text) \in Nat /\ scale \in Nat /\ MaxScale \in Nat
    BY <1>1, <1>2, TextParts, RasterAssumption
  <1>4. todo' = IF scale = 0 \/ scale > MaxScale THEN <<>>
                ELSE <<[op |-> "text", x |-> p[1], y |-> p[2], origin |-> p[1],
                        text |-> text, scale |-> scale, next |-> 1]>>
    BY DEF framebuffer_text, Begin
  <1>5. CASE scale = 0 \/ scale > MaxScale
    BY <1>1, <1>2, <1>3, <1>4, <1>5 DEF TextCall
  <1>6. CASE scale \in 1 .. MaxScale
    <2>1. todo' = <<TextAt(c, 1, 0, 0)>>
      <3>1. todo' = <<[op |-> "text", x |-> p[1], y |-> p[2], origin |-> p[1],
                       text |-> text, scale |-> scale, next |-> 1]>>
        BY <1>3, <1>4, <1>6
      <3>2. TextAt(c, 1, 0, 0) =
              [op |-> "text", x |-> CellX(c, 0), y |-> CellY(c, 0), origin |-> p[1],
               text |-> text, scale |-> scale, next |-> 1]
        BY DEF TextAt, TextJob
      <3> HIDE DEF c
      <3>3. CellX(c, 0) = p[1] /\ CellY(c, 0) = p[2]
        BY <1>1, <1>2, CellsAre
      <3> QED  BY <3>1, <3>2, <3>3
    <2>2. At(text, 1, 0, 0)
      BY AtFirst
    <2>3. \A s : ~Covered(s, c, 1)
      BY DEF Covered
    <2> HIDE DEF c
    <2>4. 1 \in 1 .. (Len(c.text) + 1) /\ 0 \in Nat /\ painted' \subseteq Screen
      BY <1>1, <1>2, <1>3
    <2>5. \A s \in Screen : s \in painted' <=> Covered(s, c, 1)
      BY <1>1, <2>3
    <2> QED  BY <1>1, <1>2, <1>6, <2>1, <2>2, <2>4, <2>5 DEF TextCall
  <1> QED  BY <1>3, <1>5, <1>6

(* Each character of a text is drawn in its place. *)
LEMMA TextSteps ==
  ASSUME TextCall, DrawCharacter
  PROVE  TextCall'
  <1> DEFINE c == call
             t == Head(todo)
  <1>1. call' = c /\ todo # <<>> /\ t.next <= Len(t.text)
    BY DEF DrawCharacter, Doing
  <1>2. PICK n \in 1 .. (Len(c.text) + 1), l \in Nat, k \in Nat :
          /\ At(c.text, n, l, k) /\ todo = <<TextAt(c, n, l, k)>>
          /\ c.p[1] >= 0 /\ c.p[2] >= 0 => \A s \in Screen : s \in painted <=> Covered(s, c, n)
    BY <1>1 DEF TextCall
  <1>3. c \in TextCalls /\ c.scale \in 1 .. MaxScale /\ painted \subseteq Screen
    BY <1>1 DEF TextCall
  <1>4. /\ t.x = CellX(c, k) /\ t.y = CellY(c, l) /\ t.origin = c.p[1] /\ t.text = c.text
        /\ t.scale = c.scale /\ t.next = n /\ t = TextAt(c, n, l, k)
    BY <1>2, OneJob DEF TextAt, TextJob
  <1>5. /\ Len(c.text) \in Nat /\ n \in 1 .. Len(c.text) /\ n \in Nat \ {0}
        /\ c.text[n] \in DOMAIN Font \cup {LF} /\ c.scale \in Nat
    BY <1>1, <1>2, <1>3, <1>4, TextParts
  <1> HIDE DEF c, t
  <1>6. /\ CellX(c, k) \in Int /\ CellY(c, l) \in Int
        /\ CellX(c, 0) = c.p[1]
        /\ CellX(c, k + 1) = CellX(c, k) + Cell * c.scale
        /\ CellY(c, l + 1) = CellY(c, l) + Cell * c.scale
        /\ c.p[1] >= 0 => CellX(c, k) >= 0
        /\ c.p[2] >= 0 => CellY(c, l) >= 0
    BY <1>3, CellsAre
  <1>7. n + 1 \in 1 .. (Len(c.text) + 1)
    BY <1>5
  <1>8. \A s : Covered(s, c, n + 1) <=> Covered(s, c, n) \/ CoveredBy(s, c, n)
    <2>1. 1 .. ((n + 1) - 1) = (1 .. (n - 1)) \cup {n}
      BY <1>5
    <2> QED  BY <2>1 DEF Covered
  <1>9. CASE c.text[n] = LF
    <2>1. todo' = <<[t EXCEPT !.next = @ + 1, !.x = t.origin, !.y = @ + Cell * t.scale]>>
          /\ painted' = painted
      BY <1>4, <1>9 DEF DrawCharacter, t
    <2>2. todo' = <<TextAt(c, n + 1, l + 1, 0)>>
      <3>1. TextAt(c, n + 1, l + 1, 0) = NextLine(t, n + 1, CellX(c, 0), CellY(c, l + 1))
        BY <1>4, MovedDown DEF TextAt
      <3> QED  BY <1>4, <1>6, <2>1, <3>1 DEF NextLine, NextColumn
    <2>3. At(c.text, n + 1, l + 1, 0) /\ l + 1 \in Nat /\ 0 \in Nat
      BY <1>2, <1>5, <1>9, AtNext
    <2>4. \A s : ~CoveredBy(s, c, n)
      BY <1>9 DEF CoveredBy
    <2>5. c.p[1] >= 0 /\ c.p[2] >= 0 => \A s \in Screen : s \in painted' <=> Covered(s, c, n + 1)
      BY <1>2, <1>8, <2>1, <2>4
    <2>6. painted' \subseteq Screen
      BY <1>3, <2>1
    <2> QED  BY <1>1, <1>3, <1>7, <2>2, <2>3, <2>5, <2>6 DEF TextCall, c
  <1>10. CASE c.text[n] # LF
    <2>1. /\ todo' = <<[t EXCEPT !.next = @ + 1, !.x = @ + Cell * t.scale]>>
          /\ painted' = painted \cup Glyph(t.x, t.y, c.text[n], t.scale)
      BY <1>4, <1>10 DEF DrawCharacter, t
    <2>2. todo' = <<TextAt(c, n + 1, l, k + 1)>>
      <3>1. TextAt(c, n + 1, l, k + 1) = NextColumn(t, n + 1, CellX(c, k + 1))
        BY <1>4, MovedOn DEF TextAt
      <3> QED  BY <1>4, <1>6, <2>1, <3>1 DEF NextLine, NextColumn
    <2>3. At(c.text, n + 1, l, k + 1) /\ k + 1 \in Nat
      BY <1>2, <1>5, <1>10, AtNext
    <2>4. /\ Glyph(CellX(c, k), CellY(c, l), c.text[n], c.scale) \subseteq Screen
          /\ CellX(c, k) >= 0 /\ CellY(c, l) >= 0 =>
               Glyph(CellX(c, k), CellY(c, l), c.text[n], c.scale) =
                 {s \in Screen : InGlyph(s, CellX(c, k), CellY(c, l), c.text[n], c.scale)}
      BY <1>5, <1>6, <1>10, GlyphIs
    <2>5. \A s : CoveredBy(s, c, n) <=> InGlyph(s, CellX(c, k), CellY(c, l), c.text[n], c.scale)
      BY <1>2, <1>5, <1>10, CoveredAt
    <2>6. ASSUME c.p[1] >= 0, c.p[2] >= 0, NEW s \in Screen
          PROVE  s \in painted' <=> Covered(s, c, n + 1)
      <3>1. s \in Glyph(CellX(c, k), CellY(c, l), c.text[n], c.scale) <=> CoveredBy(s, c, n)
        BY <1>6, <2>4, <2>5, <2>6
      <3>2. s \in painted <=> Covered(s, c, n)
        BY <1>2, <2>6
      <3> QED  BY <1>4, <1>8, <2>1, <3>1, <3>2
    <2>7. painted' \subseteq Screen
      BY <1>3, <1>4, <2>1, <2>4
    <2>8. c.p[1] >= 0 /\ c.p[2] >= 0 => \A s \in Screen : s \in painted' <=> Covered(s, c, n + 1)
      BY <2>6
    <2> QED  BY <1>1, <1>3, <1>7, <2>2, <2>3, <2>7, <2>8 DEF TextCall, c
  <1> QED  BY <1>9, <1>10

(* The text is done when its last character is. *)
LEMMA TextEnds ==
  ASSUME TextCall, TextDone
  PROVE  TextCall'
  <1>1. todo' = <<>> /\ painted' = painted /\ call' = call /\ todo # <<>>
        /\ Head(todo).next > Len(Head(todo).text)
    BY DEF TextDone, Doing
  <1>2. PICK n \in 1 .. (Len(call.text) + 1), l \in Nat, k \in Nat :
          /\ At(call.text, n, l, k) /\ todo = <<TextAt(call, n, l, k)>>
          /\ call.p[1] >= 0 /\ call.p[2] >= 0 =>
               \A s \in Screen : s \in painted <=> Covered(s, call, n)
    BY <1>1 DEF TextCall
  <1>3. Head(todo).next = n /\ Head(todo).text = call.text
    BY <1>2, OneJob DEF TextAt, TextJob
  <1>4. call \in TextCalls /\ call.scale \in 1 .. MaxScale /\ painted \subseteq Screen
    BY <1>1 DEF TextCall
  <1>5. n = Len(call.text) + 1
    BY <1>1, <1>2, <1>3, <1>4, TextParts
  <1> QED  BY <1>1, <1>2, <1>4, <1>5 DEF TextCall

-----------------------------------------------------------------------------
(* The measured box of a text. *)

(* What the next character makes of the two lengths. *)
Longer(lengths, character) ==
  IF character = LF
  THEN [current |-> 0, maximum |-> Larger(lengths.current, lengths.maximum)]
  ELSE [current |-> lengths.current + 1, maximum |-> lengths.maximum]

(* f has the lengths after each place up to n. *)
Counts(text, n, f) ==
  f = [i \in 0 .. n |-> IF i = 0 THEN [current |-> 0, maximum |-> 0]
                        ELSE Longer(f[i - 1], text[i])]

(* The loop of framebuffer_measure_text has its values. *)
LEMMA CountsExist ==
  ASSUME NEW text
  PROVE  \A n \in Nat : \E f : Counts(text, n, f)
  <1> DEFINE good == {n \in Nat : \E f : Counts(text, n, f)}
  <1>1. ASSUME NEW n \in Nat, \A m \in Nat : m < n => m \in good
        PROVE  n \in good
    <2>1. CASE n = 0
      <3> DEFINE f == [i \in 0 .. 0 |-> [current |-> 0, maximum |-> 0]]
      <3>1. f = [i \in 0 .. 0 |-> IF i = 0 THEN [current |-> 0, maximum |-> 0]
                                  ELSE Longer(f[i - 1], text[i])]
        <4>1. \A i \in 0 .. 0 : i = 0
          OBVIOUS
        <4> QED  BY <4>1, Zenon
      <3> HIDE DEF f
      <3> QED  BY <2>1, <3>1 DEF Counts
    <2>2. CASE n > 0
      <3>1. n - 1 \in Nat /\ n - 1 < n
        BY <2>2
      <3>2. PICK g : Counts(text, n - 1, g)
        BY <1>1, <3>1
      <3> DEFINE f == [i \in 0 .. n |-> IF i = n THEN Longer(g[n - 1], text[n]) ELSE g[i]]
      <3>3. \A i \in 0 .. (n - 1) : f[i] = g[i] /\ i \in 0 .. n /\ i # n
        BY <3>1
      <3>4. f[n] = Longer(g[n - 1], text[n]) /\ n # 0 /\ n \in 0 .. n
        BY <2>2
      <3>5. f[n - 1] = g[n - 1]
        BY <3>1, <3>3
      <3>6. f = [i \in 0 .. n |-> f[i]]
        OBVIOUS
      <3>7. \A i \in 0 .. (n - 1) :
              g[i] = IF i = 0 THEN [current |-> 0, maximum |-> 0] ELSE Longer(g[i - 1], text[i])
        BY <3>2 DEF Counts
      <3> HIDE DEF f
      <3>8. ASSUME NEW i \in 0 .. n
            PROVE  f[i] = IF i = 0 THEN [current |-> 0, maximum |-> 0] ELSE Longer(f[i - 1], text[i])
        <4>1. CASE i = n
          BY <3>4, <3>5, <4>1
        <4>2. CASE i # n
          <5>1. i \in 0 .. (n - 1)
            BY <4>2
          <5>2. i # 0 => i - 1 \in 0 .. (n - 1)
            BY <5>1
          <5>3. i # 0 => f[i - 1] = g[i - 1]
            BY <3>3, <5>2
          <5> QED  BY <3>3, <3>7, <5>1, <5>3
        <4> QED  BY <4>1, <4>2
      <3>9. Counts(text, n, f)
        BY <3>6, <3>8 DEF Counts
      <3> QED  BY <3>9
    <2> QED  BY <2>1, <2>2
  <1> HIDE DEF good
  <1>2. \A n \in Nat : n \in good
    BY <1>1, NumberInduction
  <1> QED  BY <1>2 DEF good

(* What is counted: the lengths after the last place. *)
LEMMA CountedIs ==
  ASSUME NEW text, Len(text) \in Nat
  PROVE  \E f : Counts(text, Len(text), f) /\ Counted(text) = f[Len(text)]
  <1> DEFINE f == CHOOSE f : Counts(text, Len(text), f)
  <1>1. Counts(text, Len(text), f)
    BY CountsExist
  <1>2. Counted(text) = f[Len(text)]
    BY DEF Counted, Counts, Longer
  <1> QED  BY <1>1, <1>2

(* A character up to place i is the last of so many columns, if any are.   *)
Reached(text, i, columns) ==
  columns = 0 \/ \E j \in 1 .. i : text[j] # LF /\ \E l \in Nat : At(text, j, l, columns - 1)

(* No character up to place i is in a column beyond both lengths. *)
Bounded(text, i, lengths) ==
  \A j \in 1 .. i : text[j] # LF => \A l, k \in Nat :
    At(text, j, l, k) => k < lengths.current \/ k < lengths.maximum

(* After place i of a text: the next place is in column current, no column *)
(* is beyond both lengths, and each length is a column's that there is.    *)
CountedTo(text, i, lengths) ==
  /\ lengths.current \in Nat /\ lengths.maximum \in Nat
  /\ \E l \in Nat : At(text, i + 1, l, lengths.current)
  /\ Bounded(text, i, lengths)
  /\ i > 0 /\ text[i] # LF => lengths.current > 0
  /\ Reached(text, i, lengths.current) /\ Reached(text, i, lengths.maximum)

(* What is reached stays so. *)
LEMMA ReachedStays ==
  ASSUME NEW text, NEW i \in Nat, NEW columns, Reached(text, i, columns)
  PROVE  Reached(text, i + 1, columns)
  <1>1. 1 .. i \subseteq 1 .. (i + 1)
    OBVIOUS
  <1> QED  BY <1>1 DEF Reached

(* The loop counts rightly at each place. *)
LEMMA CountedStep ==
  ASSUME NEW text, NEW i \in Nat, NEW lengths, CountedTo(text, i, lengths)
  PROVE  CountedTo(text, i + 1, Longer(lengths, text[i + 1]))
  <1> DEFINE n == i + 1
             new == Longer(lengths, text[n])
             c == lengths.current
             m == lengths.maximum
  <1>1. c \in Nat /\ m \in Nat /\ n \in Nat \ {0} /\ n \in 1 .. n /\ n > 0
    BY DEF CountedTo
  <1>2. PICK l \in Nat : At(text, n, l, c)
    BY DEF CountedTo
  <1>3. \A j \in 1 .. n : j \in 1 .. i \/ j = n
    OBVIOUS
  <1>4. Reached(text, n, c) /\ Reached(text, n, m)
    BY ReachedStays DEF CountedTo
  <1>5. Bounded(text, i, lengths)
    BY DEF CountedTo
  <1>6. CASE text[n] = LF
    <2>1. new.current = 0 /\ new.maximum = Larger(c, m) /\ Larger(c, m) \in {c, m}
      BY <1>6 DEF Longer, Larger
    <2> HIDE DEF n, new, c, m
    <2>2. At(text, n + 1, l + 1, 0) /\ l + 1 \in Nat
      BY <1>1, <1>2, <1>6, AtNext
    <2>3. \A k \in Nat : k < c \/ k < m => k < Larger(c, m)
      BY <1>1 DEF Larger
    <2>4. Bounded(text, n, new)
      <3> SUFFICES ASSUME NEW j \in 1 .. n, text[j] # LF, NEW a \in Nat, NEW k \in Nat,
                          At(text, j, a, k)
                   PROVE  k < new.maximum
        BY DEF Bounded
      <3>1. j \in 1 .. i
        BY <1>3, <1>6
      <3>2. k < c \/ k < m
        BY <1>5, <3>1 DEF Bounded, c, m
      <3> QED  BY <2>1, <2>3, <3>2
    <2>5. Reached(text, n, new.current) /\ Reached(text, n, new.maximum)
      <3>1. Reached(text, n, 0)
        BY DEF Reached
      <3> QED  BY <1>4, <2>1, <3>1
    <2>6. new.current \in Nat /\ new.maximum \in Nat
      BY <1>1, <2>1
    <2> QED  BY <1>6, <2>1, <2>2, <2>4, <2>5, <2>6 DEF CountedTo, n, new
  <1>7. CASE text[n] # LF
    <2>1. new.current = c + 1 /\ new.maximum = m
      BY <1>7 DEF Longer
    <2> HIDE DEF n, new, c, m
    <2>2. At(text, n + 1, l, c + 1) /\ c + 1 \in Nat /\ c + 1 > 0 /\ (c + 1) - 1 = c
      BY <1>1, <1>2, <1>7, AtNext
    <2>3. Bounded(text, n, new)
      <3> SUFFICES ASSUME NEW j \in 1 .. n, text[j] # LF, NEW a \in Nat, NEW k \in Nat,
                          At(text, j, a, k)
                   PROVE  k < new.current \/ k < new.maximum
        BY DEF Bounded
      <3>1. CASE j = n
        <4>1. k = c
          BY <1>1, <1>2, <3>1, AtOnce
        <4> QED  BY <1>1, <2>1, <4>1
      <3>2. CASE j \in 1 .. i
        <4>1. k < c \/ k < m
          BY <1>5, <3>2 DEF Bounded, c, m
        <4> QED  BY <1>1, <2>1, <4>1
      <3> QED  BY <1>3, <3>1, <3>2
    <2>4. Reached(text, n, new.current) /\ Reached(text, n, new.maximum)
      <3>1. Reached(text, n, c + 1)
        BY <1>1, <1>2, <1>7, <2>2 DEF Reached
      <3> QED  BY <1>4, <2>1, <3>1
    <2>5. new.current \in Nat /\ new.maximum \in Nat
      BY <1>1, <2>1, <2>2
    <2> QED  BY <2>1, <2>2, <2>3, <2>4, <2>5 DEF CountedTo, n, new
  <1> QED  BY <1>6, <1>7

(* So what is counted of a text is its longest line, which there is.       *)
LEMMA CountedRightly ==
  ASSUME NEW text, Len(text) \in Nat
  PROVE  CountedTo(text, Len(text), Counted(text))
  <1> DEFINE n == Len(text)
  <1>1. PICK f : Counts(text, n, f) /\ Counted(text) = f[n]
    BY CountedIs
  <1> DEFINE good == {i \in Nat : i <= n => CountedTo(text, i, f[i])}
  <1> HIDE DEF n
  <1>2. ASSUME NEW i \in Nat, \A m \in Nat : m < i => m \in good
        PROVE  i \in good
    <2> SUFFICES ASSUME i <= n PROVE CountedTo(text, i, f[i])
      OBVIOUS
    <2>1. i \in 0 .. n
      BY DEF n
    <2>2. f[i] = IF i = 0 THEN [current |-> 0, maximum |-> 0] ELSE Longer(f[i - 1], text[i])
      BY <1>1, <2>1 DEF Counts
    <2>3. CASE i = 0
      <3>1. f[i].current = 0 /\ f[i].maximum = 0
        BY <2>2, <2>3
      <3>2. At(text, i + 1, 0, 0)
        BY <2>3, AtFirst
      <3>3. 1 .. i = {}
        BY <2>3
      <3> QED  BY <2>3, <3>1, <3>2, <3>3 DEF CountedTo, Bounded, Reached
    <2>4. CASE i > 0
      <3>1. i - 1 \in Nat /\ i - 1 < i /\ i - 1 <= n /\ (i - 1) + 1 = i
        BY <2>4 DEF n
      <3>2. CountedTo(text, i - 1, f[i - 1])
        BY <1>2, <3>1
      <3>3. CountedTo(text, (i - 1) + 1, Longer(f[i - 1], text[(i - 1) + 1]))
        BY <3>1, <3>2, CountedStep
      <3> QED  BY <2>2, <2>4, <3>1, <3>3
    <2> QED  BY <2>3, <2>4
  <1> HIDE DEF good
  <1>3. \A i \in Nat : i \in good
    BY <1>2, NumberInduction
  <1>4. n \in Nat /\ n <= n
    BY DEF n
  <1>5. CountedTo(text, n, f[n])
    BY <1>3, <1>4 DEF good
  <1> QED  BY <1>1, <1>5 DEF n

(* The lines of a text are counted rightly too. *)
LEMMA LinesBound ==
  ASSUME NEW text, Len(text) \in Nat, DOMAIN text = 1 .. Len(text)
  PROVE  /\ Lines(text) \in Nat
         /\ \A i \in 1 .. Len(text), l, k \in Nat : At(text, i, l, k) => l + 1 <= Lines(text)
         /\ \A l, k \in Nat : text[Len(text)] # LF /\ At(text, Len(text), l, k)
              => l + 1 = Lines(text)
  <1> DEFINE n == Len(text)
             all == {i \in DOMAIN text : text[i] = LF}
  <1>1. all = Breaks(text, n + 1)
    BY DEF Breaks
  <1>2. IsFiniteSet(all) /\ Cardinality(all) \in Nat
    <2>1. n + 1 \in Nat
      OBVIOUS
    <2>2. IsFiniteSet(Breaks(text, n + 1)) /\ Cardinality(Breaks(text, n + 1)) \in Nat
      BY <2>1, BreaksFinite
    <2> HIDE DEF all
    <2> QED  BY <1>1, <2>2
  <1>3. Lines(text) = Cardinality(all) + 1
    BY DEF Lines
  <1>4. ASSUME NEW i \in 1 .. n, NEW l \in Nat, NEW k \in Nat, At(text, i, l, k)
        PROVE  l + 1 <= Lines(text)
    <2>1. Breaks(text, i) \in SUBSET all
      BY DEF Breaks
    <2>2. Cardinality(Breaks(text, i)) = l
      BY <1>4, AtIs
    <2> HIDE DEF all
    <2>3. l <= Cardinality(all)
      BY <1>2, <2>1, <2>2, FS_Subset
    <2> QED  BY <1>2, <1>3, <2>3
  <1>5. ASSUME NEW l \in Nat, NEW k \in Nat, text[n] # LF, At(text, n, l, k)
        PROVE  l + 1 = Lines(text)
    <2>1. Breaks(text, n) = all
      <3>1. \A i \in 1 .. n : text[i] = LF => i \in 1 .. (n - 1)
        BY <1>5
      <3> QED  BY <3>1 DEF Breaks
    <2>2. Cardinality(Breaks(text, n)) = l
      BY <1>5, AtIs
    <2> QED  BY <1>3, <2>1, <2>2
  <1> HIDE DEF all
  <1> QED  BY <1>2, <1>3, <1>4, <1>5

(* Products grow with their factors. *)
LEMMA ProductGrows ==
  ASSUME NEW a \in Nat, NEW b \in Nat, NEW d \in Nat, a <= b
  PROVE  a * d <= b * d
  <1> DEFINE e == b - a
  <1>1. e \in Nat /\ b = a + e
    OBVIOUS
  <1> HIDE DEF e
  <1>2. (a + e) * d = a * d + e * d /\ e * d \in Nat /\ a * d \in Nat
    BY <1>1, ProductIs
  <1> QED  BY <1>1, <1>2

(* A square that a character covers lies in the character's cell. *)
LEMMA InCell ==
  ASSUME NEW scale \in Nat \ {0}, NEW k \in Nat, NEW b \in 0 .. (Cell - 1), NEW d \in Int,
         k * (Cell * scale) + b * scale <= d, d < k * (Cell * scale) + b * scale + scale
  PROVE  0 <= d /\ d < (k + 1) * (Cell * scale)
  <1> DEFINE side == Cell * scale
             u == k * side
             v == b * scale
  <1>1. Cell \in Nat \ {0} /\ b \in Nat /\ b + 1 \in Nat /\ b + 1 <= Cell
    BY RasterAssumption
  <1>2. (b + 1) * scale <= side /\ (b + 1) * scale = v + scale
    BY <1>1, ProductGrows
  <1>3. side \in Nat /\ u \in Nat /\ v \in Nat
    BY <1>1, ProductIs
  <1>4. (k + 1) * side = u + side
    BY <1>3
  <1>5. u + v <= d /\ d < u + v + scale
    OBVIOUS
  <1> HIDE DEF side, u, v
  <1>6. 0 <= d /\ d < u + side
    BY <1>2, <1>3, <1>5
  <1> QED  BY <1>4, <1>6 DEF side

(* A text that has been drawn lies in its measured box, which is no larger *)
(* than it must be.                                                        *)
LEMMA MeasuredText ==
  ASSUME TextCall
  PROVE  TextMeasured
  <1> DEFINE c == call
             n == Len(c.text)
             side == Cell * c.scale
             counted == Counted(c.text)
             columns == Larger(counted.current, counted.maximum)
             rows == Lines(c.text)
             size == framebuffer_measure_text(c.text, c.scale)
  <1> SUFFICES ASSUME todo = <<>>, c.p[1] >= 0, c.p[2] >= 0, c.scale \in 1 .. MaxScale
               PROVE  LET right == c.p[1] + size.width - 1
                          lower == c.p[2] + size.height - 1 IN
                      /\ \A s \in painted : InRect(s, c.p[1], c.p[2], size.width, size.height)
                      /\ SolidText(c.text) /\ <<right, lower>> \in Screen =>
                           (\E s \in painted : s[1] = right) /\ (\E s \in painted : s[2] = lower)
    BY DEF TextMeasured, Finished
  <1>1. /\ c \in TextCalls /\ painted \subseteq Screen
        /\ \A s \in Screen : s \in painted <=> Covered(s, c, n + 1)
    BY OneJob DEF TextCall
  <1>2. /\ c.p[1] \in Nat /\ c.p[2] \in Nat /\ c.scale \in Nat \ {0} /\ n \in Nat
        /\ DOMAIN c.text = 1 .. n
        /\ \A i \in 1 .. n : c.text[i] \in DOMAIN Font \cup {LF}
    BY <1>1, TextParts
  <1>3. CountedTo(c.text, n, counted)
    BY <1>2, CountedRightly
  <1>4. columns \in Nat /\ (counted.current > 0 => columns > 0)
        /\ \A k \in Nat : k < counted.current \/ k < counted.maximum => k + 1 <= columns
    BY <1>3 DEF CountedTo, Larger
  <1>5. Reached(c.text, n, columns)
    BY <1>3 DEF CountedTo, Larger
  <1>6. /\ rows \in Nat
        /\ \A i \in 1 .. n, l, k \in Nat : At(c.text, i, l, k) => l + 1 <= rows
        /\ \A l, k \in Nat : c.text[n] # LF /\ At(c.text, n, l, k) => l + 1 = rows
    BY <1>2, LinesBound
  <1>7. side \in Nat \ {0} /\ Cell \in Nat \ {0}
    BY <1>2, RasterAssumption
  <1>8. size.width = columns * side /\ size.height = rows * side
    <2>1. size.width = columns * Cell * c.scale /\ size.height = rows * Cell * c.scale
      BY DEF framebuffer_measure_text
    <2> HIDE DEF columns, rows, size
    <2> QED  BY <1>2, <1>4, <1>6, <1>7, <2>1
  <1>9. \A i \in 1 .. n : c.text[i] # LF =>
          Font[c.text[i]] \subseteq (0 .. Cell - 1) \X (0 .. Cell - 1)
    BY <1>2, RasterAssumption
  <1> HIDE DEF c, n, columns, rows, size, counted
  <1>10. \A k \in Nat : CellX(c, k) = c.p[1] + k * side /\ CellY(c, k) = c.p[2] + k * side
    BY DEF CellX, CellY
  <1>11. ASSUME NEW s \in painted
         PROVE  InRect(s, c.p[1], c.p[2], size.width, size.height)
    <2>1. s[1] \in Int /\ s[2] \in Int /\ Covered(s, c, n + 1)
      BY <1>1 DEF Screen
    <2>2. PICK i \in 1 .. n : CoveredBy(s, c, i)
      BY <1>2, <2>1 DEF Covered
    <2>3. PICK l \in Nat, k \in Nat :
            At(c.text, i, l, k) /\ InGlyph(s, CellX(c, k), CellY(c, l), c.text[i], c.scale)
      BY <2>2 DEF CoveredBy
    <2>4. c.text[i] # LF
      BY <2>2 DEF CoveredBy
    <2>5. PICK b \in Font[c.text[i]] :
            InRect(s, CellX(c, k) + b[1] * c.scale, CellY(c, l) + b[2] * c.scale, c.scale, c.scale)
      BY <2>3 DEF InGlyph
    <2>6. b[1] \in 0 .. (Cell - 1) /\ b[2] \in 0 .. (Cell - 1)
      BY <1>9, <2>4, <2>5
    <2> DEFINE dx == s[1] - c.p[1]
               dy == s[2] - c.p[2]
               u == k * side
               w == l * side
               v == b[1] * c.scale
               z == b[2] * c.scale
    <2>7. u \in Nat /\ w \in Nat /\ v \in Nat /\ z \in Nat /\ dx \in Int /\ dy \in Int
      <3>1. b[1] \in Nat /\ b[2] \in Nat
        BY <2>6
      <3>2. dx \in Int /\ dy \in Int
        BY <1>2, <2>1
      <3> HIDE DEF side, dx, dy
      <3>3. u \in Nat /\ w \in Nat
        BY <1>7, ProductIs
      <3>4. v \in Nat /\ z \in Nat
        BY <1>2, <3>1, ProductIs
      <3> QED  BY <3>2, <3>3, <3>4
    <2>8. u + v <= dx /\ dx < u + v + c.scale /\ w + z <= dy /\ dy < w + z + c.scale
      <3>1. CellX(c, k) = c.p[1] + u /\ CellY(c, l) = c.p[2] + w
        BY <1>10
      <3> HIDE DEF u, v, w, z
      <3>2. InRect(s, c.p[1] + u + v, c.p[2] + w + z, c.scale, c.scale)
        BY <2>5, <3>1 DEF v, z
      <3> DEFINE px == c.p[1]
                 py == c.p[2]
                 sx == s[1]
                 sy == s[2]
                 d == c.scale
      <3>3. px \in Int /\ py \in Int /\ sx \in Int /\ sy \in Int /\ d \in Nat
        BY <1>2, <2>1
      <3>4. px + u + v <= sx /\ sx < px + u + v + d /\ py + w + z <= sy /\ sy < py + w + z + d
        BY <3>2 DEF InRect
      <3>5. dx = sx - px /\ dy = sy - py
        OBVIOUS
      <3> HIDE DEF px, py, sx, sy, d, dx, dy
      <3>6. u + v <= dx /\ dx < u + v + d /\ w + z <= dy /\ dy < w + z + d
        BY <2>7, <3>3, <3>4, <3>5
      <3> QED  BY <3>6 DEF d
    <2> HIDE DEF dx, dy
    <2>9. 0 <= dx /\ dx < (k + 1) * side /\ 0 <= dy /\ dy < (l + 1) * side
      BY <1>2, <2>6, <2>7, <2>8, InCell
    <2>10. k + 1 <= columns /\ l + 1 <= rows
      <3>1. k < counted.current \/ k < counted.maximum
        BY <1>3, <2>3, <2>4 DEF CountedTo, Bounded
      <3> QED  BY <1>4, <1>6, <2>3, <3>1
    <2>11. (k + 1) * side <= columns * side /\ (l + 1) * side <= rows * side
      <3> HIDE DEF side
      <3> QED  BY <1>4, <1>6, <1>7, <2>10, ProductGrows
    <2> DEFINE f == (k + 1) * side
               g == (l + 1) * side
               width == columns * side
               height == rows * side
    <2>12. f \in Int /\ g \in Int /\ width \in Int /\ height \in Int
      BY <1>4, <1>6, <1>7
    <2> HIDE DEF f, g, width, height, side
    <2>13. dx < width /\ dy < height
      BY <2>7, <2>9, <2>11, <2>12 DEF f, g, width, height
    <2>14. size.width = width /\ size.height = height
      BY <1>8 DEF width, height
    <2> DEFINE px == c.p[1]
               py == c.p[2]
               sx == s[1]
               sy == s[2]
    <2>15. px \in Int /\ py \in Int /\ sx \in Int /\ sy \in Int /\ dx = sx - px /\ dy = sy - py
      BY <1>2, <2>1 DEF dx, dy
    <2>16. InRect(s, c.p[1], c.p[2], width, height) <=>
             px <= sx /\ sx < px + width /\ py <= sy /\ sy < py + height
      BY DEF InRect
    <2> HIDE DEF px, py, sx, sy
    <2>17. px <= sx /\ sx < px + width /\ py <= sy /\ sy < py + height
      BY <2>7, <2>9, <2>12, <2>13, <2>15
    <2> QED  BY <2>14, <2>16, <2>17
  <1>12. ASSUME SolidText(c.text),
                <<c.p[1] + size.width - 1, c.p[2] + size.height - 1>> \in Screen
         PROVE  /\ \E s \in painted : s[1] = c.p[1] + size.width - 1
                /\ \E s \in painted : s[2] = c.p[2] + size.height - 1
    <2>1. /\ n \in 1 .. n /\ c.text[n] # LF
          /\ \A i \in 1 .. n : c.text[i] # LF => Font[c.text[i]] = (0 .. Cell - 1) \X (0 .. Cell - 1)
      <3>1. c.text # <<>> /\ c.text[n] # LF
        BY <1>12 DEF SolidText, n
      <3>2. n # 0
        <4>1. c.text \in Seq(DOMAIN Font \cup {LF})
          BY <1>1, RasterAssumption DEF TextCalls
        <4> QED  BY <3>1, <4>1, EmptySeq DEF n
      <3>3. \A i \in 1 .. n : c.text[i] # LF => Font[c.text[i]] = (0 .. Cell - 1) \X (0 .. Cell - 1)
        BY <1>2, <1>12 DEF SolidText
      <3> QED  BY <1>2, <3>1, <3>2, <3>3
    <2> DEFINE width == columns * side
               height == rows * side
    <2>2. /\ width \in Int /\ height \in Int /\ size.width = width /\ size.height = height
          /\ c.p[1] + width - 1 < Width /\ c.p[2] + height - 1 < Height
          /\ c.p[1] + width - 1 \in 0 .. (Width - 1) /\ c.p[2] + height - 1 \in 0 .. (Height - 1)
      <3>1. width \in Int /\ height \in Int /\ size.width = width /\ size.height = height
        BY <1>4, <1>6, <1>7, <1>8
      <3> HIDE DEF width, height
      <3> QED  BY <1>12, <3>1, RasterAssumption DEF Screen
    <2>3. ASSUME NEW i \in 1 .. n, c.text[i] # LF, NEW l \in Nat, NEW k \in Nat, At(c.text, i, l, k),
                 NEW b, b \in (0 .. Cell - 1) \X (0 .. Cell - 1), NEW s \in Screen,
                 InRect(s, CellX(c, k) + b[1] * c.scale, CellY(c, l) + b[2] * c.scale,
                        c.scale, c.scale)
          PROVE  s \in painted
      <3>1. InGlyph(s, CellX(c, k), CellY(c, l), c.text[i], c.scale)
        BY <2>1, <2>3 DEF InGlyph
      <3>2. CoveredBy(s, c, i)
        BY <2>3, <3>1 DEF CoveredBy
      <3>3. i \in 1 .. ((n + 1) - 1)
        BY <1>2
      <3> QED  BY <1>1, <2>3, <3>2, <3>3 DEF Covered
    <2>4. columns > 0
      BY <1>2, <1>3, <1>4, <2>1 DEF CountedTo
    <2>5. PICK i \in 1 .. n, l \in Nat : c.text[i] # LF /\ At(c.text, i, l, columns - 1)
      BY <1>5, <2>4 DEF Reached
    <2>6. PICK m \in Nat, k \in Nat : At(c.text, n, m, k)
      <3>1. n \in Nat \ {0}
        BY <1>2, <2>1
      <3> QED  BY <3>1, Somewhere
    <2>7. m + 1 = rows /\ l + 1 <= rows /\ k + 1 <= columns
      <3>1. k < counted.current \/ k < counted.maximum
        BY <1>3, <2>1, <2>6 DEF CountedTo, Bounded
      <3> QED  BY <1>4, <1>6, <2>1, <2>5, <2>6, <3>1
    <2> DEFINE last == (Cell - 1) * c.scale
    <2>8. last + c.scale = side /\ last \in Nat /\ Cell - 1 \in 0 .. (Cell - 1) /\ 0 * c.scale = 0
          /\ 0 \in 0 .. (Cell - 1) /\ c.scale <= side
      <3> DEFINE d == c.scale
      <3>1. Cell - 1 \in Nat /\ Cell - 1 \in 0 .. (Cell - 1) /\ 0 \in 0 .. (Cell - 1) /\ d \in Nat
        BY <1>2, <1>7
      <3>2. (Cell - 1) * d \in Nat
        BY <3>1, ProductIs
      <3> HIDE DEF d
      <3>3. (Cell - 1) * d = Cell * d - d /\ Cell * d \in Int /\ 0 * d = 0
        BY <1>7, <3>1
      <3>4. (Cell - 1) * d + d = Cell * d /\ d <= Cell * d
        BY <3>1, <3>2, <3>3
      <3> QED  BY <3>1, <3>2, <3>3, <3>4 DEF d
    <2> HIDE DEF last, side
    <2>9. \E s \in painted : s[1] = c.p[1] + size.width - 1
      <3> DEFINE s == <<c.p[1] + width - 1, c.p[2] + l * side>>
                 b == <<Cell - 1, 0>>
                 u == (columns - 1) * side
                 w == l * side
      <3>1. columns - 1 \in Nat /\ u \in Nat /\ w \in Nat /\ width = u + side
        BY <1>4, <1>7, <2>4, ProductIs
      <3>2. w + side = (l + 1) * side /\ (l + 1) * side <= height
        BY <1>6, <1>7, <2>7, ProductGrows
      <3> HIDE DEF u, w, width, height
      <3>3. CellX(c, columns - 1) = c.p[1] + u /\ CellY(c, l) = c.p[2] + w
        BY <1>10, <3>1 DEF u, w
      <3>4. s = <<c.p[1] + width - 1, c.p[2] + w>>
        BY DEF w
      <3>5. c.p[2] + w \in 0 .. (Height - 1)
        <4>1. w + side <= height /\ side >= 1 /\ c.p[2] + height - 1 <= Height - 1
          BY <1>7, <2>2, <3>2
        <4> DEFINE py == c.p[2]
        <4>2. py \in Nat /\ py + height - 1 <= Height - 1
          BY <1>2, <4>1
        <4> HIDE DEF py
        <4>3. py + w \in 0 .. (Height - 1)
          BY <1>7, <2>2, <3>1, <4>1, <4>2, RasterAssumption
        <4> QED  BY <4>3 DEF py
      <3>6. s \in Screen
        BY <2>2, <3>4, <3>5 DEF Screen
      <3>7. b \in (0 .. Cell - 1) \X (0 .. Cell - 1) /\ b[1] = Cell - 1 /\ b[2] = 0
        BY <2>8
      <3> HIDE DEF b
      <3>8. /\ CellX(c, columns - 1) + b[1] * c.scale = c.p[1] + u + last
            /\ CellY(c, l) + b[2] * c.scale = c.p[2] + w
        <4>1. b[1] * c.scale = last
          BY <3>7 DEF last
        <4>2. b[2] * c.scale = 0
          BY <2>8, <3>7
        <4>3. c.p[1] \in Int /\ c.p[2] \in Int
          BY <1>2
        <4>4. c.p[2] + w + 0 = c.p[2] + w
          BY <3>1, <4>3
        <4> QED  BY <3>3, <4>1, <4>2, <4>4
      <3>9. InRect(s, c.p[1] + u + last, c.p[2] + w, c.scale, c.scale)
        <4> DEFINE px == c.p[1]
                   py == c.p[2]
                   d == c.scale
        <4>1. px \in Nat /\ py \in Nat /\ d \in Nat \ {0} /\ last + d = side
              /\ s[1] = px + width - 1 /\ s[2] = py + w
          BY <1>2, <2>8, <3>4
        <4> HIDE DEF px, py, d, s
        <4>2. InRect(s, px + u + last, py + w, d, d)
          BY <1>7, <2>2, <2>8, <3>1, <4>1 DEF InRect
        <4> QED  BY <4>2 DEF px, py, d
      <3> HIDE DEF s
      <3>10. s \in painted
        BY <2>3, <2>5, <3>1, <3>6, <3>7, <3>8, <3>9
      <3>11. s[1] = c.p[1] + size.width - 1
        BY <2>2, <3>4
      <3> QED  BY <3>10, <3>11
    <2>10. \E s \in painted : s[2] = c.p[2] + size.height - 1
      <3> DEFINE s == <<c.p[1] + k * side, c.p[2] + height - 1>>
                 b == <<0, Cell - 1>>
                 u == k * side
                 w == m * side
      <3>1. u \in Nat /\ w \in Nat /\ height = w + side
        <4>1. m = rows - 1
          BY <1>6, <2>7
        <4> QED  BY <1>6, <1>7, <4>1, ProductIs
      <3>2. u + side = (k + 1) * side /\ (k + 1) * side <= width
        <4>1. k + 1 \in Nat /\ k + 1 <= columns /\ columns \in Nat /\ side \in Nat
          BY <1>4, <1>7, <2>7
        <4>2. (k + 1) * side <= columns * side
          BY <4>1, ProductGrows
        <4> QED  BY <4>1, <4>2
      <3> HIDE DEF u, w, width, height
      <3>3. CellX(c, k) = c.p[1] + u /\ CellY(c, m) = c.p[2] + w
        BY <1>10 DEF u, w
      <3>4. s = <<c.p[1] + u, c.p[2] + height - 1>>
        BY DEF u
      <3>5. c.p[1] + u \in 0 .. (Width - 1)
        <4>1. u + side <= width /\ side >= 1 /\ c.p[1] + width - 1 <= Width - 1
          BY <1>7, <2>2, <3>2
        <4> DEFINE px == c.p[1]
        <4>2. px \in Nat /\ px + width - 1 <= Width - 1
          BY <1>2, <4>1
        <4> HIDE DEF px
        <4>3. px + u \in 0 .. (Width - 1)
          BY <1>7, <2>2, <3>1, <4>1, <4>2, RasterAssumption
        <4> QED  BY <4>3 DEF px
      <3>6. s \in Screen
        BY <2>2, <3>4, <3>5 DEF Screen
      <3>7. b \in (0 .. Cell - 1) \X (0 .. Cell - 1) /\ b[1] = 0 /\ b[2] = Cell - 1
        BY <2>8
      <3> HIDE DEF b
      <3>8. /\ CellX(c, k) + b[1] * c.scale = c.p[1] + u
            /\ CellY(c, m) + b[2] * c.scale = c.p[2] + w + last
        <4>1. b[1] * c.scale = 0
          BY <2>8, <3>7
        <4>2. b[2] * c.scale = last
          BY <3>7 DEF last
        <4>3. c.p[1] \in Int /\ c.p[2] \in Int
          BY <1>2
        <4>4. c.p[1] + u + 0 = c.p[1] + u
          BY <3>1, <4>3
        <4> QED  BY <3>3, <4>1, <4>2, <4>4
      <3>9. InRect(s, c.p[1] + u, c.p[2] + w + last, c.scale, c.scale)
        <4> DEFINE px == c.p[1]
                   py == c.p[2]
                   d == c.scale
        <4>1. px \in Nat /\ py \in Nat /\ d \in Nat \ {0} /\ last + d = side
              /\ s[1] = px + u /\ s[2] = py + height - 1
          BY <1>2, <2>8, <3>4
        <4> HIDE DEF px, py, d, s
        <4>2. InRect(s, px + u, py + w + last, d, d)
          BY <1>7, <2>2, <2>8, <3>1, <4>1 DEF InRect
        <4> QED  BY <4>2 DEF px, py, d
      <3> HIDE DEF s
      <3>10. s \in painted
        BY <2>1, <2>3, <2>6, <3>6, <3>7, <3>8, <3>9
      <3>11. s[2] = c.p[2] + size.height - 1
        BY <2>2, <3>4
      <3> QED  BY <3>10, <3>11
    <2> QED  BY <2>9, <2>10
  <1> QED  BY <1>11, <1>12 DEF c

-----------------------------------------------------------------------------
(* Lines: u counts the points along the longer axis, v those across it.    *)

LineCalls == [op : {"line"}, p : Ends, q : Ends]

(* How far the line goes along each axis, and which way. *)
Far(c, i) == absolute(c.q[i] - c.p[i])
Way(c, i) == IF c.p[i] < c.q[i] THEN 1 ELSE -1

Flat(c) == Far(c, 1) >= Far(c, 2)
Long(c) == IF Flat(c) THEN Far(c, 1) ELSE Far(c, 2)
Short(c) == IF Flat(c) THEN Far(c, 2) ELSE Far(c, 1)

(* The point so far along and across. *)
Point(c, u, v) ==
  IF Flat(c) THEN <<c.p[1] + Way(c, 1) * u, c.p[2] + Way(c, 2) * v>>
  ELSE <<c.p[1] + Way(c, 1) * v, c.p[2] + Way(c, 2) * u>>

(* Twice the point's distance from the line, times its length. *)
Off(c, u, v) == Long(c) * v - Short(c) * u

(* The point is at most half a pixel off. *)
Close(c, u, v) == -Long(c) <= 2 * Off(c, u, v) /\ 2 * Off(c, u, v) <= Long(c)

(* The numbers of a line. *)
LEMMA LineParts ==
  ASSUME NEW c \in LineCalls
  PROVE  /\ c.p[1] \in Int /\ c.p[2] \in Int /\ c.q[1] \in Int /\ c.q[2] \in Int
         /\ -IntMax <= c.p[1] /\ c.p[1] <= IntMax /\ -IntMax <= c.p[2] /\ c.p[2] <= IntMax
         /\ -IntMax <= c.q[1] /\ c.q[1] <= IntMax /\ -IntMax <= c.q[2] /\ c.q[2] <= IntMax
         /\ Long(c) \in Nat /\ Short(c) \in Nat /\ Short(c) <= Long(c) /\ 4 * Long(c) <= IntMax
         /\ Far(c, 1) \in Nat /\ Far(c, 2) \in Nat
         /\ c.q[1] = c.p[1] + Way(c, 1) * Far(c, 1)
         /\ c.q[2] = c.p[2] + Way(c, 2) * Far(c, 2)
         /\ Way(c, 1) \in {1, -1} /\ Way(c, 2) \in {1, -1}
         /\ c.p = <<c.p[1], c.p[2]>> /\ c.q = <<c.q[1], c.q[2]>>
  <1>1. c.p \in Ends /\ c.q \in Ends
    BY DEF LineCalls
  <1>2. /\ c.p \in (-IntMax .. IntMax) \X (-IntMax .. IntMax)
        /\ c.q \in (-IntMax .. IntMax) \X (-IntMax .. IntMax)
        /\ IntMax \in Nat
    BY <1>1, RasterAssumption
  <1>3. 4 * Far(c, 1) <= IntMax /\ 4 * Far(c, 2) <= IntMax
    <2>1. 1 \in 1 .. 2 /\ 2 \in 1 .. 2
      OBVIOUS
    <2> QED  BY <1>1, <2>1, RasterAssumption DEF Far
  <1>4. /\ c.p[1] \in -IntMax .. IntMax /\ c.p[2] \in -IntMax .. IntMax
        /\ c.q[1] \in -IntMax .. IntMax /\ c.q[2] \in -IntMax .. IntMax
        /\ c.p = <<c.p[1], c.p[2]>> /\ c.q = <<c.q[1], c.q[2]>>
    BY <1>2
  <1>5. ASSUME NEW a \in Int, NEW b \in Int
        PROVE  /\ absolute(b - a) \in Nat
               /\ b = a + (IF a < b THEN 1 ELSE -1) * absolute(b - a)
    BY DEF absolute
  <1>6. /\ Far(c, 1) \in Nat /\ Far(c, 2) \in Nat
        /\ c.q[1] = c.p[1] + Way(c, 1) * Far(c, 1)
        /\ c.q[2] = c.p[2] + Way(c, 2) * Far(c, 2)
    <2>1. c.p[1] \in Int /\ c.p[2] \in Int /\ c.q[1] \in Int /\ c.q[2] \in Int
      BY <1>4
    <2> QED  BY <1>5, <2>1 DEF Far, Way
  <1>7. Way(c, 1) \in {1, -1} /\ Way(c, 2) \in {1, -1}
    BY DEF Way
  <1>8. Long(c) \in Nat /\ Short(c) \in Nat /\ Short(c) <= Long(c) /\ 4 * Long(c) <= IntMax
    BY <1>2, <1>3, <1>6 DEF Long, Short, Flat
  <1> QED  BY <1>2, <1>4, <1>6, <1>7, <1>8

(* A point that is close to the line does not pass its ends, and is an end *)
(* when it is as far along as that.                                        *)
LEMMA CloseAcross ==
  ASSUME NEW a \in Nat, NEW b \in 0 .. a, NEW u \in 0 .. a, NEW v \in Int, a > 0,
         -a <= 2 * (a * v - b * u), 2 * (a * v - b * u) <= a
  PROVE  v \in 0 .. b /\ (u = a => v = b) /\ (u = 0 => v = 0)
  <1> DEFINE x == a * v
             y == b * u
  <1>1. x \in Int /\ y \in Int /\ -a <= 2 * (x - y) /\ 2 * (x - y) <= a
    OBVIOUS
  <1>2. 0 <= y /\ y <= b * a /\ (u = a => y = b * a) /\ (u = 0 => y = 0)
    <2>1. b \in Nat /\ u \in Nat /\ u <= a
      OBVIOUS
    <2>2. u * b <= a * b /\ u * b \in Nat
      BY <2>1, ProductGrows, ProductIs
    <2>3. y = u * b /\ b * a = a * b
      BY <2>1
    <2> QED  BY <2>2, <2>3
  <1>3. b * a \in Int
    OBVIOUS
  <1>4. v < 0 => x <= -a
    <2> HAVE v < 0
    <2> DEFINE w == -1 - v
    <2>1. w \in Nat /\ v = -1 - w
      OBVIOUS
    <2> HIDE DEF w
    <2>2. a * v = -a - a * w /\ a * w \in Nat
      BY <2>1, ProductIs
    <2> QED  BY <2>2
  <1>5. v > b => x >= b * a + a
    <2> HAVE v > b
    <2> DEFINE w == v - b - 1
    <2>1. w \in Nat /\ v = b + 1 + w /\ b \in Nat
      OBVIOUS
    <2> HIDE DEF w
    <2>2. a * v = b * a + a + a * w /\ a * w \in Nat
      BY <2>1, ProductIs
    <2> QED  BY <1>3, <2>2
  <1>6. v < b => x <= b * a - a
    <2> HAVE v < b
    <2> DEFINE w == b - 1 - v
    <2>1. w \in Nat /\ v = b - 1 - w /\ b \in Nat
      OBVIOUS
    <2> HIDE DEF w
    <2>2. a * v = b * a - a - a * w /\ a * w \in Nat
      BY <2>1, ProductIs
    <2> QED  BY <1>3, <2>2
  <1>7. v > 0 => x >= a
    <2> HAVE v > 0
    <2> DEFINE w == v - 1
    <2>1. w \in Nat /\ v = 1 + w
      OBVIOUS
    <2> HIDE DEF w
    <2>2. a * v = a + a * w /\ a * w \in Nat
      BY <2>1, ProductIs
    <2> QED  BY <2>2
  <1> DEFINE z == b * a
  <1> HIDE DEF x, y, z
  <1>8. v >= 0 /\ v <= b
    BY <1>1, <1>2, <1>3, <1>4, <1>5 DEF z
  <1>9. u = a => v = b
    BY <1>1, <1>2, <1>3, <1>6, <1>8 DEF z
  <1>10. u = 0 => v = 0
    BY <1>1, <1>2, <1>3, <1>7, <1>8
  <1> QED  BY <1>8, <1>9, <1>10

(* The step of framebuffer_line: along the longer axis in every pass, and  *)
(* across it when the error says so, which keeps the next point close.     *)
LEMMA ErrorKept ==
  ASSUME NEW a \in Nat, NEW b \in 0 .. a, NEW u \in Nat, NEW v \in Nat, NEW d, d = a * v - b * u,
         -a <= 2 * d, 2 * d <= a
  PROVE  /\ d \in Int
         /\ -b <= 2 * (a - b + d) /\ 2 * (a - b + d) <= 3 * a
         /\ 2 * (a - b + d) <= a =>
              /\ a - b + d = a * (v + 1) - b * (u + 1)
              /\ -a <= 2 * (a * (v + 1) - b * (u + 1)) /\ 2 * (a * (v + 1) - b * (u + 1)) <= a
         /\ ~(2 * (a - b + d) <= a) =>
              /\ d - b = a * v - b * (u + 1)
              /\ -a <= 2 * (a * v - b * (u + 1)) /\ 2 * (a * v - b * (u + 1)) <= a
  <1> DEFINE x == a * v
             y == b * u
  <1>1. x \in Int /\ y \in Int /\ b \in Nat /\ b <= a /\ d = x - y
    OBVIOUS
  <1>2. a * (v + 1) = x + a /\ b * (u + 1) = y + b
    BY <1>1
  <1> HIDE DEF x, y
  <1>3. d \in Int
    BY <1>1
  <1>4. a * v = x
    BY DEF x
  <1> DEFINE s == a * (v + 1)
             t == b * (u + 1)
             r == a * v
  <1>5. s = x + a /\ t = y + b /\ r = x
    BY <1>2, <1>4
  <1> HIDE DEF s, t, r
  <1>6. /\ -b <= 2 * (a - b + d) /\ 2 * (a - b + d) <= 3 * a
        /\ 2 * (a - b + d) <= a => a - b + d = s - t /\ -a <= 2 * (s - t) /\ 2 * (s - t) <= a
        /\ ~(2 * (a - b + d) <= a) => d - b = r - t /\ -a <= 2 * (r - t) /\ 2 * (r - t) <= a
    BY <1>1, <1>3, <1>5
  <1> QED  BY <1>3, <1>6 DEF s, t, r

(* A line under way, by its numbers. *)
LineJob(x, y, x1, y1, dx, dy, sx, sy, error) ==
  [op |-> "line", x |-> x, y |-> y, x1 |-> x1, y1 |-> y1, dx |-> dx, dy |-> dy,
   sx |-> sx, sy |-> sy, error |-> error]

(* The numbers of a line that is one on. *)
LEMMA LineMoves ==
  ASSUME NEW x, NEW y, NEW x1, NEW y1, NEW dx, NEW dy, NEW sx, NEW sy, NEW error,
         NEW along \in BOOLEAN, along <=> Int64(error * 2) >= dy,
         NEW across \in BOOLEAN, across <=> Int64(error * 2) <= dx
  PROVE  Advanced(LineJob(x, y, x1, y1, dx, dy, sx, sy, error)) =
           LineJob(IF along THEN Int64(x + sx) ELSE x, IF across THEN Int64(y + sy) ELSE y,
                   x1, y1, dx, dy, sx, sy,
                   IF across THEN Int64((IF along THEN Int64(error + dy) ELSE error) + dx)
                   ELSE IF along THEN Int64(error + dy) ELSE error)
  <1> DEFINE l == LineJob(x, y, x1, y1, dx, dy, sx, sy, error)
             e == Int64(error + dy)
             w == Int64(x + sx)
             h == Int64(y + sy)
  <1>1. /\ l.error = error /\ l.dy = dy /\ l.dx = dx /\ l.sx = sx /\ l.sy = sy /\ l.x = x /\ l.y = y
    BY DEF LineJob
  <1> DEFINE one == IF along THEN [l EXCEPT !.error = e, !.x = w] ELSE l
             d == Int64((IF along THEN e ELSE error) + dx)
  <1>2. one.error = (IF along THEN e ELSE error) /\ one.y = y
    BY <1>1 DEF LineJob
  <1>3. Advanced(l) = IF across THEN [one EXCEPT !.error = d, !.y = h] ELSE one
    BY <1>1, <1>2, Zenon DEF Advanced
  <1> QED  BY <1>3 DEF LineJob

(* The line c with u points along and v across drawn. *)
LineAt(c, u, v) ==
  LineJob(Point(c, u, v)[1], Point(c, u, v)[2], c.q[1], c.q[2], Far(c, 1), -Far(c, 2),
          Way(c, 1), Way(c, 2),
          IF Flat(c) THEN Long(c) - Short(c) + Off(c, u, v) ELSE Short(c) - Long(c) - Off(c, u, v))

(* The points of a line are between its ends. *)
LEMMA PointIs ==
  ASSUME NEW c \in LineCalls, NEW u \in 0 .. Long(c), NEW v \in 0 .. Short(c)
  PROVE  /\ Point(c, u, v) \in (-IntMax .. IntMax) \X (-IntMax .. IntMax)
         /\ Point(c, u, v) = <<Point(c, u, v)[1], Point(c, u, v)[2]>>
         /\ Point(c, u, v)[1] \in Int /\ Point(c, u, v)[2] \in Int
         /\ \A i \in 1 .. 2 : /\ Smaller(c.p[i], c.q[i]) <= Point(c, u, v)[i]
                              /\ Point(c, u, v)[i] <= Larger(c.p[i], c.q[i])
         /\ Point(c, u, v) = c.q <=> u = Long(c) /\ v = Short(c)
  <1> DEFINE p1 == c.p[1]
             p2 == c.p[2]
             q1 == c.q[1]
             q2 == c.q[2]
             w1 == Way(c, 1)
             w2 == Way(c, 2)
             f1 == Far(c, 1)
             f2 == Far(c, 2)
             m == IF Flat(c) THEN u ELSE v
             n == IF Flat(c) THEN v ELSE u
  <1>1. /\ p1 \in Int /\ p2 \in Int /\ q1 \in Int /\ q2 \in Int
        /\ -IntMax <= p1 /\ p1 <= IntMax /\ -IntMax <= p2 /\ p2 <= IntMax
        /\ -IntMax <= q1 /\ q1 <= IntMax /\ -IntMax <= q2 /\ q2 <= IntMax
        /\ f1 \in Nat /\ f2 \in Nat /\ q1 = p1 + w1 * f1 /\ q2 = p2 + w2 * f2
        /\ w1 \in {1, -1} /\ w2 \in {1, -1} /\ c.q = <<q1, q2>> /\ IntMax \in Int
    BY LineParts, RasterAssumption
  <1>2. Point(c, u, v) = <<p1 + w1 * m, p2 + w2 * n>>
    BY DEF Point
  <1>3. m \in 0 .. f1 /\ n \in 0 .. f2 /\ (u = Long(c) /\ v = Short(c) <=> m = f1 /\ n = f2)
    BY DEF Long, Short
  <1> HIDE DEF p1, p2, q1, q2, w1, w2, f1, f2, m, n
  <1>4. /\ p1 + w1 * m \in Int /\ p2 + w2 * n \in Int
        /\ Smaller(p1, q1) <= p1 + w1 * m /\ p1 + w1 * m <= Larger(p1, q1)
        /\ Smaller(p2, q2) <= p2 + w2 * n /\ p2 + w2 * n <= Larger(p2, q2)
        /\ (p1 + w1 * m = q1 <=> m = f1) /\ (p2 + w2 * n = q2 <=> n = f2)
    BY <1>1, <1>3 DEF Smaller, Larger
  <1>5. /\ p1 + w1 * m \in -IntMax .. IntMax /\ p2 + w2 * n \in -IntMax .. IntMax
    BY <1>1, <1>4 DEF Smaller, Larger
  <1> DEFINE x == p1 + w1 * m
             y == p2 + w2 * n
             s == Point(c, u, v)
  <1>6. s = <<x, y>> /\ s[1] = x /\ s[2] = y
    BY <1>2
  <1> HIDE DEF x, y, s
  <1>7. \A i \in 1 .. 2 : Smaller(c.p[i], c.q[i]) <= s[i] /\ s[i] <= Larger(c.p[i], c.q[i])
    <2>1. Smaller(c.p[1], c.q[1]) <= s[1] /\ s[1] <= Larger(c.p[1], c.q[1])
      BY <1>4, <1>6 DEF x, p1, q1
    <2>2. Smaller(c.p[2], c.q[2]) <= s[2] /\ s[2] <= Larger(c.p[2], c.q[2])
      BY <1>4, <1>6 DEF y, p2, q2
    <2>3. \A i \in 1 .. 2 : i = 1 \/ i = 2
      OBVIOUS
    <2> QED  BY <2>1, <2>2, <2>3
  <1>8. s = c.q <=> x = q1 /\ y = q2
    BY <1>1, <1>6
  <1>9. s = c.q <=> u = Long(c) /\ v = Short(c)
    BY <1>3, <1>4, <1>8 DEF x, y
  <1>10. s \in (-IntMax .. IntMax) \X (-IntMax .. IntMax) /\ s[1] \in Int /\ s[2] \in Int
    BY <1>4, <1>5, <1>6 DEF x, y
  <1> QED  BY <1>6, <1>7, <1>9, <1>10 DEF s

(* The rule by which a line goes across. *)
Across(c, u, v) ==
  IF 2 * (Long(c) - Short(c) + Off(c, u, v)) <= Long(c) THEN v + 1 ELSE v

(* The next point is close again. *)
LEMMA AcrossIsClose ==
  ASSUME NEW c \in LineCalls, NEW u \in 0 .. Long(c), NEW v \in 0 .. Short(c), Close(c, u, v),
         u < Long(c)
  PROVE  /\ u + 1 \in 0 .. Long(c)
         /\ Across(c, u, v) \in 0 .. Short(c)
         /\ Close(c, u + 1, Across(c, u, v))
         /\ Off(c, u, v) \in Int
         /\ -Short(c) <= 2 * (Long(c) - Short(c) + Off(c, u, v))
         /\ 2 * (Long(c) - Short(c) + Off(c, u, v)) <= 3 * Long(c)
         /\ Off(c, u + 1, Across(c, u, v)) =
              IF 2 * (Long(c) - Short(c) + Off(c, u, v)) <= Long(c)
              THEN Long(c) - Short(c) + Off(c, u, v) ELSE Off(c, u, v) - Short(c)
  <1> DEFINE a == Long(c)
             b == Short(c)
             d == Off(c, u, v)
             w == Across(c, u, v)
  <1>1. a \in Nat /\ b \in 0 .. a /\ u \in Nat /\ v \in Nat
    BY LineParts
  <1>2. /\ d = a * v - b * u /\ -a <= 2 * d /\ 2 * d <= a
        /\ w = IF 2 * (a - b + d) <= a THEN v + 1 ELSE v
    BY DEF Close, Off, Across
  <1>3. u + 1 \in 0 .. a /\ a > 0 /\ w \in Int
    BY <1>1, <1>2
  <1>4. Close(c, u + 1, w) <=>
          -a <= 2 * (a * w - b * (u + 1)) /\ 2 * (a * w - b * (u + 1)) <= a
    BY DEF Close, Off
  <1>5. Off(c, u + 1, w) = a * w - b * (u + 1)
    BY DEF Off
  <1> HIDE DEF a, b, d, w
  <1>6. /\ d \in Int
        /\ -b <= 2 * (a - b + d) /\ 2 * (a - b + d) <= 3 * a
        /\ 2 * (a - b + d) <= a =>
             /\ a - b + d = a * (v + 1) - b * (u + 1)
             /\ -a <= 2 * (a * (v + 1) - b * (u + 1)) /\ 2 * (a * (v + 1) - b * (u + 1)) <= a
        /\ ~(2 * (a - b + d) <= a) =>
             /\ d - b = a * v - b * (u + 1)
             /\ -a <= 2 * (a * v - b * (u + 1)) /\ 2 * (a * v - b * (u + 1)) <= a
    BY <1>1, <1>2, ErrorKept
  <1>7. /\ -a <= 2 * (a * w - b * (u + 1)) /\ 2 * (a * w - b * (u + 1)) <= a
        /\ a * w - b * (u + 1) = IF 2 * (a - b + d) <= a THEN a - b + d ELSE d - b
    <2>1. CASE 2 * (a - b + d) <= a
      <3>1. w = v + 1
        BY <1>2, <2>1
      <3> QED  BY <1>6, <2>1, <3>1
    <2>2. CASE ~(2 * (a - b + d) <= a)
      <3>1. w = v
        BY <1>2, <2>2
      <3> QED  BY <1>6, <2>2, <3>1
    <2> QED  BY <2>1, <2>2
  <1>8. w \in 0 .. b
    BY <1>1, <1>3, <1>7, CloseAcross
  <1>9. Close(c, u + 1, w) /\ Off(c, u + 1, w) = IF 2 * (a - b + d) <= a THEN a - b + d ELSE d - b
    BY <1>4, <1>5, <1>7
  <1> QED  BY <1>3, <1>6, <1>8, <1>9 DEF a, b, d, w

(* A pass of the loop of framebuffer_line takes the line to its next point.*)
LEMMA LineAdvances ==
  ASSUME NEW c \in LineCalls, NEW u \in 0 .. Long(c), NEW v \in 0 .. Short(c), Close(c, u, v),
         u < Long(c)
  PROVE  Advanced(LineAt(c, u, v)) = LineAt(c, u + 1, Across(c, u, v))
  <1> DEFINE a == Long(c)
             b == Short(c)
             d == Off(c, u, v)
             w == Across(c, u, v)
             s == Point(c, u, v)
             t == Point(c, u + 1, w)
             x == s[1]
             y == s[2]
             dx == Far(c, 1)
             dy == -Far(c, 2)
             sx == Way(c, 1)
             sy == Way(c, 2)
             error == IF Flat(c) THEN a - b + d ELSE b - a - d
             along == Int64(error * 2) >= dy
             across == Int64(error * 2) <= dx
             turn == 2 * (a - b + d) <= a
             error2 == IF Flat(c) THEN a - b + Off(c, u + 1, w) ELSE b - a - Off(c, u + 1, w)
  <1>1. a \in Nat /\ b \in Nat /\ b <= a /\ 4 * a <= IntMax /\ IntMax \in Nat
    BY LineParts, RasterAssumption
  <1>2. /\ u + 1 \in 0 .. a /\ w \in 0 .. b /\ d \in Int
        /\ -b <= 2 * (a - b + d) /\ 2 * (a - b + d) <= 3 * a
        /\ Off(c, u + 1, w) = IF turn THEN a - b + d ELSE d - b
        /\ 2 * d <= a /\ -a <= 2 * d
    BY AcrossIsClose DEF Close
  <1>3. x \in Int /\ y \in Int /\ t[1] \in Int /\ t[2] \in Int
        /\ -IntMax <= t[1] /\ t[1] <= IntMax /\ -IntMax <= t[2] /\ t[2] <= IntMax
    <2>1. s[1] \in Int /\ s[2] \in Int
      BY PointIs
    <2>2. t \in (-IntMax .. IntMax) \X (-IntMax .. IntMax) /\ t[1] \in Int /\ t[2] \in Int
      BY <1>2, PointIs
    <2> QED  BY <2>1, <2>2
  <1>4. /\ dx = (IF Flat(c) THEN a ELSE b) /\ dy = (IF Flat(c) THEN -b ELSE -a)
        /\ sx \in {1, -1} /\ sy \in {1, -1}
    BY LineParts DEF Long, Short
  <1>5. w = IF turn THEN v + 1 ELSE v
    BY DEF Across
  <1>6. /\ Flat(c) => t[1] = x + sx /\ t[2] = IF turn THEN y + sy ELSE y
        /\ ~Flat(c) => t[2] = y + sy /\ t[1] = IF turn THEN x + sx ELSE x
    <2> DEFINE p1 == c.p[1]
               p2 == c.p[2]
    <2>1. p1 \in Int /\ p2 \in Int /\ u \in Nat /\ v \in Nat
      BY LineParts
    <2>2. /\ s = IF Flat(c) THEN <<p1 + sx * u, p2 + sy * v>> ELSE <<p1 + sx * v, p2 + sy * u>>
          /\ t = IF Flat(c) THEN <<p1 + sx * (u + 1), p2 + sy * w>>
                 ELSE <<p1 + sx * w, p2 + sy * (u + 1)>>
      BY DEF Point
    <2> HIDE DEF p1, p2, sx, sy, s, t, turn, w
    <2>3. CASE Flat(c)
      <3>1. /\ x = p1 + sx * u /\ y = p2 + sy * v /\ t[1] = p1 + sx * (u + 1) /\ t[2] = p2 + sy * w
        BY <2>2, <2>3
      <3> QED  BY <1>4, <1>5, <2>1, <2>3, <3>1
    <2>4. CASE ~Flat(c)
      <3>1. /\ x = p1 + sx * v /\ y = p2 + sy * u /\ t[1] = p1 + sx * w /\ t[2] = p2 + sy * (u + 1)
        BY <2>2, <2>4
      <3> QED  BY <1>4, <1>5, <2>1, <2>4, <3>1
    <2> QED  BY <2>3, <2>4
  <1>7. LineAt(c, u, v) = LineJob(x, y, c.q[1], c.q[2], dx, dy, sx, sy, error)
        /\ LineAt(c, u + 1, w) = LineJob(t[1], t[2], c.q[1], c.q[2], dx, dy, sx, sy, error2)
    BY DEF LineAt
  <1>8. error2 = IF Flat(c) THEN a - b + (IF turn THEN a - b + d ELSE d - b)
                 ELSE b - a - (IF turn THEN a - b + d ELSE d - b)
    BY <1>2
  <1>9. (turn <=> 2 * (a - b + d) <= a) /\ turn \in BOOLEAN
    OBVIOUS
  <1>10. error = (IF Flat(c) THEN a - b + d ELSE b - a - d)
    OBVIOUS
  <1> HIDE DEF a, b, d, w, s, t, x, y, dx, dy, sx, sy, error, turn, error2
  <1>11. /\ error * 2 \in Int /\ -IntMax - 1 <= error * 2 /\ error * 2 <= IntMax
    BY <1>1, <1>2, <1>10
  <1>12. Int64(error * 2) = error * 2
    BY <1>11, Int64Is
  <1>13. (along <=> Flat(c) \/ turn) /\ (across <=> ~Flat(c) \/ turn)
    BY <1>1, <1>2, <1>4, <1>9, <1>10, <1>12
  <1> HIDE DEF along, across
  <1>14. Advanced(LineJob(x, y, c.q[1], c.q[2], dx, dy, sx, sy, error)) =
           LineJob(IF along THEN Int64(x + sx) ELSE x, IF across THEN Int64(y + sy) ELSE y,
                   c.q[1], c.q[2], dx, dy, sx, sy,
                   IF across THEN Int64((IF along THEN Int64(error + dy) ELSE error) + dx)
                   ELSE IF along THEN Int64(error + dy) ELSE error)
    <2>1. along \in BOOLEAN /\ across \in BOOLEAN
      BY DEF along, across
    <2>2. (along <=> Int64(error * 2) >= dy) /\ (across <=> Int64(error * 2) <= dx)
      BY DEF along, across
    <2> QED  BY <2>1, <2>2, LineMoves
  <1>15. (IF along THEN Int64(x + sx) ELSE x) = t[1]
    <2>1. t[1] = IF along THEN x + sx ELSE x
      BY <1>6, <1>13
    <2>2. Int64(t[1]) = t[1]
      BY <1>1, <1>3, Int64Is
    <2> QED  BY <2>1, <2>2
  <1>16. (IF across THEN Int64(y + sy) ELSE y) = t[2]
    <2>1. t[2] = IF across THEN y + sy ELSE y
      BY <1>6, <1>13
    <2>2. Int64(t[2]) = t[2]
      BY <1>1, <1>3, Int64Is
    <2> QED  BY <2>1, <2>2
  <1> DEFINE mid == IF along THEN error + dy ELSE error
  <1>17. (IF along THEN Int64(error + dy) ELSE error) = mid
    <2>1. error + dy \in Int /\ -IntMax - 1 <= error + dy /\ error + dy <= IntMax
      BY <1>1, <1>2, <1>4, <1>10
    <2>2. Int64(error + dy) = error + dy
      BY <2>1, Int64Is
    <2> QED  BY <2>2
  <1>18. (IF across THEN Int64(mid + dx) ELSE mid) = error2
    <2>1. mid + dx \in Int /\ -IntMax - 1 <= mid + dx /\ mid + dx <= IntMax
      BY <1>1, <1>2, <1>4, <1>10, <1>13
    <2>2. Int64(mid + dx) = mid + dx
      BY <2>1, Int64Is
    <2>3. (IF across THEN mid + dx ELSE mid) = error2
      <3>1. CASE Flat(c)
        <4>1. along /\ error = a - b + d /\ dx = a /\ dy = -b
          BY <1>4, <1>10, <1>13, <3>1
        <4>2. mid = error + dy
          BY <4>1
        <4>3. mid = a - b + d - b
          BY <1>1, <1>2, <4>1, <4>2
        <4>4. error2 = a - b + (IF turn THEN a - b + d ELSE d - b)
          BY <1>8, <3>1
        <4>5. across <=> turn
          BY <1>13, <3>1
        <4> HIDE DEF mid
        <4> QED  BY <1>1, <1>2, <4>1, <4>3, <4>4, <4>5
      <3>2. CASE ~Flat(c)
        <4>1. across /\ mid = (IF turn THEN b - a - d - a ELSE b - a - d) /\ dx = b
          BY <1>1, <1>2, <1>4, <1>10, <1>13, <3>2
        <4>2. error2 = b - a - (IF turn THEN a - b + d ELSE d - b)
          BY <1>8, <3>2
        <4> HIDE DEF mid
        <4> QED  BY <1>1, <1>2, <4>1, <4>2
      <3> QED  BY <3>1, <3>2
    <2> HIDE DEF mid
    <2> QED  BY <2>2, <2>3
  <1> HIDE DEF mid
  <1> QED  BY <1>7, <1>14, <1>15, <1>16, <1>17, <1>18 DEF w

(* The close points of the first and the last column are the ends. *)
LEMMA CloseEnds ==
  ASSUME NEW c \in LineCalls, NEW u \in 0 .. Long(c), NEW v \in 0 .. Short(c), Close(c, u, v)
  PROVE  (u = Long(c) => v = Short(c)) /\ (u = 0 => v = 0)
  <1> DEFINE a == Long(c)
             b == Short(c)
  <1>1. a \in Nat /\ b \in 0 .. a
    BY LineParts
  <1>2. -a <= 2 * (a * v - b * u) /\ 2 * (a * v - b * u) <= a
    BY DEF Close, Off
  <1> HIDE DEF a, b
  <1>3. CASE a = 0
    BY <1>1, <1>3 DEF a, b
  <1>4. CASE a > 0
    <2>1. u \in 0 .. a /\ v \in Int
      BY DEF a, b
    <2>2. (u = a => v = b) /\ (u = 0 => v = 0)
      BY <1>1, <1>2, <1>4, <2>1, CloseAcross
    <2> QED  BY <2>2 DEF a, b
  <1> QED  BY <1>1, <1>3, <1>4

(* Of each of the first n columns one close point is painted, if it is on  *)
(* the screen, and nothing else.                                           *)
Drawn(c, n, points) ==
  /\ \A s \in points : \E u \in 0 .. (n - 1), v \in 0 .. Short(c) : Close(c, u, v) /\ s = Point(c, u, v)
  /\ \A u \in 0 .. (n - 1) : \E v \in 0 .. Short(c) :
       /\ Close(c, u, v)
       /\ \A w \in 0 .. Short(c) :
            Point(c, u, w) \in points <=> w = v /\ Point(c, u, v) \in Screen

(* A line from its first pass to its return. *)
LineCall ==
  /\ call \in LineCalls /\ painted \subseteq Screen
  /\ \E n \in 0 .. (Long(call) + 1) :
       /\ Drawn(call, n, painted)
       /\ n <= Long(call) =>
            \E v \in 0 .. Short(call) : Close(call, n, v) /\ todo = <<LineAt(call, n, v)>>
       /\ n = Long(call) + 1 => todo = <<>>

(* No two points along and across are the same. *)
LEMMA PointsDiffer ==
  ASSUME NEW c \in LineCalls, NEW u \in Nat, NEW v \in Nat, NEW i \in Nat, NEW j \in Nat,
         Point(c, u, v) = Point(c, i, j)
  PROVE  u = i /\ v = j
  <1> DEFINE p1 == c.p[1]
             p2 == c.p[2]
             w1 == Way(c, 1)
             w2 == Way(c, 2)
  <1>1. p1 \in Int /\ p2 \in Int /\ w1 \in {1, -1} /\ w2 \in {1, -1}
    BY LineParts
  <1>2. IF Flat(c) THEN p1 + w1 * u = p1 + w1 * i /\ p2 + w2 * v = p2 + w2 * j
        ELSE p1 + w1 * v = p1 + w1 * j /\ p2 + w2 * u = p2 + w2 * i
    BY DEF Point
  <1> HIDE DEF p1, p2, w1, w2
  <1>3. \A x, y \in Nat : (p1 + w1 * x = p1 + w1 * y => x = y) /\ (p2 + w2 * x = p2 + w2 * y => x = y)
    BY <1>1
  <1> QED  BY <1>2, <1>3

(* The next column is drawn. *)
LEMMA DrawnOn ==
  ASSUME NEW c \in LineCalls, NEW n \in 0 .. Long(c), NEW v \in 0 .. Short(c), Close(c, n, v),
         NEW points, Drawn(c, n, points)
  PROVE  Drawn(c, n + 1, points \cup ({Point(c, n, v)} \cap Screen))
  <1> DEFINE new == points \cup ({Point(c, n, v)} \cap Screen)
  <1>1. Long(c) \in Nat /\ Short(c) \in Nat /\ n \in Nat /\ v \in Nat
    BY LineParts
  <1>2. \A u : u \in 0 .. (n + 1 - 1) <=> u \in 0 .. (n - 1) \/ u = n
    BY <1>1
  <1>3. ASSUME NEW s \in new
        PROVE  \E u \in 0 .. (n + 1 - 1), w \in 0 .. Short(c) : Close(c, u, w) /\ s = Point(c, u, w)
    <2>1. CASE s \in points
      BY <1>2, <2>1 DEF Drawn
    <2>2. CASE s = Point(c, n, v)
      BY <1>2, <2>2
    <2> QED  BY <2>1, <2>2
  <1>4. ASSUME NEW u \in 0 .. (n + 1 - 1)
        PROVE  \E w \in 0 .. Short(c) :
                 /\ Close(c, u, w)
                 /\ \A x \in 0 .. Short(c) :
                      Point(c, u, x) \in new <=> x = w /\ Point(c, u, w) \in Screen
    <2>1. CASE u \in 0 .. (n - 1)
      <3>1. PICK w \in 0 .. Short(c) :
               /\ Close(c, u, w)
               /\ \A x \in 0 .. Short(c) :
                    Point(c, u, x) \in points <=> x = w /\ Point(c, u, w) \in Screen
        BY <2>1 DEF Drawn
      <3>2. ASSUME NEW x \in 0 .. Short(c)
            PROVE  Point(c, u, x) # Point(c, n, v)
        <4>1. u \in Nat /\ x \in Nat /\ u # n
          BY <1>1, <2>1
        <4> QED  BY <1>1, <4>1, PointsDiffer
      <3> QED  BY <3>1, <3>2
    <2>2. CASE u = n
      <3>1. ASSUME NEW x \in 0 .. Short(c)
            PROVE  Point(c, n, x) \notin points
        <4> SUFFICES ASSUME Point(c, n, x) \in points PROVE FALSE
          OBVIOUS
        <4>1. PICK i \in 0 .. (n - 1), j \in 0 .. Short(c) : Point(c, n, x) = Point(c, i, j)
          BY DEF Drawn
        <4>2. i \in Nat /\ j \in Nat /\ x \in Nat /\ i # n
          BY <1>1
        <4> QED  BY <1>1, <4>1, <4>2, PointsDiffer
      <3>2. ASSUME NEW x \in 0 .. Short(c), Point(c, n, x) = Point(c, n, v)
            PROVE  x = v
        BY <1>1, <3>2, PointsDiffer
      <3>3. \A x \in 0 .. Short(c) : Point(c, n, x) \in new <=> x = v /\ Point(c, n, v) \in Screen
        BY <3>1, <3>2
      <3> QED  BY <2>2, <3>3
    <2> QED  BY <1>2, <2>1, <2>2
  <1> HIDE DEF new
  <1>5. Drawn(c, n + 1, new)
    BY <1>3, <1>4 DEF Drawn
  <1> QED  BY <1>5 DEF new

(* A line starts at its first point. *)
LEMMA LineStarts ==
  ASSUME NEW p \in Ends, NEW q \in Ends, painted = {}, framebuffer_line(p, q)
  PROVE  LineCall'
  <1> DEFINE c == [op |-> "line", p |-> p, q |-> q]
  <1>1. call' = c /\ todo' = <<Line(p[1], p[2], q[1], q[2])>> /\ painted' = {}
    BY DEF framebuffer_line, Begin
  <1>2. c \in LineCalls /\ c.p = p /\ c.q = q
    BY DEF LineCalls
  <1> HIDE DEF c
  <1>3. Long(c) \in Nat /\ Short(c) \in Nat /\ c.p[1] \in Int /\ c.p[2] \in Int
        /\ Far(c, 1) \in Nat /\ Far(c, 2) \in Nat
        /\ Way(c, 1) \in Int /\ Way(c, 2) \in Int
    BY <1>2, LineParts
  <1>4. Off(c, 0, 0) = 0 /\ Close(c, 0, 0)
    <2>1. Off(c, 0, 0) = 0
      BY <1>3 DEF Off
    <2> QED  BY <1>3, <2>1 DEF Close
  <1>5. Point(c, 0, 0)[1] = p[1] /\ Point(c, 0, 0)[2] = p[2]
    BY <1>2, <1>3 DEF Point
  <1>6. (IF Flat(c) THEN Long(c) - Short(c) + Off(c, 0, 0) ELSE Short(c) - Long(c) - Off(c, 0, 0))
          = Far(c, 1) + -Far(c, 2)
    BY <1>3, <1>4 DEF Long, Short
  <1>7. Line(p[1], p[2], q[1], q[2])
          = LineJob(p[1], p[2], q[1], q[2], Far(c, 1), -Far(c, 2), Way(c, 1), Way(c, 2),
                    Far(c, 1) + -Far(c, 2))
    BY <1>2 DEF Line, LineJob, Far, Way
  <1>8. todo' = <<LineAt(c, 0, 0)>>
    BY <1>1, <1>2, <1>5, <1>6, <1>7 DEF LineAt
  <1>9. Drawn(c, 0, {})
    BY DEF Drawn
  <1>10. 0 \in 0 .. (Long(c) + 1) /\ 0 \in 0 .. Short(c) /\ 0 <= Long(c) /\ 0 # Long(c) + 1
    BY <1>3
  <1> QED  BY <1>1, <1>2, <1>4, <1>8, <1>9, <1>10 DEF LineCall

(* A line goes on to its next point, and ends with its last. *)
LEMMA LineSteps ==
  ASSUME LineCall, PlotLine
  PROVE  LineCall'
  <1> DEFINE c == call
             l == Head(todo)
  <1>1. /\ call' = c /\ todo # <<>>
        /\ painted' = painted \cup ({<<l.x, l.y>>} \cap Screen)
        /\ todo' = IF l.x = l.x1 /\ l.y = l.y1 THEN Tail(todo) ELSE <<Advanced(l)>> \o Tail(todo)
    BY DEF PlotLine, Doing, SetPixels
  <1>2. c \in LineCalls /\ painted \subseteq Screen
    BY DEF LineCall
  <1>3. Long(c) \in Nat /\ Short(c) \in Nat
    BY <1>2, LineParts
  <1>4. PICK n \in 0 .. (Long(c) + 1) :
          /\ Drawn(c, n, painted)
          /\ n <= Long(c) => \E v \in 0 .. Short(c) : Close(c, n, v) /\ todo = <<LineAt(c, n, v)>>
          /\ n = Long(c) + 1 => todo = <<>>
    BY DEF LineCall
  <1>5. n \in 0 .. Long(c)
    BY <1>1, <1>3, <1>4
  <1>6. PICK v \in 0 .. Short(c) : Close(c, n, v) /\ todo = <<LineAt(c, n, v)>>
    BY <1>4, <1>5
  <1>7. l = LineAt(c, n, v) /\ Tail(todo) = <<>>
    BY <1>6, OneJob
  <1>8. l.x = Point(c, n, v)[1] /\ l.y = Point(c, n, v)[2] /\ l.x1 = c.q[1] /\ l.y1 = c.q[2]
    BY <1>7 DEF LineAt, LineJob
  <1>9. /\ <<l.x, l.y>> = Point(c, n, v)
        /\ l.x = l.x1 /\ l.y = l.y1 <=> n = Long(c)
    <2>1. /\ Point(c, n, v) = <<Point(c, n, v)[1], Point(c, n, v)[2]>>
          /\ Point(c, n, v) = c.q <=> n = Long(c) /\ v = Short(c)
      BY <1>2, <1>5, PointIs
    <2>2. c.q = <<c.q[1], c.q[2]>>
      BY <1>2, LineParts
    <2>3. n = Long(c) => v = Short(c)
      BY <1>2, <1>5, <1>6, CloseEnds
    <2>4. l.x = l.x1 /\ l.y = l.y1 <=> Point(c, n, v) = c.q
      BY <1>8, <2>1, <2>2
    <2> QED  BY <1>8, <2>1, <2>3, <2>4
  <1> HIDE DEF c, l
  <1>10. painted' = painted \cup ({Point(c, n, v)} \cap Screen)
    BY <1>1, <1>9
  <1>11. Drawn(c, n + 1, painted')
    BY <1>2, <1>4, <1>5, <1>6, <1>10, DrawnOn
  <1>12. painted' \subseteq Screen
    BY <1>2, <1>10
  <1>13. CASE n = Long(c)
    <2>1. todo' = <<>>
      BY <1>1, <1>7, <1>9, <1>13
    <2>2. n + 1 \in 0 .. (Long(c) + 1) /\ ~(n + 1 <= Long(c))
      BY <1>3, <1>13
    <2> QED  BY <1>1, <1>2, <1>11, <1>12, <2>1, <2>2 DEF LineCall
  <1>14. CASE n # Long(c)
    <2>1. n < Long(c) /\ n + 1 \in 0 .. (Long(c) + 1) /\ n + 1 # Long(c) + 1
      BY <1>3, <1>5, <1>14
    <2>2. Advanced(l) = LineAt(c, n + 1, Across(c, n, v))
      BY <1>2, <1>5, <1>6, <1>7, <2>1, LineAdvances
    <2>3. todo' = <<LineAt(c, n + 1, Across(c, n, v))>>
      <3>1. todo = <<l>>
        BY <1>6, <1>7
      <3>2. <<Advanced(l)>> \o Tail(todo) = <<Advanced(l)>>
        BY <3>1, OneJob
      <3> QED  BY <1>1, <1>9, <1>14, <2>2, <3>2
    <2>4. Across(c, n, v) \in 0 .. Short(c) /\ Close(c, n + 1, Across(c, n, v))
      BY <1>2, <1>5, <1>6, <2>1, AcrossIsClose
    <2> QED  BY <1>1, <1>2, <1>11, <1>12, <2>1, <2>3, <2>4 DEF LineCall
  <1> QED  BY <1>13, <1>14

(* How far a point is off the line: the area it spans with it. *)
LEMMA SideIsOff ==
  ASSUME NEW c \in LineCalls, NEW u \in Nat, NEW v \in Nat
  PROVE  Off(c, u, v) \in Int /\ absolute(Side(c.p, c.q, Point(c, u, v))) = absolute(Off(c, u, v))
  <1> DEFINE p1 == c.p[1]
             p2 == c.p[2]
             q1 == c.q[1]
             q2 == c.q[2]
             w1 == Way(c, 1)
             w2 == Way(c, 2)
             a == Long(c)
             b == Short(c)
             s == Point(c, u, v)
  <1>1. /\ p1 \in Int /\ p2 \in Int /\ q1 \in Int /\ q2 \in Int /\ w1 \in {1, -1} /\ w2 \in {1, -1}
        /\ a \in Nat /\ b \in Nat
        /\ q1 = p1 + w1 * (IF Flat(c) THEN a ELSE b) /\ q2 = p2 + w2 * (IF Flat(c) THEN b ELSE a)
    BY LineParts DEF Long, Short
  <1>2. s[1] = p1 + w1 * (IF Flat(c) THEN u ELSE v) /\ s[2] = p2 + w2 * (IF Flat(c) THEN v ELSE u)
    BY DEF Point
  <1>3. Side(c.p, c.q, s) = (s[1] - p1) * (q2 - p2) - (s[2] - p2) * (q1 - p1)
    BY DEF Side
  <1>4. Off(c, u, v) = a * v - b * u
    BY DEF Off
  <1> HIDE DEF p1, p2, q1, q2, w1, w2, a, b, s
  <1>5. CASE Flat(c)
    <2>1. s[1] - p1 = w1 * u /\ q2 - p2 = w2 * b /\ s[2] - p2 = w2 * v /\ q1 - p1 = w1 * a
      BY <1>1, <1>2, <1>5
    <2>2. Side(c.p, c.q, s) = (w1 * u) * (w2 * b) - (w2 * v) * (w1 * a)
      BY <1>3, <2>1
    <2>3. (w1 * u) * (w2 * b) - (w2 * v) * (w1 * a) \in {a * v - b * u, -(a * v - b * u)}
      BY <1>1
    <2>4. a * v - b * u \in Int
      BY <1>1
    <2> DEFINE d == a * v - b * u
    <2> HIDE DEF d
    <2> QED  BY <1>4, <2>2, <2>3, <2>4 DEF absolute, s, d
  <1>6. CASE ~Flat(c)
    <2>1. s[1] - p1 = w1 * v /\ q2 - p2 = w2 * a /\ s[2] - p2 = w2 * u /\ q1 - p1 = w1 * b
      BY <1>1, <1>2, <1>6
    <2>2. Side(c.p, c.q, s) = (w1 * v) * (w2 * a) - (w2 * u) * (w1 * b)
      BY <1>3, <2>1
    <2>3. (w1 * v) * (w2 * a) - (w2 * u) * (w1 * b) \in {a * v - b * u, -(a * v - b * u)}
      BY <1>1
    <2>4. a * v - b * u \in Int
      BY <1>1
    <2> QED  BY <1>4, <2>2, <2>3, <2>4 DEF absolute, s
  <1> QED  BY <1>5, <1>6

(* The points near the line are those that are close. *)
LEMMA NearIsClose ==
  ASSUME NEW c \in LineCalls, NEW u \in 0 .. Long(c), NEW v \in 0 .. Short(c)
  PROVE  NearLine(Point(c, u, v), c.p, c.q) <=> Close(c, u, v)
  <1> DEFINE s == Point(c, u, v)
             e == Side(c.p, c.q, s)
             d == Off(c, u, v)
             a == Long(c)
  <1>1. \A i \in 1 .. 2 : Smaller(c.p[i], c.q[i]) <= s[i] /\ s[i] <= Larger(c.p[i], c.q[i])
    BY PointIs
  <1>2. Larger(absolute(c.q[1] - c.p[1]), absolute(c.q[2] - c.p[2])) = a
    <2>1. Far(c, 1) \in Nat /\ Far(c, 2) \in Nat
      BY LineParts
    <2>2. Larger(Far(c, 1), Far(c, 2)) = a
      BY <2>1 DEF Larger, Long, Flat
    <2> QED  BY <2>2 DEF Far
  <1>3. d \in Int /\ absolute(e) = absolute(d) /\ a \in Nat
    <2>1. u \in Nat /\ v \in Nat /\ a \in Nat
      BY LineParts
    <2> QED  BY <2>1, SideIsOff
  <1>4. NearLine(s, c.p, c.q) <=> 2 * absolute(e) <= a
    BY <1>1, <1>2 DEF NearLine
  <1>5. Close(c, u, v) <=> -a <= 2 * d /\ 2 * d <= a
    BY DEF Close
  <1> HIDE DEF s, e, d, a
  <1>6. 2 * absolute(d) <= a <=> -a <= 2 * d /\ 2 * d <= a
    BY <1>3 DEF absolute
  <1> QED  BY <1>3, <1>4, <1>5, <1>6 DEF s

(* So the line that is drawn is the true one. *)
LEMMA DrawnIsTrue ==
  ASSUME NEW c \in LineCalls, painted \subseteq Screen, Drawn(c, Long(c) + 1, painted)
  PROVE  LineTrue(c.p, c.q)
  <1> DEFINE p == c.p
             q == c.q
             i == IF absolute(q[1] - p[1]) >= absolute(q[2] - p[2]) THEN 1 ELSE 2
             box == (Smaller(p[1], q[1]) .. Larger(p[1], q[1]))
                      \X (Smaller(p[2], q[2]) .. Larger(p[2], q[2]))
             Nearest(n) == {s \in box : s[i] = n /\ NearLine(s, p, q)}
             axis == Smaller(p[i], q[i]) .. Larger(p[i], q[i])
  <1>1. /\ Long(c) \in Nat /\ Short(c) \in Nat
        /\ p[1] \in Int /\ p[2] \in Int /\ q[1] \in Int /\ q[2] \in Int
        /\ p = <<p[1], p[2]>> /\ Way(c, 1) \in {1, -1} /\ Way(c, 2) \in {1, -1}
    BY LineParts
  <1>2. /\ \A s \in painted : \E u \in 0 .. Long(c), v \in 0 .. Short(c) :
             Close(c, u, v) /\ s = Point(c, u, v)
        /\ \A u \in 0 .. Long(c) : \E v \in 0 .. Short(c) :
             /\ Close(c, u, v)
             /\ \A w \in 0 .. Short(c) :
                  Point(c, u, w) \in painted <=> w = v /\ Point(c, u, v) \in Screen
    <2> DEFINE n == Long(c) + 1
               columns == 0 .. (n - 1)
    <2> HIDE DEF n
    <2>1. /\ \A s \in painted : \E u \in columns, v \in 0 .. Short(c) :
                Close(c, u, v) /\ s = Point(c, u, v)
          /\ \A u \in columns : \E v \in 0 .. Short(c) :
               /\ Close(c, u, v)
               /\ \A w \in 0 .. Short(c) :
                    Point(c, u, w) \in painted <=> w = v /\ Point(c, u, v) \in Screen
      <3>1. Drawn(c, n, painted)
        BY DEF n
      <3> QED  BY <3>1 DEF Drawn
    <2>2. columns = 0 .. Long(c)
      <3>1. n - 1 = Long(c)
        BY <1>1 DEF n
      <3> QED  BY <3>1
    <2> QED  BY <2>1, <2>2
  <1>3. \A u \in 0 .. Long(c) : \E v \in 0 .. Short(c) :
          /\ Close(c, u, v)
          /\ \A w \in 0 .. Short(c) :
               Point(c, u, w) \in painted <=> w = v /\ Point(c, u, v) \in Screen
    BY <1>2
  <1>4. {p, q} \cap Screen \subseteq painted
    <2>1. 0 \in 0 .. Long(c) /\ Long(c) \in 0 .. Long(c) /\ 0 \in 0 .. Short(c)
          /\ Short(c) \in 0 .. Short(c)
      BY <1>1
    <2>2. Point(c, 0, 0) = p
      <3>1. p[1] + Way(c, 1) * 0 = p[1] /\ p[2] + Way(c, 2) * 0 = p[2]
        BY <1>1
      <3>2. Point(c, 0, 0) = <<p[1], p[2]>>
        BY <3>1 DEF Point
      <3> QED  BY <1>1, <3>2
    <2>3. Point(c, Long(c), Short(c)) = q
      BY <2>1, PointIs
    <2>4. p \in Screen => p \in painted
      BY <1>3, <2>1, <2>2, CloseEnds
    <2>5. q \in Screen => q \in painted
      BY <1>3, <2>1, <2>3, CloseEnds
    <2> QED  BY <2>4, <2>5
  <1>5. \A s \in painted : NearLine(s, p, q)
    <2> SUFFICES ASSUME NEW s \in painted PROVE NearLine(s, p, q)
      OBVIOUS
    <2>1. PICK u \in 0 .. Long(c), v \in 0 .. Short(c) : Close(c, u, v) /\ s = Point(c, u, v)
      BY <1>2
    <2> QED  BY <2>1, NearIsClose
  <1>6. ASSUME NEW n \in axis
        PROVE  /\ Cardinality(painted \cap Nearest(n)) <= 1
               /\ Nearest(n) \subseteq Screen => Cardinality(painted \cap Nearest(n)) = 1
    <2>1. Flat(c) <=> i = 1
      BY DEF Flat, Far
    <2> DEFINE u == Way(c, i) * (n - p[i])
    <2>2. \A w : Point(c, u, w)[i] = p[i] + Way(c, i) * u
      BY <2>1 DEF Point
    <2>3. /\ i \in {1, 2} /\ p[i] \in Int /\ q[i] \in Int /\ Far(c, i) \in Nat /\ Long(c) = Far(c, i)
          /\ q[i] = p[i] + Way(c, i) * Far(c, i) /\ Way(c, i) \in {1, -1}
      <3>1. i = 1 \/ i = 2
        OBVIOUS
      <3>2. Long(c) = Far(c, i)
        BY <2>1 DEF Long
      <3> HIDE DEF i
      <3> QED  BY <3>1, <3>2, LineParts
    <2> HIDE DEF p, q, i
    <2>4. u \in 0 .. Long(c) /\ p[i] + Way(c, i) * u = n
      BY <2>3 DEF Smaller, Larger
    <2>5. \A m \in 0 .. Long(c) : \A w : Point(c, m, w)[i] = n => m = u
      <3>1. \A m, w : Point(c, m, w)[i] = p[i] + Way(c, i) * m
        BY <2>1, <2>3 DEF Point, p
      <3>2. \A m \in Int : p[i] + Way(c, i) * m = n => m = u
        BY <2>3, <2>4
      <3> QED  BY <3>1, <3>2
    <2> HIDE DEF u
    <2>6. PICK v \in 0 .. Short(c) :
            /\ Close(c, u, v)
            /\ \A w \in 0 .. Short(c) :
                 Point(c, u, w) \in painted <=> w = v /\ Point(c, u, v) \in Screen
      BY <1>3, <2>4
    <2> DEFINE s == Point(c, u, v)
    <2>7. painted \cap Nearest(n) \subseteq {s}
      <3> SUFFICES ASSUME NEW t \in painted, t[i] = n PROVE t = s
        OBVIOUS
      <3>1. PICK m \in 0 .. Long(c), w \in 0 .. Short(c) : t = Point(c, m, w)
        BY <1>2
      <3>2. m = u
        BY <2>5, <3>1
      <3> QED  BY <2>6, <3>1, <3>2
    <2>8. s \in Nearest(n)
      <3>1. NearLine(s, p, q)
        BY <2>4, <2>6, NearIsClose DEF p, q
      <3>2. s[i] = n
        BY <2>2, <2>4
      <3>3. s \in box
        <4>1. s = <<s[1], s[2]>> /\ s[1] \in Int /\ s[2] \in Int
          BY <2>4, PointIs
        <4>2. 1 \in 1 .. 2 /\ 2 \in 1 .. 2
          OBVIOUS
        <4>3. /\ Smaller(p[1], q[1]) <= s[1] /\ s[1] <= Larger(p[1], q[1])
              /\ Smaller(p[2], q[2]) <= s[2] /\ s[2] <= Larger(p[2], q[2])
          BY <2>4, <4>2, PointIs DEF p, q
        <4>4. /\ Smaller(p[1], q[1]) \in Int /\ Larger(p[1], q[1]) \in Int
              /\ Smaller(p[2], q[2]) \in Int /\ Larger(p[2], q[2]) \in Int
          BY <1>1 DEF Smaller, Larger
        <4> HIDE DEF s
        <4>5. s[1] \in Smaller(p[1], q[1]) .. Larger(p[1], q[1])
              /\ s[2] \in Smaller(p[2], q[2]) .. Larger(p[2], q[2])
          BY <4>1, <4>3, <4>4
        <4> QED  BY <4>1, <4>5
      <3> QED  BY <3>1, <3>2, <3>3
    <2>9. s \in painted <=> s \in Screen
      BY <2>6
    <2> HIDE DEF s, Nearest
    <2>10. painted \cap Nearest(n) = {} \/ painted \cap Nearest(n) = {s}
      BY <2>7
    <2>11. Cardinality({}) = 0 /\ Cardinality({s}) = 1
      BY FS_EmptySet, FS_Singleton
    <2>12. Cardinality(painted \cap Nearest(n)) <= 1
      BY <2>10, <2>11
    <2>13. Nearest(n) \subseteq Screen => painted \cap Nearest(n) = {s}
      BY <2>7, <2>8, <2>9
    <2> QED  BY <2>11, <2>12, <2>13
  <1>7. \A n \in axis :
          LET drawn == Cardinality(painted \cap Nearest(n)) IN
          drawn <= 1 /\ (Nearest(n) \subseteq Screen => drawn = 1)
    BY <1>6
  <1>8. {p, q} \cap Screen \subseteq painted /\ \A s \in painted : NearLine(s, p, q)
    BY <1>4, <1>5
  <1> QED  BY <1>7, <1>8, Zenon DEF LineTrue

(* A line that is finished is true. *)
LEMMA LineEnds ==
  ASSUME LineCall
  PROVE  LinesTrue
  <1> SUFFICES ASSUME todo = <<>> PROVE LineTrue(call.p, call.q)
    BY DEF LinesTrue, Finished
  <1>1. call \in LineCalls /\ painted \subseteq Screen
    BY DEF LineCall
  <1>2. PICK n \in 0 .. (Long(call) + 1) :
          /\ Drawn(call, n, painted)
          /\ n <= Long(call) =>
               \E v \in 0 .. Short(call) : Close(call, n, v) /\ todo = <<LineAt(call, n, v)>>
    BY DEF LineCall
  <1>3. n = Long(call) + 1
    <2>1. Long(call) \in Nat
      BY <1>1, LineParts
    <2>2. ~(n <= Long(call))
      <3> SUFFICES ASSUME n <= Long(call) PROVE FALSE
        OBVIOUS
      <3>1. PICK v : todo = <<LineAt(call, n, v)>>
        BY <1>2
      <3> QED  BY <3>1, OneJob
    <2> QED  BY <2>1, <2>2
  <1> QED  BY <1>1, <1>2, <1>3, DrawnIsTrue

-----------------------------------------------------------------------------
(* Circles.                                                                *)

(* Products of ordered numbers are ordered. *)
LEMMA ProductsOrdered ==
  ASSUME NEW a \in Nat, NEW b \in Nat, NEW x \in Nat, NEW y \in Nat, a <= x, b <= y
  PROVE  a * b <= x * y
  <1>1. a * b <= x * b
    BY ProductGrows
  <1>2. b * x <= y * x
    BY ProductGrows
  <1>3. x * b = b * x /\ x * y = y * x /\ a * b \in Int /\ b * x \in Int /\ y * x \in Int
    OBVIOUS
  <1> QED  BY <1>1, <1>2, <1>3

(* The products of neighbours grow too. *)
LEMMA OblongGrows ==
  ASSUME NEW a \in Nat, NEW x \in Int, x < a, x >= -1
  PROVE  x * x + x <= a * a - a
  <1>1. CASE x = -1
    <2>1. a = 0 \/ a >= 1
      OBVIOUS
    <2>2. a * a >= a
      BY <2>1, ProductsOrdered
    <2> QED  BY <1>1, <2>2
  <1>2. CASE x >= 0
    <2>1. x \in Nat /\ x + 1 \in Nat /\ a - 1 \in Nat /\ x + 1 <= a /\ x <= a - 1
      BY <1>2
    <2>2. x * (x + 1) <= (a - 1) * a
      BY <2>1, ProductsOrdered
    <2>3. x * (x + 1) = x * x + x /\ (a - 1) * a = a * a - a
      BY <2>1
    <2> QED  BY <2>2, <2>3
  <1>3. x = -1 \/ x >= 0
    OBVIOUS
  <1> QED  BY <1>1, <1>2, <1>3

(* A number has one rounded root, *)
LEMMA RootUnique ==
  ASSUME NEW a \in Nat, NEW x \in Nat, NEW n \in Int, RootOf(a, n), RootOf(x, n)
  PROVE  a = x
  <1>1. ASSUME NEW i \in Nat, NEW j \in Nat, i < j, RootOf(i, n), RootOf(j, n)
        PROVE  FALSE
    <2>1. i * i + i <= j * j - j
      BY <1>1, OblongGrows
    <2>2. n <= i * i + i /\ j * j - j < n
      BY <1>1 DEF RootOf
    <2>3. i * i + i \in Int /\ j * j - j \in Int
      OBVIOUS
    <2> QED  BY <2>1, <2>2, <2>3
  <1>2. ~(a < x) /\ ~(x < a)
    BY <1>1
  <1> QED  BY <1>2

(* if it is not negative.                                                  *)
LEMMA RootExists ==
  ASSUME NEW n \in Nat
  PROVE  \E a \in Nat : RootOf(a, n)
  <1> DEFINE enough == {a \in Nat : n <= a * a + a}
  <1>1. n \in enough
    <2>1. n * n \in Nat
      BY ProductIs
    <2> QED  BY <2>1
  <1>2. enough \subseteq Nat /\ enough # {}
    BY <1>1
  <1>3. PICK a \in enough : \A b \in enough : a <= b
    BY <1>2, LeastElement
  <1>4. a = 0 \/ a * a - a < n
    <2> SUFFICES ASSUME a # 0 PROVE a * a - a < n
      OBVIOUS
    <2> DEFINE b == a - 1
    <2>1. b \in Nat /\ b < a /\ a = b + 1
      BY <1>3
    <2> HIDE DEF b
    <2>2. ~(n <= b * b + b)
      BY <1>3, <2>1
    <2>3. a * a - a = b * b + b /\ b * b + b \in Int
      BY <2>1
    <2> QED  BY <2>2, <2>3
  <1> QED  BY <1>3, <1>4 DEF RootOf

(* A circle under way, by its numbers. *)
CircleJob(cx, cy, filled, x, y, error) ==
  [op |-> "circle", cx |-> cx, cy |-> cy, filled |-> filled, x |-> x, y |-> y, error |-> error]

(* The square of the radius, as the running error has it. *)
Square(j) == j.x * j.x - j.x + (j.y + 1) * (j.y + 1) - j.error

(* x is right for y, as long as the octant lasts. *)
Rooted(x, y, n) ==
  /\ n - y * y <= x * x + x
  /\ x >= y => x = 0 \/ x * x - x < n - y * y

(* A circle whose lines do not overflow, somewhere on its way.             *)
Round(j) ==
  /\ j \in [op : {"circle"}, cx : Int, cy : Int, filled : BOOLEAN, x : Int, y : Nat, error : Int]
  /\ j.x >= -1 /\ (j.y = 0 => j.x >= 0)
  /\ Rooted(j.x, j.y, Square(j))
  /\ 4 * j.x <= IntMax /\ -IntMax - 1 <= j.cx - j.x /\ j.cx + j.x <= IntMax

(* The error carries over from one pass to the next. *)
LEMMA ErrorTurns ==
  ASSUME NEW x \in Int, NEW y \in Nat, NEW error \in Int
  PROVE  /\ x * x - x + (y + 1) * (y + 1) - error
              = x * x - x + (y + 1 + 1) * (y + 1 + 1) - (error + 2 * (y + 1) + 1)
         /\ x * x - x + (y + 1) * (y + 1) - error
              = (x - 1) * (x - 1) - (x - 1) + (y + 1 + 1) * (y + 1 + 1)
                  - (error + 2 * (y + 1 - (x - 1)) + 1)
  OBVIOUS

(* The next x is right for the next y. *)
LEMMA RootTurns ==
  ASSUME NEW x \in Nat, NEW y \in Nat, x >= y, NEW error \in Int, NEW n \in Int,
         n = x * x - x + (y + 1) * (y + 1) - error, Rooted(x, y, n)
  PROVE  /\ error < 0 => Rooted(x, y + 1, n)
         /\ error >= 0 => Rooted(x - 1, y + 1, n)
  <1> DEFINE u == x * x
             v == y * y
             w == (y + 1) * (y + 1)
             z == (x - 1) * (x - 1)
  <1>1. u \in Int /\ v \in Int /\ w = v + 2 * y + 1 /\ z = u - 2 * x + 1 /\ (x = 0 => u = 0)
    OBVIOUS
  <1>2. n = u - x + w - error /\ n - v <= u + x /\ (x = 0 \/ u - x < n - v)
    BY DEF Rooted
  <1>3. /\ Rooted(x, y + 1, n) <=> n - w <= u + x /\ (x >= y + 1 => x = 0 \/ u - x < n - w)
        /\ Rooted(x - 1, y + 1, n) <=>
             n - w <= z + (x - 1) /\ (x - 1 >= y + 1 => x - 1 = 0 \/ z - (x - 1) < n - w)
    BY DEF Rooted
  <1> HIDE DEF u, v, w, z
  <1> QED  BY <1>1, <1>2, <1>3

(* The numbers of a circle that is one pass on. *)
LEMMA TurnedIs ==
  ASSUME NEW cx, NEW cy, NEW filled, NEW x \in Int, NEW y \in Int, NEW error \in Int
  PROVE  Turned(CircleJob(cx, cy, filled, x, y, error)) =
           IF error < 0 THEN CircleJob(cx, cy, filled, x, y + 1, error + 2 * (y + 1) + 1)
           ELSE CircleJob(cx, cy, filled, x - 1, y + 1, error + 2 * (y + 1 - (x - 1)) + 1)
  <1> DEFINE c == CircleJob(cx, cy, filled, x, y, error)
             z == c.y + 1
             w == c.x - 1
             e == c.error + 2 * z + 1
             d == c.error + 2 * (z - w) + 1
  <1>1. c.error = error /\ c.y = y /\ c.x = x
    BY DEF CircleJob
  <1>2. z = y + 1 /\ w = x - 1 /\ e = error + 2 * (y + 1) + 1 /\ d = error + 2 * (y + 1 - (x - 1)) + 1
    <2> HIDE DEF c
    <2> QED  BY <1>1
  <1>3. z = c.y + 1 /\ w = c.x - 1 /\ e = c.error + 2 * z + 1 /\ d = c.error + 2 * (z - w) + 1
    OBVIOUS
  <1> HIDE DEF z, w, e, d, c
  <1>4. c.error < 0 => Turned(c) = [c EXCEPT !.y = z, !.error = e]
    BY <1>3 DEF Turned
  <1>5. ~(c.error < 0) => Turned(c) = [c EXCEPT !.y = z, !.x = w, !.error = d]
    BY <1>3 DEF Turned
  <1>6. error < 0 => Turned(c) = CircleJob(cx, cy, filled, x, z, e)
    BY <1>1, <1>4 DEF c, CircleJob
  <1>7. ~(error < 0) => Turned(c) = CircleJob(cx, cy, filled, w, z, d)
    BY <1>1, <1>5 DEF c, CircleJob
  <1> QED  BY <1>2, <1>6, <1>7 DEF c

(* What a circle under way is made of. *)
LEMMA RoundParts ==
  ASSUME NEW j, Round(j)
  PROVE  /\ j = CircleJob(j.cx, j.cy, j.filled, j.x, j.y, j.error)
         /\ j.op = "circle" /\ j.cx \in Int /\ j.cy \in Int /\ j.filled \in BOOLEAN
         /\ j.x \in Int /\ j.y \in Nat /\ j.error \in Int /\ Square(j) \in Int
         /\ j.x >= -1 /\ (j.y = 0 => j.x >= 0) /\ Rooted(j.x, j.y, Square(j))
         /\ 4 * j.x <= IntMax /\ -IntMax - 1 <= j.cx - j.x /\ j.cx + j.x <= IntMax
  <1>1. /\ j = CircleJob(j.cx, j.cy, j.filled, j.x, j.y, j.error)
        /\ j.op = "circle" /\ j.cx \in Int /\ j.cy \in Int /\ j.filled \in BOOLEAN
        /\ j.x \in Int /\ j.y \in Nat /\ j.error \in Int
    BY DEF Round, CircleJob
  <1>2. Square(j) \in Int
    BY <1>1 DEF Square
  <1> QED  BY <1>1, <1>2 DEF Round

(* A pass of the loop leaves a circle of the same centre and radius. *)
LEMMA RoundTurns ==
  ASSUME NEW j, Round(j), j.x >= j.y
  PROVE  /\ Round(Turned(j))
         /\ Turned(j).y = j.y + 1 /\ Square(Turned(j)) = Square(j)
         /\ Turned(j).cx = j.cx /\ Turned(j).cy = j.cy /\ Turned(j).filled = j.filled
  <1> DEFINE x == j.x
             y == j.y
             error == j.error
             n == Square(j)
             t == Turned(j)
             x2 == IF error < 0 THEN x ELSE x - 1
             error2 == IF error < 0 THEN error + 2 * (y + 1) + 1
                       ELSE error + 2 * (y + 1 - (x - 1)) + 1
  <1>1. /\ j = CircleJob(j.cx, j.cy, j.filled, x, y, error)
        /\ j.cx \in Int /\ j.cy \in Int /\ j.filled \in BOOLEAN
        /\ x \in Nat /\ y \in Nat /\ error \in Int /\ n \in Int
        /\ Rooted(x, y, n)
        /\ 4 * x <= IntMax /\ -IntMax - 1 <= j.cx - x /\ j.cx + x <= IntMax
    BY RoundParts
  <1>2. n = x * x - x + (y + 1) * (y + 1) - error
    BY DEF Square
  <1>3. t = CircleJob(j.cx, j.cy, j.filled, x2, y + 1, error2)
    BY <1>1, TurnedIs
  <1>4. IntMax \in Nat /\ x >= y
    BY RasterAssumption
  <1> HIDE DEF x, y, error, n, t
  <1>5. Rooted(x2, y + 1, n)
    BY <1>1, <1>2, <1>4, RootTurns
  <1>6. n = x2 * x2 - x2 + (y + 1 + 1) * (y + 1 + 1) - error2
    <2>1. CASE error < 0
      BY <1>1, <1>2, <2>1, ErrorTurns
    <2>2. CASE ~(error < 0)
      BY <1>1, <1>2, <2>2, ErrorTurns
    <2> QED  BY <2>1, <2>2
  <1>7. /\ x2 \in Int /\ error2 \in Int /\ x2 >= -1 /\ y + 1 \in Nat /\ y + 1 # 0
        /\ 4 * x2 <= IntMax /\ -IntMax - 1 <= j.cx - x2 /\ j.cx + x2 <= IntMax
    BY <1>1, <1>4
  <1> DEFINE z == y + 1
  <1> HIDE DEF x2, error2, z
  <1>8. /\ t.op = "circle" /\ t.cx = j.cx /\ t.cy = j.cy /\ t.filled = j.filled
        /\ t.x = x2 /\ t.y = z /\ t.error = error2
    BY <1>3 DEF CircleJob, z
  <1>9. t \in [op : {"circle"}, cx : Int, cy : Int, filled : BOOLEAN, x : Int, y : Nat, error : Int]
    BY <1>1, <1>3, <1>7 DEF CircleJob, z
  <1>10. Square(t) = n
    BY <1>6, <1>8 DEF Square, z
  <1>11. Round(t)
    BY <1>5, <1>7, <1>8, <1>9, <1>10 DEF Round, z
  <1> QED  BY <1>8, <1>10, <1>11 DEF t, n, y, z

(* What the pass for b of the loop draws, a being right for b. *)
InPass(j, a, b, s) ==
  LET dx == absolute(s[1] - j.cx)
      dy == absolute(s[2] - j.cy) IN
  IF j.filled THEN (dx <= a /\ dy = b) \/ (dx <= b /\ dy = a)
  ELSE (dx = a /\ dy = b) \/ (dx = b /\ dy = a)

PassDraws(j, b, s) ==
  \E a \in Nat : a >= b /\ RootOf(a, Square(j) - b * b) /\ InPass(j, a, b, s)

(* What a job has still to draw. *)
OwedBy(j) ==
  IF j.op = "rect" THEN Filled(j)
  ELSE IF j.op = "line" THEN {s \in Screen : s[2] = j.y /\ j.x <= s[1] /\ s[1] <= j.x1}
  ELSE {s \in Screen : \E b \in Nat : b >= j.y /\ PassDraws(j, b, s)}

(* A circle is done when x is below y: there is nothing left of it.        *)
LEMMA RoundDone ==
  ASSUME NEW j, Round(j), j.x < j.y
  PROVE  OwedBy(j) = {}
  <1> SUFFICES ASSUME NEW s \in Screen, NEW b \in Nat, b >= j.y, NEW a \in Nat, a >= b,
                      RootOf(a, Square(j) - b * b)
               PROVE  FALSE
    BY RoundParts DEF OwedBy, PassDraws
  <1> DEFINE x == j.x
             y == j.y
             n == Square(j)
  <1>1. x \in Int /\ x >= -1 /\ y \in Nat /\ n \in Int /\ (y = 0 => x >= 0) /\ x < y
        /\ n - y * y <= x * x + x
    BY RoundParts DEF Rooted
  <1>2. a = 0 \/ a * a - a < n - b * b
    BY DEF RootOf
  <1>3. b >= y
    OBVIOUS
  <1> HIDE DEF x, y, n
  <1>4. a > 0 /\ x < a
    BY <1>1, <1>3
  <1>5. x * x + x <= a * a - a
    BY <1>1, <1>4, OblongGrows
  <1>6. y * y <= b * b
    BY <1>1, <1>3, ProductsOrdered
  <1>7. a * a - a \in Int /\ b * b \in Int /\ y * y \in Int /\ x * x + x \in Int
    BY <1>1
  <1> QED  BY <1>1, <1>2, <1>4, <1>5, <1>6, <1>7

(* A pass draws what the circle then owes no more.                         *)
LEMMA PassIs ==
  ASSUME NEW j, Round(j), j.x >= j.y
  PROVE  OwedBy(j) = {s \in Screen : InPass(j, j.x, j.y, s)} \cup OwedBy(Turned(j))
  <1> DEFINE t == Turned(j)
             x == j.x
             y == j.y
             n == Square(j)
  <1>1. /\ t.op = "circle" /\ t.y = y + 1 /\ Square(t) = n
        /\ t.cx = j.cx /\ t.cy = j.cy /\ t.filled = j.filled
    BY RoundTurns, RoundParts
  <1>2. j.op = "circle" /\ x \in Nat /\ y \in Nat /\ n \in Int /\ Rooted(x, y, n) /\ x >= y
    BY RoundParts
  <1>3. \A b, s : PassDraws(t, b, s) <=> PassDraws(j, b, s)
    BY <1>1 DEF PassDraws, InPass
  <1>4. OwedBy(t) = {s \in Screen : \E b \in Nat : b >= y + 1 /\ PassDraws(j, b, s)}
    BY <1>1, <1>3 DEF OwedBy
  <1>5. OwedBy(j) = {s \in Screen : \E b \in Nat : b >= y /\ PassDraws(j, b, s)}
    BY <1>2 DEF OwedBy
  <1>6. RootOf(x, n - y * y)
    BY <1>2 DEF Rooted, RootOf
  <1>7. ASSUME NEW s
        PROVE  PassDraws(j, y, s) <=> InPass(j, x, y, s)
    <2>1. \A a \in Nat : RootOf(a, n - y * y) => a = x
      <3>1. n - y * y \in Int
        BY <1>2
      <3> QED  BY <1>2, <1>6, <3>1, RootUnique
    <2> QED  BY <1>2, <1>6, <2>1 DEF PassDraws
  <1> HIDE DEF t, x, y, n
  <1>8. \A b \in Nat : b >= y <=> b = y \/ b >= y + 1
    BY <1>2
  <1> QED  BY <1>2, <1>4, <1>5, <1>7, <1>8 DEF t, x, y

(* The eight points of a pass. *)
LEMMA OctantsAre ==
  ASSUME NEW j, Round(j), j.x >= j.y, ~j.filled
  PROVE  Octants(j) \cap Screen = {s \in Screen : InPass(j, j.x, j.y, s)}
  <1> DEFINE x == j.x
             y == j.y
             cx == j.cx
             cy == j.cy
  <1>1. x \in Nat /\ y \in Nat /\ cx \in Int /\ cy \in Int
    BY RoundParts
  <1>2. \A s : InPass(j, x, y, s) <=>
          \/ absolute(s[1] - cx) = x /\ absolute(s[2] - cy) = y
          \/ absolute(s[1] - cx) = y /\ absolute(s[2] - cy) = x
    BY DEF InPass
  <1>3. Octants(j) = {<<cx + s * p[1], cy + t * p[2]>> :
                        s \in {-1, 1}, t \in {-1, 1}, p \in {<<x, y>>, <<y, x>>}}
    BY DEF Octants
  <1> HIDE DEF x, y, cx, cy
  <1>4. ASSUME NEW s \in Screen
        PROVE  s \in Octants(j) <=> InPass(j, x, y, s)
    <2>1. s[1] \in Int /\ s[2] \in Int /\ s = <<s[1], s[2]>>
      BY DEF Screen
    <2>2. ASSUME NEW u \in Int, NEW c \in Int, NEW r \in Nat
          PROVE  absolute(u - c) = r <=> \E e \in {-1, 1} : u = c + e * r
      <3>1. (\E e \in {-1, 1} : u = c + e * r) <=> u = c + (-1) * r \/ u = c + 1 * r
        OBVIOUS
      <3> QED  BY <3>1 DEF absolute
    <2>3. s \in Octants(j) <=>
            \E e \in {-1, 1}, f \in {-1, 1} :
              \/ s = <<cx + e * x, cy + f * y>>
              \/ s = <<cx + e * y, cy + f * x>>
      BY <1>3
    <2>4. s \in Octants(j) <=>
            \E e \in {-1, 1}, f \in {-1, 1} :
              \/ s[1] = cx + e * x /\ s[2] = cy + f * y
              \/ s[1] = cx + e * y /\ s[2] = cy + f * x
      BY <2>1, <2>3
    <2>5. /\ absolute(s[1] - cx) = x <=> \E e \in {-1, 1} : s[1] = cx + e * x
          /\ absolute(s[1] - cx) = y <=> \E e \in {-1, 1} : s[1] = cx + e * y
          /\ absolute(s[2] - cy) = x <=> \E e \in {-1, 1} : s[2] = cy + e * x
          /\ absolute(s[2] - cy) = y <=> \E e \in {-1, 1} : s[2] = cy + e * y
      BY <1>1, <2>1, <2>2
    <2> QED  BY <1>2, <2>4, <2>5
  <1> QED  BY <1>4 DEF x, y

(* A horizontal line that does not overflow. *)
ChordJob(x, y, x1, d, s) == LineJob(x, y, x1, y, d, 0, s, -1, d)

Chord(j) ==
  \E x, y, x1 \in Int, d \in Nat, s \in {1, -1} :
    /\ j = ChordJob(x, y, x1, d, s)
    /\ -IntMax - 1 <= x /\ x <= x1 /\ x1 <= IntMax /\ 2 * d <= IntMax
    /\ x < x1 => s = 1 /\ d > 0

(* The four lines of a pass. *)
LEMMA ChordIs ==
  ASSUME NEW cx \in Int, NEW y \in Int, NEW x \in Nat,
         4 * x <= IntMax, -IntMax - 1 <= cx - x, cx + x <= IntMax
  PROVE  /\ Chord(Line(cx - x, y, cx + x, y))
         /\ OwedBy(Line(cx - x, y, cx + x, y)) =
              {s \in Screen : absolute(s[1] - cx) <= x /\ s[2] = y}
  <1> DEFINE a == cx - x
             b == cx + x
             d == 2 * x
             e == IF a < b THEN 1 ELSE -1
             l == Line(a, y, b, y)
  <1>1. absolute(b - a) = d /\ -absolute(y - y) = 0 /\ d + 0 = d /\ ~(y < y)
    <2>1. b - a = d /\ d >= 0 /\ y - y = 0 /\ d \in Int /\ a \in Int /\ b \in Int
      OBVIOUS
    <2> HIDE DEF a, b, d
    <2>2. absolute(d) = d /\ absolute(0) = 0 /\ d + 0 = d
      BY <2>1 DEF absolute
    <2>3. absolute(b - a) = absolute(d) /\ absolute(y - y) = absolute(0)
      BY <2>1
    <2>4. \A z \in Int : -z = 0 - z
      OBVIOUS
    <2>5. absolute(y - y) \in Int /\ 0 - absolute(y - y) = 0
      BY <2>2, <2>3
    <2> QED  BY <2>2, <2>3, <2>4, <2>5
  <1>2. l = ChordJob(a, y, b, d, e)
    <2> HIDE DEF a, b, d
    <2>1. d + -absolute(y - y) = d
      BY <1>1
    <2> QED  BY <1>1, <2>1 DEF Line, ChordJob, LineJob
  <1>3. a \in Int /\ b \in Int /\ d \in Nat /\ e \in {1, -1} /\ a <= b /\ 2 * d <= IntMax
        /\ -IntMax - 1 <= a /\ b <= IntMax /\ (a < b => e = 1 /\ d > 0)
    OBVIOUS
  <1>4. Chord(l)
    <2> HIDE DEF a, b, d, e, l
    <2> QED  BY <1>2, <1>3 DEF Chord
  <1>5. l.op = "line" /\ l.x = a /\ l.y = y /\ l.x1 = b
    BY DEF Line
  <1>6. OwedBy(l) = {s \in Screen : s[2] = y /\ a <= s[1] /\ s[1] <= b}
    <2> HIDE DEF a, b, d, e, l
    <2> QED  BY <1>5 DEF OwedBy
  <1>7. \A s \in Screen : a <= s[1] /\ s[1] <= b <=> absolute(s[1] - cx) <= x
    BY DEF Screen, absolute
  <1> HIDE DEF a, b, d, e, l
  <1>8. OwedBy(l) = {s \in Screen : absolute(s[1] - cx) <= x /\ s[2] = y}
    BY <1>6, <1>7
  <1> QED  BY <1>4, <1>8 DEF l, a, b

(* They cover what a pass is to draw of a disc. *)
LEMMA ChordsAre ==
  ASSUME NEW j, Round(j), j.x >= j.y, j.filled
  PROVE  /\ Chords(j) = <<Chords(j)[1], Chords(j)[2], Chords(j)[3], Chords(j)[4]>>
         /\ \A i \in 1 .. 4 : Chord(Chords(j)[i])
         /\ OwedBy(Chords(j)[1]) \cup OwedBy(Chords(j)[2]) \cup OwedBy(Chords(j)[3])
              \cup OwedBy(Chords(j)[4]) = {s \in Screen : InPass(j, j.x, j.y, s)}
  <1> DEFINE x == j.x
             y == j.y
             cx == j.cx
             cy == j.cy
             l1 == Line(cx - x, cy + y, cx + x, cy + y)
             l2 == Line(cx - x, cy - y, cx + x, cy - y)
             l3 == Line(cx - y, cy + x, cx + y, cy + x)
             l4 == Line(cx - y, cy - x, cx + y, cy - x)
  <1>1. /\ x \in Nat /\ y \in Nat /\ cx \in Int /\ cy \in Int /\ y <= x
        /\ 4 * x <= IntMax /\ -IntMax - 1 <= cx - x /\ cx + x <= IntMax /\ IntMax \in Nat
    BY RoundParts, RasterAssumption
  <1>2. Chords(j) = <<l1, l2, l3, l4>>
    BY DEF Chords
  <1>3. \A s : InPass(j, x, y, s) <=>
          \/ absolute(s[1] - cx) <= x /\ absolute(s[2] - cy) = y
          \/ absolute(s[1] - cx) <= y /\ absolute(s[2] - cy) = x
    BY DEF InPass
  <1> HIDE DEF x, y, cx, cy
  <1>4. 4 * y <= IntMax /\ -IntMax - 1 <= cx - y /\ cx + y <= IntMax
        /\ cy + y \in Int /\ cy - y \in Int /\ cy + x \in Int /\ cy - x \in Int
    BY <1>1
  <1>5. /\ Chord(l1) /\ OwedBy(l1) = {s \in Screen : absolute(s[1] - cx) <= x /\ s[2] = cy + y}
        /\ Chord(l2) /\ OwedBy(l2) = {s \in Screen : absolute(s[1] - cx) <= x /\ s[2] = cy - y}
        /\ Chord(l3) /\ OwedBy(l3) = {s \in Screen : absolute(s[1] - cx) <= y /\ s[2] = cy + x}
        /\ Chord(l4) /\ OwedBy(l4) = {s \in Screen : absolute(s[1] - cx) <= y /\ s[2] = cy - x}
    <2>1. Chord(l1) /\ OwedBy(l1) = {s \in Screen : absolute(s[1] - cx) <= x /\ s[2] = cy + y}
      BY <1>1, <1>4, ChordIs
    <2>2. Chord(l2) /\ OwedBy(l2) = {s \in Screen : absolute(s[1] - cx) <= x /\ s[2] = cy - y}
      BY <1>1, <1>4, ChordIs
    <2>3. Chord(l3) /\ OwedBy(l3) = {s \in Screen : absolute(s[1] - cx) <= y /\ s[2] = cy + x}
      BY <1>1, <1>4, ChordIs
    <2>4. Chord(l4) /\ OwedBy(l4) = {s \in Screen : absolute(s[1] - cx) <= y /\ s[2] = cy - x}
      BY <1>1, <1>4, ChordIs
    <2> QED  BY <2>1, <2>2, <2>3, <2>4
  <1>6. \A s \in Screen : /\ absolute(s[2] - cy) = y <=> s[2] = cy + y \/ s[2] = cy - y
                          /\ absolute(s[2] - cy) = x <=> s[2] = cy + x \/ s[2] = cy - x
    BY <1>1 DEF Screen, absolute
  <1> HIDE DEF l1, l2, l3, l4
  <1>7. OwedBy(l1) \cup OwedBy(l2) \cup OwedBy(l3) \cup OwedBy(l4)
          = {s \in Screen : InPass(j, x, y, s)}
    BY <1>3, <1>5, <1>6
  <1>8. Chords(j)[1] = l1 /\ Chords(j)[2] = l2 /\ Chords(j)[3] = l3 /\ Chords(j)[4] = l4
    BY <1>2
  <1>9. \A i \in 1 .. 4 : i = 1 \/ i = 2 \/ i = 3 \/ i = 4
    OBVIOUS
  <1> QED  BY <1>2, <1>5, <1>7, <1>8, <1>9 DEF x, y

(* What a horizontal line is made of, and how it goes on. *)
LEMMA ChordMoves ==
  ASSUME NEW j, Chord(j)
  PROVE  /\ j.op = "line"
         /\ j.x = j.x1 /\ j.y = j.y1 => OwedBy(j) = {<<j.x, j.y>>} \cap Screen
         /\ ~(j.x = j.x1 /\ j.y = j.y1) =>
              /\ Chord(Advanced(j))
              /\ OwedBy(j) = ({<<j.x, j.y>>} \cap Screen) \cup OwedBy(Advanced(j))
  <1>1. PICK x \in Int, y \in Int, x1 \in Int, d \in Nat, s \in {1, -1} :
          /\ j = ChordJob(x, y, x1, d, s)
          /\ -IntMax - 1 <= x /\ x <= x1 /\ x1 <= IntMax /\ 2 * d <= IntMax
          /\ x < x1 => s = 1 /\ d > 0
    BY DEF Chord
  <1>2. \A i : /\ ChordJob(i, y, x1, d, s).op = "line" /\ ChordJob(i, y, x1, d, s).x = i
               /\ ChordJob(i, y, x1, d, s).y = y /\ ChordJob(i, y, x1, d, s).x1 = x1
               /\ ChordJob(i, y, x1, d, s).y1 = y
    BY DEF ChordJob, LineJob
  <1>3. \A i : OwedBy(ChordJob(i, y, x1, d, s)) = {q \in Screen : q[2] = y /\ i <= q[1] /\ q[1] <= x1}
    BY <1>2 DEF OwedBy
  <1>4. \A q \in Screen : q[1] \in Int /\ q[2] \in Int /\ q = <<q[1], q[2]>>
    BY DEF Screen
  <1>5. CASE x = x1
    <2>1. OwedBy(j) = {<<x, y>>} \cap Screen
      <3>1. \A q \in Screen : (q[2] = y /\ x <= q[1] /\ q[1] <= x1) <=> q = <<x, y>>
        BY <1>4, <1>5
      <3> QED  BY <1>1, <1>3, <3>1
    <2> QED  BY <1>1, <1>2, <1>5, <2>1
  <1>6. CASE x # x1
    <2>1. x < x1 /\ s = 1 /\ d > 0 /\ IntMax \in Nat
      BY <1>1, <1>6, RasterAssumption
    <2>2. Int64(d * 2) = 2 * d /\ Int64(d + 0) = d /\ Int64(x + 1) = x + 1
      <3>1. /\ d * 2 \in Int /\ -IntMax - 1 <= d * 2 /\ d * 2 <= IntMax /\ d * 2 = 2 * d
            /\ d + 0 = d /\ d \in Int /\ -IntMax - 1 <= d /\ d <= IntMax
            /\ x + 1 \in Int /\ -IntMax - 1 <= x + 1 /\ x + 1 <= IntMax
        BY <1>1, <2>1
      <3> QED  BY <3>1, Int64Is
    <2> DEFINE along == Int64(d * 2) >= 0
               across == Int64(d * 2) <= d
    <2>3. along /\ ~across
      BY <2>1, <2>2
    <2>4. along \in BOOLEAN /\ across \in BOOLEAN
      OBVIOUS
    <2>5. (along <=> Int64(d * 2) >= 0) /\ (across <=> Int64(d * 2) <= d)
      OBVIOUS
    <2> HIDE DEF along, across
    <2>6. Advanced(LineJob(x, y, x1, y, d, 0, s, -1, d))
            = LineJob(IF along THEN Int64(x + s) ELSE x, IF across THEN Int64(y + -1) ELSE y,
                      x1, y, d, 0, s, -1,
                      IF across THEN Int64((IF along THEN Int64(d + 0) ELSE d) + d)
                      ELSE IF along THEN Int64(d + 0) ELSE d)
      BY <2>4, <2>5, LineMoves
    <2>7. Advanced(j) = ChordJob(x + 1, y, x1, d, s)
      BY <1>1, <2>1, <2>2, <2>3, <2>6 DEF ChordJob
    <2>8. Chord(ChordJob(x + 1, y, x1, d, s))
      <3>1. x + 1 \in Int /\ -IntMax - 1 <= x + 1 /\ x + 1 <= x1
        BY <1>1, <2>1
      <3> QED  BY <1>1, <2>1, <3>1 DEF Chord
    <2>9. OwedBy(j) = ({<<x, y>>} \cap Screen) \cup OwedBy(ChordJob(x + 1, y, x1, d, s))
      <3>1. \A q \in Screen : (q[2] = y /\ x <= q[1] /\ q[1] <= x1) <=>
              q = <<x, y>> \/ (q[2] = y /\ x + 1 <= q[1] /\ q[1] <= x1)
        BY <1>4, <2>1
      <3>2. OwedBy(j) = {q \in Screen : q[2] = y /\ x <= q[1] /\ q[1] <= x1}
        BY <1>1, <1>3
      <3>3. OwedBy(ChordJob(x + 1, y, x1, d, s)) =
              {q \in Screen : q[2] = y /\ x + 1 <= q[1] /\ q[1] <= x1}
        BY <1>3
      <3> QED  BY <3>1, <3>2, <3>3
    <2> QED  BY <1>1, <1>2, <1>6, <2>7, <2>8, <2>9
  <1> QED  BY <1>5, <1>6

-----------------------------------------------------------------------------
(* What calls that fill rectangles and circles have still to do.           *)

(* The jobs of rectangles, lines and circles. *)
AnyJob ==
  RectJob
    \cup [op : {"line"}, x : Int, y : Int, x1 : Int, y1 : Int, dx : Int, dy : Int,
          sx : Int, sy : Int, error : Int]
    \cup [op : {"circle"}, cx : Int, cy : Int, filled : BOOLEAN, x : Int, y : Nat, error : Int]

(* What all jobs together have still to draw. *)
Owed(jobs) == {s \in Screen : \E i \in DOMAIN jobs : s \in OwedBy(jobs[i])}

(* The lines of one pass, then rectangles, then at most four circles.      *)
Placed(jobs, k, i) ==
  /\ i <= k => Chord(jobs[i])
  /\ i > k => jobs[i] \in RectJob \/ (Round(jobs[i]) /\ Len(jobs) - i < 4)

Pending(jobs) ==
  /\ jobs \in Seq(AnyJob)
  /\ \E k \in 0 .. 4 :
       /\ k <= Len(jobs) /\ Len(jobs) - k <= 6
       /\ k > 0 => Len(jobs) - k <= 4
       /\ \A i \in 1 .. Len(jobs) : Placed(jobs, k, i)

(* Each kind of job is one. *)
LEMMA JobKinds ==
  ASSUME NEW j
  PROVE  /\ Chord(j) => j \in AnyJob /\ j.op = "line" /\ OwedBy(j) \subseteq Screen
         /\ Round(j) => j \in AnyJob /\ j.op = "circle" /\ OwedBy(j) \subseteq Screen
         /\ j \in RectJob => j \in AnyJob /\ j.op = "rect" /\ OwedBy(j) \subseteq Screen
                               /\ OwedBy(j) = Filled(j)
  <1>1. ASSUME Chord(j) PROVE j \in AnyJob /\ j.op = "line" /\ OwedBy(j) \subseteq Screen
    <2>1. PICK x \in Int, y \in Int, x1 \in Int, d \in Nat, s \in {1, -1} :
            j = ChordJob(x, y, x1, d, s)
      BY <1>1 DEF Chord
    <2>2. j.op = "line"
      BY <2>1 DEF ChordJob, LineJob
    <2>3. j \in AnyJob
      BY <2>1 DEF ChordJob, LineJob, AnyJob
    <2> QED  BY <2>2, <2>3 DEF OwedBy
  <1>2. ASSUME Round(j) PROVE j \in AnyJob /\ j.op = "circle" /\ OwedBy(j) \subseteq Screen
    BY <1>2, RoundParts DEF Round, AnyJob, OwedBy
  <1>3. ASSUME j \in RectJob
        PROVE  j \in AnyJob /\ j.op = "rect" /\ OwedBy(j) \subseteq Screen /\ OwedBy(j) = Filled(j)
    <2>1. j \in AnyJob /\ j.op = "rect" /\ j.x \in Int /\ j.y \in Int /\ j.width \in Int
          /\ j.height \in Int
      BY <1>3 DEF RectJob, AnyJob
    <2>2. OwedBy(j) = Filled(j)
      BY <2>1 DEF OwedBy
    <2> QED  BY <2>1, <2>2, FilledInside
  <1> QED  BY <1>1, <1>2, <1>3

(* Of the jobs that are put in front, and of what is left behind.          *)
LEMMA OwedTogether ==
  ASSUME NEW a \in Seq(AnyJob), NEW b \in Seq(AnyJob)
  PROVE  Owed(a \o b) = Owed(a) \cup Owed(b)
  <1>1. /\ DOMAIN a = 1 .. Len(a) /\ DOMAIN b = 1 .. Len(b) /\ Len(a) \in Nat /\ Len(b) \in Nat
        /\ DOMAIN (a \o b) = 1 .. (Len(a) + Len(b))
        /\ \A i \in 1 .. Len(a) : (a \o b)[i] = a[i]
        /\ \A i \in 1 .. Len(b) : (a \o b)[Len(a) + i] = b[i]
    OBVIOUS
  <1> DEFINE c == a \o b
             m == Len(a)
             n == Len(b)
  <1> HIDE DEF c, m, n
  <1>2. /\ DOMAIN a = 1 .. m /\ DOMAIN b = 1 .. n /\ m \in Nat /\ n \in Nat
        /\ DOMAIN c = 1 .. (m + n)
        /\ \A i \in 1 .. m : c[i] = a[i]
        /\ \A i \in 1 .. n : c[m + i] = b[i]
    BY <1>1 DEF c, m, n
  <1>3. \A i \in 1 .. (m + n) : i \in 1 .. m \/ (i - m \in 1 .. n /\ i = m + (i - m))
    BY <1>2
  <1>4. \A i \in 1 .. m : i \in 1 .. (m + n)
    BY <1>2
  <1>5. \A i \in 1 .. n : m + i \in 1 .. (m + n)
    BY <1>2
  <1>6. ASSUME NEW s
        PROVE  (\E i \in DOMAIN c : s \in OwedBy(c[i])) <=>
                 (\E i \in DOMAIN a : s \in OwedBy(a[i])) \/ (\E i \in DOMAIN b : s \in OwedBy(b[i]))
    <2>1. ASSUME NEW i \in DOMAIN c, s \in OwedBy(c[i])
          PROVE  (\E l \in DOMAIN a : s \in OwedBy(a[l])) \/ (\E l \in DOMAIN b : s \in OwedBy(b[l]))
      <3>1. CASE i \in 1 .. m
        BY <1>2, <2>1, <3>1
      <3>2. CASE i - m \in 1 .. n /\ i = m + (i - m)
        <4>1. c[i] = b[i - m]
          BY <1>2, <3>2
        <4> QED  BY <1>2, <2>1, <3>2, <4>1
      <3> QED  BY <1>2, <1>3, <3>1, <3>2
    <2>2. ASSUME NEW i \in DOMAIN a, s \in OwedBy(a[i])
          PROVE  \E l \in DOMAIN c : s \in OwedBy(c[l])
      BY <1>2, <1>4, <2>2
    <2>3. ASSUME NEW i \in DOMAIN b, s \in OwedBy(b[i])
          PROVE  \E l \in DOMAIN c : s \in OwedBy(c[l])
      <3>1. m + i \in DOMAIN c /\ c[m + i] = b[i]
        BY <1>2, <1>5
      <3> QED  BY <2>3, <3>1
    <2> QED  BY <2>1, <2>2, <2>3
  <1>7. Owed(c) = Owed(a) \cup Owed(b)
    BY <1>6 DEF Owed
  <1> QED  BY <1>7 DEF c

(* One job owes what it owes, no job nothing. *)
LEMMA OwedOne ==
  ASSUME NEW j, OwedBy(j) \subseteq Screen
  PROVE  Owed(<<j>>) = OwedBy(j) /\ Owed(<<>>) = {}
  <1>1. DOMAIN <<j>> = {1} /\ <<j>>[1] = j /\ DOMAIN <<>> = {}
    OBVIOUS
  <1> QED  BY <1>1 DEF Owed

(* The first job, and what is owed beyond it. *)
LEMMA OwedFirst ==
  ASSUME NEW jobs, Pending(jobs), jobs # <<>>
  PROVE  /\ Tail(jobs) \in Seq(AnyJob) /\ Head(jobs) \in AnyJob
         /\ OwedBy(Head(jobs)) \subseteq Screen
         /\ Owed(jobs) = OwedBy(Head(jobs)) \cup Owed(Tail(jobs))
         /\ Chord(Head(jobs)) \/ Head(jobs) \in RectJob \/ Round(Head(jobs))
  <1>1. jobs \in Seq(AnyJob)
    BY DEF Pending
  <1>2. /\ Tail(jobs) \in Seq(AnyJob) /\ Head(jobs) \in AnyJob /\ jobs = <<Head(jobs)>> \o Tail(jobs)
        /\ <<Head(jobs)>> \in Seq(AnyJob) /\ 1 \in 1 .. Len(jobs) /\ Head(jobs) = jobs[1]
    BY <1>1
  <1>3. Chord(Head(jobs)) \/ Head(jobs) \in RectJob \/ Round(Head(jobs))
    <2>1. PICK k \in 0 .. 4 : \A i \in 1 .. Len(jobs) : Placed(jobs, k, i)
      BY DEF Pending
    <2>2. Placed(jobs, k, 1)
      BY <1>2, <2>1
    <2>3. 1 <= k \/ 1 > k
      OBVIOUS
    <2> QED  BY <1>2, <2>2, <2>3 DEF Placed
  <1>4. OwedBy(Head(jobs)) \subseteq Screen
    BY <1>3, JobKinds
  <1>5. Owed(jobs) = Owed(<<Head(jobs)>>) \cup Owed(Tail(jobs))
    BY <1>2, OwedTogether
  <1> QED  BY <1>2, <1>3, <1>4, <1>5, OwedOne

(* The first job is done. *)
LEMMA PendingTail ==
  ASSUME NEW jobs, Pending(jobs), jobs # <<>>
  PROVE  Pending(Tail(jobs))
  <1> DEFINE t == Tail(jobs)
             n == Len(jobs)
  <1>1. PICK k \in 0 .. 4 :
          /\ k <= n /\ n - k <= 6 /\ (k > 0 => n - k <= 4)
          /\ \A i \in 1 .. n : Placed(jobs, k, i)
    BY DEF Pending
  <1>2. /\ t \in Seq(AnyJob) /\ Len(t) = n - 1 /\ n \in Nat \ {0}
        /\ \A i \in 1 .. Len(t) : t[i] = jobs[i + 1]
    BY DEF Pending
  <1> DEFINE m == IF k > 0 THEN k - 1 ELSE 0
  <1> HIDE DEF t, n
  <1>3. m \in 0 .. 4 /\ m <= Len(t) /\ Len(t) - m <= 6 /\ (m > 0 => Len(t) - m <= 4)
    BY <1>1, <1>2
  <1>4. ASSUME NEW i \in 1 .. Len(t)
        PROVE  Placed(t, m, i)
    <2>1. i + 1 \in 1 .. n /\ (i <= m => i + 1 <= k) /\ (i > m => i + 1 > k)
          /\ Len(t) - i = n - (i + 1)
      BY <1>1, <1>2
    <2>2. Placed(jobs, k, i + 1) /\ t[i] = jobs[i + 1]
      BY <1>1, <1>2, <2>1
    <2> HIDE DEF m
    <2> QED  BY <2>1, <2>2 DEF Placed, n
  <1> HIDE DEF m
  <1>5. Pending(t)
    BY <1>2, <1>3, <1>4 DEF Pending
  <1> QED  BY <1>5 DEF t

(* The first job is under way. *)
LEMMA PendingOn ==
  ASSUME NEW jobs, Pending(jobs), jobs # <<>>, NEW j,
         \/ Chord(Head(jobs)) /\ Chord(j)
         \/ Round(Head(jobs)) /\ Round(j)
  PROVE  Pending(<<j>> \o Tail(jobs)) /\ Len(<<j>> \o Tail(jobs)) = Len(jobs)
  <1> DEFINE t == <<j>> \o Tail(jobs)
             n == Len(jobs)
  <1>1. PICK k \in 0 .. 4 :
          /\ k <= n /\ n - k <= 6 /\ (k > 0 => n - k <= 4)
          /\ \A i \in 1 .. n : Placed(jobs, k, i)
    BY DEF Pending
  <1>2. j \in AnyJob /\ (Chord(j) => j.op = "line") /\ (Round(j) => j.op = "circle")
    BY JobKinds
  <1>3. /\ jobs \in Seq(AnyJob) /\ n \in Nat \ {0} /\ Head(jobs) = jobs[1]
    BY DEF Pending
  <1>4. /\ t \in Seq(AnyJob) /\ Len(t) = n /\ t[1] = j
        /\ \A i \in 2 .. n : t[i] = jobs[i]
    BY <1>2, <1>3
  <1> HIDE DEF t, n
  <1>5. ASSUME NEW i \in 1 .. n
        PROVE  Placed(t, k, i)
    <2>1. Placed(jobs, k, i)
      BY <1>1
    <2>2. CASE i = 1
      <3>1. CASE Chord(jobs[1]) /\ Chord(j)
        <4>1. jobs[1].op = "line"
          BY <3>1, JobKinds
        <4>2. ~(jobs[1] \in RectJob) /\ ~Round(jobs[1])
          <5>1. (jobs[1] \in RectJob => jobs[1].op = "rect") /\ (Round(jobs[1]) => jobs[1].op = "circle")
            BY JobKinds
          <5> QED  BY <4>1, <5>1
        <4>3. ~(i > k)
          BY <2>1, <2>2, <4>2 DEF Placed
        <4> QED  BY <1>4, <2>2, <3>1, <4>3 DEF Placed
      <3>2. CASE Round(jobs[1]) /\ Round(j)
        <4>1. jobs[1].op = "circle"
          BY <3>2, JobKinds
        <4>2. ~Chord(jobs[1]) /\ ~(jobs[1] \in RectJob)
          <5>1. (jobs[1] \in RectJob => jobs[1].op = "rect") /\ (Chord(jobs[1]) => jobs[1].op = "line")
            BY JobKinds
          <5> QED  BY <4>1, <5>1
        <4>3. ~(i <= k) /\ (i > k => Len(jobs) - i < 4)
          BY <2>1, <2>2, <4>2 DEF Placed
        <4> QED  BY <1>4, <2>2, <3>2, <4>3 DEF Placed, n
      <3> QED  BY <1>3, <3>1, <3>2
    <2>3. CASE i # 1
      <3>1. i \in 2 .. n
        BY <2>3
      <3>2. t[i] = jobs[i]
        BY <1>4, <3>1
      <3> QED  BY <1>4, <2>1, <3>2 DEF Placed, n
    <2> QED  BY <2>2, <2>3
  <1>6. Pending(t)
    BY <1>1, <1>4, <1>5 DEF Pending
  <1> QED  BY <1>4, <1>6 DEF t, n

(* The first job is a circle, and the lines of a pass come before it.      *)
LEMMA PendingPass ==
  ASSUME NEW jobs, Pending(jobs), jobs # <<>>, Round(Head(jobs)), NEW j, Round(j),
         NEW a, NEW b, NEW c, NEW d, Chord(a), Chord(b), Chord(c), Chord(d)
  PROVE  Pending(<<a, b, c, d>> \o <<j>> \o Tail(jobs))
  <1> DEFINE s == <<j>> \o Tail(jobs)
             n == Len(jobs)
             p == <<a, b, c, d>>
             t == p \o s
  <1>1. Pending(s) /\ Len(s) = n
    BY PendingOn
  <1>2. PICK k \in 0 .. 4 : \A i \in 1 .. n : Placed(s, k, i)
    BY <1>1 DEF Pending
  <1>3. s \in Seq(AnyJob) /\ n \in Nat \ {0} /\ s[1] = j /\ 1 \in 1 .. n
    <2>1. jobs \in Seq(AnyJob) /\ s \in Seq(AnyJob)
      BY <1>1 DEF Pending
    <2> QED  BY <2>1
  <1>4. /\ a \in AnyJob /\ b \in AnyJob /\ c \in AnyJob /\ d \in AnyJob
        /\ (Chord(j) => j.op = "line") /\ j.op = "circle"
    BY JobKinds
  <1>5. p \in Seq(AnyJob) /\ Len(p) = 4
    BY <1>4
  <1> HIDE DEF s
  <1>6. /\ t \in Seq(AnyJob) /\ Len(t) = 4 + n
        /\ t[1] = a /\ t[2] = b /\ t[3] = c /\ t[4] = d
        /\ \A i \in 1 .. n : t[4 + i] = s[i]
    BY <1>1, <1>3, <1>5
  <1> HIDE DEF t, n, p
  <1>7. k = 0 /\ n <= 4
    <2>1. Placed(s, k, 1) /\ ~Chord(j)
      BY <1>2, <1>3, <1>4
    <2>2. ~(1 <= k)
      BY <1>3, <2>1 DEF Placed
    <2>3. k = 0
      BY <2>2
    <2>4. Placed(jobs, 0, 1) \/ n <= 4
      <3>1. PICK l \in 0 .. 4 : /\ l > 0 => n - l <= 4
                                /\ l <= n
                                /\ \A i \in 1 .. n : Placed(jobs, l, i)
        BY DEF Pending, n
      <3>2. CASE l = 0
        BY <1>3, <3>1, <3>2
      <3>3. CASE l > 0
        <4>1. Placed(jobs, l, 1) /\ 1 <= l /\ Head(jobs) = jobs[1]
          <5>1. jobs \in Seq(AnyJob)
            BY DEF Pending
          <5> QED  BY <1>3, <3>1, <3>3, <5>1
        <4>2. Chord(Head(jobs)) /\ Round(Head(jobs))
          BY <4>1 DEF Placed
        <4>3. Head(jobs).op = "line" /\ Head(jobs).op = "circle"
          BY <4>2, JobKinds
        <4> QED  BY <4>3
      <3> QED  BY <3>2, <3>3
    <2>5. n <= 4
      <3>1. CASE Placed(jobs, 0, 1)
        <4>1. Head(jobs) = jobs[1] /\ Head(jobs).op = "circle"
          <5>1. jobs \in Seq(AnyJob)
            BY DEF Pending
          <5> QED  BY <5>1, JobKinds
        <4>2. ~(jobs[1] \in RectJob)
          BY <4>1, JobKinds
        <4>3. n - 1 < 4
          BY <3>1, <4>2 DEF Placed, n
        <4> QED  BY <1>3, <4>3
      <3> QED  BY <2>4, <3>1
    <2> QED  BY <2>3, <2>5
  <1>8. ASSUME NEW i \in 1 .. Len(t)
        PROVE  Placed(t, 4, i)
    <2>1. CASE i <= 4
      <3>1. i = 1 \/ i = 2 \/ i = 3 \/ i = 4
        BY <2>1
      <3>2. Chord(t[i]) /\ ~(i > 4)
        BY <1>6, <2>1, <3>1
      <3> QED  BY <3>2 DEF Placed
    <2>2. CASE i > 4
      <3> DEFINE m == i - 4
      <3>1. m \in 1 .. n /\ i = 4 + m /\ ~(i <= 4) /\ Len(t) - i = n - m /\ m > k
        BY <1>3, <1>6, <1>7, <2>2
      <3> HIDE DEF m
      <3>2. t[i] = s[m]
        BY <1>6, <3>1
      <3>3. Placed(s, k, m)
        BY <1>2, <3>1
      <3> QED  BY <1>1, <3>1, <3>2, <3>3 DEF Placed
    <2> QED  BY <2>1, <2>2
  <1>9. Pending(t)
    <2>1. 4 \in 0 .. 4 /\ 4 <= Len(t) /\ Len(t) - 4 <= 6 /\ Len(t) - 4 <= 4
      BY <1>3, <1>6, <1>7
    <2> QED  BY <1>6, <1>8, <2>1 DEF Pending
  <1>10. t = <<a, b, c, d>> \o <<j>> \o Tail(jobs)
    <2>1. <<a, b, c, d>> \in Seq(AnyJob) /\ <<j>> \in Seq(AnyJob) /\ Tail(jobs) \in Seq(AnyJob)
      <3>1. j \in AnyJob
        BY JobKinds
      <3>2. Tail(jobs) \in Seq(AnyJob)
        BY OwedFirst
      <3> QED  BY <1>4, <3>1, <3>2
    <2> QED  BY <2>1 DEF t, p, s
  <1> QED  BY <1>9, <1>10

(* Shapes that are filled rectangles, lines of pixels, and circles. *)
ShapeCalls ==
  [op : {"rect"}, r : Rects] \cup [op : {"stroke"}, r : Frames, t : Thicknesses]
    \cup [op : {"circle"}, p : Centers, radius : Radii, filled : BOOLEAN]
    \cup [op : {"rounded"}, r : Frames, radius : Radii]

Jobs(c) ==
  CASE c.op = "rect" -> <<Rect(c.r.x, c.r.y, c.r.width, c.r.height)>>
    [] c.op = "stroke" -> Sides(c.r, c.t)
    [] c.op = "circle" -> Circle(c.p[1], c.p[2], c.radius, c.filled)
    [] c.op = "rounded" -> Rounded(c.r, c.radius)

(* Such a call, from its first job to its return: what is painted and what *)
(* is still owed make the whole shape.                                     *)
ShapeCall ==
  /\ call \in ShapeCalls /\ Pending(todo)
  /\ painted \cup Owed(todo) = Owed(Jobs(call))

(* A rectangle is filled. *)
LEMMA RectSteps ==
  ASSUME ShapeCall, FillRect
  PROVE  ShapeCall'
  <1> DEFINE j == Head(todo)
  <1>1. /\ todo # <<>> /\ j.op = "rect" /\ painted' = painted \cup Filled(j)
        /\ todo' = Tail(todo) /\ call' = call
    BY DEF FillRect, Doing
  <1>2. Pending(todo) /\ call \in ShapeCalls /\ painted \cup Owed(todo) = Owed(Jobs(call))
    BY DEF ShapeCall
  <1>3. Owed(todo) = OwedBy(j) \cup Owed(Tail(todo))
    BY <1>1, <1>2, OwedFirst
  <1>4. OwedBy(j) = Filled(j)
    BY <1>1 DEF OwedBy
  <1>5. Pending(Tail(todo))
    BY <1>1, <1>2, PendingTail
  <1>6. painted' \cup Owed(todo') = Owed(Jobs(call))
    BY <1>1, <1>2, <1>3, <1>4
  <1> QED  BY <1>1, <1>2, <1>5, <1>6 DEF ShapeCall

(* A line goes on, or ends. *)
LEMMA ChordSteps ==
  ASSUME ShapeCall, PlotLine
  PROVE  ShapeCall'
  <1> DEFINE j == Head(todo)
             p == {<<j.x, j.y>>} \cap Screen
             ended == j.x = j.x1 /\ j.y = j.y1
  <1>1. /\ todo # <<>> /\ j.op = "line" /\ painted' = painted \cup p /\ call' = call
        /\ todo' = IF ended THEN Tail(todo) ELSE <<Advanced(j)>> \o Tail(todo)
    BY DEF PlotLine, Doing, SetPixels
  <1>2. Pending(todo) /\ call \in ShapeCalls /\ painted \cup Owed(todo) = Owed(Jobs(call))
    BY DEF ShapeCall
  <1>3. Owed(todo) = OwedBy(j) \cup Owed(Tail(todo)) /\ Tail(todo) \in Seq(AnyJob)
    BY <1>1, <1>2, OwedFirst
  <1>4. Chord(j)
    <2>1. Chord(j) \/ j \in RectJob \/ Round(j)
      BY <1>1, <1>2, OwedFirst
    <2>2. (j \in RectJob => j.op = "rect") /\ (Round(j) => j.op = "circle")
      BY JobKinds
    <2> QED  BY <1>1, <2>1, <2>2
  <1>5. /\ ended => OwedBy(j) = p
        /\ ~ended => Chord(Advanced(j)) /\ OwedBy(j) = p \cup OwedBy(Advanced(j))
    BY <1>4, ChordMoves
  <1>6. CASE ended
    <2>1. todo' = Tail(todo) /\ OwedBy(j) = p
      BY <1>1, <1>5, <1>6
    <2>2. Pending(Tail(todo))
      BY <1>1, <1>2, PendingTail
    <2>3. painted' \cup Owed(todo') = Owed(Jobs(call))
      BY <1>1, <1>2, <1>3, <2>1
    <2> QED  BY <1>1, <1>2, <2>1, <2>2, <2>3 DEF ShapeCall
  <1>7. CASE ~ended
    <2> DEFINE n == Advanced(j)
    <2>1. todo' = <<n>> \o Tail(todo) /\ OwedBy(j) = p \cup OwedBy(n) /\ Chord(n)
      BY <1>1, <1>5, <1>7
    <2> HIDE DEF n, p, ended
    <2>2. Pending(todo')
      BY <1>1, <1>2, <1>4, <2>1, PendingOn
    <2>3. Owed(todo') = OwedBy(n) \cup Owed(Tail(todo))
      <3>1. n \in AnyJob /\ OwedBy(n) \subseteq Screen
        BY <2>1, JobKinds
      <3>2. <<n>> \in Seq(AnyJob) /\ Owed(<<n>>) = OwedBy(n)
        BY <3>1, OwedOne
      <3> QED  BY <1>3, <2>1, <3>2, OwedTogether
    <2>4. painted' \cup Owed(todo') = Owed(Jobs(call))
      BY <1>1, <1>2, <1>3, <2>1, <2>3
    <2> QED  BY <1>1, <1>2, <2>2, <2>4 DEF ShapeCall
  <1> QED  BY <1>6, <1>7

(* A circle takes its next pass. *)
LEMMA RoundSteps ==
  ASSUME ShapeCall, PlotCircle
  PROVE  ShapeCall'
  <1> DEFINE j == Head(todo)
             t == Turned(j)
             p == {s \in Screen : InPass(j, j.x, j.y, s)}
             rest == Tail(todo)
  <1>1. /\ todo # <<>> /\ j.op = "circle" /\ j.x >= j.y /\ call' = call
        /\ j.filled => todo' = Chords(j) \o <<t>> \o rest /\ painted' = painted
        /\ ~j.filled => todo' = <<t>> \o rest /\ painted' = painted \cup (Octants(j) \cap Screen)
    BY DEF PlotCircle, Doing, SetPixels
  <1>2. Pending(todo) /\ call \in ShapeCalls /\ painted \cup Owed(todo) = Owed(Jobs(call))
    BY DEF ShapeCall
  <1>3. Owed(todo) = OwedBy(j) \cup Owed(rest) /\ rest \in Seq(AnyJob)
    BY <1>1, <1>2, OwedFirst
  <1>4. Round(j)
    <2>1. Chord(j) \/ j \in RectJob \/ Round(j)
      BY <1>1, <1>2, OwedFirst
    <2>2. (j \in RectJob => j.op = "rect") /\ (Chord(j) => j.op = "line")
      BY JobKinds
    <2> QED  BY <1>1, <2>1, <2>2
  <1>5. Round(t) /\ OwedBy(j) = p \cup OwedBy(t)
    BY <1>1, <1>4, RoundTurns, PassIs
  <1>6. t \in AnyJob /\ OwedBy(t) \subseteq Screen
    BY <1>5, JobKinds
  <1>7. <<t>> \in Seq(AnyJob) /\ Owed(<<t>>) = OwedBy(t)
    BY <1>6, OwedOne
  <1>8. Owed(<<t>> \o rest) = OwedBy(t) \cup Owed(rest) /\ <<t>> \o rest \in Seq(AnyJob)
    <2> HIDE DEF t, rest
    <2>1. Owed(<<t>> \o rest) = Owed(<<t>>) \cup Owed(rest)
      BY <1>3, <1>7, OwedTogether
    <2> QED  BY <1>3, <1>7, <2>1
  <1>9. CASE j.filled
    <2> DEFINE a == Chords(j)[1]
               b == Chords(j)[2]
               c == Chords(j)[3]
               d == Chords(j)[4]
               l == <<a, b, c, d>>
    <2>1. /\ Chords(j) = l /\ Chord(a) /\ Chord(b) /\ Chord(c) /\ Chord(d)
          /\ OwedBy(a) \cup OwedBy(b) \cup OwedBy(c) \cup OwedBy(d) = p
      <3>1. 1 \in 1 .. 4 /\ 2 \in 1 .. 4 /\ 3 \in 1 .. 4 /\ 4 \in 1 .. 4
        OBVIOUS
      <3> QED  BY <1>1, <1>4, <1>9, <3>1, ChordsAre
    <2>2. todo' = l \o <<t>> \o rest /\ painted' = painted
      BY <1>1, <1>9, <2>1
    <2> HIDE DEF a, b, c, d, t, p
    <2>3. Pending(todo')
      BY <1>1, <1>2, <1>4, <1>5, <2>1, <2>2, PendingPass
    <2>4. /\ a \in AnyJob /\ b \in AnyJob /\ c \in AnyJob /\ d \in AnyJob
          /\ OwedBy(a) \subseteq Screen /\ OwedBy(b) \subseteq Screen
          /\ OwedBy(c) \subseteq Screen /\ OwedBy(d) \subseteq Screen
      BY <2>1, JobKinds
    <2>5. l \in Seq(AnyJob) /\ Owed(l) = p
      <3>1. l \in Seq(AnyJob) /\ DOMAIN l = {1, 2, 3, 4}
            /\ l[1] = a /\ l[2] = b /\ l[3] = c /\ l[4] = d
        BY <2>4
      <3> HIDE DEF l
      <3> QED  BY <2>1, <2>4, <3>1 DEF Owed
    <2>6. todo' = l \o (<<t>> \o rest)
      BY <1>3, <1>7, <2>2, <2>5
    <2>7. Owed(todo') = p \cup OwedBy(t) \cup Owed(rest)
      <3> DEFINE m == <<t>> \o rest
      <3>1. m \in Seq(AnyJob) /\ Owed(m) = OwedBy(t) \cup Owed(rest) /\ todo' = l \o m
        BY <1>8, <2>6
      <3> HIDE DEF l, m
      <3>2. Owed(l \o m) = Owed(l) \cup Owed(m)
        BY <2>5, <3>1, OwedTogether
      <3> QED  BY <2>5, <3>1, <3>2
    <2>8. painted' \cup Owed(todo') = Owed(Jobs(call))
      BY <1>2, <1>3, <1>5, <2>2, <2>7
    <2> QED  BY <1>1, <1>2, <2>3, <2>8 DEF ShapeCall
  <1>10. CASE ~j.filled
    <2>1. todo' = <<t>> \o rest /\ painted' = painted \cup p
      BY <1>1, <1>4, <1>10, OctantsAre
    <2>2. Pending(todo')
      BY <1>1, <1>2, <1>4, <1>5, <2>1, PendingOn
    <2>3. painted' \cup Owed(todo') = Owed(Jobs(call))
      BY <1>2, <1>3, <1>5, <1>8, <2>1
    <2> QED  BY <1>1, <1>2, <2>2, <2>3 DEF ShapeCall
  <1> QED  BY <1>9, <1>10

(* A circle is done. *)
LEMMA RoundEnds ==
  ASSUME ShapeCall, CircleDone
  PROVE  ShapeCall'
  <1> DEFINE j == Head(todo)
  <1>1. /\ todo # <<>> /\ j.op = "circle" /\ j.x < j.y
        /\ todo' = Tail(todo) /\ call' = call /\ painted' = painted
    BY DEF CircleDone, Doing
  <1>2. Pending(todo) /\ call \in ShapeCalls /\ painted \cup Owed(todo) = Owed(Jobs(call))
    BY DEF ShapeCall
  <1>3. Owed(todo) = OwedBy(j) \cup Owed(Tail(todo))
    BY <1>1, <1>2, OwedFirst
  <1>4. Round(j)
    <2>1. Chord(j) \/ j \in RectJob \/ Round(j)
      BY <1>1, <1>2, OwedFirst
    <2>2. (j \in RectJob => j.op = "rect") /\ (Chord(j) => j.op = "line")
      BY JobKinds
    <2> QED  BY <1>1, <2>1, <2>2
  <1>5. OwedBy(j) = {}
    BY <1>1, <1>4, RoundDone
  <1>6. Pending(Tail(todo))
    BY <1>1, <1>2, PendingTail
  <1>7. painted' \cup Owed(todo') = Owed(Jobs(call))
    BY <1>1, <1>2, <1>3, <1>5
  <1> QED  BY <1>1, <1>2, <1>6, <1>7 DEF ShapeCall

(* A circle at its first pass. *)
Started(cx, cy, radius, filled) == CircleJob(cx, cy, filled, radius, 0, 1 - radius)

(* framebuffer_circle starts at its first pass, and its loop is right from there. *)
LEMMA RoundStarts ==
  ASSUME NEW cx \in Int, NEW cy \in Int, NEW radius \in Nat, NEW filled \in BOOLEAN,
         4 * radius <= IntMax, -IntMax - 1 <= cx - radius, cx + radius <= IntMax
  PROVE  /\ Circle(cx, cy, radius, filled) = <<Started(cx, cy, radius, filled)>>
         /\ Round(Started(cx, cy, radius, filled))
         /\ Square(Started(cx, cy, radius, filled)) = radius * radius
  <1> DEFINE j == Started(cx, cy, radius, filled)
  <1>1. Circle(cx, cy, radius, filled) = <<j>>
    BY DEF Circle, Started, CircleJob
  <1>2. /\ j.x = radius /\ j.y = 0 /\ j.error = 1 - radius /\ j.cx = cx /\ j.cy = cy
        /\ j.filled = filled /\ j.op = "circle"
    BY DEF Started, CircleJob
  <1>3. j \in [op : {"circle"}, cx : Int, cy : Int, filled : BOOLEAN, x : Int, y : Nat, error : Int]
    <2>1. 1 - radius \in Int /\ radius \in Int /\ 0 \in Nat
      OBVIOUS
    <2> QED  BY <2>1 DEF Started, CircleJob
  <1>4. Square(j) = radius * radius
    <2>1. radius * radius - radius + (0 + 1) * (0 + 1) - (1 - radius) = radius * radius
      OBVIOUS
    <2> QED  BY <1>2, <2>1 DEF Square
  <1>5. Rooted(radius, 0, radius * radius)
    <2> DEFINE n == radius * radius
    <2>1. n \in Nat /\ n - 0 * 0 = n
      BY ProductIs
    <2> HIDE DEF n
    <2>2. n - 0 * 0 <= n + radius /\ (radius = 0 \/ n - radius < n - 0 * 0)
      BY <2>1
    <2> QED  BY <2>2 DEF Rooted, n
  <1> HIDE DEF j
  <1>6. Round(j)
    BY <1>2, <1>3, <1>4, <1>5 DEF Round
  <1> QED  BY <1>1, <1>4, <1>6 DEF j

(* Rectangles are jobs. *)
LEMMA RectIs ==
  ASSUME NEW x \in Int, NEW y \in Int, NEW width \in Int, NEW height \in Int
  PROVE  Rect(x, y, width, height) \in RectJob
  BY DEF Rect, RectJob

(* The radius that framebuffer_fill_rounded_rect uses fits into the        *)
(* rectangle twice.                                                        *)
LEMMA ClampedFits ==
  ASSUME NEW r \in Frames, NEW radius \in Radii
  PROVE  /\ r.x \in Int /\ r.y \in Int /\ r.width \in Int /\ r.height \in Int
         /\ Clamped(r, radius) \in Nat
         /\ r.width > 0 /\ r.height > 0 =>
              2 * Clamped(r, radius) <= r.width /\ 2 * Clamped(r, radius) <= r.height
  <1>1. r.x \in Int /\ r.y \in Int /\ r.width \in Int /\ r.height \in Int /\ radius \in Int
    BY RasterAssumption
  <1> DEFINE m == Smaller(r.width, r.height)
             h == m \div 2
  <1>2. m \in Int /\ m <= r.width /\ m <= r.height /\ (r.width > 0 /\ r.height > 0 => m > 0)
    BY <1>1 DEF Smaller
  <1> HIDE DEF m
  <1>3. h \in Int /\ 2 * h <= m
    BY <1>2
  <1>4. Clamped(r, radius) = Larger(0, Smaller(radius, h))
    BY DEF Clamped, m
  <1> HIDE DEF h
  <1>5. Clamped(r, radius) \in Nat /\ (m > 0 => 2 * Clamped(r, radius) <= m)
    BY <1>1, <1>2, <1>3, <1>4 DEF Larger, Smaller
  <1> DEFINE c == Clamped(r, radius)
  <1> HIDE DEF c
  <1>6. c \in Nat /\ (m > 0 => 2 * c <= m)
    BY <1>5 DEF c
  <1>7. r.width > 0 /\ r.height > 0 => 2 * c <= r.width /\ 2 * c <= r.height
    BY <1>1, <1>2, <1>6
  <1> QED  BY <1>1, <1>6, <1>7 DEF c

(* Six jobs, put together one by one. *)
LEMMA SixTogether ==
  ASSUME NEW S, NEW a \in S, NEW b \in S, NEW d \in S, NEW e \in S, NEW f \in S, NEW g \in S
  PROVE  <<a, b>> \o <<d>> \o <<e>> \o <<f>> \o <<g>> = <<a, b, d, e, f, g>>
  <1> DEFINE s == <<a, b>> \o <<d>> \o <<e>> \o <<f>> \o <<g>>
             t == <<a, b, d, e, f, g>>
  <1>1. /\ s \in Seq(S) /\ Len(s) = 6
        /\ s[1] = a /\ s[2] = b /\ s[3] = d /\ s[4] = e /\ s[5] = f /\ s[6] = g
    OBVIOUS
  <1>2. /\ t \in Seq(S) /\ Len(t) = 6
        /\ t[1] = a /\ t[2] = b /\ t[3] = d /\ t[4] = e /\ t[5] = f /\ t[6] = g
    OBVIOUS
  <1> HIDE DEF s, t
  <1>3. \A i \in 1 .. 6 : i = 1 \/ i = 2 \/ i = 3 \/ i = 4 \/ i = 5 \/ i = 6
    OBVIOUS
  <1>4. \A i \in 1 .. Len(s) : s[i] = t[i]
    BY <1>1, <1>2, <1>3
  <1>5. s = t
    BY <1>1, <1>2, <1>4, SeqEqual
  <1> QED  BY <1>5 DEF s, t

(* What framebuffer_fill_rounded_rect draws: a cross of two rectangles and *)
(* a disc in each corner.                                                  *)
LEMMA RoundedJobs ==
  ASSUME NEW r \in Frames, NEW radius \in Radii, r.width > 0, r.height > 0, Clamped(r, radius) > 0
  PROVE  LET c == Clamped(r, radius)
             right == r.x + r.width - c - 1
             lower == r.y + r.height - c - 1 IN
         /\ Rounded(r, radius) =
              <<Rect(r.x + c, r.y, r.width - c * 2, r.height),
                Rect(r.x, r.y + c, r.width, r.height - c * 2),
                Started(r.x + c, r.y + c, c, TRUE), Started(right, r.y + c, c, TRUE),
                Started(r.x + c, lower, c, TRUE), Started(right, lower, c, TRUE)>>
         /\ Rect(r.x + c, r.y, r.width - c * 2, r.height) \in RectJob
         /\ Rect(r.x, r.y + c, r.width, r.height - c * 2) \in RectJob
         /\ \A x \in {r.x + c, right}, y \in {r.y + c, lower} :
              Round(Started(x, y, c, TRUE)) /\ Square(Started(x, y, c, TRUE)) = c * c
  <1> DEFINE c == Clamped(r, radius)
             right == r.x + r.width - c - 1
             lower == r.y + r.height - c - 1
             a == Rect(r.x + c, r.y, r.width - c * 2, r.height)
             b == Rect(r.x, r.y + c, r.width, r.height - c * 2)
  <1>1. /\ r.x \in Int /\ r.y \in Int /\ r.width \in Int /\ r.height \in Int
        /\ c \in Nat /\ 2 * c <= r.width /\ 2 * c <= r.height /\ c > 0
    BY ClampedFits
  <1>2. absolute(r.x) + 2 * absolute(r.width) <= IntMax /\ IntMax \in Nat
    BY RasterAssumption
  <1>3. Rounded(r, radius) =
          <<a, b>> \o Circle(r.x + c, r.y + c, c, TRUE) \o Circle(right, r.y + c, c, TRUE)
            \o Circle(r.x + c, lower, c, TRUE) \o Circle(right, lower, c, TRUE)
    <2>1. ~(r.width <= 0 \/ r.height <= 0) /\ c # 0
      BY <1>1
    <2> QED  BY <2>1, Zenon DEF Rounded
  <1> HIDE DEF c
  <1>4. /\ r.x + c \in Int /\ right \in Int /\ r.y + c \in Int /\ lower \in Int /\ 4 * c <= IntMax
        /\ -IntMax - 1 <= (r.x + c) - c /\ (r.x + c) + c <= IntMax
        /\ -IntMax - 1 <= right - c /\ right + c <= IntMax
    BY <1>1, <1>2 DEF absolute
  <1>5. a \in RectJob /\ b \in RectJob
    <2>1. r.width - c * 2 \in Int /\ r.height - c * 2 \in Int
      BY <1>1
    <2> QED  BY <1>1, <1>4, <2>1, RectIs
  <1>6. ASSUME NEW x \in {r.x + c, right}, NEW y \in {r.y + c, lower}
        PROVE  /\ Circle(x, y, c, TRUE) = <<Started(x, y, c, TRUE)>>
               /\ Round(Started(x, y, c, TRUE)) /\ Square(Started(x, y, c, TRUE)) = c * c
    <2>1. x \in Int /\ y \in Int /\ -IntMax - 1 <= x - c /\ x + c <= IntMax /\ TRUE \in BOOLEAN
      BY <1>4
    <2> HIDE DEF right, lower
    <2> QED  BY <1>1, <1>4, <2>1, RoundStarts
  <1>7. Rounded(r, radius) =
          <<a, b, Started(r.x + c, r.y + c, c, TRUE), Started(right, r.y + c, c, TRUE),
            Started(r.x + c, lower, c, TRUE), Started(right, lower, c, TRUE)>>
    <2> DEFINE d == Started(r.x + c, r.y + c, c, TRUE)
               e == Started(right, r.y + c, c, TRUE)
               f == Started(r.x + c, lower, c, TRUE)
               g == Started(right, lower, c, TRUE)
    <2>1. /\ Circle(r.x + c, r.y + c, c, TRUE) = <<d>> /\ Circle(right, r.y + c, c, TRUE) = <<e>>
          /\ Circle(r.x + c, lower, c, TRUE) = <<f>> /\ Circle(right, lower, c, TRUE) = <<g>>
      BY <1>6
    <2>2. d \in AnyJob /\ e \in AnyJob /\ f \in AnyJob /\ g \in AnyJob
      <3>1. Round(d) /\ Round(e) /\ Round(f) /\ Round(g)
        BY <1>6
      <3> QED  BY <3>1, JobKinds
    <2>3. a \in AnyJob /\ b \in AnyJob
      BY <1>5, JobKinds
    <2> HIDE DEF d, e, f, g, a, b, right, lower
    <2>4. <<a, b>> \o <<d>> \o <<e>> \o <<f>> \o <<g>> = <<a, b, d, e, f, g>>
      BY <2>2, <2>3, SixTogether
    <2> QED  BY <1>3, <2>1, <2>4 DEF d, e, f, g
  <1> QED  BY <1>5, <1>6, <1>7 DEF c

(* Job lists without lines and with at most four circles, in the end, are  *)
(* as they should be.                                                      *)
LEMMA PendingFresh ==
  ASSUME NEW jobs \in Seq(AnyJob), Len(jobs) <= 6,
         \A i \in 1 .. Len(jobs) : jobs[i] \in RectJob \/ (Round(jobs[i]) /\ Len(jobs) - i < 4)
  PROVE  Pending(jobs)
  <1>1. \A i \in 1 .. Len(jobs) : Placed(jobs, 0, i)
    BY DEF Placed
  <1>2. 0 \in 0 .. 4 /\ 0 <= Len(jobs) /\ Len(jobs) - 0 <= 6 /\ Len(jobs) \in Nat
    OBVIOUS
  <1> QED  BY <1>1, <1>2 DEF Pending

(* What a shape's call leaves to do is such a list. *)
LEMMA PendingJobs ==
  ASSUME NEW c \in ShapeCalls
  PROVE  Pending(Jobs(c))
  <1>1. \A r \in Rects \cup Frames :
          r.x \in Int /\ r.y \in Int /\ r.width \in Int /\ r.height \in Int
    BY RasterAssumption
  <1>2. Pending(<<>>)
    <2> DEFINE s == <<>>
    <2>1. /\ s \in Seq(AnyJob) /\ Len(s) <= 6
          /\ \A i \in 1 .. Len(s) : s[i] \in RectJob \/ (Round(s[i]) /\ Len(s) - i < 4)
      OBVIOUS
    <2> HIDE DEF s
    <2>2. Pending(s)
      BY <2>1, PendingFresh
    <2> QED  BY <2>2 DEF s
  <1>3. ASSUME NEW j, j \in RectJob \/ Round(j)
        PROVE  Pending(<<j>>)
    <2>1. j \in AnyJob
      BY <1>3, JobKinds
    <2> DEFINE s == <<j>>
    <2>2. s \in Seq(AnyJob) /\ Len(s) = 1 /\ \A i \in 1 .. 1 : s[i] = j /\ 1 - i < 4
      BY <2>1
    <2> HIDE DEF s
    <2>3. /\ Len(s) <= 6
          /\ \A i \in 1 .. Len(s) : s[i] \in RectJob \/ (Round(s[i]) /\ Len(s) - i < 4)
      BY <1>3, <2>2
    <2>4. Pending(s)
      BY <2>2, <2>3, PendingFresh
    <2> QED  BY <2>4 DEF s
  <1>4. CASE c.op = "rect"
    <2>1. c.r \in Rects
      BY <1>4 DEF ShapeCalls
    <2>2. Jobs(c) = <<Rect(c.r.x, c.r.y, c.r.width, c.r.height)>>
      BY <1>4 DEF Jobs
    <2> QED  BY <1>1, <1>3, <2>1, <2>2, RectIs
  <1>5. CASE c.op = "stroke"
    <2>1. c.r \in Frames /\ c.t \in Int
      <3>1. c.r \in Frames /\ c.t \in Thicknesses
        BY <1>5 DEF ShapeCalls
      <3>2. \A t \in Thicknesses : t \in Int
        <4>1. Thicknesses \subseteq Nat
          BY RasterAssumption
        <4> QED  BY <4>1
      <3> QED  BY <3>1, <3>2
    <2>2. Jobs(c) = Sides(c.r, c.t)
      BY <1>5 DEF Jobs
    <2> DEFINE r == c.r
               t == c.t
               p == Rect(r.x, r.y, r.width, t)
               q == Rect(r.x, r.y + r.height - t, r.width, t)
               u == Rect(r.x, r.y, t, r.height)
               v == Rect(r.x + r.width - t, r.y, t, r.height)
    <2>3. p \in RectJob /\ q \in RectJob /\ u \in RectJob /\ v \in RectJob
      <3>1. r.x \in Int /\ r.y \in Int /\ r.width \in Int /\ r.height \in Int /\ t \in Int
        BY <1>1, <2>1
      <3>2. r.y + r.height - t \in Int /\ r.x + r.width - t \in Int
        BY <3>1
      <3> QED  BY <3>1, <3>2, RectIs
    <2>4. Sides(r, t) = <<>> \/ Sides(r, t) = <<p, q, u, v>>
      BY DEF Sides
    <2> HIDE DEF p, q, u, v, r, t
    <2>5. Pending(<<p, q, u, v>>)
      <3>1. p \in AnyJob /\ q \in AnyJob /\ u \in AnyJob /\ v \in AnyJob
        BY <2>3, JobKinds
      <3> DEFINE s == <<p, q, u, v>>
      <3>2. s \in Seq(AnyJob) /\ Len(s) = 4 /\ \A i \in 1 .. 4 : s[i] \in {p, q, u, v}
        BY <3>1
      <3> HIDE DEF s
      <3>3. /\ Len(s) <= 6
            /\ \A i \in 1 .. Len(s) : s[i] \in RectJob \/ (Round(s[i]) /\ Len(s) - i < 4)
        BY <2>3, <3>2
      <3>4. Pending(s)
        BY <3>2, <3>3, PendingFresh
      <3> QED  BY <3>4 DEF s
    <2> QED  BY <1>2, <2>2, <2>4, <2>5 DEF r, t
  <1>6. CASE c.op = "circle"
    <2>1. c.p \in Centers /\ c.radius \in Radii /\ c.filled \in BOOLEAN
      BY <1>6 DEF ShapeCalls
    <2> DEFINE x == c.p[1]
               y == c.p[2]
               radius == c.radius
    <2>2. Jobs(c) = Circle(x, y, radius, c.filled)
      BY <1>6 DEF Jobs
    <2>3. x \in Int /\ y \in Int /\ radius \in Int /\ absolute(x) + 4 * absolute(radius) <= IntMax
          /\ IntMax \in Nat
      <3>1. 1 \in 1 .. 2
        OBVIOUS
      <3> QED  BY <2>1, <3>1, RasterAssumption
    <2> HIDE DEF x, y, radius
    <2>4. CASE radius < 0
      BY <1>2, <2>2, <2>4 DEF Circle
    <2>5. CASE radius >= 0
      <3>1. /\ radius \in Nat /\ 4 * radius <= IntMax
            /\ -IntMax - 1 <= x - radius /\ x + radius <= IntMax
        BY <2>3, <2>5 DEF absolute
      <3>2. /\ Circle(x, y, radius, c.filled) = <<Started(x, y, radius, c.filled)>>
            /\ Round(Started(x, y, radius, c.filled))
        BY <2>1, <2>3, <3>1, RoundStarts
      <3> QED  BY <1>3, <2>2, <3>2
    <2> QED  BY <2>3, <2>4, <2>5
  <1>7. CASE c.op = "rounded"
    <2>1. c.r \in Frames /\ c.radius \in Radii
      BY <1>7 DEF ShapeCalls
    <2> DEFINE r == c.r
               k == Clamped(r, c.radius)
               right == r.x + r.width - k - 1
               lower == r.y + r.height - k - 1
               p == Rect(r.x + k, r.y, r.width - k * 2, r.height)
               q == Rect(r.x, r.y + k, r.width, r.height - k * 2)
    <2>2. Jobs(c) = Rounded(r, c.radius)
      BY <1>7 DEF Jobs
    <2>3. r.x \in Int /\ r.y \in Int /\ r.width \in Int /\ r.height \in Int /\ k \in Nat
      BY <2>1, ClampedFits
    <2>4. CASE r.width <= 0 \/ r.height <= 0
      BY <1>2, <2>2, <2>4 DEF Rounded
    <2>5. CASE ~(r.width <= 0 \/ r.height <= 0) /\ k = 0
      <3>1. Rounded(r, c.radius) = <<Rect(r.x, r.y, r.width, r.height)>>
        BY <2>5, Zenon DEF Rounded
      <3> QED  BY <1>3, <2>2, <2>3, <3>1, RectIs
    <2>6. CASE ~(r.width <= 0 \/ r.height <= 0) /\ k # 0
      <3> DEFINE d == Started(r.x + k, r.y + k, k, TRUE)
                 e == Started(right, r.y + k, k, TRUE)
                 f == Started(r.x + k, lower, k, TRUE)
                 g == Started(right, lower, k, TRUE)
      <3>1. r.width > 0 /\ r.height > 0 /\ k > 0
        BY <2>3, <2>6
      <3>2. /\ Rounded(r, c.radius) = <<p, q, d, e, f, g>> /\ p \in RectJob /\ q \in RectJob
            /\ Round(d) /\ Round(e) /\ Round(f) /\ Round(g)
        BY <2>1, <3>1, RoundedJobs
      <3> HIDE DEF p, q, d, e, f, g, r, k
      <3>3. /\ p \in AnyJob /\ q \in AnyJob /\ d \in AnyJob /\ e \in AnyJob /\ f \in AnyJob
            /\ g \in AnyJob
        BY <3>2, JobKinds
      <3> DEFINE s == <<p, q, d, e, f, g>>
      <3>4. /\ s \in Seq(AnyJob) /\ Len(s) = 6
            /\ s[1] = p /\ s[2] = q /\ s[3] = d /\ s[4] = e /\ s[5] = f /\ s[6] = g
        BY <3>3
      <3>5. \A i \in 1 .. 6 : i \in {1, 2} \/ (i \in {3, 4, 5, 6} /\ 6 - i < 4)
        OBVIOUS
      <3> HIDE DEF s
      <3>6. \A i \in 1 .. 6 : s[i] \in RectJob \/ (Round(s[i]) /\ 6 - i < 4)
        BY <3>2, <3>4, <3>5
      <3>7. Pending(s)
        <4>1. /\ Len(s) <= 6
              /\ \A i \in 1 .. Len(s) : s[i] \in RectJob \/ (Round(s[i]) /\ Len(s) - i < 4)
          BY <3>4, <3>6
        <4> QED  BY <3>4, <4>1, PendingFresh
      <3> QED  BY <2>2, <3>2, <3>7 DEF s
    <2> QED  BY <2>4, <2>5, <2>6
  <1> QED  BY <1>4, <1>5, <1>6, <1>7 DEF ShapeCalls

(* A shape's call starts with nothing painted. *)
LEMMA ShapeStarts ==
  ASSUME NEW c \in ShapeCalls, painted = {}, Begin(c, Jobs(c))
  PROVE  ShapeCall'
  <1>1. call' = c /\ todo' = Jobs(c) /\ painted' = {}
    BY DEF Begin
  <1>2. Pending(Jobs(c))
    BY PendingJobs
  <1>3. painted' \cup Owed(todo') = Owed(Jobs(c))
    BY <1>1
  <1> QED  BY <1>1, <1>2, <1>3 DEF ShapeCall

(* And returns with all of its shape.                                      *)
LEMMA ShapePainted ==
  ASSUME ShapeCall
  PROVE  painted \subseteq Screen /\ (todo = <<>> => painted = Owed(Jobs(call)))
  <1>1. todo = <<>> => Owed(todo) = {}
    BY DEF Owed
  <1> QED  BY <1>1 DEF ShapeCall, Owed

-----------------------------------------------------------------------------
(* What circles and discs are.                                             *)

(* A root is within the radius. *)
LEMMA RootWithin ==
  ASSUME NEW r \in Nat, NEW a \in Nat, NEW b \in Nat, a >= b, RootOf(a, r * r - b * b)
  PROVE  a <= r /\ b <= r
  <1> SUFFICES ASSUME r < a PROVE FALSE
    OBVIOUS
  <1>1. r * r + r <= a * a - a
    BY OblongGrows
  <1>2. a * a - a < r * r - b * b
    BY DEF RootOf
  <1>3. r * r \in Nat /\ b * b \in Nat /\ a * a \in Nat
    BY ProductIs
  <1> QED  BY <1>1, <1>2, <1>3

(* The points on a circle are those its passes draw. *)
LEMMA OnCircleIs ==
  ASSUME NEW u \in Int, NEW v \in Int, NEW r \in Nat
  PROVE  OnCircle(u, v, r) <=>
           \E b \in Nat, a \in Nat : /\ a >= b /\ RootOf(a, r * r - b * b)
                                     /\ \/ absolute(u) = a /\ absolute(v) = b
                                        \/ absolute(u) = b /\ absolute(v) = a
  <1> DEFINE x == absolute(u)
             y == absolute(v)
             l == Larger(x, y)
             m == Smaller(x, y)
  <1>1. x \in Nat /\ y \in Nat
    BY DEF absolute
  <1>2. OnCircle(u, v, r) <=> r >= m /\ RootOf(l, r * r - m * m)
    BY DEF OnCircle
  <1> HIDE DEF x, y
  <1>3. l \in Nat /\ m \in Nat /\ l >= m /\ ((x = l /\ y = m) \/ (x = m /\ y = l))
    BY <1>1 DEF Larger, Smaller
  <1>4. ASSUME NEW a \in Nat, NEW b \in Nat, a >= b, (x = a /\ y = b) \/ (x = b /\ y = a)
        PROVE  a = l /\ b = m
    BY <1>1, <1>4 DEF Larger, Smaller
  <1> HIDE DEF l, m
  <1>5. RootOf(l, r * r - m * m) => r >= m
    BY <1>3, RootWithin
  <1> QED  BY <1>2, <1>3, <1>4, <1>5 DEF x, y

(* A point in a column or row is on the circle with its distances.         *)
LEMMA InDiscIs ==
  ASSUME NEW u \in Int, NEW v \in Int, NEW r \in Nat
  PROVE  InDisc(u, v, r) <=>
           \E b \in Nat, a \in Nat : /\ a >= b /\ RootOf(a, r * r - b * b)
                                     /\ \/ absolute(u) <= a /\ absolute(v) = b
                                        \/ absolute(u) <= b /\ absolute(v) = a
  <1> DEFINE n == absolute(u)
             y == absolute(v)
  <1>1. n \in Nat /\ y \in Nat
    BY DEF absolute
  <1>2. \A x \in Nat : absolute(x) = x
    BY DEF absolute
  <1>3. InDisc(u, v, r) <=> \E x \in n .. r : OnCircle(x, v, r)
    BY DEF InDisc
  <1> HIDE DEF n
  <1>4. \A x \in Nat : OnCircle(x, v, r) <=>
           \E b \in Nat, a \in Nat : /\ a >= b /\ RootOf(a, r * r - b * b)
                                     /\ ((x = a /\ y = b) \/ (x = b /\ y = a))
    <2> SUFFICES ASSUME NEW x \in Nat
                 PROVE  OnCircle(x, v, r) <=>
                          \E b \in Nat, a \in Nat : /\ a >= b /\ RootOf(a, r * r - b * b)
                                                    /\ ((x = a /\ y = b) \/ (x = b /\ y = a))
      OBVIOUS
    <2>1. x \in Int /\ absolute(x) = x
      BY <1>2
    <2>2. OnCircle(x, v, r) <=>
           \E b \in Nat, a \in Nat : /\ a >= b /\ RootOf(a, r * r - b * b)
                                     /\ \/ absolute(x) = a /\ absolute(v) = b
                                        \/ absolute(x) = b /\ absolute(v) = a
      BY <2>1, OnCircleIs
    <2> QED  BY <2>1, <2>2, Zenon
  <1> HIDE DEF y
  <1>5. ASSUME InDisc(u, v, r)
        PROVE  \E b \in Nat, a \in Nat : /\ a >= b /\ RootOf(a, r * r - b * b)
                                         /\ ((n <= a /\ y = b) \/ (n <= b /\ y = a))
    <2>1. PICK x \in n .. r : OnCircle(x, v, r)
      BY <1>3, <1>5
    <2>2. x \in Nat /\ n <= x
      BY <1>1
    <2>3. PICK b \in Nat, a \in Nat : /\ a >= b /\ RootOf(a, r * r - b * b)
                                      /\ ((x = a /\ y = b) \/ (x = b /\ y = a))
      BY <1>4, <2>1, <2>2
    <2> QED  BY <2>2, <2>3
  <1>6. ASSUME NEW b \in Nat, NEW a \in Nat, a >= b, RootOf(a, r * r - b * b),
               (n <= a /\ y = b) \/ (n <= b /\ y = a)
        PROVE  InDisc(u, v, r)
    <2>1. a <= r /\ b <= r
      BY <1>6, RootWithin
    <2>2. CASE n <= a /\ y = b
      <3>1. a \in n .. r /\ OnCircle(a, v, r)
        BY <1>1, <1>4, <1>6, <2>1, <2>2
      <3> QED  BY <1>3, <3>1
    <2>3. CASE n <= b /\ y = a
      <3>1. b \in n .. r /\ OnCircle(b, v, r)
        BY <1>1, <1>4, <1>6, <2>1, <2>3
      <3> QED  BY <1>3, <3>1
    <2> QED  BY <1>6, <2>2, <2>3
  <1>7. InDisc(u, v, r) <=>
          \E b \in Nat, a \in Nat : /\ a >= b /\ RootOf(a, r * r - b * b)
                                    /\ ((n <= a /\ y = b) \/ (n <= b /\ y = a))
    BY <1>5, <1>6, Zenon
  <1> QED  BY <1>7, Zenon DEF n, y

(* Both, of a circle that is drawn. *)
LEMMA CircleIs ==
  ASSUME NEW cx \in Int, NEW cy \in Int, NEW r \in Nat, NEW filled \in BOOLEAN,
         Square(Started(cx, cy, r, filled)) = r * r
  PROVE  OwedBy(Started(cx, cy, r, filled)) =
           {s \in Screen : IF filled THEN InDisc(s[1] - cx, s[2] - cy, r)
                           ELSE OnCircle(s[1] - cx, s[2] - cy, r)}
  <1> DEFINE j == Started(cx, cy, r, filled)
  <1>1. j.op = "circle" /\ j.y = 0 /\ j.cx = cx /\ j.cy = cy /\ j.filled = filled
    BY DEF Started, CircleJob
  <1> HIDE DEF j
  <1>2. OwedBy(j) = {s \in Screen : \E b \in Nat : b >= 0 /\ PassDraws(j, b, s)}
    BY <1>1 DEF OwedBy
  <1>3. Square(j) = r * r
    BY DEF j
  <1>4. ASSUME NEW s \in Screen
        PROVE  (\E b \in Nat : b >= 0 /\ PassDraws(j, b, s)) <=>
                 IF filled THEN InDisc(s[1] - cx, s[2] - cy, r)
                 ELSE OnCircle(s[1] - cx, s[2] - cy, r)
    <2> DEFINE u == s[1] - cx
               v == s[2] - cy
    <2>1. u \in Int /\ v \in Int
      BY DEF Screen
    <2>2. \A a, b : InPass(j, a, b, s) <=>
            IF filled THEN (absolute(u) <= a /\ absolute(v) = b) \/ (absolute(u) <= b /\ absolute(v) = a)
            ELSE (absolute(u) = a /\ absolute(v) = b) \/ (absolute(u) = b /\ absolute(v) = a)
      BY <1>1 DEF InPass
    <2> HIDE DEF u, v
    <2>3. \A b : PassDraws(j, b, s) <=>
            \E a \in Nat : /\ a >= b /\ RootOf(a, r * r - b * b)
                           /\ InPass(j, a, b, s)
      BY <1>3 DEF PassDraws
    <2>4. \A b \in Nat : b >= 0
      OBVIOUS
    <2>5. CASE filled
      <3>1. InDisc(u, v, r) <=>
              \E b \in Nat, a \in Nat : /\ a >= b /\ RootOf(a, r * r - b * b)
                                        /\ \/ absolute(u) <= a /\ absolute(v) = b
                                           \/ absolute(u) <= b /\ absolute(v) = a
        BY <2>1, InDiscIs
      <3> QED  BY <2>2, <2>3, <2>4, <2>5, <3>1 DEF u, v
    <2>6. CASE ~filled
      <3>1. OnCircle(u, v, r) <=>
              \E b \in Nat, a \in Nat : /\ a >= b /\ RootOf(a, r * r - b * b)
                                        /\ \/ absolute(u) = a /\ absolute(v) = b
                                           \/ absolute(u) = b /\ absolute(v) = a
        BY <2>1, OnCircleIs
      <3> QED  BY <2>2, <2>3, <2>4, <2>6, <3>1 DEF u, v
    <2> QED  BY <2>5, <2>6
  <1> QED  BY <1>2, <1>4 DEF j

-----------------------------------------------------------------------------
(* What is painted when the call returns.                                  *)

(* A rectangle is what the call gives. *)
LEMMA RectExact ==
  ASSUME NEW r \in Rects, FromScreen(r)
  PROVE  Owed(<<Rect(r.x, r.y, r.width, r.height)>>)
           = {s \in Screen : InRect(s, r.x, r.y, r.width, r.height)}
  <1> DEFINE j == Rect(r.x, r.y, r.width, r.height)
  <1>1. r.x \in Nat /\ r.y \in Nat /\ r.width \in Int /\ r.height \in Int
    BY RasterAssumption DEF FromScreen
  <1>2. j \in RectJob
    BY <1>1, RectIs
  <1>3. Filled(j) = {s \in Screen : InRect(s, r.x, r.y, r.width, r.height)}
    BY <1>1, FilledIs
  <1> HIDE DEF j
  <1>4. OwedBy(j) \subseteq Screen /\ OwedBy(j) = Filled(j)
    BY <1>2, JobKinds
  <1>5. Owed(<<j>>) = OwedBy(j)
    BY <1>4, OwedOne
  <1> QED  BY <1>3, <1>4, <1>5 DEF j

(* The four sides of a frame are its border.                               *)
LEMMA StrokeExact ==
  ASSUME NEW r \in Frames, FromScreen(r), NEW t \in Thicknesses,
         t <= Smaller(r.width, r.height)
  PROVE  Owed(Sides(r, t)) = {s \in Screen : OnBorder(s, r, t)}
  <1>1. /\ r.x \in Nat /\ r.y \in Nat /\ r.width \in Int /\ r.height \in Int /\ t \in Nat
        /\ t <= r.width /\ t <= r.height
    BY RasterAssumption DEF FromScreen, Smaller
  <1>2. CASE t = 0
    <2>1. Sides(r, t) = <<>>
      BY <1>2 DEF Sides
    <2>2. \A s : ~OnBorder(s, r, t)
      BY <1>1, <1>2 DEF OnBorder
    <2> QED  BY <2>1, <2>2 DEF Owed
  <1>3. CASE t # 0
    <2> DEFINE a == Rect(r.x, r.y, r.width, t)
               b == Rect(r.x, r.y + r.height - t, r.width, t)
               d == Rect(r.x, r.y, t, r.height)
               e == Rect(r.x + r.width - t, r.y, t, r.height)
               l == <<a, b, d, e>>
    <2>1. /\ t \in Nat \ {0} /\ r.width > 0 /\ r.height > 0
          /\ r.y + r.height - t \in Nat /\ r.x + r.width - t \in Nat /\ t \in Int
      BY <1>1, <1>3
    <2>2. Sides(r, t) = l
      BY <1>1, <2>1 DEF Sides
    <2>3. /\ a \in RectJob /\ b \in RectJob /\ d \in RectJob /\ e \in RectJob
      BY <1>1, <2>1, RectIs
    <2>4. /\ Filled(a) = {s \in Screen : InRect(s, r.x, r.y, r.width, t)}
          /\ Filled(b) = {s \in Screen : InRect(s, r.x, r.y + r.height - t, r.width, t)}
          /\ Filled(d) = {s \in Screen : InRect(s, r.x, r.y, t, r.height)}
          /\ Filled(e) = {s \in Screen : InRect(s, r.x + r.width - t, r.y, t, r.height)}
      <3>1. Filled(a) = {s \in Screen : InRect(s, r.x, r.y, r.width, t)}
        BY <1>1, <2>1, FilledIs
      <3>2. Filled(b) = {s \in Screen : InRect(s, r.x, r.y + r.height - t, r.width, t)}
        BY <1>1, <2>1, FilledIs
      <3>3. Filled(d) = {s \in Screen : InRect(s, r.x, r.y, t, r.height)}
        BY <1>1, <2>1, FilledIs
      <3>4. Filled(e) = {s \in Screen : InRect(s, r.x + r.width - t, r.y, t, r.height)}
        BY <1>1, <2>1, FilledIs
      <3> QED  BY <3>1, <3>2, <3>3, <3>4
    <2>5. \A s \in Screen : OnBorder(s, r, t) <=>
            \/ InRect(s, r.x, r.y, r.width, t)
            \/ InRect(s, r.x, r.y + r.height - t, r.width, t)
            \/ InRect(s, r.x, r.y, t, r.height)
            \/ InRect(s, r.x + r.width - t, r.y, t, r.height)
      BY <1>1, <2>1, SidesAreBorder
    <2> HIDE DEF a, b, d, e
    <2>6. /\ a \in AnyJob /\ b \in AnyJob /\ d \in AnyJob /\ e \in AnyJob
          /\ OwedBy(a) = Filled(a) /\ OwedBy(b) = Filled(b) /\ OwedBy(d) = Filled(d)
          /\ OwedBy(e) = Filled(e)
      BY <2>3, JobKinds
    <2>7. l \in Seq(AnyJob) /\ DOMAIN l = {1, 2, 3, 4}
          /\ l[1] = a /\ l[2] = b /\ l[3] = d /\ l[4] = e
      BY <2>6
    <2> HIDE DEF l
    <2>8. Owed(l) = {s \in Screen : \/ s \in Filled(a) \/ s \in Filled(b)
                                    \/ s \in Filled(d) \/ s \in Filled(e)}
      BY <2>6, <2>7 DEF Owed
    <2> QED  BY <2>2, <2>4, <2>5, <2>8
  <1> QED  BY <1>2, <1>3

(* A circle is drawn whole, or filled. *)
LEMMA CircleExact ==
  ASSUME NEW p \in Centers, NEW radius \in Radii, NEW filled \in BOOLEAN
  PROVE  Owed(Circle(p[1], p[2], radius, filled)) =
           {s \in Screen : IF filled THEN InDisc(s[1] - p[1], s[2] - p[2], radius)
                           ELSE OnCircle(s[1] - p[1], s[2] - p[2], radius)}
  <1>1. /\ p[1] \in Int /\ p[2] \in Int /\ radius \in Int /\ IntMax \in Nat
        /\ absolute(p[1]) + 4 * absolute(radius) <= IntMax
    BY RasterAssumption
  <1>2. CASE radius < 0
    <2>1. Circle(p[1], p[2], radius, filled) = <<>>
      BY <1>2 DEF Circle
    <2>2. ASSUME NEW s \in Screen
          PROVE  ~InDisc(s[1] - p[1], s[2] - p[2], radius) /\ ~OnCircle(s[1] - p[1], s[2] - p[2], radius)
      <3> DEFINE u == s[1] - p[1]
                 v == s[2] - p[2]
      <3>1. u \in Int /\ v \in Int
        BY <1>1 DEF Screen
      <3> HIDE DEF u, v
      <3>2. absolute(u) >= 0 /\ absolute(v) >= 0 /\ absolute(u) \in Int /\ absolute(v) \in Int
        BY <3>1 DEF absolute
      <3>3. Smaller(absolute(u), absolute(v)) \in Nat
        BY <3>2 DEF Smaller
      <3>4. ~OnCircle(u, v, radius)
        <4> DEFINE m == Smaller(absolute(u), absolute(v))
        <4>1. OnCircle(u, v, radius) => radius >= m
          BY DEF OnCircle
        <4> HIDE DEF m
        <4> QED  BY <1>1, <1>2, <3>3, <4>1 DEF m
      <3>5. ~InDisc(u, v, radius)
        <4> DEFINE m == absolute(u)
        <4>1. InDisc(u, v, radius) => \E x \in m .. radius : TRUE
          BY DEF InDisc
        <4>2. m \in Nat
          BY <3>2
        <4> HIDE DEF m
        <4> QED  BY <1>1, <1>2, <4>1, <4>2
      <3> QED  BY <3>4, <3>5 DEF u, v
    <2>3. Owed(<<>>) = {}
      BY DEF Owed
    <2> QED  BY <2>1, <2>2, <2>3
  <1>3. CASE radius >= 0
    <2> DEFINE j == Started(p[1], p[2], radius, filled)
    <2>1. /\ radius \in Nat /\ 4 * radius <= IntMax /\ -IntMax - 1 <= p[1] - radius
          /\ p[1] + radius <= IntMax
      BY <1>1, <1>3 DEF absolute
    <2>2. /\ Circle(p[1], p[2], radius, filled) = <<j>>
          /\ Round(j) /\ Square(j) = radius * radius
      BY <1>1, <2>1, RoundStarts
    <2>3. OwedBy(j) = {s \in Screen : IF filled THEN InDisc(s[1] - p[1], s[2] - p[2], radius)
                                      ELSE OnCircle(s[1] - p[1], s[2] - p[2], radius)}
      BY <1>1, <2>1, <2>2, CircleIs
    <2>4. Owed(<<j>>) = OwedBy(j)
      <3>1. OwedBy(j) \subseteq Screen
        BY <2>2, JobKinds
      <3> QED  BY <3>1, OwedOne
    <2> QED  BY <2>2, <2>3, <2>4
  <1> QED  BY <1>1, <1>2, <1>3

(* With a point on the circle, in every row nearer to the middle there is  *)
(* one that is no nearer to it.                                            *)
LEMMA CircleWidens ==
  ASSUME NEW r \in Nat, NEW x \in Nat, NEW y \in Nat, NEW m \in Nat, m <= y,
         RootOf(Larger(x, y), r * r - Smaller(x, y) * Smaller(x, y))
  PROVE  \E z \in Nat : /\ z >= x
                        /\ RootOf(Larger(z, m), r * r - Smaller(z, m) * Smaller(z, m))
  <1> DEFINE R == r * r
             M == m * m
             Y == y * y
             X == x * x
  <1>1. x <= r /\ y <= r
    <2> DEFINE a == Larger(x, y)
               b == Smaller(x, y)
    <2>1. a \in Nat /\ b \in Nat /\ a >= b /\ x <= a /\ y <= a
      BY DEF Larger, Smaller
    <2>2. RootOf(a, r * r - b * b)
      OBVIOUS
    <2> HIDE DEF a, b
    <2>3. a <= r
      BY <2>1, <2>2, RootWithin
    <2> QED  BY <2>1, <2>3
  <1>2. R \in Nat /\ M \in Nat /\ Y \in Nat /\ X \in Nat /\ M <= R /\ M <= Y
    <2>1. m <= r
      BY <1>1
    <2> QED  BY <2>1, ProductIs, ProductsOrdered
  <1>3. R - M \in Nat
    BY <1>2
  <1>4. PICK w \in Nat : RootOf(w, R - M)
    <2> HIDE DEF R, M
    <2> QED  BY <1>3, RootExists
  <1>5. (w = 0 \/ w * w - w < R - M) /\ R - M <= w * w + w /\ w * w \in Nat
    BY <1>4, ProductIs DEF RootOf
  <1>6. ASSUME w >= x, w >= m
        PROVE  \E z \in Nat : /\ z >= x
                              /\ RootOf(Larger(z, m), r * r - Smaller(z, m) * Smaller(z, m))
    <2>1. Larger(w, m) = w /\ Smaller(w, m) = m
      BY <1>6 DEF Larger, Smaller
    <2> QED  BY <1>4, <1>6, <2>1
  <1>7. CASE x >= y
    <2>1. Larger(x, y) = x /\ Smaller(x, y) = y
      BY <1>7 DEF Larger, Smaller
    <2>2. x = 0 \/ X - x < R - Y
      BY <2>1 DEF RootOf
    <2>3. w >= x
      <3> SUFFICES ASSUME w < x PROVE FALSE
        OBVIOUS
      <3>1. w * w + w <= X - x
        BY OblongGrows
      <3> DEFINE W == w * w
      <3>2. W \in Nat /\ W + w <= X - x /\ R - M <= W + w
        BY <1>5, <3>1
      <3> HIDE DEF R, M, X, Y, W
      <3> QED  BY <1>2, <2>2, <3>2
    <2> QED  BY <1>6, <1>7, <2>3
  <1>8. CASE x < y
    <2>1. Larger(x, y) = y /\ Smaller(x, y) = x
      BY <1>8 DEF Larger, Smaller
    <2>2. Y - y < R - X
      BY <1>8, <2>1 DEF RootOf
    <2>3. M - m <= Y - y
      <3>1. CASE m = y
        BY <3>1
      <3>2. CASE m < y
        <4>1. m * m + m <= y * y - y
          BY <3>2, OblongGrows
        <4>2. M + m <= Y - y
          BY <4>1
        <4> HIDE DEF M, Y
        <4> QED  BY <1>2, <4>2
      <3> QED  BY <3>1, <3>2
    <2>4. CASE w >= m
      <3>1. w >= x
        <4> SUFFICES ASSUME w < x PROVE FALSE
          OBVIOUS
        <4> DEFINE W == w * w
        <4>1. W + w <= X - x /\ X + x <= Y - y /\ M <= X /\ R - M <= W + w /\ W \in Nat
          <5>1. w * w + w <= x * x - x /\ x * x + x <= y * y - y
            BY <1>8, OblongGrows
          <5>2. m * m <= x * x
            BY <2>4, ProductsOrdered
          <5> QED  BY <1>5, <5>1, <5>2
        <4> HIDE DEF R, M, X, Y, W
        <4> QED  BY <1>2, <2>2, <4>1
      <3> QED  BY <1>6, <2>4, <3>1
    <2>5. CASE w < m
      <3> DEFINE enough == {k \in Nat : R <= (k + 1) * (k + 1) + M - m}
      <3>1. r \in enough
        <4>1. r * r <= (r + 1) * (r + 1) /\ (r + 1) * (r + 1) \in Nat
          BY ProductsOrdered, ProductIs
        <4>2. m <= M
          <5>1. m = 0 \/ 1 <= m
            OBVIOUS
          <5>2. 1 <= m => 1 * m <= m * m
            BY ProductsOrdered
          <5> QED  BY <1>2, <5>1, <5>2
        <4> QED  BY <1>2, <4>1, <4>2
      <3>2. enough \subseteq Nat /\ enough # {}
        BY <3>1
      <3>3. PICK k \in enough : \A l \in enough : k <= l
        <4> HIDE DEF enough
        <4> QED  BY <3>2, LeastElement
      <3> DEFINE K == k * k
      <3>4. k \in Nat /\ K \in Nat /\ R <= K + 2 * k + 1 + M - m
        <4>1. k \in Nat /\ R <= (k + 1) * (k + 1) + M - m
          BY <3>3
        <4>2. (k + 1) * (k + 1) = K + 2 * k + 1 /\ K \in Nat
          BY <4>1, ProductIs
        <4> QED  BY <4>1, <4>2
      <3>5. k >= x
        <4> SUFFICES ASSUME k < x PROVE FALSE
          BY <3>4
        <4>1. (k + 1) * (k + 1) <= x * x
          <5>1. k + 1 \in Nat /\ k + 1 <= x
            BY <3>4
          <5> QED  BY <5>1, ProductsOrdered
        <4>2. (k + 1) * (k + 1) = K + 2 * k + 1
          BY <3>4
        <4>3. K + 2 * k + 1 <= X
          BY <4>1, <4>2
        <4> HIDE DEF R, M, X, Y, K
        <4> QED  BY <1>2, <2>2, <2>3, <3>4, <4>3
      <3>6. M - m < R - K
        <4>1. CASE k = 0
          <5>1. x = 0 /\ X = 0 /\ K = 0
            BY <3>5, <4>1
          <5> HIDE DEF R, M, X, Y, K
          <5> QED  BY <1>2, <2>2, <2>3, <5>1
        <4>2. CASE k # 0
          <5> DEFINE l == k - 1
          <5>1. l \in Nat /\ l < k /\ l + 1 = k
            BY <3>4, <4>2
          <5> HIDE DEF l
          <5>2. ~(R <= (l + 1) * (l + 1) + M - m)
            BY <3>3, <3>4, <5>1
          <5>3. ~(R <= K + M - m)
            BY <5>1, <5>2
          <5> HIDE DEF R, M, K
          <5> QED  BY <1>2, <3>4, <5>3
        <4> QED  BY <4>1, <4>2
      <3>7. k < m
        <4> SUFFICES ASSUME k >= m PROVE FALSE
          BY <3>4
        <4> DEFINE W == w * w
        <4>1. M <= K
          BY <3>4, ProductsOrdered
        <4>2. W + w <= M - m /\ R - M <= W + w /\ W \in Nat
          <5>1. w * w + w <= m * m - m
            BY <2>5, OblongGrows
          <5> QED  BY <1>5, <5>1
        <4> HIDE DEF R, M, K, W
        <4> QED  BY <1>2, <3>4, <3>6, <4>1, <4>2
      <3>8. R - K <= M + m
        <4> HIDE DEF R, M, K
        <4> QED  BY <1>2, <3>4, <3>7
      <3>9. RootOf(m, R - K)
        BY <3>6, <3>8 DEF RootOf
      <3>10. Larger(k, m) = m /\ Smaller(k, m) = k
        BY <3>4, <3>7 DEF Larger, Smaller
      <3> QED  BY <3>4, <3>5, <3>9, <3>10
    <2> QED  BY <2>4, <2>5
  <1> QED  BY <1>7, <1>8

(* A disc has no holes and no bays: with a point it has all that are       *)
(* nearer to its middle in both directions.                                *)
LEMMA DiscConvex ==
  ASSUME NEW u \in Int, NEW v \in Int, NEW r \in Nat, NEW i \in Int, NEW j \in Int,
         absolute(i) <= absolute(u), absolute(j) <= absolute(v), InDisc(u, v, r)
  PROVE  InDisc(i, j, r) /\ absolute(u) <= r /\ absolute(v) <= r
  <1> DEFINE n == absolute(u)
             y == absolute(v)
             l == absolute(i)
             m == absolute(j)
  <1>1. n \in Nat /\ y \in Nat /\ l \in Nat /\ m \in Nat
    BY DEF absolute
  <1>2. l <= n /\ m <= y
    OBVIOUS
  <1>3. \A x \in Nat : absolute(x) = x
    BY DEF absolute
  <1>4. PICK x \in n .. r : OnCircle(x, v, r)
    BY DEF InDisc
  <1>5. \A z \in Nat : /\ OnCircle(z, v, r) <=>
                            /\ r >= Smaller(z, y)
                            /\ RootOf(Larger(z, y), r * r - Smaller(z, y) * Smaller(z, y))
                       /\ OnCircle(z, j, r) <=>
                            /\ r >= Smaller(z, m)
                            /\ RootOf(Larger(z, m), r * r - Smaller(z, m) * Smaller(z, m))
    BY <1>3 DEF OnCircle
  <1>6. InDisc(i, j, r) <=> \E z \in l .. r : OnCircle(z, j, r)
    BY DEF InDisc
  <1> HIDE DEF n, y, l, m
  <1>7. x \in Nat /\ n <= x /\ x <= r
    BY <1>1
  <1>8. RootOf(Larger(x, y), r * r - Smaller(x, y) * Smaller(x, y))
    BY <1>4, <1>5, <1>7
  <1>9. ASSUME NEW z \in Nat, NEW k \in Nat,
               RootOf(Larger(z, k), r * r - Smaller(z, k) * Smaller(z, k))
        PROVE  z <= r /\ k <= r
    <2> DEFINE a == Larger(z, k)
               b == Smaller(z, k)
    <2>1. a \in Nat /\ b \in Nat /\ a >= b /\ z <= a /\ k <= a
      BY DEF Larger, Smaller
    <2>2. RootOf(a, r * r - b * b)
      BY <1>9
    <2> HIDE DEF a, b
    <2>3. a <= r
      BY <2>1, <2>2, RootWithin
    <2> QED  BY <2>1, <2>3
  <1>10. PICK z \in Nat : /\ z >= x
                          /\ RootOf(Larger(z, m), r * r - Smaller(z, m) * Smaller(z, m))
    BY <1>1, <1>2, <1>7, <1>8, CircleWidens
  <1>11. z <= r /\ m <= r
    BY <1>1, <1>9, <1>10
  <1>12. r >= Smaller(z, m)
    BY <1>1, <1>11 DEF Smaller
  <1>13. OnCircle(z, j, r)
    BY <1>5, <1>10, <1>12
  <1>14. z \in l .. r
    BY <1>1, <1>2, <1>7, <1>10, <1>11
  <1>15. n <= r /\ y <= r
    BY <1>1, <1>7, <1>8, <1>9
  <1> QED  BY <1>6, <1>13, <1>14, <1>15 DEF n, y

(* The discs in the corners of a rectangle, and the cross between them.    *)
LEMMA CornersCut ==
  ASSUME NEW r, r.x \in Int, r.y \in Int, r.width \in Int, r.height \in Int,
         NEW radius, Clamped(r, radius) \in Nat \ {0},
         2 * Clamped(r, radius) < r.width, 2 * Clamped(r, radius) < r.height, NEW s \in Screen
  PROVE  LET c == Clamped(r, radius)
             right == r.x + r.width - c - 1
             lower == r.y + r.height - c - 1 IN
         InRounded(s, r, radius) <=>
           \/ InRect(s, r.x + c, r.y, r.width - c * 2, r.height)
           \/ InRect(s, r.x, r.y + c, r.width, r.height - c * 2)
           \/ \E x \in {r.x + c, right}, y \in {r.y + c, lower} : InDisc(s[1] - x, s[2] - y, c)
  <1> DEFINE c == Clamped(r, radius)
             left == r.x + c
             upper == r.y + c
             right == r.x + r.width - c - 1
             lower == r.y + r.height - c - 1
             dx == Larger(0, Larger(r.x + c - s[1], s[1] - (r.x + r.width - c - 1)))
             dy == Larger(0, Larger(r.y + c - s[2], s[2] - (r.y + r.height - c - 1)))
             a == InRect(s, r.x + c, r.y, r.width - c * 2, r.height)
             b == InRect(s, r.x, r.y + c, r.width, r.height - c * 2)
             all == InRect(s, r.x, r.y, r.width, r.height)
  <1>1. s[1] \in Int /\ s[2] \in Int
    BY DEF Screen
  <1>2. InRounded(s, r, radius) <=> all /\ (dx > 0 /\ dy > 0 => InDisc(dx, dy, c))
    BY <1>1, SMT DEF InRounded
  <1>3. c \in Nat \ {0} /\ 2 * c < r.width /\ 2 * c < r.height
    OBVIOUS
  <1> HIDE DEF c
  <1>4. /\ dx = Larger(0, Larger(left - s[1], s[1] - right))
         /\ dy = Larger(0, Larger(upper - s[2], s[2] - lower))
    BY <1>3, <1>1
  <1>5. /\ left \in Int /\ right \in Int /\ upper \in Int /\ lower \in Int
        /\ left <= right /\ upper <= lower
        /\ r.x = left - c /\ r.x + r.width = right + c + 1
        /\ r.y = upper - c /\ r.y + r.height = lower + c + 1
    BY <1>3
  <1>6. /\ all <=> /\ left - c <= s[1] /\ s[1] < right + c + 1
                   /\ upper - c <= s[2] /\ s[2] < lower + c + 1
        /\ a <=> /\ left <= s[1] /\ s[1] < right + 1
                 /\ upper - c <= s[2] /\ s[2] < lower + c + 1
        /\ b <=> /\ left - c <= s[1] /\ s[1] < right + c + 1
                 /\ upper <= s[2] /\ s[2] < lower + 1
    BY <1>3, <1>1 DEF InRect
  <1> HIDE DEF left, right, upper, lower, a, b, all
  <1>7. /\ dx \in Nat /\ dy \in Nat
        /\ dx = 0 <=> left <= s[1] /\ s[1] <= right
        /\ dy = 0 <=> upper <= s[2] /\ s[2] <= lower
        /\ s[1] < left => dx = left - s[1]
        /\ s[1] > right => dx = s[1] - right
        /\ s[2] < upper => dy = upper - s[2]
        /\ s[2] > lower => dy = s[2] - lower
    <2> HIDE DEF dx, dy
    <2> QED  BY <1>1, <1>5, <1>4 DEF Larger
  <1> HIDE DEF dx, dy
  <1>8. absolute(dx) = dx /\ absolute(dy) = dy
    BY <1>7 DEF absolute
  <1>9. ASSUME NEW x \in {left, right}, NEW y \in {upper, lower}, InDisc(s[1] - x, s[2] - y, c)
        PROVE  InRounded(s, r, radius)
    <2> DEFINE u == s[1] - x
               v == s[2] - y
    <2>1. u \in Int /\ v \in Int
      BY <1>1, <1>5
    <2>2. dx <= absolute(u) /\ dy <= absolute(v)
      BY <1>1, <1>5, <1>7 DEF absolute
    <2>3. InDisc(u, v, c)
      BY <1>9
    <2>4. absolute(u) <= c => left - c <= s[1] /\ s[1] < right + c + 1
      BY <1>3, <1>1, <1>5 DEF absolute
    <2>5. absolute(v) <= c => upper - c <= s[2] /\ s[2] < lower + c + 1
      BY <1>3, <1>1, <1>5 DEF absolute
    <2> HIDE DEF u, v
    <2>6. InDisc(dx, dy, c) /\ absolute(u) <= c /\ absolute(v) <= c
      BY <1>3, <1>7, <1>8, <2>1, <2>2, <2>3, DiscConvex
    <2> QED  BY <1>2, <1>6, <2>4, <2>5, <2>6
  <1>10. a \/ b => InRounded(s, r, radius)
    <2>1. a => all /\ dx = 0
      BY <1>3, <1>1, <1>5, <1>6, <1>7
    <2>2. b => all /\ dy = 0
      BY <1>3, <1>1, <1>5, <1>6, <1>7
    <2>3. ~(0 > 0)
      OBVIOUS
    <2> QED  BY <1>2, <2>1, <2>2, <2>3
  <1>11. ASSUME InRounded(s, r, radius), ~a, ~b
        PROVE  \E x \in {left, right}, y \in {upper, lower} : InDisc(s[1] - x, s[2] - y, c)
    <2>1. all
      BY <1>2, <1>11
    <2>2. dx # 0 /\ dy # 0
      BY <1>1, <1>5, <1>6, <1>7, <1>11, <2>1
    <2>3. InDisc(dx, dy, c)
      BY <1>2, <1>7, <1>11, <2>2
    <2>4. (s[1] < left \/ s[1] > right) /\ (s[2] < upper \/ s[2] > lower)
      BY <1>1, <1>5, <1>7, <2>2
    <2>5. PICK x \in {left, right} : dx = absolute(s[1] - x)
      <3>1. s[1] < left => absolute(s[1] - left) = dx
        BY <1>1, <1>5, <1>7 DEF absolute
      <3>2. s[1] > right => absolute(s[1] - right) = dx
        BY <1>1, <1>5, <1>7 DEF absolute
      <3> QED  BY <2>4, <3>1, <3>2
    <2>6. PICK y \in {upper, lower} : dy = absolute(s[2] - y)
      <3>1. s[2] < upper => absolute(s[2] - upper) = dy
        BY <1>1, <1>5, <1>7 DEF absolute
      <3>2. s[2] > lower => absolute(s[2] - lower) = dy
        BY <1>1, <1>5, <1>7 DEF absolute
      <3> QED  BY <2>4, <3>1, <3>2
    <2> DEFINE u == s[1] - x
               v == s[2] - y
    <2>7. u \in Int /\ v \in Int /\ absolute(u) = dx /\ absolute(v) = dy
      BY <1>1, <1>5, <2>5, <2>6
    <2> HIDE DEF u, v
    <2>8. absolute(u) <= absolute(dx) /\ absolute(v) <= absolute(dy)
      BY <1>7, <1>8, <2>7
    <2>9. InDisc(u, v, c)
      <3>1. dx \in Int /\ dy \in Int /\ c \in Nat /\ u \in Int /\ v \in Int
        BY <1>3, <1>7, <2>7
      <3> QED  BY <2>3, <2>8, <3>1, DiscConvex
    <2> QED  BY <2>9 DEF u, v
  <1>12. InRounded(s, r, radius) <=>
           \/ a \/ b
           \/ \E x \in {left, right}, y \in {upper, lower} : InDisc(s[1] - x, s[2] - y, c)
    BY <1>9, <1>10, <1>11
  <1> QED  BY <1>12 DEF left, right, upper, lower, a, b, c

(* A rounded rectangle is the rectangle without what the discs leave.      *)
LEMMA RoundedExact ==
  ASSUME NEW r \in Frames, NEW radius \in Radii, FromScreen(r),
         2 * Clamped(r, radius) < Smaller(r.width, r.height)
  PROVE  Owed(Rounded(r, radius)) = {s \in Screen : InRounded(s, r, radius)}
  <1> DEFINE c == Clamped(r, radius)
  <1>1. /\ r.x \in Nat /\ r.y \in Nat /\ r.width \in Int /\ r.height \in Int /\ c \in Nat
    BY RasterAssumption, ClampedFits DEF FromScreen
  <1>2. 2 * c < r.width /\ 2 * c < r.height
    BY <1>1 DEF Smaller
  <1>3. r.width > 0 /\ r.height > 0
    <2> HIDE DEF c
    <2> QED  BY <1>1, <1>2
  <1>4. CASE c = 0
    <2> DEFINE j == Rect(r.x, r.y, r.width, r.height)
    <2>1. Rounded(r, radius) = <<j>>
      <3>1. ~(r.width <= 0 \/ r.height <= 0)
        BY <1>1, <1>3
      <3> QED  BY <1>4, <3>1, Zenon DEF Rounded
    <2>2. j \in RectJob
      BY <1>1, RectIs
    <2>3. Filled(j) = {s \in Screen : InRect(s, r.x, r.y, r.width, r.height)}
      BY <1>1, FilledIs
    <2> HIDE DEF j
    <2>4. OwedBy(j) \subseteq Screen /\ OwedBy(j) = Filled(j)
      BY <2>2, JobKinds
    <2>5. Owed(<<j>>) = OwedBy(j)
      BY <2>4, OwedOne
    <2>6. ASSUME NEW s \in Screen
          PROVE  InRounded(s, r, radius) <=> InRect(s, r.x, r.y, r.width, r.height)
      <3> DEFINE dx == Larger(0, Larger(r.x + c - s[1], s[1] - (r.x + r.width - c - 1)))
                 dy == Larger(0, Larger(r.y + c - s[2], s[2] - (r.y + r.height - c - 1)))
                 all == InRect(s, r.x, r.y, r.width, r.height)
      <3>1. InRounded(s, r, radius) <=> all /\ (dx > 0 /\ dy > 0 => InDisc(dx, dy, c))
        BY DEF InRounded
      <3>2. s[1] \in Int /\ s[2] \in Int
        BY DEF Screen
      <3> HIDE DEF c
      <3>3. all => dx = 0
        BY <1>1, <1>4, <3>2 DEF InRect, Larger
      <3>4. ~(0 > 0)
        OBVIOUS
      <3> HIDE DEF all, dx, dy
      <3> QED  BY <3>1, <3>3, <3>4 DEF all
    <2> QED  BY <2>1, <2>3, <2>4, <2>5, <2>6
  <1>5. CASE c # 0
    <2> DEFINE left == r.x + c
               upper == r.y + c
               right == r.x + r.width - c - 1
               lower == r.y + r.height - c - 1
               a == Rect(r.x + c, r.y, r.width - c * 2, r.height)
               b == Rect(r.x, r.y + c, r.width, r.height - c * 2)
               disc(x, y) == Started(x, y, c, TRUE)
               l == <<a, b, disc(left, upper), disc(right, upper),
                      disc(left, lower), disc(right, lower)>>
    <2>1. c \in Nat \ {0} /\ Clamped(r, radius) > 0
      BY <1>1, <1>5
    <2>2. /\ Rounded(r, radius) = l /\ a \in RectJob /\ b \in RectJob
          /\ \A x \in {left, right}, y \in {upper, lower} :
               Round(disc(x, y)) /\ Square(disc(x, y)) = c * c
      BY <1>3, <2>1, RoundedJobs, Zenon
    <2>3. \A s \in Screen : InRounded(s, r, radius) <=>
            \/ InRect(s, r.x + c, r.y, r.width - c * 2, r.height)
            \/ InRect(s, r.x, r.y + c, r.width, r.height - c * 2)
            \/ \E x \in {left, right}, y \in {upper, lower} : InDisc(s[1] - x, s[2] - y, c)
      <3> SUFFICES ASSUME NEW s \in Screen
                   PROVE  InRounded(s, r, radius) <=>
            \/ InRect(s, r.x + c, r.y, r.width - c * 2, r.height)
            \/ InRect(s, r.x, r.y + c, r.width, r.height - c * 2)
            \/ \E x \in {left, right}, y \in {upper, lower} : InDisc(s[1] - x, s[2] - y, c)
        OBVIOUS
      <3>1. r.x \in Int /\ r.y \in Int
        BY <1>1
      <3> QED  BY <1>1, <1>2, <2>1, <3>1, CornersCut, Zenon
    <2> HIDE DEF c
    <2>4. /\ left \in Nat /\ upper \in Nat /\ right \in Int /\ lower \in Int
          /\ r.width - c * 2 \in Int /\ r.height - c * 2 \in Int
      BY <1>1
    <2>5. /\ Filled(a) = {s \in Screen : InRect(s, r.x + c, r.y, r.width - c * 2, r.height)}
          /\ Filled(b) = {s \in Screen : InRect(s, r.x, r.y + c, r.width, r.height - c * 2)}
      <3>1. Filled(a) = {s \in Screen : InRect(s, r.x + c, r.y, r.width - c * 2, r.height)}
        BY <1>1, <2>4, FilledIs
      <3>2. Filled(b) = {s \in Screen : InRect(s, r.x, r.y + c, r.width, r.height - c * 2)}
        BY <1>1, <2>4, FilledIs
      <3> QED  BY <3>1, <3>2
    <2> HIDE DEF left, upper, right, lower
    <2>6. ASSUME NEW x \in {left, right}, NEW y \in {upper, lower}
          PROVE  /\ disc(x, y) \in AnyJob
                 /\ OwedBy(disc(x, y)) = {s \in Screen : InDisc(s[1] - x, s[2] - y, c)}
      <3>1. x \in Int /\ y \in Int
        BY <2>4
      <3>2. Round(disc(x, y)) /\ Square(disc(x, y)) = c * c
        BY <2>2
      <3>3. OwedBy(disc(x, y)) =
              {s \in Screen : IF TRUE THEN InDisc(s[1] - x, s[2] - y, c)
                              ELSE OnCircle(s[1] - x, s[2] - y, c)}
        <4> DEFINE filled == TRUE
        <4>1. filled \in BOOLEAN /\ disc(x, y) = Started(x, y, c, filled)
          OBVIOUS
        <4> HIDE DEF filled
        <4>2. Square(Started(x, y, c, filled)) = c * c
          BY <3>2, <4>1
        <4>3. OwedBy(Started(x, y, c, filled)) =
                {s \in Screen : IF filled THEN InDisc(s[1] - x, s[2] - y, c)
                                ELSE OnCircle(s[1] - x, s[2] - y, c)}
          BY <1>1, <3>1, <4>1, <4>2, CircleIs
        <4> QED  BY <4>1, <4>3 DEF filled
      <3>4. disc(x, y) \in AnyJob
        BY <3>2, JobKinds
      <3> QED  BY <3>3, <3>4
    <2> HIDE DEF disc, a, b
    <2>7. a \in AnyJob /\ b \in AnyJob /\ OwedBy(a) = Filled(a) /\ OwedBy(b) = Filled(b)
      BY <2>2, JobKinds
    <2>8. /\ disc(left, upper) \in AnyJob /\ disc(right, upper) \in AnyJob
          /\ disc(left, lower) \in AnyJob /\ disc(right, lower) \in AnyJob
      BY <2>6
    <2>9. /\ DOMAIN l = {1, 2, 3, 4, 5, 6}
          /\ l[1] = a /\ l[2] = b /\ l[3] = disc(left, upper) /\ l[4] = disc(right, upper)
          /\ l[5] = disc(left, lower) /\ l[6] = disc(right, lower)
      BY <2>7, <2>8
    <2> HIDE DEF l
    <2>10. Owed(l) = {s \in Screen :
                        \/ s \in OwedBy(a) \/ s \in OwedBy(b)
                        \/ s \in OwedBy(disc(left, upper)) \/ s \in OwedBy(disc(right, upper))
                        \/ s \in OwedBy(disc(left, lower)) \/ s \in OwedBy(disc(right, lower))}
      BY <2>9 DEF Owed
    <2>11. ASSUME NEW s \in Screen
           PROVE  s \in Owed(l) <=> InRounded(s, r, radius)
      <3>1. s \in Owed(l) <=>
              \/ s \in Filled(a) \/ s \in Filled(b)
              \/ \E x \in {left, right}, y \in {upper, lower} : s \in OwedBy(disc(x, y))
        BY <2>7, <2>10
      <3>2. \A x \in {left, right}, y \in {upper, lower} :
              s \in OwedBy(disc(x, y)) <=> InDisc(s[1] - x, s[2] - y, c)
        BY <2>6
      <3> QED  BY <2>3, <2>5, <3>1, <3>2
    <2>12. Owed(l) \subseteq Screen
      BY DEF Owed
    <2> QED  BY <2>2, <2>11, <2>12
  <1> QED  BY <1>4, <1>5

-----------------------------------------------------------------------------
(* Colours. *)

(* Shifts are powers of two. *)
LEMMA PowerIs ==
  /\ power[0] = 1
  /\ \A n \in 1 .. 32 : power[n] = 2 * power[n - 1]
  /\ \A n \in 0 .. 32 : power[n] \in Nat \ {0}
  <1> DEFINE F(n, f) == f = [i \in 0 .. n |-> IF i = 0 THEN 1 ELSE 2 * f[i - 1]]
             C == {n \in Nat : \E f : F(n, f)}
  <1>1. ASSUME NEW n \in Nat, \A m \in Nat : m < n => m \in C
        PROVE  n \in C
    <2>1. CASE n = 0
      <3> DEFINE f == [i \in 0 .. n |-> 1]
      <3>1. F(n, f)
        BY <2>1
      <3> QED  BY <3>1
    <2>2. CASE n # 0
      <3>1. n - 1 \in C
        BY <1>1, <2>2
      <3>2. PICK g : F(n - 1, g)
        BY <3>1
      <3> DEFINE f == [i \in 0 .. n |-> IF i < n THEN g[i] ELSE 2 * g[n - 1]]
      <3>3. \A i \in 0 .. (n - 1) : f[i] = g[i]
        OBVIOUS
      <3>4. \A i \in 0 .. (n - 1) : g[i] = IF i = 0 THEN 1 ELSE 2 * g[i - 1]
        BY <3>2
      <3>5. \A i \in 0 .. n : f[i] = IF i = 0 THEN 1 ELSE 2 * f[i - 1]
        <4>1. ASSUME NEW i \in 0 .. (n - 1)
              PROVE  f[i] = IF i = 0 THEN 1 ELSE 2 * f[i - 1]
          <5>1. i # 0 => i - 1 \in 0 .. (n - 1)
            OBVIOUS
          <5> HIDE DEF f
          <5> QED  BY <3>3, <3>4, <5>1
        <4>2. f[n] = 2 * f[n - 1]
          BY <2>2, <3>3
        <4> HIDE DEF f
        <4> QED  BY <2>2, <4>1, <4>2
      <3>6. f = [i \in 0 .. n |-> f[i]]
        OBVIOUS
      <3> HIDE DEF f
      <3>7. F(n, f)
        BY <3>5, <3>6
      <3> QED  BY <3>7
    <2> QED  BY <2>1, <2>2
  <1> HIDE DEF C
  <1>2. 32 \in C
    BY <1>1, NumberInduction
  <1>3. F(32, power)
    BY <1>2 DEF C, power
  <1> HIDE DEF power
  <1>4. power[0] = 1 /\ \A n \in 1 .. 32 : power[n] = 2 * power[n - 1]
    BY <1>3
  <1> DEFINE D == {n \in Nat : n <= 32 => power[n] \in Nat \ {0}}
  <1>5. ASSUME NEW n \in Nat, \A m \in Nat : m < n => m \in D
        PROVE  n \in D
    <2>1. CASE n = 0
      BY <1>4, <2>1
    <2>2. CASE n # 0
      <3>1. n - 1 \in D
        BY <1>5, <2>2
      <3> SUFFICES ASSUME n <= 32 PROVE power[n] \in Nat \ {0}
        OBVIOUS
      <3>2. power[n] = 2 * power[n - 1] /\ power[n - 1] \in Nat \ {0}
        BY <1>4, <2>2, <3>1
      <3> QED  BY <3>2
    <2> QED  BY <2>1, <2>2
  <1> HIDE DEF D
  <1>6. \A n \in Nat : n \in D
    BY <1>5, NumberInduction
  <1> QED  BY <1>4, <1>6 DEF D

(* The powers up to a byte. *)
LEMMA SmallPowers ==
  /\ power[0] = 1 /\ power[1] = 2 /\ power[2] = 4 /\ power[3] = 8 /\ power[4] = 16
  /\ power[5] = 32 /\ power[6] = 64 /\ power[7] = 128 /\ power[8] = 256
  <1>1. /\ power[1] = 2 * power[0] /\ power[2] = 2 * power[1] /\ power[3] = 2 * power[2]
        /\ power[4] = 2 * power[3] /\ power[5] = 2 * power[4] /\ power[6] = 2 * power[5]
        /\ power[7] = 2 * power[6] /\ power[8] = 2 * power[7]
    BY PowerIs
  <1> QED  BY <1>1, PowerIs

(* The power of a sum. *)
LEMMA PowerSum ==
  ASSUME NEW a \in Nat, NEW b \in Nat, a + b <= 32
  PROVE  power[a + b] = power[a] * power[b]
  <1> DEFINE C == {n \in Nat : a + n <= 32 => power[a + n] = power[a] * power[n]}
  <1>1. ASSUME NEW n \in Nat, \A m \in Nat : m < n => m \in C
        PROVE  n \in C
    <2> SUFFICES ASSUME a + n <= 32 PROVE power[a + n] = power[a] * power[n]
      OBVIOUS
    <2>1. power[a] \in Nat
      BY PowerIs
    <2>2. CASE n = 0
      <3>1. a + n = a /\ power[n] = 1
        BY <2>2, PowerIs
      <3> QED  BY <2>1, <3>1
    <2>3. CASE n # 0
      <3>1. n - 1 \in C /\ a + (n - 1) = (a + n) - 1
        BY <1>1, <2>3
      <3>2. power[(a + n) - 1] = power[a] * power[n - 1]
        BY <3>1
      <3>3. a + n \in 1 .. 32 /\ n \in 1 .. 32 /\ n - 1 \in 0 .. 32
        BY <2>3
      <3>4. power[a + n] = 2 * power[(a + n) - 1] /\ power[n] = 2 * power[n - 1]
        BY <3>3, PowerIs
      <3>5. power[n - 1] \in Nat
        BY <3>3, PowerIs
      <3> DEFINE x == power[a]
                 y == power[n - 1]
      <3>6. 2 * (x * y) = x * (2 * y)
        <4>1. x \in Nat /\ y \in Nat
          BY <2>1, <3>5
        <4> HIDE DEF x, y
        <4> QED  BY <4>1
      <3> QED  BY <3>2, <3>4, <3>6
    <2> QED  BY <2>2, <2>3
  <1> HIDE DEF C
  <1>2. b \in C
    BY <1>1, NumberInduction
  <1> QED  BY <1>2 DEF C

(* A larger number has the larger multiples. *)
LEMMA MultiplesGrow ==
  ASSUME NEW x \in Nat, NEW y \in Nat, NEW n \in Nat, x <= y
  PROVE  x * n <= y * n
  OBVIOUS

(* What blending makes of two levels of 8 bits. *)
Mean(c, d, alpha) == ((c * alpha + d * (255 - alpha) + 127) \div 255) % 256

(* m is the weighted mean, rounded, and lies between them. *)
MeanTrue(m, c, d, alpha) ==
  /\ 255 * m <= c * alpha + d * (255 - alpha) + 127
  /\ c * alpha + d * (255 - alpha) <= 255 * m + 127
  /\ c <= d => c <= m /\ m <= d
  /\ d <= c => d <= m /\ m <= c

(* Blending makes such a mean. *)
LEMMA MeanIs ==
  ASSUME NEW c \in 0 .. 255, NEW d \in 0 .. 255, NEW alpha \in 0 .. 255
  PROVE  Mean(c, d, alpha) \in 0 .. 255 /\ MeanTrue(Mean(c, d, alpha), c, d, alpha)
  <1> DEFINE m == Mean(c, d, alpha)
             beta == 255 - alpha
             A == c * alpha
             B == d * beta
             Ac == c * beta
             Bd == d * alpha
  <1>1. A \in Nat /\ B \in Nat /\ Ac \in Nat /\ Bd \in Nat /\ beta \in Nat
    OBVIOUS
  <1>2. A + Ac = 255 * c /\ Bd + B = 255 * d
    OBVIOUS
  <1>3. (c <= d => A <= Bd /\ Ac <= B) /\ (d <= c => Bd <= A /\ B <= Ac)
    BY <1>1, MultiplesGrow
  <1> HIDE DEF A, B, Ac, Bd, beta
  <1>4. A + B <= 255 * 255
    BY <1>1, <1>2, <1>3
  <1> DEFINE n == A + B + 127
             q == n \div 255
  <1>5. q \in 0 .. 255 /\ 255 * q <= n /\ n <= 255 * q + 254
    BY <1>1, <1>4
  <1>6. m = q % 256
    BY DEF A, B, beta, Mean
  <1> HIDE DEF q, m
  <1>7. m = q
    BY <1>5, <1>6
  <1>8. m \in 0 .. 255 /\ 255 * m <= A + B + 127 /\ A + B <= 255 * m + 127
    BY <1>1, <1>5, <1>7
  <1>9. (c <= d => c <= m /\ m <= d) /\ (d <= c => d <= m /\ m <= c)
    BY <1>1, <1>2, <1>3, <1>8
  <1> QED  BY <1>8, <1>9 DEF A, B, beta, m, MeanTrue

(* Bounds of a product, scaled. *)
LEMMA ScaledBounds ==
  ASSUME NEW c \in Nat, NEW t \in Nat, NEW a \in Nat, NEW k \in Nat,
         c * k <= 255 * t, 255 * t <= c * k + k
  PROVE  (c * a) * k <= 255 * (t * a) /\ 255 * (t * a) <= (c * a) * k + k * a
  <1>1. (c * k) * a <= (255 * t) * a /\ (255 * t) * a <= (c * k + k) * a
    <2>1. c * k \in Nat /\ 255 * t \in Nat /\ c * k + k \in Nat
      OBVIOUS
    <2> QED  BY <2>1, MultiplesGrow
  <1>2. (c * k) * a = (c * a) * k /\ (255 * t) * a = 255 * (t * a)
        /\ (c * k + k) * a = (c * a) * k + k * a
    OBVIOUS
  <1> QED  BY <1>1, <1>2

(* The numbers of levels of channels of 1 to 7 bits, and into how many     *)
(* levels of 8 bits each of theirs divides.                                *)
Narrow(p, q) ==
  \/ p = 2 /\ q = 128
  \/ p = 4 /\ q = 64
  \/ p = 8 /\ q = 32
  \/ p = 16 /\ q = 16
  \/ p = 32 /\ q = 8
  \/ p = 64 /\ q = 4
  \/ p = 128 /\ q = 2

(* c is the level v of such a channel, taken to 8 bits. *)
Taken(p, v, c) == c * (p - 1) <= 255 * v /\ 255 * v <= c * (p - 1) + (p - 2)

(* now is the level m of 8 bits, taken back. *)
Returned(q, m, now) == q * now <= m /\ m <= q * now + (q - 1)

(* color_channel takes levels to 8 bits. *)
LEMMA LevelTaken ==
  ASSUME NEW p \in Nat, NEW q \in Nat, Narrow(p, q),
         NEW v \in 0 .. (p - 1), NEW c \in Int, c = ((v * 255) \div (p - 1)) % 256
  PROVE  c \in 0 .. 255 /\ Taken(p, v, c)
  <1>1. CASE p = 2 /\ q = 128
    BY <1>1 DEF Taken
  <1>2. CASE p = 4 /\ q = 64
    BY <1>2 DEF Taken
  <1>3. CASE p = 8 /\ q = 32
    BY <1>3 DEF Taken
  <1>4. CASE p = 16 /\ q = 16
    BY <1>4 DEF Taken
  <1>5. CASE p = 32 /\ q = 8
    BY <1>5 DEF Taken
  <1>6. CASE p = 64 /\ q = 4
    BY <1>6 DEF Taken
  <1>7. CASE p = 128 /\ q = 2
    BY <1>7 DEF Taken
  <1> QED  BY <1>1, <1>2, <1>3, <1>4, <1>5, <1>6, <1>7 DEF Narrow

(* channel takes them back. *)
LEMMA LevelReturned ==
  ASSUME NEW p \in Nat, NEW q \in Nat, Narrow(p, q),
         NEW m \in 0 .. 255, NEW now \in Int, now = m \div q
  PROVE  Returned(q, m, now) /\ now \in 0 .. (p - 1)
  <1>1. CASE p = 2 /\ q = 128
    BY <1>1 DEF Returned
  <1>2. CASE p = 4 /\ q = 64
    BY <1>2 DEF Returned
  <1>3. CASE p = 8 /\ q = 32
    BY <1>3 DEF Returned
  <1>4. CASE p = 16 /\ q = 16
    BY <1>4 DEF Returned
  <1>5. CASE p = 32 /\ q = 8
    BY <1>5 DEF Returned
  <1>6. CASE p = 64 /\ q = 4
    BY <1>6 DEF Returned
  <1>7. CASE p = 128 /\ q = 2
    BY <1>7 DEF Returned
  <1> QED  BY <1>1, <1>2, <1>3, <1>4, <1>5, <1>6, <1>7 DEF Narrow

(* Levels that are taken to 8 bits keep their order. *)
LEMMA LevelsOrdered ==
  ASSUME NEW p \in Nat, NEW q \in Nat, Narrow(p, q),
         NEW v \in 0 .. (p - 1), NEW w \in 0 .. (p - 1), v <= w,
         NEW c \in 0 .. 255, NEW d \in 0 .. 255, Taken(p, v, c), Taken(p, w, d)
  PROVE  c <= d
  <1>1. CASE p = 2 /\ q = 128
    BY <1>1 DEF Taken
  <1>2. CASE p = 4 /\ q = 64
    BY <1>2 DEF Taken
  <1>3. CASE p = 8 /\ q = 32
    BY <1>3 DEF Taken
  <1>4. CASE p = 16 /\ q = 16
    BY <1>4 DEF Taken
  <1>5. CASE p = 32 /\ q = 8
    BY <1>5 DEF Taken
  <1>6. CASE p = 64 /\ q = 4
    BY <1>6 DEF Taken
  <1>7. CASE p = 128 /\ q = 2
    BY <1>7 DEF Taken
  <1> QED  BY <1>1, <1>2, <1>3, <1>4, <1>5, <1>6, <1>7 DEF Narrow

(* v and now compare as c and m do. *)
Alike(v, now, c, m) == (c <= m => v <= now) /\ (m <= c => now <= v)

(* A level that is taken to 8 bits and one that is taken back do. *)
LEMMA LevelKept ==
  ASSUME NEW p \in Nat, NEW q \in Nat, Narrow(p, q),
         NEW v \in 0 .. (p - 1), NEW now \in 0 .. (p - 1),
         NEW c \in 0 .. 255, NEW m \in 0 .. 255, Taken(p, v, c), Returned(q, m, now)
  PROVE  Alike(v, now, c, m)
  <1>1. CASE p = 2 /\ q = 128
    BY <1>1 DEF Taken, Returned, Alike
  <1>2. CASE p = 4 /\ q = 64
    BY <1>2 DEF Taken, Returned, Alike
  <1>3. CASE p = 8 /\ q = 32
    BY <1>3 DEF Taken, Returned, Alike
  <1>4. CASE p = 16 /\ q = 16
    BY <1>4 DEF Taken, Returned, Alike
  <1>5. CASE p = 32 /\ q = 8
    BY <1>5 DEF Taken, Returned, Alike
  <1>6. CASE p = 64 /\ q = 4
    BY <1>6 DEF Taken, Returned, Alike
  <1>7. CASE p = 128 /\ q = 2
    BY <1>7 DEF Taken, Returned, Alike
  <1> QED  BY <1>1, <1>2, <1>3, <1>4, <1>5, <1>6, <1>7 DEF Narrow

(* Of two levels x and y are the shares in the mean, a and b those of what *)
(* they are in 8 bits, up to errors ka and kb; m is what they give, and    *)
(* now what is left of it.                                                 *)
Shares(p, q, x, y, a, b, ka, kb, m, now) ==
  /\ ka + kb = 255 * (p - 1)
  /\ a * (p - 1) <= 255 * x /\ 255 * x <= a * (p - 1) + ka
  /\ b * (p - 1) <= 255 * y /\ 255 * y <= b * (p - 1) + kb
  /\ 255 * m <= a + b + 127 /\ a + b <= 255 * m + 127
  /\ q * now <= m /\ m <= q * now + (q - 1)

(* How far from the mean the level is that comes of them. *)
Nearby(x, y, now) == 255 * now <= x + y + 255 /\ x + y - 510 <= 255 * now

(* What the narrow channel has lost is no more than a level. *)
LEMMA LevelError ==
  ASSUME NEW p \in Nat, NEW q \in Nat, Narrow(p, q),
         NEW x \in Nat, NEW y \in Nat, NEW a \in Nat, NEW b \in Nat,
         NEW ka \in Nat, NEW kb \in Nat, NEW m \in 0 .. 255, NEW now \in 0 .. (p - 1),
         Shares(p, q, x, y, a, b, ka, kb, m, now)
  PROVE  Nearby(x, y, now)
  <1>1. CASE p = 2 /\ q = 128
    BY <1>1 DEF Shares, Nearby
  <1>2. CASE p = 4 /\ q = 64
    BY <1>2 DEF Shares, Nearby
  <1>3. CASE p = 8 /\ q = 32
    BY <1>3 DEF Shares, Nearby
  <1>4. CASE p = 16 /\ q = 16
    BY <1>4 DEF Shares, Nearby
  <1>5. CASE p = 32 /\ q = 8
    BY <1>5 DEF Shares, Nearby
  <1>6. CASE p = 64 /\ q = 4
    BY <1>6 DEF Shares, Nearby
  <1>7. CASE p = 128 /\ q = 2
    BY <1>7 DEF Shares, Nearby
  <1> QED  BY <1>1, <1>2, <1>3, <1>4, <1>5, <1>6, <1>7 DEF Narrow

(* A level between two others, near their mean. *)
NarrowTrue(now, from, to, alpha) ==
  /\ from <= to => from <= now /\ now <= to
  /\ to <= from => to <= now /\ now <= from
  /\ 255 * now <= to * alpha + from * (255 - alpha) + 255
  /\ 255 * now >= to * alpha + from * (255 - alpha) - 510

(* Two levels are taken to 8 bits, c and d, and mixed; now is left of what  *)
(* they give.                                                              *)
Mixed(p, q, to, from, alpha, c, d, now) ==
  /\ p \in Nat /\ q \in Nat /\ Narrow(p, q)
  /\ to \in 0 .. (p - 1) /\ from \in 0 .. (p - 1) /\ alpha \in 0 .. 255
  /\ c \in 0 .. 255 /\ d \in 0 .. 255 /\ now \in Int
  /\ Taken(p, to, c) /\ Taken(p, from, d) /\ now = Mean(c, d, alpha) \div q

(* What comes of two levels that are taken to 8 bits, mixed and taken back. *)
LEMMA NarrowLevels ==
  ASSUME NEW p, NEW q, NEW to, NEW from, NEW alpha, NEW c, NEW d, NEW now,
         Mixed(p, q, to, from, alpha, c, d, now)
  PROVE  now \in 0 .. (p - 1) /\ NarrowTrue(now, from, to, alpha)
  <1> SUFFICES ASSUME p \in Nat, q \in Nat, Narrow(p, q),
                      to \in 0 .. (p - 1), from \in 0 .. (p - 1), alpha \in 0 .. 255,
                      c \in 0 .. 255, d \in 0 .. 255, now \in Int
               PROVE  now \in 0 .. (p - 1) /\ NarrowTrue(now, from, to, alpha)
    BY DEF Mixed
  <1> DEFINE m == Mean(c, d, alpha)
  <1>0. /\ Taken(p, to, c) /\ Taken(p, from, d) /\ now = m \div q
        /\ m \in 0 .. 255 /\ MeanTrue(m, c, d, alpha)
    BY MeanIs DEF Mixed
  <1> HIDE DEF m
  <1> DEFINE k == p - 1
             beta == 255 - alpha
             X == to * alpha
             Y == from * beta
             A == c * alpha
             B == d * beta
  <1>2. /\ c * k <= 255 * to /\ 255 * to <= c * k + (k - 1)
        /\ d * k <= 255 * from /\ 255 * from <= d * k + (k - 1)
    BY <1>0 DEF Taken
  <1>3. k \in Nat /\ beta \in Nat /\ c \in Nat /\ d \in Nat
    BY DEF Narrow
  <1>4. A * k <= 255 * X /\ 255 * X <= A * k + k * alpha
    <2>1. c * k <= 255 * to /\ 255 * to <= c * k + k /\ alpha \in Nat /\ to \in Nat
      BY <1>2, <1>3
    <2> HIDE DEF k
    <2> QED  BY <1>3, <2>1, ScaledBounds, Zenon
  <1>5. B * k <= 255 * Y /\ 255 * Y <= B * k + k * beta
    <2>1. d * k <= 255 * from /\ 255 * from <= d * k + k /\ from \in Nat
      BY <1>2, <1>3
    <2> HIDE DEF k, beta
    <2> QED  BY <1>3, <2>1, ScaledBounds, Zenon
  <1>6. X \in Nat /\ Y \in Nat /\ A \in Nat /\ B \in Nat /\ k * alpha + k * beta = 255 * k
    BY <1>3
  <1>7. /\ m \in 0 .. 255 /\ 255 * m <= A + B + 127 /\ A + B <= 255 * m + 127
        /\ (c <= d => c <= m /\ m <= d) /\ (d <= c => d <= m /\ m <= c)
    BY <1>0 DEF MeanTrue
  <1> DEFINE ka == k * alpha
             kb == k * beta
  <1>8. ka \in Nat /\ kb \in Nat /\ ka + kb = 255 * k
    BY <1>3, <1>6
  <1> HIDE DEF X, Y, A, B, ka, kb
  <1>9. Returned(q, m, now) /\ now \in 0 .. (p - 1)
    BY <1>0, LevelReturned
  <1>10. (from <= to => d <= c) /\ (to <= from => c <= d)
    <2>1. from <= to => d <= c
      BY <1>0, LevelsOrdered
    <2>2. to <= from => c <= d
      BY <1>0, LevelsOrdered
    <2> QED  BY <2>1, <2>2
  <1>11. /\ (from <= to => from <= now /\ now <= to)
         /\ (to <= from => to <= now /\ now <= from)
    <2>0. m \in 0 .. 255 /\ now \in 0 .. (p - 1) /\ Returned(q, m, now)
      BY <1>0, <1>9
    <2>1. Alike(to, now, c, m) /\ Alike(from, now, d, m)
      BY <1>0, <2>0, LevelKept
    <2> QED  BY <1>7, <1>10, <2>1 DEF Alike
  <1>12. 255 * now <= X + Y + 255 /\ X + Y - 510 <= 255 * now
    <2>1. /\ A * (p - 1) <= 255 * X /\ 255 * X <= A * (p - 1) + ka
          /\ B * (p - 1) <= 255 * Y /\ 255 * Y <= B * (p - 1) + kb
      BY <1>4, <1>5 DEF ka, kb
    <2>2. ka + kb = 255 * (p - 1)
      BY <1>8
    <2> HIDE DEF k
    <2>3. X \in Nat /\ Y \in Nat /\ A \in Nat /\ B \in Nat /\ ka \in Nat /\ kb \in Nat
      BY <1>6, <1>8
    <2>4. /\ m \in 0 .. 255 /\ 255 * m <= A + B + 127 /\ A + B <= 255 * m + 127
          /\ now \in 0 .. (p - 1) /\ q * now <= m /\ m <= q * now + (q - 1)
      BY <1>7, <1>9 DEF Returned
    <2>5. Shares(p, q, X, Y, A, B, ka, kb, m, now)
      BY <2>1, <2>2, <2>4 DEF Shares
    <2>6. Nearby(X, Y, now)
      BY <2>3, <2>4, <2>5, LevelError
    <2> QED  BY <2>6 DEF Nearby
  <1> QED  BY <1>3, <1>6, <1>9, <1>11, <1>12 DEF X, Y, NarrowTrue

(* Channels of a pixel of 32 bits. *)
Bits == {b \in [size : 0 .. 32, shift : 0 .. 32] : b.shift + b.size <= 32}

(* The bits of a channel are a number below its power. *)
LEMMA FieldIs ==
  ASSUME NEW color \in Nat, NEW bits \in Bits
  PROVE  Field(color, bits) \in 0 .. (power[bits.size] - 1)
  <1> DEFINE P == power[bits.shift]
             S == power[bits.size]
             v == color \div P
  <1>1. P \in Nat \ {0} /\ S \in Nat \ {0}
    BY PowerIs DEF Bits
  <1> HIDE DEF P, S
  <1>2. v \in Nat
    BY <1>1, Division
  <1> HIDE DEF v
  <1>3. v % S \in 0 .. (S - 1)
    BY <1>1, <1>2, Division
  <1> QED  BY <1>3 DEF Field, P, S, v

(* color_channel takes the bits of the channel for its value. *)
LEMMA ChannelIs ==
  ASSUME NEW color \in Nat, NEW bits \in Bits
  PROVE  color_channel(color, bits) =
           IF bits.size = 0 THEN 0
           ELSE IF bits.size >= 8 THEN Field(color, bits) % 256
           ELSE ((Field(color, bits) * 255) \div (power[bits.size] - 1)) % 256
  <1> DEFINE S == power[bits.size]
             s == bits.size
  <1>1. S \in Nat /\ s \in 0 .. 32
    BY PowerIs DEF Bits
  <1> HIDE DEF S, s
  <1>2. (S - 1) + 1 = S
    BY <1>1
  <1>3. (color \div power[bits.shift]) % ((S - 1) + 1) = Field(color, bits)
    BY <1>2 DEF Field, S
  <1>4. /\ s = 0 => color_channel(color, bits) = 0
        /\ s >= 8 => color_channel(color, bits) = Field(color, bits) % 256
        /\ s # 0 /\ ~(s >= 8) =>
             color_channel(color, bits) = ((Field(color, bits) * 255) \div (S - 1)) % 256
    BY <1>1, <1>3 DEF color_channel, S, s
  <1> QED  BY <1>4 DEF S, s

(* What BlendsTrue says of one channel. *)
LevelTrue(size, now, from, to, alpha) ==
  /\ from <= to => from <= now /\ now <= to
  /\ to <= from => to <= now /\ now <= from
  /\ size >= 8 => Near(now, to * alpha + from * (255 - alpha), 255)
  /\ size < 8 =>
       /\ 255 * now <= to * alpha + from * (255 - alpha) + 255
       /\ 255 * now >= to * alpha + from * (255 - alpha) - 510

(* framebuffer_rgb has in each channel a level that is true, in its place. *)
LEMMA ChannelTrue ==
  ASSUME NEW bits \in Bits, NEW destination \in Nat, NEW color \in Nat, NEW alpha \in 0 .. 255,
         Field(destination, bits) <= 255, Field(color, bits) <= 255
  PROVE  \E now \in 0 .. (power[bits.size] - 1) :
           /\ channel(mixed(destination, color, alpha, bits), bits) = now * power[bits.shift]
           /\ LevelTrue(bits.size, now, Field(destination, bits), Field(color, bits), alpha)
  <1> DEFINE from == Field(destination, bits)
             to == Field(color, bits)
             c == color_channel(color, bits)
             d == color_channel(destination, bits)
             m == Mean(c, d, alpha)
             s == bits.size
             p == power[s]
             P == power[bits.shift]
  <1>1. mixed(destination, color, alpha, bits) = m
    BY DEF mixed, Mean
  <1>2. /\ from \in 0 .. (p - 1) /\ to \in 0 .. (p - 1) /\ from <= 255 /\ to <= 255
        /\ s \in 0 .. 32 /\ p \in Nat \ {0} /\ P \in Nat
    BY FieldIs, PowerIs DEF Bits
  <1>3. /\ c = IF s = 0 THEN 0 ELSE IF s >= 8 THEN to % 256
               ELSE ((to * 255) \div (p - 1)) % 256
        /\ d = IF s = 0 THEN 0 ELSE IF s >= 8 THEN from % 256
               ELSE ((from * 255) \div (p - 1)) % 256
    BY ChannelIs
  <1>4. channel(m, bits) = IF s = 0 THEN 0 ELSE IF s >= 8 THEN m * P
                           ELSE (m \div power[8 - s]) * P
    <2>1. /\ s = 0 => channel(m, bits) = 0
          /\ s >= 8 => channel(m, bits) = m * P
          /\ s # 0 /\ ~(s >= 8) => channel(m, bits) = (m \div power[8 - s]) * P
      <3> HIDE DEF m, P
      <3> QED  BY <1>2 DEF channel, P
    <2> QED  BY <2>1
  <1> HIDE DEF from, to, c, d, m, s, p, P
  <1>5. CASE s = 0
    <2>1. from = 0 /\ to = 0 /\ 0 \in 0 .. (p - 1)
      BY <1>2, <1>5, PowerIs DEF p
    <2>2. LevelTrue(s, 0, from, to, alpha)
      BY <1>5, <2>1 DEF LevelTrue
    <2>3. channel(m, bits) = 0 * P
      BY <1>2, <1>4, <1>5
    <2> QED  BY <1>1, <2>1, <2>2, <2>3 DEF from, to, s, p, P
  <1>6. CASE s >= 8
    <2>1. p >= 256
      <3>1. s - 8 \in Nat /\ 8 + (s - 8) = s /\ 8 \in Nat
        BY <1>2, <1>6
      <3>2. power[8 + (s - 8)] = power[8] * power[s - 8]
        BY <1>2, <3>1, PowerSum
      <3>3. power[s - 8] \in Nat \ {0}
        BY <1>2, <3>1, PowerIs
      <3> QED  BY <3>1, <3>2, <3>3, SmallPowers DEF p
    <2>2. c = to /\ d = from /\ c \in 0 .. 255 /\ d \in 0 .. 255
      BY <1>2, <1>3, <1>6
    <2>3. m \in 0 .. 255 /\ MeanTrue(m, c, d, alpha)
      BY <2>2, MeanIs DEF m
    <2>4. LevelTrue(s, m, from, to, alpha)
      <3> DEFINE a == to * alpha + from * (255 - alpha)
      <3>1. a \in Int
        BY <1>2
      <3>2. 255 * m <= a + 127 /\ a <= 255 * m + 127
        BY <2>2, <2>3 DEF MeanTrue
      <3> HIDE DEF a
      <3>3. Near(m, a, 255)
        BY <2>3, <3>1, <3>2 DEF Near
      <3> QED  BY <1>2, <1>6, <2>2, <2>3, <3>3 DEF LevelTrue, MeanTrue, a
    <2>5. m \in 0 .. (p - 1)
      BY <1>2, <2>1, <2>3
    <2>6. channel(m, bits) = m * P
      BY <1>2, <1>4, <1>6
    <2> QED  BY <1>1, <2>4, <2>5, <2>6 DEF from, to, s, p, P
  <1>7. CASE s \in 1 .. 7
    <2> DEFINE q == power[8 - s]
               now == m \div q
    <2>1. p \in Nat /\ q \in Nat \ {0} /\ Narrow(p, q)
      <3>1. CASE s = 1
        BY <3>1, SmallPowers DEF p, Narrow
      <3>2. CASE s = 2
        BY <3>2, SmallPowers DEF p, Narrow
      <3>3. CASE s = 3
        BY <3>3, SmallPowers DEF p, Narrow
      <3>4. CASE s = 4
        BY <3>4, SmallPowers DEF p, Narrow
      <3>5. CASE s = 5
        BY <3>5, SmallPowers DEF p, Narrow
      <3>6. CASE s = 6
        BY <3>6, SmallPowers DEF p, Narrow
      <3>7. CASE s = 7
        BY <3>7, SmallPowers DEF p, Narrow
      <3> QED  BY <1>7, <3>1, <3>2, <3>3, <3>4, <3>5, <3>6, <3>7
    <2> HIDE DEF q
    <2>2. c = ((to * 255) \div (p - 1)) % 256 /\ d = ((from * 255) \div (p - 1)) % 256
      BY <1>3, <1>7
    <2>3. c \in Int /\ d \in Int
      BY <1>2, <2>1, <2>2 DEF Narrow
    <2>4. c \in 0 .. 255 /\ d \in 0 .. 255 /\ Taken(p, to, c) /\ Taken(p, from, d)
      BY <1>2, <2>1, <2>2, <2>3, LevelTaken
    <2>5. m \in 0 .. 255
      BY <2>4, MeanIs DEF m
    <2>6. now \in Int
      BY <2>1, <2>5
    <2>8. channel(m, bits) = now * P
      BY <1>4, <1>7 DEF q
    <2> HIDE DEF now
    <2>9. Mixed(p, q, to, from, alpha, c, d, now)
      BY <1>2, <2>1, <2>4, <2>6 DEF now, m, Mixed
    <2>10. now \in 0 .. (p - 1) /\ NarrowTrue(now, from, to, alpha)
      BY <2>9, NarrowLevels, Zenon
    <2>11. LevelTrue(s, now, from, to, alpha)
      BY <1>7, <2>10 DEF LevelTrue, NarrowTrue
    <2> QED  BY <1>1, <2>8, <2>10, <2>11 DEF from, to, s, p, P
  <1>8. s = 0 \/ s \in 1 .. 7 \/ s >= 8
    BY <1>2
  <1> QED  BY <1>5, <1>6, <1>7, <1>8

(* A larger power is a multiple of a smaller one. *)
LEMMA PowersDivide ==
  ASSUME NEW a \in Nat, NEW b \in Nat, a <= b, b <= 32
  PROVE  \E k \in Nat \ {0} : power[b] = k * power[a]
  <1>1. b - a \in Nat /\ a + (b - a) = b
    OBVIOUS
  <1>2. power[a + (b - a)] = power[a] * power[b - a]
    BY <1>1, PowerSum
  <1>3. power[b - a] \in Nat \ {0} /\ power[a] \in Nat
    BY <1>1, PowerIs
  <1>4. power[a] * power[b - a] = power[b - a] * power[a]
    BY <1>3
  <1> QED  BY <1>1, <1>2, <1>3, <1>4

(* It is not less. *)
LEMMA PowersGrow ==
  ASSUME NEW a \in Nat, NEW b \in Nat, a <= b, b <= 32
  PROVE  power[a] <= power[b]
  <1>1. PICK k \in Nat \ {0} : power[b] = k * power[a]
    BY PowersDivide
  <1>2. power[a] \in Nat /\ 1 * power[a] = power[a]
    BY PowerIs
  <1>3. 1 * power[a] <= k * power[a]
    BY <1>2, MultiplesGrow
  <1> QED  BY <1>1, <1>2, <1>3

(* A level in its place does not reach beyond its bits. *)
LEMMA PlaceIs ==
  ASSUME NEW bits \in Bits, NEW v \in 0 .. (power[bits.size] - 1)
  PROVE  /\ v * power[bits.shift] \in Nat
         /\ v * power[bits.shift] + power[bits.shift] <= power[bits.shift + bits.size]
         /\ bits.size = 0 => v * power[bits.shift] = 0
  <1> DEFINE P == power[bits.shift]
             S == power[bits.size]
  <1>1. bits.shift \in Nat /\ bits.size \in Nat /\ bits.shift + bits.size <= 32
    BY DEF Bits
  <1>2. P \in Nat /\ S \in Nat \ {0}
    BY PowerIs DEF Bits
  <1>3. power[bits.shift + bits.size] = P * S
    BY <1>1, PowerSum
  <1>4. bits.size = 0 => v = 0
    BY PowerIs
  <1>5. v + 1 <= S /\ v \in Nat
    BY <1>2
  <1> HIDE DEF P, S
  <1>6. (v + 1) * P <= S * P
    BY <1>2, <1>5, MultiplesGrow
  <1>7. v * P \in Nat /\ (v + 1) * P = v * P + P /\ S * P = P * S /\ 0 * P = 0
    BY <1>2, <1>5
  <1> QED  BY <1>3, <1>4, <1>6, <1>7 DEF P

(* Two channels do not overlap. *)
Apart(b, c) ==
  \/ b.size = 0 \/ c.size = 0
  \/ b.shift + b.size <= c.shift
  \/ c.shift + c.size <= b.shift

(* t has nothing at the bits of b: some of it is below, the rest above. *)
Around(t, b) ==
  \E low \in 0 .. (power[b.shift] - 1), k \in Nat :
    t = low + k * power[b.shift + b.size]

(* Two other channels are around one. *)
LEMMA OthersAround ==
  ASSUME NEW b \in Bits, NEW c \in Bits, NEW d \in Bits, b.size # 0,
         Apart(b, c), Apart(b, d), Apart(c, d),
         NEW v \in 0 .. (power[c.size] - 1), NEW w \in 0 .. (power[d.size] - 1)
  PROVE  Around(v * power[c.shift] + w * power[d.shift], b)
  <1> DEFINE B == power[b.shift]
             H == power[b.shift + b.size]
             C == v * power[c.shift]
             D == w * power[d.shift]
             Low(e) == e.size # 0 /\ e.shift + e.size <= b.shift
             High(e) == e.size # 0 /\ b.shift + b.size <= e.shift
  <1>1. B \in Nat \ {0} /\ H \in Nat /\ C \in Nat /\ D \in Nat
    <2>1. b.shift \in 0 .. 32 /\ b.shift + b.size \in 0 .. 32
      BY DEF Bits
    <2>2. B \in Nat \ {0} /\ H \in Nat
      BY <2>1, PowerIs
    <2>3. C \in Nat /\ D \in Nat
      BY PlaceIs
    <2> QED  BY <2>2, <2>3
  <1>2. /\ c.size = 0 \/ Low(c) \/ High(c)
        /\ d.size = 0 \/ Low(d) \/ High(d)
    BY DEF Apart
  <1>3. (c.size = 0 => C = 0) /\ (d.size = 0 => D = 0)
    BY PlaceIs
  <1>4. ASSUME NEW e \in Bits, NEW x \in 0 .. (power[e.size] - 1), Low(e)
        PROVE  x * power[e.shift] < B
    <2>1. e.shift + e.size \in Nat /\ b.shift \in Nat /\ b.shift <= 32
          /\ e.shift + e.size <= b.shift
      BY <1>4 DEF Bits
    <2>2. power[e.shift + e.size] <= B
      BY <2>1, PowersGrow
    <2>3. power[e.shift] \in Nat \ {0} /\ power[e.shift + e.size] \in Nat
      BY <2>1, PowerIs DEF Bits
    <2>4. x * power[e.shift] \in Nat
          /\ x * power[e.shift] + power[e.shift] <= power[e.shift + e.size]
      BY PlaceIs
    <2> HIDE DEF B
    <2> QED  BY <1>1, <2>2, <2>3, <2>4
  <1>5. ASSUME NEW e \in Bits, NEW x \in 0 .. (power[e.size] - 1), High(e)
        PROVE  \E k \in Nat : x * power[e.shift] = k * H
    <2>1. b.shift + b.size \in Nat /\ e.shift \in Nat /\ e.shift <= 32
          /\ b.shift + b.size <= e.shift
      BY <1>5 DEF Bits
    <2>2. PICK k \in Nat \ {0} : power[e.shift] = k * H
      BY <2>1, PowersDivide
    <2>3. x \in Nat
      BY PowerIs DEF Bits
    <2> HIDE DEF H
    <2>4. x * k \in Nat /\ x * (k * H) = (x * k) * H
      BY <1>1, <2>3
    <2> QED  BY <2>2, <2>4
  <1>6. ASSUME Low(c), Low(d)
        PROVE  C + D < B
    <2>1. ASSUME NEW e \in Bits, NEW f \in Bits, Low(f), e.shift + e.size <= f.shift,
                 NEW x \in 0 .. (power[e.size] - 1), NEW y \in 0 .. (power[f.size] - 1)
          PROVE  x * power[e.shift] + y * power[f.shift] < B
      <3>1. /\ e.shift + e.size \in Nat /\ f.shift \in Nat /\ f.shift <= 32
            /\ f.shift + f.size \in Nat /\ b.shift \in Nat /\ b.shift <= 32
            /\ e.shift + e.size <= f.shift /\ f.shift + f.size <= b.shift
        BY <2>1 DEF Bits
      <3>2. power[e.shift + e.size] <= power[f.shift] /\ power[f.shift + f.size] <= B
        BY <3>1, PowersGrow
      <3>3. /\ power[e.shift] \in Nat \ {0} /\ power[f.shift] \in Nat
            /\ power[e.shift + e.size] \in Nat /\ power[f.shift + f.size] \in Nat
        <4>1. /\ e.shift \in 0 .. 32 /\ f.shift \in 0 .. 32
              /\ e.shift + e.size \in 0 .. 32 /\ f.shift + f.size \in 0 .. 32
          BY DEF Bits
        <4> QED  BY <4>1, PowerIs
      <3>4. /\ x * power[e.shift] \in Nat
            /\ x * power[e.shift] + power[e.shift] <= power[e.shift + e.size]
            /\ y * power[f.shift] \in Nat
            /\ y * power[f.shift] + power[f.shift] <= power[f.shift + f.size]
        BY PlaceIs
      <3> HIDE DEF B
      <3> QED  BY <1>1, <3>2, <3>3, <3>4
    <2>2. c.shift + c.size <= d.shift \/ d.shift + d.size <= c.shift
      BY <1>6 DEF Apart
    <2>3. CASE c.shift + c.size <= d.shift
      BY <1>6, <2>1, <2>3
    <2>4. CASE d.shift + d.size <= c.shift
      <3>1. D + C < B
        BY <1>6, <2>1, <2>4
      <3> HIDE DEF B, C, D
      <3> QED  BY <1>1, <3>1
    <2> QED  BY <2>2, <2>3, <2>4
  <1>7. /\ Low(c) => C < B
        /\ Low(d) => D < B
        /\ High(c) => \E k \in Nat : C = k * H
        /\ High(d) => \E k \in Nat : D = k * H
    BY <1>4, <1>5
  <1> SUFFICES \E low \in 0 .. (B - 1), k \in Nat : C + D = low + k * H
    BY DEF Around
  <1> HIDE DEF B, H, C, D, Low, High
  <1>8. CASE ~High(c) /\ ~High(d)
    <2>1. C + D \in 0 .. (B - 1) /\ C + D = (C + D) + 0 * H
      BY <1>1, <1>2, <1>3, <1>6, <1>7, <1>8
    <2> QED  BY <2>1
  <1>9. CASE High(c) /\ ~High(d)
    <2>1. PICK k \in Nat : C = k * H
      BY <1>7, <1>9
    <2>2. D \in 0 .. (B - 1) /\ k * H \in Nat
      BY <1>1, <1>2, <1>3, <1>7, <1>9
    <2>3. C + D = D + k * H
      BY <2>1, <2>2
    <2> QED  BY <2>2, <2>3
  <1>10. CASE ~High(c) /\ High(d)
    <2>1. PICK k \in Nat : D = k * H
      BY <1>7, <1>10
    <2>2. C \in 0 .. (B - 1)
      BY <1>1, <1>2, <1>3, <1>7, <1>10
    <2> QED  BY <2>1, <2>2
  <1>11. CASE High(c) /\ High(d)
    <2>1. PICK k \in Nat : C = k * H
      BY <1>7, <1>11
    <2>2. PICK l \in Nat : D = l * H
      BY <1>7, <1>11
    <2>3. 0 \in 0 .. (B - 1) /\ k + l \in Nat /\ C + D = 0 + (k + l) * H
      BY <1>1, <2>1, <2>2
    <2> QED  BY <2>3
  <1> QED  BY <1>8, <1>9, <1>10, <1>11

(* Of the sum of three channels, the bits of one are its level. *)
LEMMA FieldOfSum ==
  ASSUME NEW b \in Bits, NEW c \in Bits, NEW d \in Bits,
         Apart(b, c), Apart(b, d), Apart(c, d),
         NEW u \in 0 .. (power[b.size] - 1),
         NEW v \in 0 .. (power[c.size] - 1), NEW w \in 0 .. (power[d.size] - 1)
  PROVE  Field(u * power[b.shift] + (v * power[c.shift] + w * power[d.shift]), b) = u
  <1> DEFINE B == power[b.shift]
             S == power[b.size]
             t == v * power[c.shift] + w * power[d.shift]
             n == u * B + t
             m == n \div B
  <1>1. B \in Nat \ {0} /\ S \in Nat \ {0} /\ u \in Nat
    BY PowerIs DEF Bits
  <1>2. t \in Nat /\ n \in Nat
    <2>1. v * power[c.shift] \in Nat /\ w * power[d.shift] \in Nat /\ u * B \in Nat
      BY PlaceIs
    <2> QED  BY <2>1
  <1>3. Field(n, b) = m % S
    BY DEF Field
  <1>4. CASE b.size = 0
    <2>1. S = 1 /\ u = 0
      BY <1>4, PowerIs
    <2>2. m \in Nat
      <3> HIDE DEF n, B
      <3> QED  BY <1>1, <1>2, Division
    <2> HIDE DEF m, S
    <2>3. m % S = 0
      BY <2>1, <2>2
    <2> QED  BY <1>3, <2>1, <2>3
  <1>5. CASE b.size # 0
    <2>1. PICK low \in 0 .. (B - 1), k \in Nat : t = low + k * power[b.shift + b.size]
      BY <1>5, OthersAround DEF Around
    <2>2. power[b.shift + b.size] = B * S
      BY PowerSum DEF Bits
    <2>3. u \in 0 .. (S - 1)
      OBVIOUS
    <2>4. n = u * B + (low + k * (B * S))
      BY <2>1, <2>2
    <2> HIDE DEF B, S, n, t
    <2>5. k * S + u \in Nat /\ n = (k * S + u) * B + low
      BY <1>1, <2>1, <2>4
    <2>6. m = k * S + u
      BY <1>1, <2>5, DivisionUnique
    <2>7. m % S = u
      BY <1>1, <2>3, <2>6, DivisionUnique
    <2> QED  BY <1>3, <2>7 DEF n, t, B
  <1> QED  BY <1>4, <1>5

(* An end of the blend is true: at alpha 0 the one, at 255 the other. *)
LEMMA EndsTrue ==
  ASSUME NEW size \in Nat, NEW from \in Nat, NEW to \in Nat
  PROVE  LevelTrue(size, from, from, to, 0) /\ LevelTrue(size, to, from, to, 255)
  <1>1. /\ to * 0 + from * (255 - 0) = 255 * from
        /\ to * 255 + from * (255 - 255) = 255 * to
    OBVIOUS
  <1>2. Near(from, 255 * from, 255) /\ Near(to, 255 * to, 255)
    BY DEF Near
  <1> QED  BY <1>1, <1>2 DEF LevelTrue

(* What framebuffer_blend_pixel makes of a pixel is what it should be. *)
LEMMA BlendIsTrue ==
  ASSUME NEW format, NEW destination, NEW color, NEW alpha \in 0 .. 255,
         IsFormat(format), IsPixel(destination, format), IsPixel(color, format)
  PROVE  BlendsTrue(format, destination, color, alpha,
                    blended(format, destination, color, alpha))
  <1> DEFINE result == blended(format, destination, color, alpha)
             from(c) == Field(destination, format[c])
             to(c) == Field(color, format[c])
  <1>1. destination \in Nat /\ color \in Nat
    BY DEF IsPixel
  <1>2. \A c \in Channels : format[c] \in Bits
    BY DEF IsFormat, Bits
  <1>3. \A c \in Channels : /\ from(c) \in Nat /\ from(c) <= 255
                            /\ to(c) \in Nat /\ to(c) <= 255
                            /\ format[c].size \in Nat
    <2> TAKE c \in Channels
    <2> DEFINE s == format[c].size
    <2>1. s \in 0 .. 32 /\ s \in Nat
      BY <1>2 DEF Bits
    <2>2. power[s] \in Nat
      BY <2>1, PowerIs
    <2>3. from(c) \in 0 .. (power[s] - 1) /\ to(c) \in 0 .. (power[s] - 1)
      BY <1>1, <1>2, FieldIs
    <2>4. from(c) <= 255 /\ to(c) <= 255
      BY DEF IsPixel
    <2> HIDE DEF from, to
    <2> QED  BY <2>1, <2>2, <2>3, <2>4
  <1>4. SUFFICES /\ \A c \in Channels :
                      LevelTrue(format[c].size, Field(result, format[c]), from(c), to(c), alpha)
                 /\ alpha = 0 => result = destination
                 /\ alpha = 255 => result = color
                 /\ alpha \in 1 .. 254 =>
                      result = Field(result, format["red"]) * power[format["red"].shift]
                        + Field(result, format["green"]) * power[format["green"].shift]
                        + Field(result, format["blue"]) * power[format["blue"].shift]
    <2>1. ASSUME NEW c \in Channels
          PROVE  LevelTrue(format[c].size, Field(result, format[c]), from(c), to(c), alpha)
      BY <1>4
    <2> HIDE DEF result
    <2>2. ASSUME NEW c \in Channels
          PROVE  LET bits == format[c]
                     now == Field(result, bits) IN
                 /\ from(c) <= to(c) => from(c) <= now /\ now <= to(c)
                 /\ to(c) <= from(c) => to(c) <= now /\ now <= from(c)
                 /\ bits.size >= 8 => Near(now, to(c) * alpha + from(c) * (255 - alpha), 255)
                 /\ bits.size < 8 =>
                      /\ 255 * now <= to(c) * alpha + from(c) * (255 - alpha) + 255
                      /\ 255 * now >= to(c) * alpha + from(c) * (255 - alpha) - 510
      BY <2>1 DEF LevelTrue
    <2>3. BlendsTrue(format, destination, color, alpha, result)
      BY <1>4, <2>2 DEF BlendsTrue
    <2> QED  BY <2>3 DEF result
  <1>5. CASE alpha = 0
    <2>1. result = destination
      BY <1>5 DEF blended
    <2> QED  BY <1>3, <1>5, <2>1, EndsTrue
  <1>6. CASE alpha = 255
    <2>1. result = color
      BY <1>6 DEF blended
    <2> QED  BY <1>3, <1>6, <2>1, EndsTrue
  <1>7. CASE alpha \in 1 .. 254
    <2> DEFINE Level(c, now) ==
                 /\ channel(mixed(destination, color, alpha, format[c]), format[c])
                      = now * power[format[c].shift]
                 /\ LevelTrue(format[c].size, now, from(c), to(c), alpha)
    <2>1. \A c \in Channels : \E now \in 0 .. (power[format[c].size] - 1) : Level(c, now)
      BY <1>1, <1>2, <1>3, ChannelTrue
    <2>2. "red" \in Channels /\ "green" \in Channels /\ "blue" \in Channels
      BY DEF Channels
    <2>3. PICK r \in 0 .. (power[format["red"].size] - 1) : Level("red", r)
      BY <2>1, <2>2
    <2>4. PICK g \in 0 .. (power[format["green"].size] - 1) : Level("green", g)
      BY <2>1, <2>2
    <2>5. PICK b \in 0 .. (power[format["blue"].size] - 1) : Level("blue", b)
      BY <2>1, <2>2
    <2> DEFINE R == r * power[format["red"].shift]
               G == g * power[format["green"].shift]
               B == b * power[format["blue"].shift]
    <2>6. result = R + G + B
      <3>1. result = framebuffer_rgb(format,
                       [c \in Channels |-> mixed(destination, color, alpha, format[c])])
        BY <1>7 DEF blended
      <3> QED  BY <2>2, <2>3, <2>4, <2>5, <3>1 DEF framebuffer_rgb
    <2>7. R \in Nat /\ G \in Nat /\ B \in Nat
      BY <1>2, <2>2, PlaceIs
    <2>8. result = R + (G + B) /\ result = G + (R + B) /\ result = B + (R + G)
      <3> HIDE DEF R, G, B, result
      <3> QED  BY <2>6, <2>7
    <2>9. /\ Apart(format["red"], format["green"]) /\ Apart(format["red"], format["blue"])
          /\ Apart(format["green"], format["blue"]) /\ Apart(format["green"], format["red"])
          /\ Apart(format["blue"], format["red"]) /\ Apart(format["blue"], format["green"])
      <3>1. \A c, d \in Channels : c # d => Apart(format[c], format[d])
        BY DEF IsFormat, Apart
      <3> QED  BY <2>2, <3>1
    <2>10. /\ Field(R + (G + B), format["red"]) = r
           /\ Field(G + (R + B), format["green"]) = g
           /\ Field(B + (R + G), format["blue"]) = b
      BY <1>2, <2>2, <2>9, FieldOfSum
    <2>11. /\ Field(result, format["red"]) = r
           /\ Field(result, format["green"]) = g
           /\ Field(result, format["blue"]) = b
      BY <2>8, <2>10
    <2>12. \A c \in Channels :
             LevelTrue(format[c].size, Field(result, format[c]), from(c), to(c), alpha)
      BY <2>3, <2>4, <2>5, <2>11 DEF Channels
    <2> QED  BY <1>7, <2>6, <2>11, <2>12
  <1> QED  BY <1>5, <1>6, <1>7

-----------------------------------------------------------------------------
(* All calls.                                                              *)

(* Before the first call, and after a clear. *)
Cleared == call = None /\ todo = <<>> /\ painted = {}

(* Triangles, images and pixels, which are done at once. *)
StillCall ==
  /\ todo = <<>>
  /\ \/ /\ call.op = "triangle"
        /\ painted = {s \in Screen : InTriangle(s, call.p, call.q, call.r)}
     \/ /\ call.op = "image"
        /\ painted = {s \in Screen : /\ 4 * call.m.width * call.m.height <= call.m.length
                                     /\ InImage(s, call.m)}
     \/ /\ call.op = "blend" /\ painted = {} /\ call.b \in Blends
        /\ call.result = blended(call.b.format, call.b.destination, call.b.color,
                                 call.b.alpha)

(* Whatever the call, what it has painted and what is left make its shape. *)
Inv == Cleared \/ ShapeCall \/ LineCall \/ TextCall \/ StillCall

(* The calls can be told apart. *)
LEMMA CallKinds ==
  /\ Cleared => call.op = "none"
  /\ ShapeCall => call.op \in {"rect", "stroke", "circle", "rounded"}
  /\ LineCall => call.op = "line"
  /\ TextCall => call.op = "text"
  /\ StillCall => call.op \in {"triangle", "image", "blend"}
  <1>1. Cleared => call.op = "none"
    BY DEF Cleared, None
  <1>2. ShapeCall => call.op \in {"rect", "stroke", "circle", "rounded"}
    BY DEF ShapeCall, ShapeCalls
  <1>3. LineCall => call.op = "line"
    BY DEF LineCall, LineCalls
  <1>4. TextCall => call.op = "text"
    BY DEF TextCall, TextCalls
  <1>5. StillCall => call.op \in {"triangle", "image", "blend"}
    BY DEF StillCall
  <1> QED  BY <1>1, <1>2, <1>3, <1>4, <1>5

(* And so can the steps that they take. *)
LEMMA StepKinds ==
  ASSUME todo # <<>>
  PROVE  /\ ~Cleared /\ ~StillCall
         /\ ShapeCall => Head(todo).op \in {"rect", "line", "circle"}
         /\ LineCall => Head(todo).op = "line" /\ Len(todo) = 1
         /\ TextCall => Head(todo).op = "text" /\ Len(todo) = 1
  <1>1. ~Cleared /\ ~StillCall
    BY DEF Cleared, StillCall
  <1>2. ASSUME ShapeCall PROVE Head(todo).op \in {"rect", "line", "circle"}
    <2>1. Chord(Head(todo)) \/ Head(todo) \in RectJob \/ Round(Head(todo))
      BY <1>2, OwedFirst DEF ShapeCall
    <2> QED  BY <2>1, JobKinds
  <1>3. ASSUME LineCall PROVE Head(todo).op = "line" /\ Len(todo) = 1
    <2>1. PICK n \in 0 .. (Long(call) + 1) :
            /\ n <= Long(call) => \E v \in 0 .. Short(call) : todo = <<LineAt(call, n, v)>>
            /\ n = Long(call) + 1 => todo = <<>>
      BY <1>3 DEF LineCall
    <2>2. Long(call) \in Nat
      BY <1>3, LineParts DEF LineCall
    <2>3. PICK v : todo = <<LineAt(call, n, v)>>
      BY <2>1, <2>2
    <2>4. \A u, w : LineAt(call, u, w).op = "line"
      BY DEF LineAt, LineJob
    <2>5. Head(todo) = LineAt(call, n, v) /\ Len(todo) = 1
      BY <2>3, OneJob
    <2> QED  BY <2>4, <2>5
  <1>4. ASSUME TextCall PROVE Head(todo).op = "text" /\ Len(todo) = 1
    <2>1. PICK n, l, k : todo = <<TextAt(call, n, l, k)>>
      BY <1>4 DEF TextCall
    <2>2. TextAt(call, n, l, k).op = "text"
      BY DEF TextAt, TextJob
    <2>3. Head(todo) = TextAt(call, n, l, k) /\ Len(todo) = 1
      BY <2>1, OneJob
    <2> QED  BY <2>2, <2>3
  <1> QED  BY <1>1, <1>2, <1>3, <1>4

(* The screen is clear at first. *)
LEMMA InitInv == Init => Inv
  BY DEF Init, Inv, Cleared

(* Every call starts on a clear screen, with all of its shape to do.       *)
LEMMA StartInv ==
  ASSUME Inv, Start
  PROVE  Inv'
  <1>1. Cleared
    <2>1. call = None
      BY DEF Start, framebuffer_fill_rect, framebuffer_stroke_rect, framebuffer_line,
             framebuffer_circle, framebuffer_fill_rounded_rect, framebuffer_fill_triangle,
             framebuffer_text, framebuffer_put_rgba, framebuffer_blend_pixel, Begin
    <2>2. call.op = "none"
      BY <2>1 DEF None
    <2> QED  BY <2>2, CallKinds DEF Inv
  <1>2. call = None /\ painted = {} /\ todo = <<>>
    BY <1>1 DEF Cleared
  <1>3. ASSUME NEW c \in ShapeCalls, Begin(c, Jobs(c))
        PROVE  Inv'
    BY <1>2, <1>3, ShapeStarts DEF Inv
  <1>4. ASSUME NEW r \in Rects, framebuffer_fill_rect(r)
        PROVE  Inv'
    <2> DEFINE c == [op |-> "rect", r |-> r]
    <2>1. c \in ShapeCalls /\ c.op = "rect" /\ c.r = r
      BY DEF ShapeCalls
    <2>2. Jobs(c) = <<Rect(r.x, r.y, r.width, r.height)>>
      BY <2>1 DEF Jobs
    <2> QED  BY <1>3, <1>4, <2>1, <2>2 DEF framebuffer_fill_rect
  <1>5. ASSUME NEW r \in Frames, NEW t \in Thicknesses, framebuffer_stroke_rect(r, t)
        PROVE  Inv'
    <2> DEFINE c == [op |-> "stroke", r |-> r, t |-> t]
    <2>1. c \in ShapeCalls /\ c.op = "stroke" /\ c.r = r /\ c.t = t
      BY DEF ShapeCalls
    <2>2. Jobs(c) = Sides(r, t)
      BY <2>1 DEF Jobs
    <2> QED  BY <1>3, <1>5, <2>1, <2>2 DEF framebuffer_stroke_rect
  <1>6. ASSUME NEW r \in Frames, NEW radius \in Radii, framebuffer_fill_rounded_rect(r, radius)
        PROVE  Inv'
    <2> DEFINE c == [op |-> "rounded", r |-> r, radius |-> radius]
    <2>1. c \in ShapeCalls /\ c.op = "rounded" /\ c.r = r /\ c.radius = radius
      BY DEF ShapeCalls
    <2>2. Jobs(c) = Rounded(r, radius)
      BY <2>1 DEF Jobs
    <2> QED  BY <1>3, <1>6, <2>1, <2>2 DEF framebuffer_fill_rounded_rect
  <1>7. ASSUME NEW p \in Ends, NEW q \in Ends, framebuffer_line(p, q)
        PROVE  Inv'
    BY <1>2, <1>7, LineStarts DEF Inv
  <1>8. ASSUME NEW p \in Centers, NEW radius \in Radii, NEW filled \in BOOLEAN,
               framebuffer_circle(p, radius, filled)
        PROVE  Inv'
    <2> DEFINE c == [op |-> "circle", p |-> p, radius |-> radius, filled |-> filled]
    <2>1. /\ c \in ShapeCalls /\ c.op = "circle" /\ c.p = p /\ c.radius = radius
          /\ c.filled = filled
      BY DEF ShapeCalls
    <2>2. Jobs(c) = Circle(p[1], p[2], radius, filled)
      BY <2>1 DEF Jobs
    <2> QED  BY <1>3, <1>8, <2>1, <2>2 DEF framebuffer_circle
  <1>9. ASSUME NEW p \in Corners, NEW q \in Corners, NEW r \in Corners,
               framebuffer_fill_triangle(p, q, r)
        PROVE  Inv'
    <2>1. /\ call' = [op |-> "triangle", p |-> p, q |-> q, r |-> r] /\ todo' = <<>>
          /\ painted' = {s \in Box(p, q, r) : Fills(p, q, r, s)}
      BY <1>2, <1>9 DEF framebuffer_fill_triangle
    <2>2. painted' = {s \in Screen : InTriangle(s, p, q, r)}
      BY <1>9, <2>1, TriangleIs
    <2>3. call'.op = "triangle" /\ call'.p = p /\ call'.q = q /\ call'.r = r
      BY <2>1
    <2>4. StillCall'
      BY <2>1, <2>2, <2>3 DEF StillCall
    <2> QED  BY <2>4 DEF Inv
  <1>10. ASSUME NEW p \in Origins, NEW text \in Texts, NEW scale \in Scales,
                framebuffer_text(p, text, scale)
         PROVE  Inv'
    BY <1>2, <1>10, TextStarts DEF Inv
  <1>11. ASSUME NEW m \in Images, framebuffer_put_rgba(m)
         PROVE  Inv'
    <2>1. call' = [op |-> "image", m |-> m] /\ todo' = <<>>
      BY <1>2, <1>11 DEF framebuffer_put_rgba
    <2>2. painted' = {s \in Screen : 4 * m.width * m.height <= m.length /\ InImage(s, m)}
      BY <1>11, ImageIs DEF framebuffer_put_rgba
    <2>3. call'.op = "image" /\ call'.m = m
      BY <2>1
    <2>4. StillCall'
      BY <2>1, <2>2, <2>3 DEF StillCall
    <2> QED  BY <2>4 DEF Inv
  <1>12. ASSUME NEW b \in Blends, framebuffer_blend_pixel(b)
         PROVE  Inv'
    <2> DEFINE result == blended(b.format, b.destination, b.color, b.alpha)
    <2>1. /\ call' = [op |-> "blend", b |-> b, result |-> result]
          /\ todo' = <<>> /\ painted' = {}
      BY <1>2, <1>12 DEF framebuffer_blend_pixel
    <2> HIDE DEF result
    <2>2. call'.op = "blend" /\ call'.b = b /\ call'.result = result
      BY <2>1
    <2>3. StillCall'
      BY <1>12, <2>1, <2>2 DEF StillCall, result
    <2> QED  BY <2>3 DEF Inv
  <1> QED  BY <1>4, <1>5, <1>6, <1>7, <1>8, <1>9, <1>10, <1>11, <1>12 DEF Start

(* Every pass of a call keeps painted what it takes from what is owed.     *)
LEMMA ContinueInv ==
  ASSUME Inv, Continue
  PROVE  Inv'
  <1>1. todo # <<>>
    BY DEF Continue, FillRect, PlotLine, PlotCircle, CircleDone, DrawCharacter, TextDone, Doing
  <1>2. /\ ShapeCall => Head(todo).op \in {"rect", "line", "circle"}
        /\ LineCall => Head(todo).op = "line"
        /\ TextCall => Head(todo).op = "text"
        /\ ShapeCall \/ LineCall \/ TextCall
    BY <1>1, StepKinds DEF Inv
  <1>3. CASE FillRect
    <2>1. ShapeCall
      BY <1>2, <1>3 DEF FillRect, Doing
    <2> QED  BY <1>3, <2>1, RectSteps DEF Inv
  <1>4. CASE PlotLine
    <2>1. ShapeCall \/ LineCall
      BY <1>2, <1>4 DEF PlotLine, Doing
    <2> QED  BY <1>4, <2>1, ChordSteps, LineSteps DEF Inv
  <1>5. CASE PlotCircle
    <2>1. ShapeCall
      BY <1>2, <1>5 DEF PlotCircle, Doing
    <2> QED  BY <1>5, <2>1, RoundSteps DEF Inv
  <1>6. CASE CircleDone
    <2>1. ShapeCall
      BY <1>2, <1>6 DEF CircleDone, Doing
    <2> QED  BY <1>6, <2>1, RoundEnds DEF Inv
  <1>7. CASE DrawCharacter
    <2>1. TextCall
      BY <1>2, <1>7 DEF DrawCharacter, Doing
    <2> QED  BY <1>7, <2>1, TextSteps DEF Inv
  <1>8. CASE TextDone
    <2>1. TextCall
      BY <1>2, <1>8 DEF TextDone, Doing
    <2> QED  BY <1>8, <2>1, TextEnds DEF Inv
  <1> QED  BY <1>3, <1>4, <1>5, <1>6, <1>7, <1>8 DEF Continue

(* Every step keeps the invariant. *)
LEMMA StepInv == Inv /\ [Next]_vars => Inv'
  <1> SUFFICES ASSUME Inv, [Next]_vars PROVE Inv'
    OBVIOUS
  <1>1. CASE Start
    BY <1>1, StartInv
  <1>2. CASE Continue
    BY <1>2, ContinueInv
  <1>3. CASE framebuffer_clear
    BY <1>3 DEF framebuffer_clear, Inv, Cleared
  <1>4. CASE UNCHANGED vars
    BY <1>4 DEF vars, Inv, Cleared, ShapeCall, LineCall, TextCall, StillCall
  <1> QED  BY <1>1, <1>2, <1>3, <1>4 DEF Next

(* The invariant holds throughout. *)
THEOREM AlwaysInv == Spec => []Inv
  BY InitInv, StepInv, PTL DEF Spec

(* No pixel off the screen is written, and no more is ever left to do than *)
(* the four discs of a rounded rectangle and the chords of one of them.    *)
THEOREM TypesHold == Spec => []TypeOK
  <1>1. Inv => TypeOK
    <2> SUFFICES ASSUME Inv PROVE TypeOK
      OBVIOUS
    <2>1. painted \subseteq Screen
      BY ShapePainted DEF Inv, Cleared, LineCall, TextCall, StillCall
    <2>2. call.op \in {"none", "rect", "stroke", "line", "circle", "rounded", "triangle",
                       "text", "image", "blend"}
      BY CallKinds DEF Inv
    <2>3. /\ Len(todo) <= 8
          /\ \A i \in DOMAIN todo : todo[i].op \in {"rect", "line", "circle", "text"}
      <3>1. CASE todo = <<>>
        BY <3>1
      <3>2. CASE todo # <<>> /\ ShapeCall
        <4>1. PICK k \in 0 .. 4 :
                /\ k <= Len(todo) /\ Len(todo) - k <= 6
                /\ k > 0 => Len(todo) - k <= 4
                /\ \A i \in 1 .. Len(todo) : Placed(todo, k, i)
          BY <3>2 DEF ShapeCall, Pending
        <4>2. todo \in Seq(AnyJob)
          BY <3>2 DEF ShapeCall, Pending
        <4>3. Len(todo) \in Nat /\ DOMAIN todo = 1 .. Len(todo)
          BY <4>2
        <4>4. Len(todo) <= 8
          BY <4>1, <4>3
        <4>5. ASSUME NEW i \in 1 .. Len(todo)
              PROVE  todo[i].op \in {"rect", "line", "circle", "text"}
          <5>1. Placed(todo, k, i) /\ (i <= k \/ i > k)
            BY <4>1, <4>3
          <5>2. Chord(todo[i]) \/ todo[i] \in RectJob \/ Round(todo[i])
            BY <5>1 DEF Placed
          <5> QED  BY <5>2, JobKinds
        <4> QED  BY <4>3, <4>4, <4>5
      <3>3. CASE todo # <<>> /\ ~ShapeCall
        <4>1. Len(todo) = 1 /\ Head(todo).op \in {"line", "text"}
          BY <3>3, StepKinds DEF Inv
        <4>2. \E j : todo = <<j>>
          <5>1. CASE LineCall
            <6>1. PICK n \in 0 .. (Long(call) + 1) :
                    /\ n <= Long(call) => \E v \in 0 .. Short(call) : todo = <<LineAt(call, n, v)>>
                    /\ n = Long(call) + 1 => todo = <<>>
              BY <5>1 DEF LineCall
            <6>2. Long(call) \in Nat
              BY <5>1, LineParts DEF LineCall
            <6> QED  BY <3>3, <6>1, <6>2
          <5>2. CASE TextCall
            BY <3>3, <5>2 DEF TextCall
          <5> QED  BY <3>3, <5>1, <5>2, StepKinds DEF Inv
        <4>3. DOMAIN todo = {1} /\ todo[1] = Head(todo)
          BY <4>2
        <4> QED  BY <4>1, <4>3
      <3> QED  BY <3>1, <3>2, <3>3
    <2> QED  BY <2>1, <2>2, <2>3 DEF TypeOK
  <1> QED  BY <1>1, AlwaysInv, PTL

(* What rectangles, frames, triangles, texts and images paint is their     *)
(* shape, clipped.                                                         *)
THEOREM AreasAreExact == Spec => []AreasExact
  <1>1. Inv => AreasExact
    <2> SUFFICES ASSUME Inv, todo = <<>> PROVE AreasExact
      BY DEF AreasExact, Finished
    <2>1. ASSUME call.op = "rect", FromScreen(call.r)
          PROVE  painted = {s \in Screen : InRect(s, call.r.x, call.r.y, call.r.width, call.r.height)}
      <3>1. ShapeCall
        BY <2>1, CallKinds DEF Inv
      <3>2. call.r \in Rects
        BY <2>1, <3>1 DEF ShapeCall, ShapeCalls
      <3>3. Jobs(call) = <<Rect(call.r.x, call.r.y, call.r.width, call.r.height)>>
        BY <2>1 DEF Jobs
      <3> QED  BY <2>1, <3>1, <3>2, <3>3, ShapePainted, RectExact
    <2>2. ASSUME call.op = "stroke", FromScreen(call.r),
                 call.t <= Smaller(call.r.width, call.r.height)
          PROVE  painted = {s \in Screen : OnBorder(s, call.r, call.t)}
      <3>1. ShapeCall
        BY <2>2, CallKinds DEF Inv
      <3>2. call.r \in Frames /\ call.t \in Thicknesses
        BY <2>2, <3>1 DEF ShapeCall, ShapeCalls
      <3>3. Jobs(call) = Sides(call.r, call.t)
        BY <2>2 DEF Jobs
      <3> QED  BY <2>2, <3>1, <3>2, <3>3, ShapePainted, StrokeExact
    <2>3. ASSUME call.op = "triangle"
          PROVE  painted = {s \in Screen : InTriangle(s, call.p, call.q, call.r)}
      BY <2>3, CallKinds DEF Inv, StillCall
    <2>4. ASSUME call.op = "text", call.p[1] >= 0, call.p[2] >= 0
          PROVE  painted = {s \in Screen : /\ call.scale \in 1 .. MaxScale
                                           /\ InText(s, call.p, call.text, call.scale)}
      <3>1. TextCall
        BY <2>4, CallKinds DEF Inv
      <3>2. call \in TextCalls /\ painted \subseteq Screen
        BY <3>1 DEF TextCall
      <3>3. CASE call.scale \notin 1 .. MaxScale
        BY <3>1, <3>3 DEF TextCall
      <3>4. CASE call.scale \in 1 .. MaxScale
        <4>1. \A j : <<j>> # <<>>
          OBVIOUS
        <4>2. \A s \in Screen : s \in painted <=> Covered(s, call, Len(call.text) + 1)
          BY <2>4, <3>1, <3>4, <4>1 DEF TextCall
        <4>3. call.scale # 0
          BY <3>4
        <4>4. \A s \in Screen : s \in painted <=> InText(s, call.p, call.text, call.scale)
          BY <3>2, <4>2, <4>3, TextIs
        <4> QED  BY <3>2, <3>4, <4>4
      <3> QED  BY <3>3, <3>4
    <2>5. ASSUME call.op = "image"
          PROVE  painted = {s \in Screen : /\ 4 * call.m.width * call.m.height <= call.m.length
                                           /\ InImage(s, call.m)}
      BY <2>5, CallKinds DEF Inv, StillCall
    <2> QED  BY <2>1, <2>2, <2>3, <2>4, <2>5 DEF AreasExact, Finished
  <1> QED  BY <1>1, AlwaysInv, PTL

(* A line is the nearest point in each column (or row), and ends where it  *)
(* should.                                                                 *)
THEOREM LinesAreTrue == Spec => []LinesTrue
  <1>1. Inv => LinesTrue
    <2> SUFFICES ASSUME Inv, call.op = "line" PROVE LinesTrue
      BY DEF LinesTrue, Finished
    <2>1. LineCall
      BY CallKinds DEF Inv
    <2> QED  BY <2>1, LineEnds
  <1> QED  BY <1>1, AlwaysInv, PTL

(* Circles and discs are those of the nearest points, and the corners of   *)
(* rounded rectangles are cut along them.                                  *)
THEOREM CirclesAreExact == Spec => []CirclesExact
  <1>1. Inv => CirclesExact
    <2> SUFFICES ASSUME Inv, todo = <<>> PROVE CirclesExact
      BY DEF CirclesExact, Finished
    <2>1. ASSUME call.op = "circle"
          PROVE  painted = {s \in Screen :
                              IF call.filled
                              THEN InDisc(s[1] - call.p[1], s[2] - call.p[2], call.radius)
                              ELSE OnCircle(s[1] - call.p[1], s[2] - call.p[2], call.radius)}
      <3>1. ShapeCall
        BY <2>1, CallKinds DEF Inv
      <3>2. call.p \in Centers /\ call.radius \in Radii /\ call.filled \in BOOLEAN
        BY <2>1, <3>1 DEF ShapeCall, ShapeCalls
      <3>3. Jobs(call) = Circle(call.p[1], call.p[2], call.radius, call.filled)
        BY <2>1 DEF Jobs
      <3> QED  BY <3>1, <3>2, <3>3, ShapePainted, CircleExact
    <2>2. ASSUME call.op = "rounded", FromScreen(call.r),
                 2 * Clamped(call.r, call.radius) < Smaller(call.r.width, call.r.height)
          PROVE  painted = {s \in Screen : InRounded(s, call.r, call.radius)}
      <3>1. ShapeCall
        BY <2>2, CallKinds DEF Inv
      <3>2. call.r \in Frames /\ call.radius \in Radii
        BY <2>2, <3>1 DEF ShapeCall, ShapeCalls
      <3>3. Jobs(call) = Rounded(call.r, call.radius)
        BY <2>2 DEF Jobs
      <3> QED  BY <2>2, <3>1, <3>2, <3>3, ShapePainted, RoundedExact
    <2> QED  BY <2>1, <2>2 DEF CirclesExact, Finished
  <1> QED  BY <1>1, AlwaysInv, PTL

(* What a call has painted when it returns is the shape it was asked for.  *)
THEOREM ShapesAreExact == Spec => []ShapesExact
  <1>1. AreasExact /\ LinesTrue /\ CirclesExact => ShapesExact
    BY DEF ShapesExact
  <1> QED  BY <1>1, AreasAreExact, LinesAreTrue, CirclesAreExact, PTL

(* A text lies in the box that framebuffer_measure_text gives for it, and  *)
(* fills it.                                                               *)
THEOREM TextsAreMeasured == Spec => []TextMeasured
  <1>1. Inv => TextMeasured
    <2> SUFFICES ASSUME Inv, call.op = "text" PROVE TextMeasured
      BY DEF TextMeasured, Finished
    <2>1. TextCall
      BY CallKinds DEF Inv
    <2> QED  BY <2>1, MeasuredText
  <1> QED  BY <1>1, AlwaysInv, PTL

(* A blended pixel is the weighted mean of the two, channel by channel, and *)
(* no channel spills into another.                                          *)
THEOREM BlendsAreExact == Spec => []BlendsExact
  <1>1. Inv => BlendsExact
    <2> SUFFICES ASSUME Inv, call.op = "blend" PROVE BlendsExact
      BY DEF BlendsExact
    <2> DEFINE b == call.b
    <2>1. b \in Blends /\ call.result = blended(b.format, b.destination, b.color, b.alpha)
      BY CallKinds DEF Inv, StillCall
    <2>2. /\ IsFormat(b.format) /\ b.alpha \in 0 .. 255
          /\ IsPixel(b.destination, b.format) /\ IsPixel(b.color, b.format)
      BY <2>1, RasterAssumption
    <2> HIDE DEF b
    <2>3. BlendsTrue(b.format, b.destination, b.color, b.alpha,
                     blended(b.format, b.destination, b.color, b.alpha))
      BY <2>2, BlendIsTrue
    <2> QED  BY <2>1, <2>3 DEF BlendsExact, b
  <1> QED  BY <1>1, AlwaysInv, PTL
=============================================================================
