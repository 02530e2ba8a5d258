------------------------------ MODULE MCRaster ------------------------------
(***************************************************************************)
(* Instances of Raster for TLC, on a screen of five by four pixels.        *)
(***************************************************************************)
EXTENDS Raster

MCRects ==
  [x : {-1, 0, 1, 4, 5}, y : {-2, 0, 1}, width : {0, 1, 2, 4, 5, IntMax}, height : {1, 2, 3, 5}]
MCFrames == [x : {-1, 0, 1, 2}, y : {-1, 0, 1}, width : 0 .. 5, height : {1, 2, 3, 5}]
MCEnds == (-1 .. 5) \X (-1 .. 4)
MCCorners == {-1, 0, 2, 3, 5} \X {-1, 0, 2, 4}
MCCenters == {0, 2, 6} \X {-1, 1, 2}
MCRadii == -1 .. 4
MCThicknesses == 0 .. 3

(* A block, a step, and two pixels above each other. *)
MCFont ==
  [c \in {"block", "step", "bar"} |->
     CASE c = "block" -> {0, 1} \X {0, 1}
       [] c = "step" -> {<<0, 0>>, <<1, 1>>}
       [] OTHER -> {<<1, 0>>, <<1, 1>>}]
MCTexts == UNION {[1 .. n -> {"block", "step", LF}] : n \in 0 .. 3} \cup {<<"bar", "step">>}
MCScales == 0 .. 3
MCOrigins == {<<0, 0>>, <<1, 0>>, <<3, 1>>, <<0, 2>>, <<-1, 0>>, <<6, 1>>}

(* Images with every other, every third, all and no pixel opaque; too      *)
(* short, just long enough, and longer than they must be.                  *)
MCImages ==
  {m \in [x : {-1, 0, 3, 5}, y : {-2, 0, 2}, width : 0 .. 3, height : 0 .. 2,
          opaque : {{}, {0, 8, 16}, {0, 12}, {4, 20}, {0, 4, 8, 12, 16, 20}},
          length : {0, 7, 8, 15, 16, 23, 24, 25}] :
     \A o \in m.opaque : o + 3 < m.length}

Bits(size, shift) == [size |-> size, shift |-> shift]
Pixels(red, green, blue) ==
  [c \in Channels |-> CASE c = "red" -> red [] c = "green" -> green [] OTHER -> blue]

(* Eight bits each, as most screens have; five, six and five; ten each;    *)
(* and channels of one bit, two and none.                                  *)
MCFormats ==
  {Pixels(Bits(8, 16), Bits(8, 8), Bits(8, 0)), Pixels(Bits(5, 11), Bits(6, 5), Bits(5, 0)),
   Pixels(Bits(10, 0), Bits(10, 10), Bits(10, 20)), Pixels(Bits(1, 0), Bits(2, 4), Bits(0, 0))}
Levels == {0, 1, 7, 8, 9, 64, 127, 128, 200, 247, 248, 254, 255}
MCBlends ==
  {[format |-> f, destination |-> framebuffer_rgb(f, Pixels(d, s, 255)),
    color |-> framebuffer_rgb(f, Pixels(s, d, d)), alpha |-> a] :
     f \in MCFormats, s \in Levels, d \in Levels, a \in {0, 1, 2, 63, 127, 128, 200, 254, 255}}

(* Nothing of a kind. *)
Nothing == {}
Even == [x : {0, 1}, y : {0}, width : {2, 4}, height : {2, 3}]
=============================================================================
