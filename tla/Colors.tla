------------------------------- MODULE Colors -------------------------------
(***************************************************************************)
(* The colours of src/kernel/framebuffer.c.  A format gives the size and   *)
(* the shift of each channel in a pixel; the channels of a format do not   *)
(* overlap.                                                                *)
(***************************************************************************)
EXTENDS Integers

Channels == {"red", "green", "blue"}

(* 1 << n, in the 32 bits of a pixel. *)
power[n \in 0 .. 32] == IF n = 0 THEN 1 ELSE 2 * power[n - 1]

(* The bits of a channel. *)
Field(color, bits) == (color \div power[bits.shift]) % power[bits.size]

(* Pixels of 32 bits whose channels do not overlap.  framebuffer_init takes *)
(* what the loader says of them.                                            *)
IsFormat(format) ==
  /\ \A c \in Channels : /\ format[c] \in [size : 0 .. 32, shift : 0 .. 32]
                         /\ format[c].shift + format[c].size <= 32
  /\ \A c, d \in Channels :
       \/ c = d \/ format[c].size = 0 \/ format[d].size = 0
       \/ format[c].shift + format[c].size <= format[d].shift
       \/ format[d].shift + format[d].size <= format[c].shift

(* A pixel as framebuffer_rgb makes it: 8 bits are all that a channel ever has. *)
IsPixel(color, format) ==
  color \in Nat /\ \A c \in Channels : Field(color, format[c]) <= 255

(* value << shift, for a channel of so many bits. *)
channel(value, bits) ==
  CASE bits.size = 0 -> 0
    [] bits.size >= 8 -> value * power[bits.shift]
    [] OTHER -> (value \div power[8 - bits.size]) * power[bits.shift]

framebuffer_rgb(format, level) ==
  channel(level["red"], format["red"]) + channel(level["green"], format["green"])
    + channel(level["blue"], format["blue"])

(* The channel of a colour, as a number up to 255. *)
color_channel(color, bits) ==
  LET mask == power[bits.size] - 1
      value == (color \div power[bits.shift]) % (mask + 1) IN
  CASE bits.size = 0 -> 0
    [] bits.size >= 8 -> value % 256
    [] OTHER -> ((value * 255) \div mask) % 256

(* Mutant: the quotient is cut off instead of rounded. *)
MixesDown(destination, color, alpha, bits) ==
  ((color_channel(color, bits) * alpha
      + color_channel(destination, bits) * (255 - alpha)) \div 255) % 256

mixed(destination, color, alpha, bits) ==
  ((color_channel(color, bits) * alpha
      + color_channel(destination, bits) * (255 - alpha) + 127) \div 255) % 256

(* The pixel after framebuffer_blend_pixel. *)
blended(format, destination, color, alpha) ==
  CASE alpha = 0 -> destination
    [] alpha = 255 -> color
    [] OTHER -> framebuffer_rgb(format,
                  [c \in Channels |-> mixed(destination, color, alpha, format[c])])

-----------------------------------------------------------------------------

(* The level is as near to a / n as a whole number can be. *)
Near(level, a, n) == 2 * (level * n - a) <= n /\ 2 * (a - level * n) <= n

(***************************************************************************)
(* Whether a pixel is what it should be after color was laid over it: each *)
(* channel is, to the nearest level that the channel can tell apart, the   *)
(* mean of the two weighted by alpha, so that it lies between them, that   *)
(* nothing changes where they are equal, and no channel spills into        *)
(* another.                                                                *)
(***************************************************************************)
BlendsTrue(format, destination, color, alpha, result) ==
  \A c \in Channels :
    LET bits == format[c]
        from == Field(destination, bits)
        to == Field(color, bits)
        now == Field(result, bits) IN
    /\ from <= to => from <= now /\ now <= to
    /\ to <= from => to <= now /\ now <= from
    /\ alpha = 0 => result = destination
    /\ alpha = 255 => result = color
    /\ bits.size >= 8 => Near(now, to * alpha + from * (255 - alpha), 255)
    /\ bits.size < 8 =>
         /\ 255 * now <= to * alpha + from * (255 - alpha) + 255
         /\ 255 * now >= to * alpha + from * (255 - alpha) - 510
    /\ alpha \in 1 .. 254 =>
         result = Field(result, format["red"]) * power[format["red"].shift]
                  + Field(result, format["green"]) * power[format["green"].shift]
                  + Field(result, format["blue"]) * power[format["blue"].shift]
=============================================================================
