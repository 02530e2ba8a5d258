------------------------------- MODULE Serial -------------------------------
(***************************************************************************)
(* The serial port (src/kernel/serial.c) and what writes to it: serial_    *)
(* write, the mirror of the console (src/kernel/framebuffer.c) and the     *)
(* output streams (src/kernel/libc.c).  A text is a sequence of characters *)
(* that counts as said once it is passed to a writer; each poll of the     *)
(* transmitter is a step, so that a slow or dead UART can interfere        *)
(* between any two characters.  The setting of the UART's registers        *)
(* (serial_init) has no state here.                                        *)
(***************************************************************************)
EXTENDS Integers, Sequences, SequencesExt

CONSTANTS
  Spins,     \* the polls after which serial_putc_raw gives up
  PrintSize, \* sizeof(buffer) in vfprintf
  MaxLost    \* a working UART is late for at most so many characters (a bound)

ASSUME SerialAssumption ==
  Spins \in Nat \ {0} /\ PrintSize \in Nat \ {0, 1} /\ MaxLost \in Nat

VARIABLES
  sending, \* the characters still to be put, the first of them being polled for
  spin,    \* how often it has been
  dead,    \* the UART never answers again
  wire,    \* what the UART has sent
  said,    \* history: what was passed to the writers
  lost     \* history: the positions, in the encoding of said, of characters given up

serial == <<sending, spin, dead, wire, said, lost>>

LF == "newline"
CR == "carriage return"

InitSerial ==
  /\ sending = <<>> /\ spin = 0
  /\ dead \in BOOLEAN
  /\ wire = <<>> /\ said = <<>> /\ lost = {}

(* Mutant: the return comes after the line feed. *)
ReturnsLate(text) ==
  FlattenSeq([i \in DOMAIN text |-> IF text[i] = LF THEN <<LF, CR>> ELSE <<text[i]>>])

(* serial_putc of each character. *)
Encoded(text) ==
  FlattenSeq([i \in DOMAIN text |-> IF text[i] = LF THEN <<CR, LF>> ELSE <<text[i]>>])

(* serial_write, serial_write_n. *)
serial_write(text) ==
  /\ sending = <<>>
  /\ sending' = Encoded(text)
  /\ said' = said \o text
  /\ UNCHANGED <<spin, dead, wire, lost>>

(* The mirror comes first, whether or not there is a screen. *)
console_write(text) == serial_write(text)

(* fprintf to either stream: by way of a buffer that cuts off the rest. *)
fprintf(text) ==
  serial_write(SubSeq(text, 1, IF Len(text) >= PrintSize THEN PrintSize - 1 ELSE Len(text)))

Position == Len(Encoded(said)) - Len(sending) + 1

Ready ==
  /\ sending # <<>> /\ ~dead
  /\ wire' = Append(wire, Head(sending))
  /\ sending' = Tail(sending)
  /\ spin' = 0
  /\ UNCHANGED <<dead, said, lost>>

(* Mutant: the polls are not counted. *)
WaitsForever ==
  /\ sending # <<>>
  /\ dead \/ Cardinality(lost) < MaxLost
  /\ spin' = spin
  /\ UNCHANGED <<dead, wire, said, sending, lost>>

NotReady ==
  /\ sending # <<>>
  /\ dead \/ Cardinality(lost) < MaxLost
  /\ IF spin + 1 < Spins
     THEN spin' = spin + 1 /\ UNCHANGED <<sending, lost>>
     ELSE spin' = 0 /\ sending' = Tail(sending) /\ lost' = lost \cup {Position}
  /\ UNCHANGED <<dead, wire, said>>

(* One pass of the loop of serial_putc_raw. *)
Poll == Ready \/ NotReady

Dies ==
  /\ ~dead /\ sending # <<>>
  /\ dead' = TRUE
  /\ UNCHANGED <<sending, spin, wire, said, lost>>

-----------------------------------------------------------------------------

(* part is what whole has at these places, in order.                       *)
PartAt(part, whole, places) ==
  /\ Len(part) = Cardinality(places)
  /\ \A i \in places : part[Cardinality({j \in places : j <= i})] = whole[i]

(***************************************************************************)
(* What is on the wire is what was said, in order, each character once,    *)
(* but for those for which the UART was too late; and where nothing was    *)
(* lost every line ends so that the next one starts in the first column.   *)
(***************************************************************************)
WireFaithful ==
  LET all == wire \o sending IN
  /\ PartAt(wire, Encoded(said), (1 .. Len(Encoded(said)) - Len(sending)) \ lost)
  /\ lost = {} =>
       /\ \A i \in DOMAIN wire : wire[i] = LF => i > 1 /\ wire[i - 1] = CR
       /\ PartAt(said, all, {i \in DOMAIN all : all[i] # CR})
=============================================================================
