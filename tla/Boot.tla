-------------------------------- MODULE Boot --------------------------------
(***************************************************************************)
(* kmain (src/main.c) up to the shell, its log on the serial port, and the *)
(* ways in which the kernel stops.  One action per stretch of kmain from a *)
(* line of the log to the next; it goes on when the line has been put.     *)
(* A line is one character that stands for its text and a newline.  kmain  *)
(* goes on in the same way without a framebuffer or FreeType; the driver   *)
(* of the display, of which the log says nothing, is left out.             *)
(*                                                                         *)
(* The clock starts at platform_init, but only runs in the shell: nothing  *)
(* that boots looks at it, except to set deadlines (see Runtime).          *)
(***************************************************************************)
EXTENDS Serial, Clock

CONSTANTS
  ControllerSpins \* the polls after which platform_reboot goes ahead

ASSUME BootAssumption == ControllerSpins \in Nat \ {0}

VARIABLES
  at,      \* the place in kmain
  ready,   \* what has been initialised
  waited   \* platform_reboot: the polls of the keyboard controller

boot == <<at, ready, waited>>
vars == <<at, ready, waited, sending, spin, dead, wire, said, lost,
          tsc, boot_tsc, tsc_frequency, boot_epoch, deadline, ticks, due>>

Init ==
  /\ InitSerial /\ InitClock
  /\ at = "entry" /\ ready = {} /\ waited = 0

Line(what) == <<what, LF>>

Goes(from, to) == at = from /\ at' = to /\ UNCHANGED waited

(* kmain up to the check of the revision; serial_init. *)
Entry ==
  /\ Goes("entry", "revision")
  /\ serial_write(Line("booting"))
  /\ UNCHANGED <<ready, clock>>

Unsupported ==
  /\ Goes("revision", "halt")
  /\ serial_write(Line("unsupported"))
  /\ UNCHANGED <<ready, clock>>

InitPlatform ==
  /\ Goes("revision", "address space")
  /\ \E epoch \in Epochs \cup {0} : platform_init(epoch)
  /\ ready' = ready \cup {"platform"}
  /\ serial_write(Line("platform ready"))

(* platform_configure_address_space and svga_init, if the loader answered. *)
ConfigureAddressSpace ==
  /\ Goes("address space", "heap")
  /\ serial_write(Line("display probe complete"))
  /\ UNCHANGED <<ready, clock>>

(* Mutant: the log says so before it is known. *)
InitHeapOptimistic ==
  /\ Goes("heap", "constructors")
  /\ \E fits \in BOOLEAN : ready' = ready \cup (IF fits THEN {"heap"} ELSE {})
  /\ serial_write(Line("heap ready"))
  /\ UNCHANGED clock

InitHeap ==
  /\ Goes("heap", "constructors")
  /\ ready' = ready \cup {"heap"}
  /\ serial_write(Line("heap ready"))
  /\ UNCHANGED clock

NoHeap ==
  /\ Goes("heap", "halt")
  /\ serial_write(Line("unable to initialize kernel heap"))
  /\ UNCHANGED <<ready, clock>>

platform_run_constructors ==
  /\ Goes("constructors", "framebuffer")
  /\ ready' = ready \cup {"C++ runtime"}
  /\ serial_write(Line("C++ runtime ready"))
  /\ UNCHANGED clock

(* There may be none, or framebuffer_init may refuse it: the result is     *)
(* ignored and the line is the same.                                       *)
InitFramebuffer ==
  /\ Goes("framebuffer", "font")
  /\ ready' \in {ready, ready \cup {"framebuffer"}}
  /\ serial_write(Line("framebuffer ready"))
  /\ UNCHANGED clock

InitFont ==
  /\ Goes("font", "font done")
  /\ \/ /\ sending = <<>> /\ UNCHANGED serial
        /\ ready' = ready \cup {"FreeType"}
     \/ /\ console_write(Line("FreeType initialization failed"))
        /\ UNCHANGED ready
  /\ UNCHANGED clock

(* Written in either case. *)
FontDone ==
  /\ Goes("font done", "scripts")
  /\ serial_write(Line("FreeType ready"))
  /\ UNCHANGED <<ready, clock>>

(* js_runtime_start and js_runtime_run of the boot scripts (see Runtime). *)
ScriptsSucceed ==
  /\ Goes("scripts", "environment")
  /\ sending = <<>>
  /\ ready' = ready \cup {"JavaScript environment"}
  /\ UNCHANGED <<serial, clock>>

(* One of them throws, which is reported, or there is no runtime. *)
ScriptsFail ==
  /\ Goes("scripts", "halt")
  /\ \E report \in {<<>>, Line("exception")} :
       console_write(report \o Line("JavaScript boot failed"))
  /\ UNCHANGED <<ready, clock>>

EnterShell ==
  /\ Goes("environment", "shell")
  /\ serial_write(Line("JavaScript environment ready"))
  /\ UNCHANGED <<ready, clock>>

-----------------------------------------------------------------------------

(* abort, exit and a failed assertion, from the C++, font and script code  *)
(* that kmain calls.                                                       *)
Dying ==
  /\ at \in {"constructors", "font", "scripts"} /\ at' = "halt"
  /\ \/ serial_write(Line("abort()"))
     \/ fprintf(Line("exit()"))
     \/ fprintf(<<"assertion failed", "expression", "place", LF>>)
  /\ UNCHANGED <<ready, waited, clock>>

platform_halt ==
  /\ Goes("halt", "halted")
  /\ sending = <<>>
  /\ UNCHANGED <<ready, serial, clock>>

(* The log of the boot is out; what the shell writes to the port is not    *)
(* followed.                                                               *)
Handover ==
  /\ at = "shell" /\ sending = <<>> /\ said # <<>>
  /\ said' = <<>> /\ wire' = <<>> /\ lost' = {}
  /\ dead' = FALSE
  /\ ready' = {}
  /\ UNCHANGED <<at, waited, sending, spin, clock>>

InShell == at = "shell" /\ said = <<>>

Running ==
  /\ InShell
  /\ Tick \/ WakeUp \/ \E milliseconds \in Sleeps : platform_sleep_ms(milliseconds)
  /\ UNCHANGED <<boot, serial>>

platform_reboot ==
  /\ InShell /\ deadline = Awake
  /\ at' = "rebooting"
  /\ UNCHANGED <<ready, waited, serial, clock>>

(* One pass of its loop; then the controller is told to reset the machine. *)
PollController ==
  /\ at = "rebooting"
  /\ \E busy \in BOOLEAN :
       IF busy /\ waited < ControllerSpins
       THEN waited' = waited + 1 /\ UNCHANGED at
       ELSE at' = "reset" /\ UNCHANGED waited
  /\ UNCHANGED <<ready, serial, clock>>

Transmit == (Poll \/ Dies) /\ UNCHANGED <<boot, clock>>

kmain ==
  \/ Entry \/ Unsupported \/ InitPlatform \/ ConfigureAddressSpace
  \/ InitHeap \/ NoHeap \/ platform_run_constructors
  \/ InitFramebuffer \/ InitFont \/ FontDone
  \/ ScriptsSucceed \/ ScriptsFail \/ EnterShell

Next ==
  \/ kmain \/ Dying \/ platform_halt
  \/ Transmit \/ Handover \/ Running
  \/ platform_reboot \/ PollController

(* A loop that polls goes on: there is nothing else to run. *)
Spec ==
  /\ Init /\ [][Next]_vars
  /\ WF_vars(Poll /\ UNCHANGED <<boot, clock>>)
  /\ WF_vars(PollController)

-----------------------------------------------------------------------------

(* What a line of the log claims to be there. *)
Claims ==
  [line \in {"platform ready", "heap ready", "C++ runtime ready", "framebuffer ready",
             "FreeType ready", "JavaScript environment ready"} |->
     CASE line = "platform ready" -> {"platform"}
       [] line = "heap ready" -> {"platform", "heap"}
       [] line = "C++ runtime ready" -> {"platform", "heap", "C++ runtime"}
       [] line = "framebuffer ready" -> {"framebuffer"}
       [] line = "FreeType ready" -> {"FreeType"}
       [] OTHER -> {"platform", "heap", "C++ runtime", "JavaScript environment"}]

(* The claims about what kmain cannot do without. *)
Trusted == DOMAIN Claims \ {"framebuffer ready", "FreeType ready"}

(* What a kernel that stopped says, and what it then never got. *)
Reasons ==
  {<<"unsupported", "platform">>, <<"unable to initialize kernel heap", "heap">>,
   <<"JavaScript boot failed", "JavaScript environment">>,
   <<"abort()", "">>, <<"exit()", "">>, <<"assertion failed", "">>}

Wired(what) == \E i \in DOMAIN wire : wire[i] = what

(***************************************************************************)
(* A line on the wire that says that something is ready is true.  It is    *)
(* not: main.c:90 and :95 say so of the framebuffer and of FreeType        *)
(* whatever came of them.  (The log is forgotten in the shell.)            *)
(***************************************************************************)
ReadyLinesTrue ==
  InShell \/ \A line \in DOMAIN Claims : Wired(line) => Claims[line] \subseteq ready

(***************************************************************************)
(* How far the log of kmain can be trusted by whoever has only the serial  *)
(* port.  The lines about what kmain cannot do without are true, and with  *)
(* them all that these rest on, whatever was lost.  Where nothing was lost *)
(* and nothing is left to send they are complete (in "environment" the     *)
(* last one is still to come); a failure of FreeType is told before the    *)
(* line that it is ready, and told only then; and a kernel that halted     *)
(* while booting has said why, once and truly, whether or not there is a   *)
(* screen.                                                                 *)
(***************************************************************************)
LogHonest ==
  /\ InShell \/ \A line \in Trusted : Wired(line) => Claims[line] \subseteq ready
  /\ lost = {} /\ sending = <<>> =>
       /\ at # "environment" => \A line \in Trusted : Claims[line] \subseteq ready => Wired(line)
       /\ Wired("FreeType ready") =>
            ("FreeType" \in ready <=> ~Wired("FreeType initialization failed"))
       /\ at = "halted" =>
            \E reason \in Reasons :
              /\ Wired(reason[1]) /\ reason[2] \notin ready
              /\ \A other \in Reasons : Wired(other[1]) => other = reason

(***************************************************************************)
(* Every wait for hardware ends: a UART or a keyboard controller that does *)
(* not answer delays the kernel, but cannot hang it.                       *)
(***************************************************************************)
WaitsEnd ==
  /\ (sending # <<>>) ~> (sending = <<>>)
  /\ (at = "rebooting") ~> (at = "reset")
=============================================================================
