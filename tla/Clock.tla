-------------------------------- MODULE Clock --------------------------------
(***************************************************************************)
(* The clock of src/kernel/platform.c: the calibration of the processor's  *)
(* time stamp counter, the microseconds since platform_init, the time of   *)
(* day, and sleeping.  A uint64_t is a number below Word; all arithmetic   *)
(* wraps.                                                                  *)
(***************************************************************************)
EXTENDS Integers

CONSTANTS
  Word,      \* 2^64
  Million,   \* microseconds in a second
  Thousand,  \*   and in a millisecond
  Default,   \* the frequency of a processor that does not tell
  Cpus,      \* what cpuid says: the highest leaf, leaf 0x15, eax of leaf 0x16
  Starts,    \* values of the counter at platform_init,
  Epochs,    \*   of the boot time, in seconds,
  Sleeps,    \*   and of milliseconds to sleep
  MaxTicks   \* the counter advances so often since platform_init (a bound)

ASSUME ClockAssumption ==
  /\ Word \in Nat /\ Million \in Nat \ {0} /\ Thousand \in Nat \ {0}
  /\ Default \in 1 .. (Word - 1)
  /\ Cpus \subseteq [maximum : Nat, eax : Nat, ebx : Nat, ecx : Nat, mhz : Nat]
  /\ Starts \subseteq 0 .. (Word - 1) /\ Epochs \subseteq Nat /\ Sleeps \subseteq 0 .. (Word - 1)
  /\ MaxTicks \in 0 .. (Word - 1)

VARIABLES
  tsc,           \* the counter
  boot_tsc,
  tsc_frequency,
  boot_epoch,
  deadline,      \* of platform_sleep_ms, or Awake
  ticks,         \* history: how often the counter advanced since platform_init
  due            \* history: the microsecond at which the sleep may end

clock == <<tsc, boot_tsc, tsc_frequency, boot_epoch, deadline, ticks, due>>

Awake == -1

Uint64(n) == n % Word

InitClock ==
  /\ tsc \in Starts
  /\ boot_tsc = 0 /\ tsc_frequency = Default /\ boot_epoch = 0
  /\ deadline = Awake
  /\ ticks = 0 /\ due = 0

detect_tsc_frequency(cpu) ==
  IF cpu.maximum >= 21 /\ 0 \notin {cpu.eax, cpu.ebx, cpu.ecx}
  THEN Uint64(cpu.ecx * cpu.ebx) \div cpu.eax
  ELSE IF cpu.maximum >= 22 /\ cpu.mhz # 0 THEN Uint64(cpu.mhz * Million)
  ELSE Default

(* Mutant: a frequency that rounds to zero is taken as it is. *)
TrustsCpuid(cpu) == detect_tsc_frequency(cpu)

Calibrated(cpu) ==
  IF detect_tsc_frequency(cpu) = 0 THEN Default ELSE detect_tsc_frequency(cpu)

(* The remainder of a second, in ticks, times a million fits into 64 bits, *)
(* as at any frequency below 18 THz; and so do the microseconds of all     *)
(* ticks, as at any above 1 MHz.                                           *)
ASSUME FrequencyAssumption ==
  \A frequency \in {Default} \cup {detect_tsc_frequency(cpu) : cpu \in Cpus} :
    frequency > 0 =>
      /\ (frequency - 1) * Million < Word
      /\ MaxTicks * Million < Word * frequency

platform_init(boot_epoch_seconds) ==
  \E cpu \in Cpus :
    /\ tsc_frequency' = Calibrated(cpu)
    /\ boot_epoch' = boot_epoch_seconds
    /\ boot_tsc' = tsc
    /\ UNCHANGED <<tsc, deadline, ticks, due>>

(* Mutant: the ticks are multiplied first. *)
MultipliesFirst(counter) ==
  Uint64(Uint64(counter - boot_tsc) * Million) \div tsc_frequency

(* platform_uptime_us when the counter is at this value. *)
UptimeAt(counter) ==
  LET elapsed == Uint64(counter - boot_tsc)
      seconds == elapsed \div tsc_frequency
      remainder == elapsed % tsc_frequency IN
  Uint64(seconds * Million + Uint64(remainder * Million) \div tsc_frequency)

platform_uptime_us == UptimeAt(tsc)

platform_unix_us == Uint64(boot_epoch * Million + platform_uptime_us)

gettimeofday ==
  [tv_sec |-> platform_unix_us \div Million, tv_usec |-> platform_unix_us % Million]

(* Time passes, between any two instructions. *)
Tick ==
  /\ ticks < MaxTicks
  /\ tsc' = Uint64(tsc + 1) /\ ticks' = ticks + 1
  /\ UNCHANGED <<boot_tsc, tsc_frequency, boot_epoch, deadline, due>>

(* The whole microseconds that have passed after n ticks. *)
Microseconds(n) == (n * Million) \div tsc_frequency

platform_sleep_ms(milliseconds) ==
  /\ deadline = Awake
  /\ deadline' = Uint64(platform_uptime_us + milliseconds * Thousand)
  /\ due' = Microseconds(ticks) + milliseconds * Thousand
  /\ UNCHANGED <<tsc, boot_tsc, tsc_frequency, boot_epoch, ticks>>

(* Mutant: the comparison is the wrong way round. *)
WakesEarly ==
  /\ deadline # Awake /\ platform_uptime_us <= deadline
  /\ deadline' = Awake /\ due' = 0
  /\ UNCHANGED <<tsc, boot_tsc, tsc_frequency, boot_epoch, ticks>>

(* The loop of platform_sleep_ms ends; before, it only pauses. *)
WakeUp ==
  /\ deadline # Awake /\ platform_uptime_us >= deadline
  /\ deadline' = Awake /\ due' = 0
  /\ UNCHANGED <<tsc, boot_tsc, tsc_frequency, boot_epoch, ticks>>

-----------------------------------------------------------------------------

(***************************************************************************)
(* Whatever the processor says of itself, nothing is divided by zero; the  *)
(* uptime is exact to the microsecond, also when the counter wraps after   *)
(* the boot or the product of ticks and a million does not fit into 64     *)
(* bits; the time of day is the boot time and the uptime.                  *)
(***************************************************************************)
UptimeExact ==
  /\ tsc_frequency \in 1 .. (Word - 1)
  /\ ticks > 0 =>
       /\ platform_uptime_us = Microseconds(ticks)
       /\ boot_epoch * Million + Microseconds(ticks) < Word =>
            gettimeofday.tv_sec * Million + gettimeofday.tv_usec
              = boot_epoch * Million + Microseconds(ticks)

(***************************************************************************)
(* No sleep is shorter than asked for, to the microsecond, except one      *)
(* whose end does not fit into the clock (platform.c:220 does not          *)
(* saturate, as execution_deadline in runtime.c does).                     *)
(***************************************************************************)
SleepHonest ==
  [][deadline # Awake /\ deadline' = Awake /\ due < Word => Microseconds(ticks) >= due]_clock
=============================================================================
