------------------------------ MODULE BootProofs ------------------------------
(***************************************************************************)
(* Proofs about module Boot.  The clock, for words and counters of every   *)
(* width, processors of every frequency that FrequencyAssumption allows,   *)
(* and sleeps of every length.  The wire and the log on it, for a UART     *)
(* that loses characters or dies at any point, after any number of polls,  *)
(* and for buffers of every size.                                          *)
(***************************************************************************)
EXTENDS Boot, Induction, SequenceTheorems

-----------------------------------------------------------------------------
(* Arithmetic.                                                             *)

(* What is below a word is itself in 64 bits. *)
LEMMA Uint64Is ==
  /\ Word \in Nat \ {0, 1}
  /\ \A n \in 0 .. (Word - 1) : Uint64(n) = n
  /\ \A n \in Nat : Uint64(n) \in 0 .. (Word - 1) /\ Uint64(n) <= n
  <1>1. Word \in Nat \ {0, 1}
    BY ClockAssumption
  <1>2. ASSUME NEW n \in 0 .. (Word - 1) PROVE Uint64(n) = n
    BY <1>1 DEF Uint64
  <1>3. ASSUME NEW n \in Nat PROVE Uint64(n) \in 0 .. (Word - 1) /\ Uint64(n) <= n
    <2>1. PICK q \in Nat, r \in 0 .. (Word - 1) : n = q * Word + r /\ n % Word = r
      BY <1>1, Division
    <2>2. q * Word \in Nat
      BY <1>1
    <2> QED  BY <2>1, <2>2 DEF Uint64
  <1> QED  BY <1>1, <1>2, <1>3

(* The counter less its start is how often it advanced, though it wrapped. *)
LEMMA Elapsed ==
  ASSUME NEW b \in 0 .. (Word - 1), NEW n \in 0 .. (Word - 1)
  PROVE  /\ Uint64(Uint64(b + n) - b) = n
         /\ Uint64(Uint64(b + n) + 1) = Uint64(b + (n + 1))
  <1>1. Word \in Nat \ {0, 1}
    BY Uint64Is
  <1>2. CASE b + n < Word
    <2>1. Uint64(b + n) = b + n
      BY <1>2, Uint64Is
    <2>2. Uint64(b + n - b) = n
      BY Uint64Is
    <2>3. b + n + 1 = b + (n + 1) /\ (b + n) - b = n
      OBVIOUS
    <2> QED  BY <2>1, <2>2, <2>3, Uint64Is
  <1>3. CASE b + n >= Word
    <2> DEFINE m == b + n - Word
    <2>1. m \in 0 .. (Word - 1) /\ b + n = Word + m /\ m < n
      BY <1>1, <1>3
    <2> HIDE DEF m
    <2>2. Uint64(b + n) = m
      <3>1. (1 * Word + m) % Word = m
        BY <1>1, <2>1, DivisionUnique
      <3> QED  BY <1>1, <2>1, <3>1 DEF Uint64
    <2>3. (m - b) % Word = n
      <3>1. m - b = n - Word
        BY <1>1, <2>1
      <3>2. (n - Word) % Word = n % Word
        BY <1>1
      <3> QED  BY <3>1, <3>2, Uint64Is DEF Uint64
    <2>4. Uint64(m + 1) = Uint64(b + (n + 1))
      <3>1. b + (n + 1) = Word + (m + 1)
        BY <1>1, <2>1
      <3>2. (Word + (m + 1)) % Word = (m + 1) % Word
        BY <1>1, <2>1
      <3> QED  BY <3>1, <3>2 DEF Uint64
    <2> QED  BY <2>2, <2>3, <2>4 DEF Uint64
  <1> QED  BY <1>1, <1>2, <1>3

-----------------------------------------------------------------------------
(* The clock.                                                              *)

(* What a frequency can be. *)
Frequencies ==
  {f \in 1 .. (Word - 1) :
     (f - 1) * Million < Word /\ MaxTicks * Million < Word * f}

(* Whatever the processor says, there is a frequency. *)
LEMMA CalibratedIs ==
  ASSUME NEW cpu \in Cpus
  PROVE  Calibrated(cpu) \in Frequencies
  <1>1. /\ cpu.eax \in Nat /\ cpu.ebx \in Nat /\ cpu.ecx \in Nat /\ cpu.mhz \in Nat
        /\ Million \in Nat /\ Default \in 1 .. (Word - 1) /\ Word \in Nat
    BY ClockAssumption
  <1>2. detect_tsc_frequency(cpu) \in 0 .. (Word - 1)
    <2>1. CASE cpu.maximum >= 21 /\ 0 \notin {cpu.eax, cpu.ebx, cpu.ecx}
      <3> DEFINE product == Uint64(cpu.ecx * cpu.ebx)
      <3>1. product \in 0 .. (Word - 1) /\ product \in Nat
        BY <1>1, ProductIs, Uint64Is
      <3>2. detect_tsc_frequency(cpu) = product \div cpu.eax /\ cpu.eax \in Nat \ {0}
        BY <1>1, <2>1 DEF detect_tsc_frequency
      <3> HIDE DEF product
      <3>3. PICK q \in Nat, r \in 0 .. (cpu.eax - 1) :
               product = q * cpu.eax + r /\ product \div cpu.eax = q
        BY <3>1, <3>2, Division
      <3>4. q * cpu.eax >= q
        BY <3>2
      <3> QED  BY <1>1, <3>1, <3>2, <3>3, <3>4
    <2>2. CASE ~(cpu.maximum >= 21 /\ 0 \notin {cpu.eax, cpu.ebx, cpu.ecx})
      <3>1. cpu.mhz * Million \in Nat
        BY <1>1, ProductIs
      <3> QED  BY <1>1, <2>2, <3>1, Uint64Is DEF detect_tsc_frequency
    <2> QED  BY <2>1, <2>2
  <1>3. Calibrated(cpu) \in 1 .. (Word - 1)
    BY <1>1, <1>2 DEF Calibrated
  <1>4. Calibrated(cpu) \in {Default} \cup {detect_tsc_frequency(c) : c \in Cpus}
    BY DEF Calibrated
  <1>5. Calibrated(cpu) > 0
    BY <1>3
  <1> QED  BY <1>3, <1>4, <1>5, FrequencyAssumption DEF Frequencies

(***************************************************************************)
(* The uptime is that of the ticks: seconds and their rest, each times a   *)
(* million, are as many microseconds as all ticks times a million would be *)
(* if they fitted.                                                         *)
(***************************************************************************)
LEMMA UptimeIs ==
  ASSUME tsc_frequency \in Frequencies, boot_tsc \in 0 .. (Word - 1), ticks \in 0 .. MaxTicks,
         tsc = Uint64(boot_tsc + ticks)
  PROVE  platform_uptime_us = Microseconds(ticks) /\ Microseconds(ticks) \in 0 .. (Word - 1)
  <1> DEFINE f == tsc_frequency
             n == ticks
             M == Million
  <1>1. /\ Word \in Nat \ {0, 1} /\ M \in Nat \ {0} /\ MaxTicks \in 0 .. (Word - 1)
        /\ n \in 0 .. (Word - 1) /\ n \in Nat /\ n <= MaxTicks
    BY ClockAssumption, Uint64Is
  <1>2. f \in Nat \ {0} /\ (f - 1) * M < Word /\ MaxTicks * M < Word * f
    BY <1>1 DEF Frequencies
  <1>3. PICK q \in Nat, r \in 0 .. (f - 1) : n = q * f + r /\ n \div f = q /\ n % f = r
    BY <1>1, <1>2, Division
  <1>4. UptimeAt(tsc) = Uint64(q * M + Uint64(r * M) \div f)
    <2>1. Uint64(tsc - boot_tsc) = n
      BY <1>1, Elapsed
    <2> QED  BY <1>3, <2>1 DEF UptimeAt
  <1>5. Microseconds(n) = (n * M) \div f
    BY DEF Microseconds
  <1>6. platform_uptime_us = UptimeAt(tsc)
    BY DEF platform_uptime_us
  <1> HIDE DEF f, n, M
  <1>7. r * M \in 0 .. (Word - 1) /\ r * M \in Nat
    <2>1. r * M <= (f - 1) * M
      BY <1>1, <1>2
    <2>2. r * M \in Nat /\ (f - 1) * M \in Nat
      BY <1>1, <1>2, ProductIs
    <2> QED  BY <1>1, <1>2, <2>1, <2>2
  <1>8. PICK k \in Nat, s \in 0 .. (f - 1) : r * M = k * f + s /\ (r * M) \div f = k
    BY <1>2, <1>7, Division
  <1>9. n * M = (q * M + k) * f + s
    <2>1. n * M = q * f * M + r * M
      BY <1>1, <1>2, <1>3
    <2>2. (q * M + k) * f = q * f * M + k * f
      BY <1>1, <1>2
    <2>3. q * f * M \in Nat /\ k * f \in Nat
      BY <1>1, <1>2, ProductIs
    <2> QED  BY <1>8, <2>1, <2>2, <2>3
  <1>10. q * M + k \in Nat
    BY <1>1, ProductIs
  <1> DEFINE u == q * M + k
  <1>11. (n * M) \div f = u
    BY <1>2, <1>9, <1>10, DivisionUnique
  <1>12. u < Word
    <2>1. n * M <= MaxTicks * M
      BY <1>1
    <2>2. u * f <= n * M
      BY <1>2, <1>9, <1>10, ProductIs
    <2>3. u >= Word => u * f >= Word * f
      BY <1>1, <1>2, <1>10
    <2>4. n * M \in Nat /\ MaxTicks * M \in Nat /\ u * f \in Nat /\ Word * f \in Nat
      BY <1>1, <1>2, <1>10, ProductIs
    <2> HIDE DEF u
    <2> QED  BY <1>1, <1>2, <1>10, <2>1, <2>2, <2>3, <2>4 DEF u
  <1>13. UptimeAt(tsc) = Uint64(u)
    BY <1>4, <1>7, <1>8, Uint64Is
  <1>14. u \in 0 .. (Word - 1)
    BY <1>1, <1>10, <1>12
  <1> HIDE DEF u
  <1> QED  BY <1>5, <1>6, <1>11, <1>13, <1>14, Uint64Is DEF n

-----------------------------------------------------------------------------
(* The invariant.                                                          *)

ClockTyped ==
  /\ tsc \in 0 .. (Word - 1) /\ boot_tsc \in 0 .. (Word - 1)
  /\ tsc_frequency \in 1 .. (Word - 1) /\ boot_epoch \in Nat
  /\ ticks \in 0 .. MaxTicks /\ due \in Nat
  /\ deadline \in {Awake} \cup 0 .. (Word - 1)

(* The boot waits for no time; it is over here. *)
Late == {"shell", "rebooting", "reset"}

(* Where platform_init may not have been passed. *)
Early == {"entry", "revision", "halt", "halted"}

(* The clock of a kernel that was set up counts from then on. *)
Counts ==
  /\ at \notin Late => ticks = 0 /\ deadline = Awake
  /\ at \notin Early => tsc_frequency \in Frequencies /\ tsc = Uint64(boot_tsc + ticks)

(* A sleep ends when it may, as far as that fits into 64 bits. *)
Sleeping == deadline # Awake => deadline = Uint64(due)

(* Inductive: what the uptime and a deadline are made of. *)
ClockInv == ClockTyped /\ Counts /\ Sleeping

(* It holds at reset, *)
LEMMA ClockInitially == Init => ClockInv
  <1> SUFFICES ASSUME Init PROVE ClockInv
    OBVIOUS
  <1>1. /\ tsc \in 0 .. (Word - 1) /\ boot_tsc = 0 /\ tsc_frequency = Default
        /\ boot_epoch = 0 /\ deadline = Awake /\ ticks = 0 /\ due = 0 /\ at = "entry"
    BY ClockAssumption DEF Init, InitClock
  <1>2. /\ Word \in Nat \ {0, 1} /\ Default \in 1 .. (Word - 1) /\ MaxTicks \in Nat
    BY ClockAssumption, Uint64Is
  <1>3. ClockTyped
    BY <1>1, <1>2 DEF ClockTyped
  <1>4. Counts /\ Sleeping
    BY <1>1 DEF Counts, Sleeping, Early, Late
  <1> QED  BY <1>3, <1>4 DEF ClockInv

(* What does not touch the clock, and neither starts nor leaves the shell's life. *)
LEMMA ClockUntouched ==
  ASSUME ClockInv, UNCHANGED clock, at \in Late => at' \in Late, at \in Early => at' \in Early
  PROVE  ClockInv'
  <1>1. UNCHANGED <<tsc, boot_tsc, tsc_frequency, boot_epoch, deadline, ticks, due>>
    BY DEF clock
  <1>2. ClockTyped' /\ Sleeping'
    BY <1>1 DEF ClockInv, ClockTyped, Sleeping
  <1>3. Counts'
    BY <1>1 DEF ClockInv, Counts
  <1> QED  BY <1>2, <1>3 DEF ClockInv

(* The clock is set up, or runs. *)
LEMMA ClockSetUp == ClockInv /\ InitPlatform => ClockInv'
  <1> SUFFICES ASSUME ClockInv, InitPlatform PROVE ClockInv'
    OBVIOUS
  <1>1. PICK epoch \in Epochs \cup {0} : platform_init(epoch)
    BY DEF InitPlatform
  <1>2. PICK cpu \in Cpus :
           /\ tsc_frequency' = Calibrated(cpu) /\ boot_epoch' = epoch /\ boot_tsc' = tsc
           /\ UNCHANGED <<tsc, deadline, ticks, due>>
    BY <1>1 DEF platform_init
  <1>3. /\ at = "revision" /\ at' = "address space" /\ ticks = 0 /\ deadline = Awake
        /\ tsc \in 0 .. (Word - 1) /\ ticks \in 0 .. MaxTicks /\ due \in Nat
    BY DEF InitPlatform, Goes, ClockInv, ClockTyped, Counts, Late
  <1>4. tsc_frequency' \in Frequencies /\ tsc_frequency' \in 1 .. (Word - 1) /\ epoch \in Nat
    BY <1>2, CalibratedIs, ClockAssumption DEF Frequencies
  <1>5. tsc = Uint64(tsc + 0)
    <2>1. tsc \in 0 .. (Word - 1) /\ Word \in Int
      BY Uint64Is DEF ClockInv, ClockTyped
    <2>2. tsc + 0 = tsc
      BY <2>1
    <2>3. Uint64(tsc) = tsc
      BY <2>1, Uint64Is
    <2> QED  BY <2>2, <2>3
  <1>6. ClockTyped'
    BY <1>2, <1>3, <1>4 DEF ClockTyped
  <1>7. Counts'
    BY <1>2, <1>3, <1>4, <1>5 DEF Counts, Late, Early, Frequencies
  <1>8. Sleeping'
    BY <1>2, <1>3 DEF Sleeping
  <1> QED  BY <1>6, <1>7, <1>8 DEF ClockInv

(* Time passes, and sleeps start and end. *)
LEMMA ClockRuns == ClockInv /\ Running => ClockInv'
  <1> SUFFICES ASSUME ClockInv, Running PROVE ClockInv'
    OBVIOUS
  <1>1. /\ at = "shell" /\ at' = "shell" /\ tsc_frequency \in Frequencies
        /\ tsc = Uint64(boot_tsc + ticks) /\ tsc \in 0 .. (Word - 1)
        /\ boot_tsc \in 0 .. (Word - 1) /\ ticks \in 0 .. MaxTicks /\ due \in Nat
    BY DEF Running, InShell, boot, ClockInv, ClockTyped, Counts, Early
  <1>2. /\ Word \in Nat \ {0, 1} /\ MaxTicks \in 0 .. (Word - 1) /\ Thousand \in Nat
        /\ Sleeps \subseteq 0 .. (Word - 1)
    BY ClockAssumption, Uint64Is
  <1>3. CASE Tick
    <2>1. /\ ticks < MaxTicks /\ tsc' = Uint64(tsc + 1) /\ ticks' = ticks + 1
          /\ UNCHANGED <<boot_tsc, tsc_frequency, boot_epoch, deadline, due>>
      BY <1>3 DEF Tick
    <2>2. ticks \in 0 .. (Word - 1) /\ ticks' \in 0 .. MaxTicks /\ tsc + 1 \in Nat
      BY <1>1, <1>2, <2>1
    <2>3. tsc' = Uint64(boot_tsc' + ticks') /\ tsc' \in 0 .. (Word - 1)
      BY <1>1, <2>1, <2>2, Elapsed, Uint64Is
    <2>4. ClockTyped'
      BY <2>1, <2>2, <2>3 DEF ClockInv, ClockTyped
    <2>5. Counts'
      BY <1>1, <2>1, <2>3 DEF Counts, Late, Frequencies
    <2>6. Sleeping'
      BY <2>1 DEF ClockInv, Sleeping
    <2> QED  BY <2>4, <2>5, <2>6 DEF ClockInv
  <1>4. CASE WakeUp
    <2>1. /\ deadline' = Awake /\ due' = 0
          /\ UNCHANGED <<tsc, boot_tsc, tsc_frequency, boot_epoch, ticks>>
      BY <1>4 DEF WakeUp
    <2>2. ClockTyped'
      BY <2>1 DEF ClockInv, ClockTyped
    <2>3. Counts' /\ Sleeping'
      BY <1>1, <2>1 DEF Counts, Sleeping, Late, Frequencies
    <2> QED  BY <2>2, <2>3 DEF ClockInv
  <1>5. ASSUME NEW milliseconds \in Sleeps, platform_sleep_ms(milliseconds)
        PROVE  ClockInv'
    <2>1. /\ deadline' = Uint64(platform_uptime_us + milliseconds * Thousand)
          /\ due' = Microseconds(ticks) + milliseconds * Thousand
          /\ UNCHANGED <<tsc, boot_tsc, tsc_frequency, boot_epoch, ticks>>
      BY <1>5 DEF platform_sleep_ms
    <2>2. platform_uptime_us = Microseconds(ticks) /\ Microseconds(ticks) \in Nat
      BY <1>1, UptimeIs
    <2>3. milliseconds * Thousand \in Nat
      BY <1>2, ProductIs
    <2>4. due' \in Nat /\ deadline' = Uint64(due') /\ deadline' \in 0 .. (Word - 1)
      BY <2>1, <2>2, <2>3, Uint64Is
    <2>5. ClockTyped'
      BY <2>1, <2>4 DEF ClockInv, ClockTyped
    <2>6. Counts'
      BY <1>1, <2>1 DEF Counts, Late, Frequencies
    <2>7. Sleeping'
      BY <2>4 DEF Sleeping
    <2> QED  BY <2>5, <2>6, <2>7 DEF ClockInv
  <1> QED  BY <1>3, <1>4, <1>5 DEF Running

(* All that does not touch the clock. *)
LEMMA ClockRests ==
  ASSUME [Next]_vars, ~InitPlatform, ~Running
  PROVE  /\ UNCHANGED clock
         /\ at \in Late => at' \in Late
         /\ at \in Early => at' \in Early
  <1>1. CASE Entry \/ Unsupported \/ ConfigureAddressSpace \/ InitHeap \/ NoHeap
             \/ platform_run_constructors
    BY <1>1 DEF Entry, Unsupported, ConfigureAddressSpace, InitHeap, NoHeap,
                platform_run_constructors, Goes, Late, Early
  <1>2. CASE InitFramebuffer \/ InitFont \/ FontDone \/ ScriptsSucceed \/ ScriptsFail \/ EnterShell
    BY <1>2 DEF InitFramebuffer, InitFont, FontDone, ScriptsSucceed, ScriptsFail, EnterShell,
                Goes, Late, Early
  <1>3. CASE Dying \/ platform_halt \/ platform_reboot
    BY <1>3 DEF Dying, platform_halt, platform_reboot, InShell, Goes, Late, Early
  <1>4. CASE Transmit \/ Handover \/ PollController
    BY <1>4 DEF Transmit, Handover, PollController, boot, Late, Early
  <1>5. CASE UNCHANGED vars
    BY <1>5 DEF vars, clock
  <1> QED  BY <1>1, <1>2, <1>3, <1>4, <1>5 DEF Next, kmain

(* Every step keeps it, *)
LEMMA ClockStep == ClockInv /\ [Next]_vars => ClockInv'
  BY ClockSetUp, ClockRuns, ClockRests, ClockUntouched

(* and so it always holds. *)
LEMMA ClockAlways == Spec => []ClockInv
  BY ClockInitially, ClockStep, PTL DEF Spec

-----------------------------------------------------------------------------

(***************************************************************************)
(* The uptime is exact through every wrap, the time of day follows from    *)
(* it, and no frequency is zero: of detect_tsc_frequency and               *)
(* platform_uptime_us.                                                     *)
(***************************************************************************)
THEOREM UptimeIsExact == Spec => []UptimeExact
  <1>1. ASSUME ClockInv PROVE UptimeExact
    <2>1. tsc_frequency \in 1 .. (Word - 1)
      BY <1>1 DEF ClockInv, ClockTyped
    <2>2. ASSUME ticks > 0
          PROVE  /\ platform_uptime_us = Microseconds(ticks)
                 /\ boot_epoch * Million + Microseconds(ticks) < Word =>
                      gettimeofday.tv_sec * Million + gettimeofday.tv_usec
                        = boot_epoch * Million + Microseconds(ticks)
      <3>1. /\ platform_uptime_us = Microseconds(ticks)
            /\ Microseconds(ticks) \in Nat
        <4>1. at \in Late
          BY <1>1, <2>2 DEF ClockInv, Counts
        <4>2. tsc_frequency \in Frequencies /\ tsc = Uint64(boot_tsc + ticks)
          BY <1>1, <4>1 DEF ClockInv, Counts, Late, Early
        <4> QED  BY <1>1, <4>2, UptimeIs DEF ClockInv, ClockTyped
      <3>2. ASSUME boot_epoch * Million + Microseconds(ticks) < Word
            PROVE  gettimeofday.tv_sec * Million + gettimeofday.tv_usec
                     = boot_epoch * Million + Microseconds(ticks)
        <4> DEFINE now == boot_epoch * Million + Microseconds(ticks)
        <4>1. boot_epoch \in Nat /\ Million \in Nat \ {0}
          BY <1>1, ClockAssumption DEF ClockInv, ClockTyped
        <4>2. now \in 0 .. (Word - 1) /\ now \in Nat
          BY <3>1, <3>2, <4>1, ProductIs, Uint64Is
        <4>3. platform_unix_us = now
          BY <3>1, <4>2, Uint64Is DEF platform_unix_us
        <4> HIDE DEF now
        <4>4. PICK q \in Nat, r \in 0 .. (Million - 1) :
                 now = q * Million + r /\ now \div Million = q /\ now % Million = r
          BY <4>1, <4>2, Division
        <4>5. gettimeofday.tv_sec = q /\ gettimeofday.tv_usec = r
          BY <4>3, <4>4 DEF gettimeofday
        <4> QED  BY <4>4, <4>5 DEF now
      <3> QED  BY <3>1, <3>2
    <2> QED  BY <2>1, <2>2 DEF UptimeExact
  <1> QED  BY <1>1, ClockAlways, PTL

(***************************************************************************)
(* No sleep whose end fits into the clock is too short: of                 *)
(* platform_sleep_ms.                                                      *)
(***************************************************************************)
THEOREM SleepsAreHonest == Spec => SleepHonest
  <1> DEFINE Honest == deadline # Awake /\ deadline' = Awake /\ due < Word
                         => Microseconds(ticks) >= due
  <1>1. ASSUME ClockInv, [Next]_vars PROVE [Honest]_clock
    <2> SUFFICES ASSUME deadline # Awake, deadline' = Awake, due < Word
                 PROVE  Microseconds(ticks) >= due
      OBVIOUS
    <2>1. at \in Late /\ due \in Nat /\ deadline = Uint64(due)
      BY <1>1 DEF ClockInv, ClockTyped, Counts, Sleeping
    <2>2. deadline = due
      BY <2>1, Uint64Is
    <2>3. platform_uptime_us = Microseconds(ticks)
      <3>1. tsc_frequency \in Frequencies /\ tsc = Uint64(boot_tsc + ticks)
        BY <1>1, <2>1 DEF ClockInv, Counts, Late, Early
      <3> QED  BY <1>1, <3>1, UptimeIs DEF ClockInv, ClockTyped
    <2>4. ~InitPlatform
      BY <2>1 DEF InitPlatform, Goes, Late
    <2>5. Running
      BY <1>1, <2>4, ClockRests DEF clock
    <2>6. WakeUp
      <3>1. ~Tick
        BY DEF Tick
      <3>2. \A milliseconds \in Sleeps : ~platform_sleep_ms(milliseconds)
        BY DEF platform_sleep_ms
      <3> QED  BY <2>5, <3>1, <3>2 DEF Running
    <2> QED  BY <2>2, <2>3, <2>6 DEF WakeUp
  <1> QED  BY <1>1, ClockAlways, PTL DEF Spec, SleepHonest

-----------------------------------------------------------------------------
(* What a text is encoded as.                                              *)

(* f is what FlattenSeq makes of the first n sequences of seqs, one by one. *)
Flattens(seqs, n, f) ==
  f = [i \in 1 .. n |-> IF i = 1 THEN seqs[i] ELSE f[i - 1] \o seqs[i]]

(* The first n of them are the same. *)
Agree(a, b, n) == \A i \in 1 .. n : a[i] = b[i]

(* How it does. *)
LEMMA FlattensAt ==
  ASSUME NEW seqs, NEW n, NEW f, Flattens(seqs, n, f), NEW i \in 1 .. n
  PROVE  f[i] = IF i = 1 THEN seqs[i] ELSE f[i - 1] \o seqs[i]
  BY DEF Flattens

(* There is such a function for all sequences. *)
LEMMA FlattensExist ==
  ASSUME NEW seqs
  PROVE  \A n \in Nat : \E f : Flattens(seqs, n, f)
  <1> DEFINE C == {n \in Nat : \E f : Flattens(seqs, n, f)}
  <1>1. ASSUME NEW n \in Nat, \A m \in Nat : m < n => m \in C
        PROVE  n \in C
    <2>1. CASE n = 0
      <3> DEFINE f == [i \in 1 .. 0 |-> seqs[i]]
      <3>1. Flattens(seqs, n, f)
        BY <2>1 DEF Flattens
      <3> QED  BY <3>1
    <2>2. CASE n # 0
      <3>1. n - 1 \in C
        BY <1>1, <2>2
      <3>2. PICK g : Flattens(seqs, n - 1, g)
        BY <3>1
      <3> DEFINE f == [i \in 1 .. n |-> IF i < n THEN g[i]
                                        ELSE IF i = 1 THEN seqs[i] ELSE g[i - 1] \o seqs[i]]
      <3>3. \A i \in 1 .. (n - 1) : f[i] = g[i]
        OBVIOUS
      <3>4. ASSUME NEW i \in 1 .. n
            PROVE  f[i] = IF i = 1 THEN seqs[i] ELSE f[i - 1] \o seqs[i]
        <4>1. i # 1 => f[i - 1] = g[i - 1]
          BY <3>3
        <4>2. CASE i = n
          BY <4>1, <4>2
        <4>3. CASE i # n
          <5>1. i \in 1 .. (n - 1)
            BY <4>3
          <5>2. f[i] = g[i] /\ g[i] = IF i = 1 THEN seqs[i] ELSE g[i - 1] \o seqs[i]
            BY <3>2, <3>3, <5>1, FlattensAt
          <5> QED  BY <4>1, <5>2
        <4> QED  BY <4>2, <4>3
      <3>5. f = [i \in 1 .. n |-> f[i]]
        OBVIOUS
      <3> HIDE DEF f
      <3>6. Flattens(seqs, n, f)
        BY <3>4, <3>5 DEF Flattens
      <3> QED  BY <3>6
    <2> QED  BY <2>1, <2>2
  <1> HIDE DEF C
  <1>2. \A n \in Nat : n \in C
    BY <1>1, NumberInduction
  <1> QED  BY <1>2 DEF C

(* It only depends on those sequences. *)
LEMMA FlattensAgree ==
  ASSUME NEW a, NEW b, NEW n \in Nat, NEW m \in Nat, m <= n, NEW f, NEW g,
         Flattens(a, n, f), Flattens(b, m, g), \A i \in 1 .. m : a[i] = b[i]
  PROVE  \A i \in 1 .. m : f[i] = g[i]
  <1> DEFINE C == {i \in Nat : i \in 1 .. m => f[i] = g[i]}
  <1>1. ASSUME NEW i \in Nat, \A j \in Nat : j < i => j \in C
        PROVE  i \in C
    <2> SUFFICES ASSUME i \in 1 .. m PROVE f[i] = g[i]
      OBVIOUS
    <2>1. /\ f[i] = IF i = 1 THEN a[i] ELSE f[i - 1] \o a[i]
          /\ g[i] = IF i = 1 THEN b[i] ELSE g[i - 1] \o b[i]
      <3>1. i \in 1 .. n
        OBVIOUS
      <3> QED  BY <3>1, FlattensAt
    <2>2. i # 1 => f[i - 1] = g[i - 1]
      BY <1>1
    <2> QED  BY <2>1, <2>2
  <1> HIDE DEF C
  <1>2. \A i \in Nat : i \in C
    BY <1>1, NumberInduction
  <1> QED  BY <1>2 DEF C

(* With a sequence more. *)
LEMMA FlattensOneMore ==
  ASSUME NEW a, NEW b, NEW n \in Nat, NEW m \in Nat, m = n + 1,
         NEW f, NEW g, Flattens(a, n, f), Flattens(b, m, g), Agree(b, a, n)
  PROVE  g[m] = IF n = 0 THEN b[m] ELSE f[n] \o b[m]
  <1>1. m \in 1 .. m /\ (m = 1 <=> n = 0) /\ m - 1 = n /\ n <= m
    OBVIOUS
  <1>2. g[m] = IF m = 1 THEN b[m] ELSE g[m - 1] \o b[m]
    BY <1>1, FlattensAt
  <1>3. n # 0 => g[n] = f[n]
    <2>1. \A i \in 1 .. n : g[i] = f[i]
      BY <1>1, FlattensAgree DEF Agree
    <2> QED  BY <2>1
  <1> QED  BY <1>1, <1>2, <1>3

(* FlattenSeq takes such a function. *)
LEMMA FlattenIs ==
  ASSUME NEW seqs, Len(seqs) \in Nat
  PROVE  \E f : /\ Flattens(seqs, Len(seqs), f)
                /\ FlattenSeq(seqs) = IF Len(seqs) = 0 THEN seqs ELSE f[Len(seqs)]
  <1> DEFINE f == CHOOSE h : Flattens(seqs, Len(seqs), h)
  <1>1. Flattens(seqs, Len(seqs), f)
    BY FlattensExist
  <1>2. FlattenSeq(seqs) = IF Len(seqs) = 0 THEN seqs ELSE f[Len(seqs)]
    BY DEF FlattenSeq, Flattens
  <1> QED  BY <1>1, <1>2

(* FlattenSeq with a sequence more. *)
LEMMA FlattenAppend ==
  ASSUME NEW S, NEW seqs \in Seq(Seq(S)), NEW x \in Seq(S)
  PROVE  FlattenSeq(Append(seqs, x)) = IF seqs = <<>> THEN x ELSE FlattenSeq(seqs) \o x
  <1> DEFINE n == Len(seqs)
             more == Append(seqs, x)
             m == Len(more)
  <1>1. /\ n \in Nat /\ m \in Nat /\ m = n + 1 /\ more[m] = x
        /\ \A i \in 1 .. n : more[i] = seqs[i]
    BY AppendProperties, LenProperties
  <1>2. seqs = <<>> <=> n = 0
    BY EmptySeq
  <1>3. PICK f : /\ Flattens(seqs, n, f)
                 /\ FlattenSeq(seqs) = IF n = 0 THEN seqs ELSE f[n]
    BY <1>1, FlattenIs
  <1>4. PICK g : /\ Flattens(more, m, g)
                 /\ FlattenSeq(more) = IF m = 0 THEN more ELSE g[m]
    <2> HIDE DEF more
    <2> QED  BY <1>1, FlattenIs
  <1> HIDE DEF n, more, m
  <1>5. g[m] = IF n = 0 THEN more[m] ELSE f[n] \o more[m]
    <2>1. Flattens(seqs, n, f)
      BY <1>3
    <2>2. Flattens(more, m, g)
      BY <1>4
    <2>3. n \in Nat /\ m \in Nat /\ m = n + 1
      BY <1>1
    <2>4. Agree(more, seqs, n)
      BY <1>1 DEF Agree
    <2> QED  BY <2>1, <2>2, <2>3, <2>4, FlattensOneMore
  <1> QED  BY <1>1, <1>2, <1>3, <1>4, <1>5 DEF more

(* Induction on sequences, with a set in the place of a predicate.         *)
LEMMA SequenceInduction ==
  ASSUME NEW S, NEW C, <<>> \in C, \A s \in Seq(S), c \in S : s \in C => Append(s, c) \in C
  PROVE  \A s \in Seq(S) : s \in C
  <1> DEFINE Lengths == {n \in Nat : \A s \in Seq(S) : Len(s) = n => s \in C}
  <1>1. ASSUME NEW n \in Nat, \A m \in Nat : m < n => m \in Lengths
        PROVE  n \in Lengths
    <2> SUFFICES ASSUME NEW s \in Seq(S), Len(s) = n PROVE s \in C
      OBVIOUS
    <2>1. CASE s = <<>>
      BY <2>1
    <2>2. CASE s # <<>>
      <3>1. PICK t \in Seq(S), c \in S : s = Append(t, c)
        BY <2>2, SequenceEmptyOrAppend
      <3>2. Len(t) \in Nat /\ Len(t) < n
        BY <3>1, AppendProperties, LenProperties
      <3>3. t \in C
        BY <1>1, <3>2
      <3> QED  BY <3>1, <3>3
    <2> QED  BY <2>1, <2>2
  <1> HIDE DEF Lengths
  <1>2. \A n \in Nat : n \in Lengths
    BY <1>1, NumberInduction
  <1> QED  BY <1>2, LenProperties DEF Lengths

(* What is put for a character. *)
Code(c) == IF c = LF THEN <<CR, LF>> ELSE <<c>>

(* A text is put character by character. *)
LEMMA EncodedAppend ==
  ASSUME NEW S, LF \in S, CR \in S, NEW s \in Seq(S), NEW c \in S
  PROVE  Encoded(Append(s, c)) = IF s = <<>> THEN Code(c) ELSE Encoded(s) \o Code(c)
  <1> DEFINE coded == [i \in DOMAIN s |-> Code(s[i])]
             more == Append(s, c)
             codedmore == [i \in DOMAIN more |-> Code(more[i])]
  <1>1. Encoded(s) = FlattenSeq(coded) /\ Encoded(more) = FlattenSeq(codedmore)
    BY DEF Encoded, Code
  <1>2. /\ Len(s) \in Nat /\ DOMAIN s = 1 .. Len(s) /\ more \in Seq(S)
        /\ Len(more) = Len(s) + 1 /\ DOMAIN more = 1 .. Len(more) /\ more[Len(s) + 1] = c
        /\ \A i \in 1 .. Len(s) : more[i] = s[i] /\ s[i] \in S
    BY AppendProperties, LenProperties, ElementOfSeq
  <1>3. \A d \in S : Code(d) \in Seq(S)
    BY DEF Code
  <1>4. coded \in Seq(Seq(S)) /\ Len(coded) = Len(s) /\ \A i \in 1 .. Len(s) : coded[i] = Code(s[i])
    <2>1. \A i \in 1 .. Len(s) : Code(s[i]) \in Seq(S)
      BY <1>2, <1>3
    <2> QED  BY <1>2, <2>1
  <1>5. codedmore = Append(coded, Code(c))
    <2>1. /\ codedmore \in Seq(Seq(S)) /\ Len(codedmore) = Len(s) + 1
          /\ \A i \in 1 .. (Len(s) + 1) : codedmore[i] = Code(more[i])
      <3>1. \A i \in 1 .. (Len(s) + 1) : more[i] \in S
        BY <1>2
      <3>2. \A i \in 1 .. (Len(s) + 1) : Code(more[i]) \in Seq(S)
        BY <1>3, <3>1
      <3> QED  BY <1>2, <3>2
    <2> DEFINE other == Append(coded, Code(c))
    <2>2. /\ other \in Seq(Seq(S)) /\ Len(other) = Len(s) + 1
          /\ other[Len(s) + 1] = Code(c)
          /\ \A i \in 1 .. Len(s) : other[i] = coded[i]
      BY <1>3, <1>4, AppendProperties
    <2> HIDE DEF other, codedmore, coded
    <2>3. \A i \in 1 .. (Len(s) + 1) : codedmore[i] = other[i]
      <3> SUFFICES ASSUME NEW i \in 1 .. (Len(s) + 1) PROVE codedmore[i] = other[i]
        OBVIOUS
      <3>1. i = Len(s) + 1 \/ i \in 1 .. Len(s)
        BY <1>2
      <3> QED  BY <1>2, <1>4, <2>1, <2>2, <3>1
    <2>4. codedmore = other
      BY <2>1, <2>2, <2>3, SeqEqual
    <2> QED  BY <2>4 DEF other
  <1>6. coded = <<>> <=> s = <<>>
    BY <1>4, EmptySeq
  <1> HIDE DEF coded, more, codedmore
  <1> QED  BY <1>1, <1>3, <1>4, <1>5, <1>6, FlattenAppend DEF more

(* Nothing is put for nothing. *)
LEMMA EncodedNothing == Encoded(<<>>) = <<>>
  <1> DEFINE coded == [i \in DOMAIN <<>> |-> Code(<<>>[i])]
  <1>1. Encoded(<<>>) = FlattenSeq(coded)
    BY DEF Encoded, Code
  <1>2. coded = <<>>
    OBVIOUS
  <1> HIDE DEF coded
  <1>3. FlattenSeq(coded) = coded
    BY <1>2, EmptySeq DEF FlattenSeq
  <1> QED  BY <1>1, <1>2, <1>3

(* All that kmain and what it calls say, and what is put for it.           *)
Words ==
  {"booting", "unsupported", "platform ready", "display probe complete", "heap ready",
   "unable to initialize kernel heap", "C++ runtime ready", "framebuffer ready",
   "FreeType initialization failed", "FreeType ready", "exception", "JavaScript boot failed",
   "JavaScript environment ready", "abort()", "exit()", "assertion failed", "expression",
   "place", LF}
Symbols == Words \cup {CR}

(* A return is no part of a text. *)
LEMMA WordsAre == LF \in Words /\ CR \notin Words /\ Words \subseteq Symbols /\ CR \in Symbols
  BY DEF Words, Symbols, LF, CR

(* A text is put character by character, a line feed after a return.       *)
LEMMA EncodedMore ==
  ASSUME NEW s \in Seq(Words), Encoded(s) \in Seq(Symbols), NEW c \in Words
  PROVE  Encoded(Append(s, c)) = IF c = LF THEN Append(Append(Encoded(s), CR), LF)
                                 ELSE Append(Encoded(s), c)
  <1>1. s \in Seq(Symbols) /\ c \in Symbols /\ LF \in Symbols /\ CR \in Symbols
    BY WordsAre, SeqMonotonic
  <1>2. Code(c) \in Seq(Symbols)
    BY <1>1 DEF Code
  <1>3. Encoded(Append(s, c)) = Encoded(s) \o Code(c)
    <2>1. CASE s = <<>>
      <3>1. Encoded(s) = <<>>
        BY <2>1, EncodedNothing
      <3>2. Encoded(Append(s, c)) = Code(c)
        BY <1>1, <2>1, EncodedAppend
      <3> QED  BY <1>2, <3>1, <3>2, ConcatEmptySeq
    <2>2. CASE s # <<>>
      BY <1>1, <2>2, EncodedAppend
    <2> QED  BY <2>1, <2>2
  <1>4. CASE c # LF
    <2>1. Code(c) = <<c>>
      BY <1>4 DEF Code
    <2> QED  BY <1>1, <1>3, <1>4, <2>1, AppendIsConcat
  <1>5. CASE c = LF
    <2>1. Code(c) = <<CR>> \o <<LF>>
      BY <1>5 DEF Code
    <2>2. <<CR>> \in Seq(Symbols) /\ <<LF>> \in Seq(Symbols)
      BY <1>1
    <2>3. Append(Encoded(s), CR) = Encoded(s) \o <<CR>> /\ Append(Encoded(s), CR) \in Seq(Symbols)
      BY <1>1, AppendIsConcat, AppendProperties
    <2>4. Append(Append(Encoded(s), CR), LF) = (Encoded(s) \o <<CR>>) \o <<LF>>
      BY <1>1, <2>3, AppendIsConcat
    <2> QED  BY <1>3, <1>5, <2>1, <2>2, <2>4, ConcatAssociative
  <1> QED  BY <1>4, <1>5

(* What is put is characters. *)
LEMMA EncodedIs == \A s \in Seq(Words) : Encoded(s) \in Seq(Symbols)
  <1> DEFINE C == {s \in Seq(Words) : Encoded(s) \in Seq(Symbols)}
  <1>1. <<>> \in C
    <2>1. <<>> \in Seq(Words) /\ <<>> \in Seq(Symbols)
      BY EmptySeq
    <2> QED  BY <2>1, EncodedNothing
  <1>2. ASSUME NEW s \in Seq(Words), NEW c \in Words, s \in C
        PROVE  Append(s, c) \in C
    <2>1. Append(s, c) \in Seq(Words)
      BY AppendProperties
    <2>2. Encoded(Append(s, c)) \in Seq(Symbols)
      <3> DEFINE e == Encoded(s)
      <3>1. e \in Seq(Symbols) /\ c \in Symbols /\ CR \in Symbols /\ LF \in Symbols
        BY <1>2, WordsAre
      <3>2. Encoded(Append(s, c)) = IF c = LF THEN Append(Append(e, CR), LF) ELSE Append(e, c)
        BY <1>2, EncodedMore
      <3> HIDE DEF e
      <3>3. Append(e, CR) \in Seq(Symbols) /\ Append(e, c) \in Seq(Symbols)
        BY <3>1, AppendProperties
      <3>4. Append(Append(e, CR), LF) \in Seq(Symbols)
        BY <3>1, <3>3, AppendProperties
      <3> QED  BY <3>2, <3>3, <3>4
    <2> QED  BY <2>1, <2>2
  <1> HIDE DEF C
  <1>3. \A s \in Seq(Words) : s \in C
    BY <1>1, <1>2, SequenceInduction
  <1> QED  BY <1>3 DEF C

(* Two texts are put one after the other. *)
LEMMA EncodedConcat ==
  ASSUME NEW s \in Seq(Words)
  PROVE  \A t \in Seq(Words) : Encoded(s \o t) = Encoded(s) \o Encoded(t)
  <1> DEFINE C == {t \in Seq(Words) : Encoded(s \o t) = Encoded(s) \o Encoded(t)}
  <1>1. <<>> \in C
    <2>1. <<>> \in Seq(Words) /\ s \o <<>> = s /\ Encoded(s) \o <<>> = Encoded(s)
      BY EmptySeq, EncodedIs, ConcatEmptySeq
    <2> QED  BY <2>1, EncodedNothing
  <1>2. ASSUME NEW t \in Seq(Words), NEW c \in Words, t \in C
        PROVE  Append(t, c) \in C
    <2> DEFINE es == Encoded(s)
               et == Encoded(t)
    <2>1. Append(t, c) \in Seq(Words) /\ s \o t \in Seq(Words)
      BY AppendProperties, ConcatProperties
    <2>2. s \o Append(t, c) = Append(s \o t, c)
      <3>1. <<c>> \in Seq(Words)
        OBVIOUS
      <3>2. Append(t, c) = t \o <<c>> /\ Append(s \o t, c) = (s \o t) \o <<c>>
        BY <2>1, AppendIsConcat
      <3> QED  BY <3>1, <3>2, ConcatAssociative
    <2>3. es \in Seq(Symbols) /\ et \in Seq(Symbols) /\ Encoded(s \o t) = es \o et
          /\ Encoded(s \o t) \in Seq(Symbols) /\ c \in Symbols /\ CR \in Symbols /\ LF \in Symbols
      BY <1>2, <2>1, EncodedIs, WordsAre
    <2>4. \A d \in Symbols : \A u \in Seq(Symbols) :
             /\ Append(u, d) \in Seq(Symbols)
             /\ Append(es \o u, d) = es \o Append(u, d) /\ es \o u \in Seq(Symbols)
      <3> SUFFICES ASSUME NEW d \in Symbols, NEW u \in Seq(Symbols)
                   PROVE  /\ Append(u, d) \in Seq(Symbols)
                          /\ Append(es \o u, d) = es \o Append(u, d) /\ es \o u \in Seq(Symbols)
        OBVIOUS
      <3> HIDE DEF es
      <3>1. <<d>> \in Seq(Symbols) /\ es \o u \in Seq(Symbols) /\ Append(u, d) \in Seq(Symbols)
        BY <2>3, ConcatProperties, AppendProperties
      <3>2. Append(u, d) = u \o <<d>> /\ Append(es \o u, d) = (es \o u) \o <<d>>
        BY <3>1, AppendIsConcat
      <3> QED  BY <2>3, <3>1, <3>2, ConcatAssociative
    <2>5. Encoded(Append(t, c)) = IF c = LF THEN Append(Append(et, CR), LF) ELSE Append(et, c)
      BY <2>3, EncodedMore
    <2>6. Encoded(Append(s \o t, c)) = IF c = LF THEN Append(Append(es \o et, CR), LF)
                                       ELSE Append(es \o et, c)
      BY <2>1, <2>3, EncodedMore
    <2> HIDE DEF es, et
    <2>7. Append(Append(es \o et, CR), LF) = es \o Append(Append(et, CR), LF)
      BY <2>3, <2>4
    <2>8. Encoded(s \o Append(t, c)) = es \o Encoded(Append(t, c))
      BY <2>2, <2>3, <2>4, <2>5, <2>6, <2>7
    <2> QED  BY <2>1, <2>8 DEF es
  <1> HIDE DEF C
  <1>3. \A t \in Seq(Words) : t \in C
    BY <1>1, <1>2, SequenceInduction
  <1> QED  BY <1>3 DEF C

-----------------------------------------------------------------------------
(* Parts of sequences.                                                     *)

(* A character more, at a place more or at none. *)
LEMMA PartAtAppend ==
  ASSUME NEW S, NEW part \in Seq(S), NEW whole \in Seq(S), NEW c \in S,
         NEW places \in SUBSET (1 .. Len(whole)), PartAt(part, whole, places)
  PROVE  /\ PartAt(part, Append(whole, c), places)
         /\ PartAt(Append(part, c), Append(whole, c), places \cup {Len(whole) + 1})
  <1> DEFINE n == Len(whole)
             more == Append(whole, c)
             longer == Append(part, c)
             P == places \cup {n + 1}
  <1>1. /\ n \in Nat /\ Len(part) \in Nat /\ Len(longer) = Len(part) + 1
        /\ more[n + 1] = c /\ \A i \in 1 .. n : more[i] = whole[i]
        /\ longer[Len(part) + 1] = c /\ \A i \in 1 .. Len(part) : longer[i] = part[i]
    BY AppendProperties, LenProperties
  <1>2. /\ \A s \in SUBSET (1 .. n) : IsFiniteSet(s) /\ Cardinality(s) \in Nat
        /\ \A s, t \in SUBSET (1 .. n) : s \subseteq t => Cardinality(s) <= Cardinality(t)
    <2>1. IsFiniteSet(1 .. n)
      BY <1>1, FS_Interval
    <2>2. \A s \in SUBSET (1 .. n) : IsFiniteSet(s) /\ Cardinality(s) \in Nat
      BY <2>1, FS_Subset, FS_CardinalityType
    <2> QED  BY <2>2, FS_Subset
  <1>3. ASSUME NEW i \in places
        PROVE  Cardinality({j \in places : j <= i}) \in 1 .. Len(part)
    <2> DEFINE before == {j \in places : j <= i}
    <2>1. before \in SUBSET (1 .. n) /\ before \subseteq places /\ i \in before
      <3>1. i \in 1 .. n /\ i <= i
        BY <1>1
      <3> QED  BY <3>1
    <2> HIDE DEF before
    <2>2. Cardinality(before) # 0
      BY <1>2, <2>1, FS_EmptySet
    <2>3. Cardinality(before) <= Cardinality(places) /\ Cardinality(places) = Len(part)
      BY <1>2, <2>1 DEF PartAt
    <2> QED  BY <1>1, <1>2, <2>1, <2>2, <2>3 DEF before
  <1>4. PartAt(part, more, places)
    <2>1. \A i \in places : more[i] = whole[i]
      BY <1>1
    <2> HIDE DEF more
    <2> QED  BY <2>1 DEF PartAt
  <1>5. PartAt(longer, more, P)
    <2>1. Len(longer) = Cardinality(P)
      <3>1. n + 1 \notin places
        BY <1>1
      <3>2. Cardinality(P) = Cardinality(places) + 1
        BY <1>2, <3>1, FS_AddElement
      <3> QED  BY <1>1, <3>2 DEF PartAt
    <2>2. ASSUME NEW i \in places
          PROVE  longer[Cardinality({j \in P : j <= i})] = more[i]
      <3>1. {j \in P : j <= i} = {j \in places : j <= i}
        BY <1>1
      <3>2. longer[Cardinality({j \in places : j <= i})] = part[Cardinality({j \in places : j <= i})]
        <4> DEFINE k == Cardinality({j \in places : j <= i})
        <4>1. k \in 1 .. Len(part)
          BY <1>3
        <4> HIDE DEF k, longer
        <4> QED  BY <1>1, <4>1 DEF k
      <3>3. part[Cardinality({j \in places : j <= i})] = whole[i] /\ more[i] = whole[i]
        BY <1>1 DEF PartAt
      <3> QED  BY <3>1, <3>2, <3>3
    <2>3. longer[Cardinality({j \in P : j <= n + 1})] = more[n + 1]
      <3>1. {j \in P : j <= n + 1} = P
        <4>1. \A j \in P : j <= n + 1
          BY <1>1
        <4> HIDE DEF P
        <4> QED  BY <4>1
      <3>2. longer[Len(longer)] = c
        BY <1>1
      <3> QED  BY <1>1, <2>1, <3>1, <3>2
    <2> HIDE DEF longer, more
    <2> QED  BY <2>1, <2>2, <2>3 DEF PartAt
  <1> QED  BY <1>4, <1>5

(* What is not a return; that a return comes before each line feed; that a *)
(* character occurs.                                                       *)
Solid(text) == {i \in DOMAIN text : text[i] # CR}
ReturnsFirst(text) == \A i \in DOMAIN text : text[i] = LF => i > 1 /\ text[i - 1] = CR
Occurs(x, text) == \E i \in DOMAIN text : text[i] = x

(* What a character more makes of that. *)
LEMMA PutAppend ==
  ASSUME NEW text \in Seq(Symbols), NEW c \in Symbols
  PROVE  /\ Append(text, c) \in Seq(Symbols)
         /\ Solid(text) \in SUBSET (1 .. Len(text))
         /\ Solid(Append(text, c)) = IF c = CR THEN Solid(text) ELSE Solid(text) \cup {Len(text) + 1}
         /\ \A x : Occurs(x, Append(text, c)) <=> Occurs(x, text) \/ x = c
         /\ ReturnsFirst(text) /\ (c = LF => Len(text) > 0 /\ text[Len(text)] = CR)
              => ReturnsFirst(Append(text, c))
  <1> DEFINE n == Len(text)
             more == Append(text, c)
  <1>1. /\ n \in Nat /\ DOMAIN text = 1 .. n /\ DOMAIN more = 1 .. (n + 1)
        /\ more \in Seq(Symbols) /\ more[n + 1] = c /\ \A i \in 1 .. n : more[i] = text[i]
    BY AppendProperties, LenProperties
  <1>2. \A i : i \in 1 .. (n + 1) <=> i \in 1 .. n \/ i = n + 1
    BY <1>1
  <1>3. n + 1 \notin 1 .. n
    BY <1>1
  <1> HIDE DEF more
  <1>4. Solid(text) \in SUBSET (1 .. n)
    BY <1>1 DEF Solid
  <1>5. Solid(more) = IF c = CR THEN Solid(text) ELSE Solid(text) \cup {n + 1}
    BY <1>1, <1>2, <1>3 DEF Solid
  <1>6. \A x : Occurs(x, more) <=> Occurs(x, text) \/ x = c
    BY <1>1, <1>2 DEF Occurs
  <1>7. ASSUME ReturnsFirst(text), c = LF => n > 0 /\ text[n] = CR
        PROVE  ReturnsFirst(more)
    <2> SUFFICES ASSUME NEW i \in 1 .. (n + 1), more[i] = LF
                 PROVE  i > 1 /\ more[i - 1] = CR
      BY <1>1 DEF ReturnsFirst
    <2>1. CASE i \in 1 .. n
      <3>1. i > 1 /\ text[i - 1] = CR
        BY <1>1, <1>7, <2>1 DEF ReturnsFirst
      <3> QED  BY <1>1, <2>1, <3>1
    <2>2. CASE i = n + 1
      <3>1. n > 0 /\ text[n] = CR
        BY <1>1, <1>7, <2>2
      <3> QED  BY <1>1, <2>2, <3>1
    <2> QED  BY <1>2, <2>1, <2>2
  <1> QED  BY <1>1, <1>4, <1>5, <1>6, <1>7 DEF more

(***************************************************************************)
(* What is put for a text: returns before line feeds, and the text itself  *)
(* between the returns.                                                    *)
(***************************************************************************)
LEMMA EncodedShape ==
  \A s \in Seq(Words) :
    /\ ReturnsFirst(Encoded(s))
    /\ PartAt(s, Encoded(s), Solid(Encoded(s)))
    /\ \A x \in Words \ {LF} : Occurs(x, Encoded(s)) <=> Occurs(x, s)
  <1> DEFINE C == {s \in Seq(Words) :
                     /\ ReturnsFirst(Encoded(s))
                     /\ PartAt(s, Encoded(s), Solid(Encoded(s)))
                     /\ \A x \in Words \ {LF} : Occurs(x, Encoded(s)) <=> Occurs(x, s)}
  <1>1. <<>> \in C
    <2>1. <<>> \in Seq(Words) /\ Len(<<>>) = 0 /\ DOMAIN <<>> = {}
      BY EmptySeq
    <2>2. Solid(<<>>) = {}
      BY <2>1 DEF Solid
    <2>3. PartAt(<<>>, <<>>, {})
      BY <2>1, FS_EmptySet DEF PartAt
    <2>4. ReturnsFirst(<<>>) /\ \A x : ~Occurs(x, <<>>)
      BY <2>1 DEF ReturnsFirst, Occurs
    <2> QED  BY <2>1, <2>2, <2>3, <2>4, EncodedNothing
  <1>2. ASSUME NEW s \in Seq(Words), NEW c \in Words, s \in C
        PROVE  Append(s, c) \in C
    <2> DEFINE e == Encoded(s)
               next == Encoded(Append(s, c))
    <2>1. /\ ReturnsFirst(e)
          /\ PartAt(s, e, Solid(e))
          /\ \A x \in Words \ {LF} : Occurs(x, e) <=> Occurs(x, s)
      BY <1>2
    <2>2. /\ e \in Seq(Symbols) /\ s \in Seq(Symbols) /\ c \in Symbols
          /\ CR \in Symbols /\ LF \in Symbols /\ c # CR /\ LF # CR
          /\ Append(s, c) \in Seq(Words)
      BY EncodedIs, WordsAre, SeqMonotonic, AppendProperties
    <2>3. next = IF c = LF THEN Append(Append(e, CR), LF) ELSE Append(e, c)
      BY <2>2, EncodedMore
    <2>4. \A x : Occurs(x, Append(s, c)) <=> Occurs(x, s) \/ x = c
      BY <2>2, PutAppend
    <2> HIDE DEF e, next
    <2>5. CASE c # LF
      <3>1. next = Append(e, c)
        BY <2>3, <2>5
      <3>2. /\ Solid(e) \in SUBSET (1 .. Len(e)) /\ Solid(next) = Solid(e) \cup {Len(e) + 1}
            /\ \A x : Occurs(x, next) <=> Occurs(x, e) \/ x = c
            /\ ReturnsFirst(next)
        BY <2>1, <2>2, <2>5, <3>1, PutAppend
      <3>3. PartAt(Append(s, c), next, Solid(next))
        BY <2>1, <2>2, <3>1, <3>2, PartAtAppend
      <3> QED  BY <2>1, <2>2, <2>4, <3>2, <3>3 DEF next
    <2>6. CASE c = LF
      <3> DEFINE half == Append(e, CR)
      <3>1. next = Append(half, LF)
        BY <2>3, <2>6
      <3>2. /\ half \in Seq(Symbols) /\ Len(half) > 0 /\ half[Len(half)] = CR
        BY <2>2, AppendProperties, LenProperties
      <3>3. /\ Solid(e) \in SUBSET (1 .. Len(e)) /\ Solid(half) = Solid(e)
            /\ \A x : Occurs(x, half) <=> Occurs(x, e) \/ x = CR
            /\ ReturnsFirst(half)
        BY <2>1, <2>2, PutAppend
      <3>4. PartAt(s, half, Solid(half))
        BY <2>1, <2>2, <3>3, PartAtAppend
      <3> HIDE DEF half
      <3>5. /\ Solid(half) \in SUBSET (1 .. Len(half))
            /\ Solid(next) = Solid(half) \cup {Len(half) + 1}
            /\ \A x : Occurs(x, next) <=> Occurs(x, half) \/ x = LF
            /\ ReturnsFirst(next)
        BY <2>2, <3>1, <3>2, <3>3, PutAppend
      <3>6. PartAt(Append(s, c), next, Solid(next))
        BY <2>2, <2>6, <3>1, <3>2, <3>4, <3>5, PartAtAppend
      <3>7. \A x \in Words \ {LF} : Occurs(x, next) <=> Occurs(x, Append(s, c))
        BY <2>1, <2>2, <2>4, <2>6, <3>3, <3>5, WordsAre
      <3> QED  BY <2>2, <3>5, <3>6, <3>7 DEF next
    <2> QED  BY <2>5, <2>6
  <1> HIDE DEF C
  <1>3. \A s \in Seq(Words) : s \in C
    BY <1>1, <1>2, SequenceInduction
  <1> QED  BY <1>3 DEF C

-----------------------------------------------------------------------------
(* The wire.                                                               *)

(***************************************************************************)
(* put is what has been taken from `sending` since something was said: all *)
(* that is not lost of it is on the wire.                                  *)
(***************************************************************************)
Put(put) ==
  /\ put \in Seq(Symbols) /\ Encoded(said) = put \o sending
  /\ lost \in SUBSET (1 .. Len(put))
  /\ PartAt(wire, put, (1 .. Len(put)) \ lost)

(* Inductive: what is said is put, and what is put is sent or lost.        *)
WireInv ==
  /\ said \in Seq(Words) /\ sending \in Seq(Symbols) /\ wire \in Seq(Symbols)
  /\ \E put : Put(put)

(* The first character of what is to be sent is put. *)
LEMMA HeadMoves ==
  ASSUME NEW S, NEW s \in Seq(S), NEW t \in Seq(S), t # <<>>
  PROVE  s \o t = Append(s, Head(t)) \o Tail(t)
  <1>1. /\ Head(t) \in S /\ Tail(t) \in Seq(S) /\ Len(Tail(t)) = Len(t) - 1
        /\ \A i \in 1 .. Len(Tail(t)) : Tail(t)[i] = t[i + 1]
    BY HeadTailProperties
  <1>2. Len(s) \in Nat /\ Len(t) \in Nat \ {0} /\ Head(t) = t[1]
    BY LenProperties, EmptySeq
  <1> DEFINE longer == Append(s, Head(t))
             all == s \o t
             moved == longer \o Tail(t)
  <1>3. /\ longer \in Seq(S) /\ Len(longer) = Len(s) + 1 /\ longer[Len(s) + 1] = Head(t)
        /\ \A i \in 1 .. Len(s) : longer[i] = s[i]
    BY <1>1, AppendProperties
  <1>4. /\ all \in Seq(S) /\ Len(all) = Len(s) + Len(t)
        /\ \A i \in 1 .. Len(s) + Len(t) : all[i] = IF i <= Len(s) THEN s[i] ELSE t[i - Len(s)]
    BY ConcatProperties
  <1> HIDE DEF longer
  <1>5. /\ moved \in Seq(S) /\ Len(moved) = Len(longer) + Len(Tail(t))
        /\ \A i \in 1 .. Len(longer) + Len(Tail(t)) :
             moved[i] = IF i <= Len(longer) THEN longer[i] ELSE Tail(t)[i - Len(longer)]
    BY <1>1, <1>3, ConcatProperties
  <1> HIDE DEF all, moved
  <1>6. Len(all) = Len(moved)
    BY <1>1, <1>2, <1>3, <1>4, <1>5
  <1>7. ASSUME NEW i \in 1 .. Len(all) PROVE all[i] = moved[i]
    <2>1. CASE i <= Len(s)
      BY <1>1, <1>2, <1>3, <1>4, <1>5, <1>6, <2>1
    <2>2. CASE i = Len(s) + 1
      BY <1>1, <1>2, <1>3, <1>4, <1>5, <1>6, <2>2
    <2>3. CASE i > Len(s) + 1
      <3> DEFINE j == i - Len(longer)
      <3>1. j \in 1 .. Len(Tail(t)) /\ j + 1 = i - Len(s)
        BY <1>1, <1>2, <1>3, <1>4, <2>3
      <3>2. moved[i] = Tail(t)[j]
        BY <1>2, <1>3, <1>5, <1>6, <2>3
      <3>3. Tail(t)[j] = t[i - Len(s)]
        BY <1>1, <3>1
      <3>4. all[i] = t[i - Len(s)]
        BY <1>2, <1>4, <2>3
      <3> QED  BY <3>2, <3>3, <3>4
    <2> QED  BY <1>2, <1>4, <2>1, <2>2, <2>3
  <1>8. all = moved
    BY <1>4, <1>5, <1>6, <1>7, SeqEqual
  <1> QED  BY <1>8 DEF all, moved

(* A text is passed to a writer. *)
LEMMA WireSays ==
  ASSUME WireInv, NEW text \in Seq(Words), serial_write(text)
  PROVE  WireInv'
  <1>1. /\ sending = <<>> /\ sending' = Encoded(text) /\ said' = said \o text
        /\ UNCHANGED <<wire, lost>>
    BY DEF serial_write
  <1>2. PICK put : Put(put)
    BY DEF WireInv
  <1>3. put \in Seq(Symbols) /\ said \in Seq(Words) /\ wire \in Seq(Symbols)
    BY <1>2 DEF WireInv, Put
  <1>4. Encoded(text) \in Seq(Symbols) /\ said' \in Seq(Words)
    BY <1>1, <1>3, EncodedIs, ConcatProperties
  <1>5. Encoded(said') = Encoded(said) \o Encoded(text)
    BY <1>1, <1>3, EncodedConcat
  <1>6. Encoded(said) = put
    BY <1>1, <1>2, <1>3, ConcatEmptySeq DEF Put
  <1>7. Put(put)'
    BY <1>1, <1>2, <1>5, <1>6 DEF Put
  <1> QED  BY <1>1, <1>3, <1>4, <1>7 DEF WireInv

(* What a poll of the transmitter does to what is sent. *)
LEMMA PollDoes ==
  ASSUME Poll
  PROVE  \/ sending' = sending /\ wire' = wire /\ lost' = lost
         \/ /\ sending # <<>> /\ sending' = Tail(sending)
            /\ wire' = Append(wire, Head(sending)) /\ lost' = lost
         \/ /\ sending # <<>> /\ sending' = Tail(sending)
            /\ wire' = wire /\ lost' # {}
  <1>1. CASE Ready
    BY <1>1 DEF Ready
  <1>2. CASE NotReady /\ spin + 1 < Spins
    BY <1>2 DEF NotReady
  <1>3. CASE NotReady /\ ~(spin + 1 < Spins)
    <2>1. /\ sending # <<>> /\ sending' = Tail(sending)
          /\ wire' = wire /\ lost' = lost \cup {Position}
      BY <1>3 DEF NotReady
    <2> QED  BY <2>1
  <1> QED  BY <1>1, <1>2, <1>3 DEF Poll

(* A poll of the transmitter. *)
LEMMA WirePolls ==
  ASSUME WireInv, Poll
  PROVE  WireInv'
  <1>1. PICK put : Put(put)
    BY DEF WireInv
  <1>2. /\ put \in Seq(Symbols) /\ said \in Seq(Words) /\ wire \in Seq(Symbols)
        /\ sending \in Seq(Symbols) /\ Encoded(said) = put \o sending
        /\ lost \in SUBSET (1 .. Len(put)) /\ PartAt(wire, put, (1 .. Len(put)) \ lost)
    BY <1>1 DEF WireInv, Put
  <1>3. said' = said /\ sending # <<>>
    BY DEF Poll, Ready, NotReady
  <1> DEFINE next == Append(put, Head(sending))
             n == Len(put)
  <1>4. /\ Head(sending) \in Symbols /\ Tail(sending) \in Seq(Symbols)
        /\ next \in Seq(Symbols) /\ Len(next) = n + 1 /\ n \in Nat
        /\ Encoded(said) = next \o Tail(sending)
    BY <1>2, <1>3, HeadTailProperties, AppendProperties, LenProperties, HeadMoves
  <1>5. 1 .. (n + 1) = (1 .. n) \cup {n + 1} /\ n + 1 \notin 1 .. n
    BY <1>4
  <1>6. /\ PartAt(wire, next, (1 .. n) \ lost)
        /\ PartAt(Append(wire, Head(sending)), next, ((1 .. n) \ lost) \cup {n + 1})
    BY <1>2, <1>4, PartAtAppend
  <1> HIDE DEF next
  <1>7. CASE Ready
    <2>1. /\ wire' = Append(wire, Head(sending)) /\ sending' = Tail(sending) /\ lost' = lost
      BY <1>7 DEF Ready
    <2>2. (1 .. Len(next)) \ lost = ((1 .. n) \ lost) \cup {n + 1}
      BY <1>2, <1>4, <1>5
    <2>3. wire' \in Seq(Symbols)
      BY <1>2, <1>4, <2>1, AppendProperties
    <2>4. lost \in SUBSET (1 .. Len(next))
      BY <1>2, <1>4, <1>5
    <2>5. /\ next \in Seq(Symbols) /\ Encoded(said') = next \o sending'
          /\ lost' \in SUBSET (1 .. Len(next)) /\ PartAt(wire', next, (1 .. Len(next)) \ lost')
      BY <1>3, <1>4, <1>6, <2>1, <2>2, <2>4
    <2>6. \E p : Put(p)'
      BY <2>5 DEF Put
    <2>7. WireInv'
      BY <1>2, <1>3, <1>4, <2>1, <2>3, <2>6 DEF WireInv
    <2> QED  BY <2>7
  <1>8. CASE NotReady /\ spin + 1 < Spins
    <2>1. UNCHANGED <<wire, said, sending, lost>>
      BY <1>8 DEF NotReady
    <2>2. Put(put)'
      BY <1>1, <2>1 DEF Put
    <2>3. \E p : Put(p)'
      BY <2>2
    <2>4. WireInv'
      BY <1>2, <2>1, <2>3 DEF WireInv
    <2> QED  BY <2>4
  <1>9. CASE NotReady /\ ~(spin + 1 < Spins)
    <2>1. sending' = Tail(sending) /\ lost' = lost \cup {Position} /\ wire' = wire
      BY <1>9 DEF NotReady
    <2>2. Position = n + 1
      <3>1. Len(Encoded(said)) = n + Len(sending) /\ Len(sending) \in Nat
        BY <1>2, ConcatProperties, LenProperties
      <3> QED  BY <1>4, <3>1 DEF Position
    <2>3. (1 .. Len(next)) \ lost' = (1 .. n) \ lost
      BY <1>2, <1>4, <1>5, <2>1, <2>2
    <2>4. lost' \in SUBSET (1 .. Len(next))
      BY <1>2, <1>4, <1>5, <2>1, <2>2
    <2>5. /\ next \in Seq(Symbols) /\ Encoded(said') = next \o sending'
          /\ lost' \in SUBSET (1 .. Len(next)) /\ PartAt(wire', next, (1 .. Len(next)) \ lost')
      BY <1>3, <1>4, <1>6, <2>1, <2>3, <2>4
    <2>6. \E p : Put(p)'
      BY <2>5 DEF Put
    <2> QED  BY <1>2, <1>3, <1>4, <2>1, <2>6 DEF WireInv
  <1> QED  BY <1>7, <1>8, <1>9 DEF Poll

(* What the invariant says of the wire. *)
LEMMA WireIs ==
  ASSUME WireInv
  PROVE  WireFaithful
  <1>1. PICK put : Put(put)
    BY DEF WireInv
  <1> DEFINE enc == Encoded(said)
             n == Len(put)
  <1>2. /\ put \in Seq(Symbols) /\ said \in Seq(Words) /\ wire \in Seq(Symbols)
        /\ sending \in Seq(Symbols) /\ enc = put \o sending
        /\ PartAt(wire, put, (1 .. n) \ lost) /\ n \in Nat
    BY <1>1, LenProperties DEF WireInv, Put
  <1>3. /\ Len(enc) = n + Len(sending) /\ Len(sending) \in Nat
        /\ \A i \in 1 .. n : enc[i] = put[i]
    BY <1>2, ConcatProperties, LenProperties
  <1>4. Len(enc) - Len(sending) = n
    BY <1>2, <1>3
  <1>5. PartAt(wire, enc, (1 .. Len(enc) - Len(sending)) \ lost)
    <2>1. \A i \in (1 .. n) \ lost : enc[i] = put[i]
      BY <1>3
    <2> HIDE DEF enc, n
    <2> QED  BY <1>2, <1>4, <2>1 DEF PartAt
  <1>6. ASSUME lost = {} PROVE wire = put
    <2>1. (1 .. n) \ lost = 1 .. n
      BY <1>6
    <2>2. Len(wire) = n /\ \A i \in 1 .. n : wire[Cardinality({j \in 1 .. n : j <= i})] = put[i]
      <3>1. Len(wire) = Cardinality(1 .. n)
        BY <1>2, <2>1 DEF PartAt
      <3>2. Cardinality(1 .. n) = n
        <4> HIDE DEF n
        <4>1. 1 \in Int /\ n \in Int /\ (1 > n <=> n = 0) /\ n - 1 + 1 = n
          BY <1>2
        <4>2. Cardinality(1 .. n) = IF 1 > n THEN 0 ELSE n - 1 + 1
          BY <4>1, FS_Interval
        <4> QED  BY <4>1, <4>2
      <3>3. \A i \in 1 .. n : wire[Cardinality({j \in 1 .. n : j <= i})] = put[i]
        BY <1>2, <2>1 DEF PartAt
      <3> QED  BY <3>1, <3>2, <3>3
    <2>3. ASSUME NEW i \in 1 .. n PROVE wire[i] = put[i]
      <3>1. {j \in 1 .. n : j <= i} = 1 .. i
        BY <1>2
      <3>2. Cardinality(1 .. i) = i
        <4>1. i \in Int /\ ~(1 > i) /\ i - 1 + 1 = i
          BY <1>2
        <4> QED  BY <4>1, FS_Interval
      <3> QED  BY <2>2, <3>1, <3>2
    <2> QED  BY <1>2, <2>2, <2>3, SeqEqual
  <1>7. ASSUME lost = {}
        PROVE  /\ \A i \in DOMAIN wire : wire[i] = LF => i > 1 /\ wire[i - 1] = CR
               /\ PartAt(said, wire \o sending, Solid(wire \o sending))
    <2>1. wire \o sending = enc /\ DOMAIN wire = 1 .. n /\ DOMAIN enc = 1 .. Len(enc)
      BY <1>2, <1>6, <1>7, LenProperties, ConcatProperties
    <2>2. ReturnsFirst(enc) /\ PartAt(said, enc, Solid(enc))
      BY <1>2, EncodedShape
    <2>3. ASSUME NEW i \in 1 .. n, put[i] = LF PROVE i > 1 /\ put[i - 1] = CR
      <3>1. i \in DOMAIN enc /\ enc[i] = LF
        BY <1>2, <1>3, <2>1, <2>3
      <3>2. i > 1 /\ enc[i - 1] = CR
        BY <2>2, <3>1 DEF ReturnsFirst
      <3>3. i - 1 \in 1 .. n
        BY <1>2, <3>2
      <3> QED  BY <1>3, <3>2, <3>3
    <2> QED  BY <1>6, <1>7, <2>1, <2>2, <2>3
  <1> QED  BY <1>5, <1>7 DEF WireFaithful, Solid

-----------------------------------------------------------------------------
(* What the steps do to the port.                                         *)

(* What is left of a text that is cut off. *)
LEMMA CutIs ==
  ASSUME NEW S, NEW text \in Seq(S), NEW n \in 0 .. Len(text)
  PROVE  /\ SubSeq(text, 1, n) \in Seq(S)
         /\ DOMAIN SubSeq(text, 1, n) = 1 .. n
         /\ \A i \in 1 .. n : SubSeq(text, 1, n)[i] = text[i]
  <1>1. n \in Int /\ 1 \in Int /\ n \in Nat /\ Len(text) \in Nat /\ (1 <= n + 1)
    BY LenProperties
  <1>2. \A i \in 1 .. n : text[i] \in S
    BY <1>1, ElementOfSeq
  <1>3. /\ SubSeq(text, 1, n) \in Seq(S)
        /\ Len(SubSeq(text, 1, n)) = IF 1 <= n + 1 THEN n - 1 + 1 ELSE 0
        /\ \A i \in 1 .. n - 1 + 1 : SubSeq(text, 1, n)[i] = text[1 + i - 1]
    BY <1>1, <1>2, SubSeqProperties
  <1>4. Len(SubSeq(text, 1, n)) = n /\ \A i \in 1 .. n : SubSeq(text, 1, n)[i] = text[i]
    BY <1>1, <1>3
  <1> QED  BY <1>3, <1>4, LenProperties

(* What is passed to the writers is text. *)
LEMMA Texts ==
  /\ \A what \in Words : Line(what) \in Seq(Words)
  /\ \A text \in Seq(Words) : \E short \in Seq(Words) :
       fprintf(text) => serial_write(short)
  <1>1. ASSUME NEW what \in Words PROVE Line(what) \in Seq(Words)
    BY WordsAre DEF Line
  <1>2. ASSUME NEW text \in Seq(Words)
        PROVE  \E short \in Seq(Words) : fprintf(text) => serial_write(short)
    <2> DEFINE short == SubSeq(text, 1, IF Len(text) >= PrintSize THEN PrintSize - 1 ELSE Len(text))
    <2>1. short \in Seq(Words)
      <3>1. (IF Len(text) >= PrintSize THEN PrintSize - 1 ELSE Len(text)) \in 0 .. Len(text)
        BY SerialAssumption, LenProperties
      <3> QED  BY <3>1, CutIs
    <2>2. fprintf(text) => serial_write(short)
      BY DEF fprintf
    <2> QED  BY <2>1, <2>2
  <1> QED  BY <1>1, <1>2

(* All that a step can do to the serial port. *)
LEMMA PortUsed ==
  ASSUME [Next]_vars
  PROVE  \/ \E text \in Seq(Words) : serial_write(text)
         \/ Poll
         \/ UNCHANGED <<sending, wire, said, lost>>
         \/ Handover
  <1>1. CASE kmain
    <2>1. CASE Entry \/ Unsupported \/ InitPlatform \/ ConfigureAddressSpace \/ InitHeap \/ NoHeap
      <3>1. PICK what \in Words : serial_write(Line(what))
        BY <2>1 DEF Entry, Unsupported, InitPlatform, ConfigureAddressSpace, InitHeap, NoHeap, Words
      <3> QED  BY <3>1, Texts
    <2>2. CASE platform_run_constructors \/ InitFramebuffer \/ FontDone \/ EnterShell
      <3>1. PICK what \in Words : serial_write(Line(what))
        BY <2>2 DEF platform_run_constructors, InitFramebuffer, FontDone, EnterShell, Words
      <3> QED  BY <3>1, Texts
    <2>3. CASE InitFont
      <3>1. CASE UNCHANGED serial
        BY <3>1 DEF serial
      <3>2. CASE console_write(Line("FreeType initialization failed"))
        BY <3>2, Texts DEF console_write, Words
      <3> QED  BY <2>3, <3>1, <3>2 DEF InitFont
    <2>4. CASE ScriptsSucceed
      BY <2>4 DEF ScriptsSucceed, serial
    <2>5. CASE ScriptsFail
      <3>1. PICK report \in {<<>>, Line("exception")} :
               serial_write(report \o Line("JavaScript boot failed"))
        BY <2>5 DEF ScriptsFail, console_write
      <3>2. report \in Seq(Words) /\ Line("JavaScript boot failed") \in Seq(Words)
        <4>1. "exception" \in Words /\ "JavaScript boot failed" \in Words /\ <<>> \in Seq(Words)
          BY DEF Words
        <4> QED  BY <3>1, <4>1, Texts
      <3>3. report \o Line("JavaScript boot failed") \in Seq(Words)
        BY <3>2, ConcatProperties
      <3> QED  BY <3>1, <3>3
    <2> QED  BY <1>1, <2>1, <2>2, <2>3, <2>4, <2>5 DEF kmain
  <1>2. CASE Dying
    <2>1. Line("abort()") \in Seq(Words) /\ Line("exit()") \in Seq(Words)
      BY Texts DEF Words
    <2>2. <<"assertion failed", "expression", "place", LF>> \in Seq(Words)
      BY DEF Words
    <2> QED  BY <1>2, <2>1, <2>2, Texts DEF Dying
  <1>3. CASE platform_halt
    BY <1>3 DEF platform_halt, serial
  <1>4. CASE Transmit
    BY <1>4 DEF Transmit, Dies
  <1>5. CASE Running \/ platform_reboot \/ PollController
    BY <1>5 DEF Running, platform_reboot, PollController, serial
  <1>6. CASE UNCHANGED vars
    BY <1>6 DEF vars
  <1> QED  BY <1>1, <1>2, <1>3, <1>4, <1>5, <1>6 DEF Next

(* Nothing is put for nothing, and nothing of it is on the wire. *)
LEMMA NothingPut ==
  /\ <<>> \in Seq(Words) /\ <<>> \in Seq(Symbols)
  /\ Encoded(<<>>) = <<>> \o <<>>
  /\ {} \in SUBSET (1 .. Len(<<>>))
  /\ PartAt(<<>>, <<>>, (1 .. Len(<<>>)) \ {})
  <1>1. <<>> \in Seq(Symbols) /\ <<>> \in Seq(Words) /\ Len(<<>>) = 0
    BY EmptySeq
  <1>2. (1 .. Len(<<>>)) \ {} = {}
    BY <1>1
  <1>3. PartAt(<<>>, <<>>, {})
    BY <1>1, FS_EmptySet DEF PartAt
  <1>4. Encoded(<<>>) = <<>> \o <<>>
    BY <1>1, EncodedNothing, ConcatEmptySeq
  <1> QED  BY <1>1, <1>2, <1>3, <1>4

(* Every step keeps the invariant of the wire, *)
LEMMA WireStep == WireInv /\ [Next]_vars => WireInv'
  <1> SUFFICES ASSUME WireInv, [Next]_vars PROVE WireInv'
    OBVIOUS
  <1>1. CASE UNCHANGED <<sending, wire, said, lost>>
    <2>1. PICK put : Put(put)
      BY DEF WireInv
    <2>2. Put(put)'
      BY <1>1, <2>1 DEF Put
    <2> QED  BY <1>1, <2>2 DEF WireInv
  <1>2. CASE Handover
    <2>1. said' = <<>> /\ sending' = <<>> /\ wire' = <<>> /\ lost' = {}
      BY <1>2 DEF Handover
    <2>2. Put(<<>>)'
      BY <2>1, NothingPut DEF Put
    <2> QED  BY <2>1, <2>2, NothingPut DEF WireInv
  <1> QED  BY <1>1, <1>2, PortUsed, WireSays, WirePolls

(* and so it always holds. *)
LEMMA WireAlways == Spec => []WireInv
  <1>1. ASSUME Init PROVE WireInv
    <2>1. said = <<>> /\ sending = <<>> /\ wire = <<>> /\ lost = {}
      BY <1>1 DEF Init, InitSerial
    <2>2. Put(<<>>)
      BY <2>1, NothingPut DEF Put
    <2> QED  BY <2>1, <2>2, NothingPut DEF WireInv
  <1> QED  BY <1>1, WireStep, PTL DEF Spec

(***************************************************************************)
(* What is on the wire is what was said but for what was given up, each    *)
(* line after the return of the one before: of serial_write, serial_putc   *)
(* and serial_putc_raw.                                                    *)
(***************************************************************************)
THEOREM WireIsFaithful == Spec => []WireFaithful
  BY WireAlways, WireIs, PTL

-----------------------------------------------------------------------------
(* The log.                                                                *)

Told(what) == Occurs(what, wire) \/ Occurs(what, sending)

Base == {"platform", "heap", "C++ runtime"}

All == Base \cup {"framebuffer", "FreeType", "JavaScript environment"}

Stopped == {"halt", "halted"}

(* How far the boot is, and what is there then. *)
Placed ==
  /\ ready \subseteq All
  /\ at \in {"entry", "revision"} => ready = {}
  /\ at \in {"address space", "heap"} => ready = {"platform"}
  /\ at = "constructors" => ready = {"platform", "heap"}
  /\ at = "framebuffer" => ready = Base
  /\ at = "font" => Base \subseteq ready /\ "FreeType" \notin ready
  /\ at \in {"font", "font done", "scripts"} =>
       Base \subseteq ready /\ "JavaScript environment" \notin ready
  /\ at = "environment" => Base \subseteq ready /\ "JavaScript environment" \in ready

(* What the log says, or is about to say, is true. *)
Truthful == \A line \in Trusted : Told(line) => Claims[line] \subseteq ready

(* While nothing is lost it says all of it, *)
Complete ==
  lost = {} =>
    /\ "platform" \in ready => Told("platform ready")
    /\ "heap" \in ready => Told("heap ready")
    /\ "C++ runtime" \in ready => Told("C++ runtime ready")
    /\ "JavaScript environment" \in ready /\ at # "environment" =>
         Told("JavaScript environment ready")

(* What comes before the font. *)
Before ==
  {"entry", "revision", "address space", "heap", "constructors", "framebuffer", "font"}

(* and whether there is FreeType. *)
FontTold ==
  /\ at \in Before => ~Told("FreeType ready") /\ ~Told("FreeType initialization failed")
  /\ lost = {} /\ (at = "font done" \/ Told("FreeType ready")) =>
       ("FreeType" \in ready <=> ~Told("FreeType initialization failed"))

(* No reason is given by a kernel that goes on, *)
Unstopped == at \notin Stopped => \A reason \in Reasons : ~Told(reason[1])

(* and one by a kernel that does not. *)
Explained ==
  at \in Stopped /\ lost = {} =>
    \E reason \in Reasons :
      /\ Told(reason[1]) /\ reason[2] \notin ready
      /\ \A other \in Reasons : Told(other[1]) => other = reason

(* A halted kernel has put all it had to say. *)
Spoken == at = "halted" => sending = <<>>

LogInv ==
  WireInv /\ Placed /\ Truthful /\ Complete /\ FontTold /\ Unstopped /\ Explained /\ Spoken

(* The lines that claim something to be trusted, and what. *)
LEMMA ClaimsAre ==
  /\ Trusted = {"platform ready", "heap ready", "C++ runtime ready",
                "JavaScript environment ready"}
  /\ Claims["platform ready"] = {"platform"}
  /\ Claims["heap ready"] = {"platform", "heap"}
  /\ Claims["C++ runtime ready"] = Base
  /\ Claims["JavaScript environment ready"] = Base \cup {"JavaScript environment"}
  BY DEF Claims, Trusted, Base

(* The lines that say how far the boot is. *)
Marks == Trusted \cup {"FreeType ready", "FreeType initialization failed"}

Firsts ==
  {"unsupported", "unable to initialize kernel heap", "JavaScript boot failed", "abort()",
   "exit()", "assertion failed"}

(* A reason is a line of its own, and its first part tells which. *)
LEMMA ReasonsAre ==
  /\ \A reason \in Reasons : reason[1] \in Firsts
  /\ \A reason \in Reasons : reason[1] \in Words \ {LF} /\ reason[1] \notin Marks
  /\ \A reason, other \in Reasons : reason[1] = other[1] => reason = other
  /\ Marks \subseteq Words \ {LF}
  <1> DEFINE Second(first) ==
               IF first = "unsupported" THEN "platform"
               ELSE IF first = "unable to initialize kernel heap" THEN "heap"
               ELSE IF first = "JavaScript boot failed" THEN "JavaScript environment" ELSE ""
  <1>5. \A reason \in Reasons : reason[1] \in Firsts /\ reason = <<reason[1], Second(reason[1])>>
    <2> SUFFICES ASSUME NEW reason \in Reasons
                 PROVE  reason[1] \in Firsts /\ reason = <<reason[1], Second(reason[1])>>
      OBVIOUS
    <2>1. CASE reason = <<"unsupported", "platform">>
      BY <2>1 DEF Firsts
    <2>2. CASE reason = <<"unable to initialize kernel heap", "heap">>
      BY <2>2 DEF Firsts
    <2>3. CASE reason = <<"JavaScript boot failed", "JavaScript environment">>
      BY <2>3 DEF Firsts
    <2>4. CASE reason = <<"abort()", "">>
      BY <2>4 DEF Firsts
    <2>5. CASE reason = <<"exit()", "">>
      BY <2>5 DEF Firsts
    <2>6. CASE reason = <<"assertion failed", "">>
      BY <2>6 DEF Firsts
    <2> QED  BY <2>1, <2>2, <2>3, <2>4, <2>5, <2>6, Zenon DEF Reasons
  <1>6. Firsts \subseteq Words \ {LF}
    BY DEF Firsts, Words, LF
  <1>7. Firsts \cap Marks = {}
    BY ClaimsAre DEF Marks, Firsts
  <1> HIDE DEF Second
  <1>1. \A reason \in Reasons : reason[1] \in Words \ {LF}
    BY <1>5, <1>6
  <1>2. \A reason \in Reasons : reason[1] \notin Marks
    BY <1>5, <1>7
  <1>3. \A reason, other \in Reasons : reason[1] = other[1] => reason = other
    BY <1>5
  <1>4. Marks \subseteq Words \ {LF}
    BY ClaimsAre DEF Marks, Words, LF
  <1> QED  BY <1>1, <1>2, <1>3, <1>4, <1>5

(* What a text tells. *)
LEMMA TextTells ==
  ASSUME WireInv, NEW text \in Seq(Words), serial_write(text), NEW x \in Words \ {LF}
  PROVE  Told(x)' <=> Told(x) \/ Occurs(x, text)
  <1>1. sending = <<>> /\ sending' = Encoded(text) /\ wire' = wire
    BY DEF serial_write
  <1>2. ~Occurs(x, sending)
    BY <1>1 DEF Occurs
  <1>3. Occurs(x, Encoded(text)) <=> Occurs(x, text)
    BY EncodedShape
  <1> QED  BY <1>1, <1>2, <1>3 DEF Told

(* A poll puts what is told on the wire, or loses it. *)
LEMMA PollTells ==
  ASSUME WireInv, Poll, NEW x
  PROVE  /\ Told(x)' => Told(x)
         /\ lost' = {} => lost = {} /\ (Told(x) => Told(x)')
  <1>1. wire \in Seq(Symbols) /\ sending \in Seq(Symbols)
    BY DEF WireInv
  <1>2. CASE sending' = sending /\ wire' = wire /\ lost' = lost
    BY <1>2 DEF Told
  <1>3. ASSUME sending # <<>>
        PROVE  /\ Head(sending) \in Symbols
               /\ Occurs(x, sending) <=> x = Head(sending) \/ Occurs(x, Tail(sending))
    <2>1. /\ Head(sending) \in Symbols /\ Tail(sending) \in Seq(Symbols)
          /\ Len(Tail(sending)) = Len(sending) - 1
          /\ \A i \in 1 .. Len(Tail(sending)) : Tail(sending)[i] = sending[i + 1]
      BY <1>1, <1>3, HeadTailProperties
    <2>2. /\ Len(sending) \in Nat \ {0} /\ Head(sending) = sending[1]
          /\ DOMAIN sending = 1 .. Len(sending)
          /\ DOMAIN Tail(sending) = 1 .. Len(Tail(sending))
      BY <1>1, <1>3, <2>1, LenProperties, EmptySeq
    <2>3. ASSUME NEW i \in DOMAIN sending, sending[i] = x
          PROVE  x = Head(sending) \/ Occurs(x, Tail(sending))
      <3>1. CASE i = 1
        BY <2>2, <2>3, <3>1
      <3>2. CASE i # 1
        <4> DEFINE j == i - 1
        <4>1. j \in 1 .. Len(Tail(sending)) /\ j + 1 = i
          BY <2>1, <2>2, <3>2
        <4>2. Tail(sending)[j] = x
          BY <2>1, <2>3, <4>1
        <4> QED  BY <2>2, <4>1, <4>2 DEF Occurs
      <3> QED  BY <3>1, <3>2
    <2>4. ASSUME NEW i \in DOMAIN Tail(sending), Tail(sending)[i] = x
          PROVE  Occurs(x, sending)
      <3>1. i + 1 \in DOMAIN sending
        BY <2>1, <2>2
      <3>2. sending[i + 1] = x
        BY <2>1, <2>2, <2>4
      <3> QED  BY <3>1, <3>2 DEF Occurs
    <2>5. 1 \in DOMAIN sending
      BY <2>2
    <2> QED  BY <2>1, <2>2, <2>3, <2>4, <2>5 DEF Occurs
  <1>4. CASE /\ sending # <<>> /\ sending' = Tail(sending)
             /\ wire' = Append(wire, Head(sending)) /\ lost' = lost
    <2>1. Occurs(x, wire') <=> Occurs(x, wire) \/ x = Head(sending)
      BY <1>1, <1>3, <1>4, PutAppend
    <2> QED  BY <1>3, <1>4, <2>1 DEF Told
  <1>5. CASE /\ sending # <<>> /\ sending' = Tail(sending)
             /\ wire' = wire /\ lost' # {}
    BY <1>3, <1>5 DEF Told
  <1> QED  BY <1>2, <1>4, <1>5, PollDoes

(* The kernel says something and goes on. *)
LEMMA GoesOn ==
  ASSUME WireInv, Truthful, Unstopped, at \notin Stopped, at' \notin Stopped,
         ready \subseteq ready',
         NEW text \in Seq(Words), serial_write(text),
         \A line \in Trusted : Occurs(line, text) => Claims[line] \subseteq ready',
         \A reason \in Reasons : ~Occurs(reason[1], text)
  PROVE  Truthful' /\ Unstopped' /\ Explained' /\ Spoken'
  <1>1. \A x \in Words \ {LF} : Told(x)' <=> Told(x) \/ Occurs(x, text)
    BY TextTells
  <1>2. Truthful'
    BY <1>1, ReasonsAre DEF Truthful, Marks
  <1>3. Unstopped'
    BY <1>1, ReasonsAre DEF Unstopped
  <1> QED  BY <1>2, <1>3 DEF Explained, Spoken, Stopped

(* The kernel gives a reason and stops. *)
LEMMA Stops ==
  ASSUME WireInv, Truthful, Complete, FontTold, Unstopped,
         at \notin Stopped, at # "environment", at' = "halt", ready' = ready,
         NEW text \in Seq(Words), serial_write(text),
         NEW reason \in Reasons, Occurs(reason[1], text), reason[2] \notin ready,
         \A other \in Reasons : Occurs(other[1], text) => other = reason,
         \A line \in Marks : ~Occurs(line, text)
  PROVE  Truthful' /\ Complete' /\ FontTold' /\ Unstopped' /\ Explained' /\ Spoken'
  <1>1. \A x \in Words \ {LF} : Told(x)' <=> Told(x) \/ Occurs(x, text)
    BY TextTells
  <1>2. lost' = lost /\ \A x \in Marks : Told(x)' <=> Told(x)
    BY <1>1, ReasonsAre DEF serial_write
  <1>3. Truthful'
    BY <1>2 DEF Truthful, Marks
  <1>4. Complete' /\ FontTold'
    <2>1. /\ Told("platform ready")' <=> Told("platform ready")
          /\ Told("heap ready")' <=> Told("heap ready")
          /\ Told("C++ runtime ready")' <=> Told("C++ runtime ready")
          /\ Told("JavaScript environment ready")' <=> Told("JavaScript environment ready")
          /\ Told("FreeType ready")' <=> Told("FreeType ready")
          /\ Told("FreeType initialization failed")' <=> Told("FreeType initialization failed")
      BY <1>2, ClaimsAre DEF Marks
    <2> QED  BY <1>2, <2>1 DEF Complete, FontTold, Before
  <1>5. \A other \in Reasons : Told(other[1])' <=> Occurs(other[1], text)
    BY <1>1, ReasonsAre DEF Unstopped
  <1>6. Explained'
    BY <1>5 DEF Explained
  <1> QED  BY <1>3, <1>4, <1>6 DEF Unstopped, Spoken, Stopped

(* A line tells its text. *)
LEMMA LineTells ==
  ASSUME NEW what \in Words, NEW x \in Words \ {LF}
  PROVE  Occurs(x, Line(what)) <=> x = what
  <1>1. DOMAIN Line(what) = {1, 2} /\ Line(what)[1] = what /\ Line(what)[2] = LF
    BY DEF Line
  <1> QED  BY <1>1 DEF Occurs

(* Two texts tell what each of them does. *)
LEMMA ConcatTells ==
  ASSUME NEW S, NEW s \in Seq(S), NEW t \in Seq(S)
  PROVE  \A x : Occurs(x, s \o t) <=> Occurs(x, s) \/ Occurs(x, t)
  <1> DEFINE all == s \o t
  <1>1. /\ Len(s) \in Nat /\ Len(t) \in Nat /\ DOMAIN s = 1 .. Len(s) /\ DOMAIN t = 1 .. Len(t)
        /\ DOMAIN all = 1 .. Len(s) + Len(t)
        /\ \A i \in 1 .. Len(s) + Len(t) : all[i] = IF i <= Len(s) THEN s[i] ELSE t[i - Len(s)]
    BY LenProperties, ConcatProperties
  <1> HIDE DEF all
  <1>2. ASSUME NEW x, Occurs(x, all) PROVE Occurs(x, s) \/ Occurs(x, t)
    <2>1. PICK i \in 1 .. Len(s) + Len(t) : all[i] = x
      BY <1>1, <1>2 DEF Occurs
    <2>2. \/ i \in 1 .. Len(s)
          \/ ~(i <= Len(s)) /\ i - Len(s) \in 1 .. Len(t)
      BY <1>1, <2>1
    <2> QED  BY <1>1, <2>1, <2>2 DEF Occurs
  <1>3. ASSUME NEW x, Occurs(x, s) PROVE Occurs(x, all)
    <2>1. PICK i \in 1 .. Len(s) : s[i] = x
      BY <1>1, <1>3 DEF Occurs
    <2>2. i \in 1 .. Len(s) + Len(t) /\ all[i] = x
      BY <1>1, <2>1
    <2> QED  BY <1>1, <2>2 DEF Occurs
  <1>4. ASSUME NEW x, Occurs(x, t) PROVE Occurs(x, all)
    <2>1. PICK i \in 1 .. Len(t) : t[i] = x
      BY <1>1, <1>4 DEF Occurs
    <2> DEFINE j == Len(s) + i
    <2>2. /\ j \in 1 .. (Len(s) + Len(t)) /\ ~(j <= Len(s))
          /\ j - Len(s) = i
      <3>1. i \in 1 .. Len(t) /\ Len(s) \in Nat /\ Len(t) \in Nat
        BY <1>1, <2>1
      <3> QED  BY <3>1
    <2>3. all[j] = x
      BY <1>1, <2>1, <2>2
    <2> QED  BY <1>1, <2>2, <2>3 DEF Occurs
  <1> QED  BY <1>2, <1>3, <1>4 DEF all

(* A line that is no reason, and claims only what is there. *)
LEMMA LineGoesOn ==
  ASSUME WireInv, Truthful, Unstopped, at \notin Stopped, at' \notin Stopped,
         ready \subseteq ready',
         NEW what \in Words \ Firsts, serial_write(Line(what)),
         what \in Trusted => Claims[what] \subseteq ready'
  PROVE  Truthful' /\ Unstopped' /\ Explained' /\ Spoken'
  <1>1. Line(what) \in Seq(Words)
    BY Texts
  <1>2. \A line \in Trusted : Occurs(line, Line(what)) => Claims[line] \subseteq ready'
    <2>1. ASSUME NEW line \in Trusted PROVE line \in Words \ {LF}
      BY <2>1, ReasonsAre DEF Marks
    <2>2. ASSUME NEW line \in Trusted, Occurs(line, Line(what)) PROVE line = what
      BY <2>1, <2>2, LineTells
    <2> QED  BY <2>2
  <1>3. \A reason \in Reasons : ~Occurs(reason[1], Line(what))
    BY LineTells, ReasonsAre
  <1> QED  BY <1>1, <1>2, <1>3, GoesOn

(* What a line adds to what the log says of the boot. *)
LEMMA LineAdds ==
  ASSUME WireInv, NEW what \in Words, serial_write(Line(what))
  PROVE  /\ lost' = lost
         /\ Told("platform ready")' <=> Told("platform ready") \/ what = "platform ready"
         /\ Told("heap ready")' <=> Told("heap ready") \/ what = "heap ready"
         /\ Told("C++ runtime ready")' <=> Told("C++ runtime ready") \/ what = "C++ runtime ready"
         /\ Told("JavaScript environment ready")' <=>
              Told("JavaScript environment ready") \/ what = "JavaScript environment ready"
         /\ Told("FreeType ready")' <=> Told("FreeType ready") \/ what = "FreeType ready"
         /\ Told("FreeType initialization failed")' <=>
              Told("FreeType initialization failed") \/ what = "FreeType initialization failed"
  <1>1. \A x \in Marks : Told(x)' <=> Told(x) \/ x = what
    BY Texts, TextTells, LineTells, ReasonsAre
  <1> QED  BY <1>1, ClaimsAre DEF Marks, serial_write

-----------------------------------------------------------------------------

(* kmain gets further, and says how far. *)
LEMMA KmainGoesOn ==
  ASSUME LogInv,
         Entry \/ InitPlatform \/ ConfigureAddressSpace \/ InitHeap
           \/ platform_run_constructors \/ InitFramebuffer \/ FontDone \/ EnterShell
  PROVE  LogInv'
  <1>1. WireInv /\ Placed /\ Truthful /\ Complete /\ FontTold /\ Unstopped
    BY DEF LogInv
  <1>2. at \notin Stopped /\ at' \notin Stopped
    BY DEF Stopped, Entry, InitPlatform, ConfigureAddressSpace, InitHeap,
           platform_run_constructors, InitFramebuffer, FontDone, EnterShell, Goes
  <1>3. ready \subseteq ready' /\ Placed'
    <2>1. CASE Entry \/ InitPlatform \/ ConfigureAddressSpace \/ InitHeap
      BY <1>1, <2>1 DEF Placed, All, Base, Entry, InitPlatform, ConfigureAddressSpace, InitHeap, Goes
    <2>2. CASE platform_run_constructors \/ InitFramebuffer \/ FontDone \/ EnterShell
      BY <1>1, <2>2 DEF Placed, All, Base, platform_run_constructors, InitFramebuffer, FontDone,
                        EnterShell, Goes
    <2> QED  BY <2>1, <2>2
  <1>4. \E what \in Words \ Firsts :
          serial_write(Line(what)) /\ (what \in Trusted => Claims[what] \subseteq ready')
    <2>1. CASE Entry \/ ConfigureAddressSpace \/ InitFramebuffer \/ FontDone
      <3>1. PICK what \in {"booting", "display probe complete", "framebuffer ready",
                           "FreeType ready"} : serial_write(Line(what))
        BY <2>1 DEF Entry, ConfigureAddressSpace, InitFramebuffer, FontDone
      <3>2. what \in Words \ Firsts /\ what \notin Trusted
        BY <3>1, ClaimsAre DEF Words, Firsts
      <3> QED  BY <3>1, <3>2
    <2>2. CASE InitPlatform
      <3>1. "platform ready" \in Words \ Firsts /\ "platform" \in ready'
        BY <2>2 DEF InitPlatform, Words, Firsts
      <3> QED  BY <2>2, <3>1, ClaimsAre DEF InitPlatform
    <2>3. CASE InitHeap
      <3>1. "heap ready" \in Words \ Firsts /\ {"platform", "heap"} \subseteq ready'
        BY <1>1, <2>3 DEF InitHeap, Placed, Goes, Words, Firsts
      <3> QED  BY <2>3, <3>1, ClaimsAre DEF InitHeap
    <2>4. CASE platform_run_constructors
      <3>1. /\ "C++ runtime ready" \in Words \ Firsts
            /\ Base \subseteq ready'
        BY <1>1, <2>4 DEF platform_run_constructors, Placed, Base, Goes, Words, Firsts
      <3> QED  BY <2>4, <3>1, ClaimsAre DEF platform_run_constructors
    <2>5. CASE EnterShell
      <3>1. /\ "JavaScript environment ready" \in Words \ Firsts
            /\ Base \cup {"JavaScript environment"} \subseteq ready'
        BY <1>1, <2>5 DEF EnterShell, Placed, Goes, Words, Firsts
      <3> QED  BY <2>5, <3>1, ClaimsAre DEF EnterShell
    <2> QED  BY <2>1, <2>2, <2>3, <2>4, <2>5
  <1>5. Truthful' /\ Unstopped' /\ Explained' /\ Spoken'
    BY <1>1, <1>2, <1>3, <1>4, LineGoesOn
  <1>6. WireInv'
    <2>1. kmain
      BY DEF kmain
    <2> QED  BY <1>1, <2>1, WireStep DEF Next
  <1>7. Complete' /\ FontTold'
    <2>1. CASE Entry
      <3>1. "booting" \in Words /\ serial_write(Line("booting"))
        BY <2>1 DEF Entry, Words
      <3> QED  BY <1>1, <2>1, <3>1, LineAdds DEF Entry, Goes, Complete, FontTold, Before
    <2>2. CASE InitPlatform
      <3>1. "platform ready" \in Words /\ serial_write(Line("platform ready"))
        BY <2>2 DEF InitPlatform, Words
      <3> QED  BY <1>1, <2>2, <3>1, LineAdds DEF InitPlatform, Goes, Complete, FontTold, Before
    <2>3. CASE ConfigureAddressSpace
      <3>1. "display probe complete" \in Words /\ serial_write(Line("display probe complete"))
        BY <2>3 DEF ConfigureAddressSpace, Words
      <3> QED
        BY <1>1, <2>3, <3>1, LineAdds DEF ConfigureAddressSpace, Goes, Complete, FontTold, Before
    <2>4. CASE InitHeap
      <3>1. "heap ready" \in Words /\ serial_write(Line("heap ready"))
        BY <2>4 DEF InitHeap, Words
      <3> QED  BY <1>1, <2>4, <3>1, LineAdds DEF InitHeap, Goes, Complete, FontTold, Before
    <2>5. CASE platform_run_constructors
      <3>1. "C++ runtime ready" \in Words /\ serial_write(Line("C++ runtime ready"))
        BY <2>5 DEF platform_run_constructors, Words
      <3> QED
        BY <1>1, <2>5, <3>1, LineAdds
           DEF platform_run_constructors, Goes, Complete, FontTold, Before
    <2>6. CASE InitFramebuffer
      <3>1. "framebuffer ready" \in Words /\ serial_write(Line("framebuffer ready"))
        BY <2>6 DEF InitFramebuffer, Words
      <3> QED  BY <1>1, <2>6, <3>1, LineAdds DEF InitFramebuffer, Goes, Complete, FontTold, Before
    <2>7. CASE FontDone
      <3>1. "FreeType ready" \in Words /\ serial_write(Line("FreeType ready"))
        BY <2>7 DEF FontDone, Words
      <3> QED  BY <1>1, <2>7, <3>1, LineAdds DEF FontDone, Goes, Complete, FontTold, Before
    <2>8. CASE EnterShell
      <3>1. /\ "JavaScript environment ready" \in Words
            /\ serial_write(Line("JavaScript environment ready"))
        BY <2>8 DEF EnterShell, Words
      <3> QED  BY <1>1, <2>8, <3>1, LineAdds DEF EnterShell, Goes, Complete, FontTold, Before
    <2> QED  BY <2>1, <2>2, <2>3, <2>4, <2>5, <2>6, <2>7, <2>8
  <1> QED  BY <1>3, <1>5, <1>6, <1>7 DEF LogInv

(* Nothing is said that is a claim or a reason, or nothing at all. *)
LEMMA LogKept ==
  ASSUME WireInv, WireInv', Truthful, Unstopped, at \notin Stopped, at' \notin Stopped,
         ready \subseteq ready', wire' = wire, sending' = sending
  PROVE  Truthful' /\ Unstopped' /\ Explained' /\ Spoken'
  BY DEF Truthful, Unstopped, Explained, Spoken, Told, Stopped

(* FreeType is there or not, or the boot scripts have run. *)
LEMMA FontAndScripts ==
  ASSUME LogInv, InitFont \/ ScriptsSucceed
  PROVE  LogInv'
  <1>1. WireInv /\ Placed /\ Truthful /\ Complete /\ FontTold /\ Unstopped
    BY DEF LogInv
  <1>2. WireInv'
    <2>1. kmain
      BY DEF kmain
    <2> QED  BY <1>1, <2>1, WireStep DEF Next
  <1>3. at \notin Stopped /\ at' \notin Stopped
    BY DEF Stopped, InitFont, ScriptsSucceed, Goes
  <1>4. ready \subseteq ready' /\ Placed'
    BY <1>1 DEF Placed, All, Base, InitFont, ScriptsSucceed, Goes
  <1>5. Truthful' /\ Unstopped' /\ Explained' /\ Spoken'
    <2>1. CASE wire' = wire /\ sending' = sending
      BY <1>1, <1>2, <1>3, <1>4, <2>1, LogKept
    <2>2. CASE serial_write(Line("FreeType initialization failed"))
      <3>1. /\ "FreeType initialization failed" \in Words \ Firsts
            /\ "FreeType initialization failed" \notin Trusted
        BY ClaimsAre DEF Words, Firsts
      <3> QED  BY <1>1, <1>3, <1>4, <2>2, <3>1, LineGoesOn
    <2> QED  BY <2>1, <2>2 DEF InitFont, ScriptsSucceed, console_write, serial
  <1>6. Complete' /\ FontTold'
    <2>1. CASE InitFont /\ UNCHANGED serial /\ ready' = ready \cup {"FreeType"}
      <3>1. lost' = lost /\ \A x : Told(x)' <=> Told(x)
        BY <2>1 DEF serial, Told
      <3> QED  BY <1>1, <2>1, <3>1 DEF InitFont, Goes, Complete, FontTold, Before
    <2>2. CASE /\ InitFont /\ UNCHANGED ready
               /\ serial_write(Line("FreeType initialization failed"))
      <3>1. "FreeType initialization failed" \in Words
        BY DEF Words
      <3>2. at = "font" /\ at' = "font done" /\ "FreeType" \notin ready'
        BY <1>1, <2>2 DEF InitFont, Goes, Placed
      <3> QED  BY <1>1, <2>2, <3>1, <3>2, LineAdds DEF Complete, FontTold, Before
    <2>3. CASE ScriptsSucceed
      <3>1. lost' = lost /\ \A x : Told(x)' <=> Told(x)
        BY <2>3 DEF ScriptsSucceed, serial, Told
      <3> QED  BY <1>1, <2>3, <3>1 DEF ScriptsSucceed, Goes, Complete, FontTold, Before
    <2> QED  BY <2>1, <2>2, <2>3 DEF InitFont, console_write
  <1> QED  BY <1>2, <1>4, <1>5, <1>6 DEF LogInv

(* The kernel stops, and says why. *)
LEMMA KernelStops ==
  ASSUME LogInv, Unsupported \/ NoHeap \/ ScriptsFail \/ Dying
  PROVE  LogInv'
  <1>1. WireInv /\ Placed /\ Truthful /\ Complete /\ FontTold /\ Unstopped
    BY DEF LogInv
  <1>2. WireInv'
    BY <1>1, WireStep DEF Next, kmain
  <1>3. at \notin Stopped /\ at # "environment" /\ at' = "halt" /\ ready' = ready
    BY DEF Stopped, Unsupported, NoHeap, ScriptsFail, Dying, Goes
  <1>4. Placed'
    BY <1>1, <1>3 DEF Placed
  <1> DEFINE Says(reason) ==
               \E text \in Seq(Words) :
                 /\ serial_write(text)
                 /\ Occurs(reason[1], text) /\ reason[2] \notin ready
                 /\ \A other \in Reasons : Occurs(other[1], text) => other = reason
                 /\ \A line \in Marks : ~Occurs(line, text)
  <1>5. ASSUME NEW reason \in Reasons, serial_write(Line(reason[1])), reason[2] \notin ready
        PROVE  Says(reason)
    <2>1. reason[1] \in Words \ {LF} /\ reason[1] \notin Marks
      BY ReasonsAre
    <2>2. Line(reason[1]) \in Seq(Words) /\ Occurs(reason[1], Line(reason[1]))
      BY <2>1, Texts, LineTells
    <2>3. \A other \in Reasons : Occurs(other[1], Line(reason[1])) => other = reason
      BY <2>1, LineTells, ReasonsAre
    <2>4. \A line \in Marks : ~Occurs(line, Line(reason[1]))
      BY <2>1, LineTells, ReasonsAre
    <2> QED  BY <1>5, <2>2, <2>3, <2>4
  (* A text that starts with a reason and then only has words that are none. *)
  <1>6. ASSUME NEW reason \in Reasons, NEW text \in Seq(Words), serial_write(text),
               reason[2] \notin ready, Occurs(reason[1], text),
               \A x \in Firsts \cup Marks : Occurs(x, text) => x = reason[1]
        PROVE  Says(reason)
    <2>1. \A other \in Reasons : Occurs(other[1], text) => other = reason
      BY <1>6, ReasonsAre
    <2>2. \A line \in Marks : ~Occurs(line, text)
      BY <1>6, ReasonsAre
    <2> QED  BY <1>6, <2>1, <2>2
  <1>7. \E reason \in Reasons : Says(reason)
    <2> HIDE DEF Says
    <2>1. CASE Unsupported
      <3> DEFINE reason == <<"unsupported", "platform">>
      <3>1. reason \in Reasons /\ reason[2] \notin ready
        BY <1>1, <2>1 DEF Reasons, Unsupported, Goes, Placed
      <3>2. serial_write(Line(reason[1]))
        BY <2>1 DEF Unsupported
      <3> QED  BY <1>5, <3>1, <3>2
    <2>2. CASE NoHeap
      <3> DEFINE reason == <<"unable to initialize kernel heap", "heap">>
      <3>1. reason \in Reasons /\ reason[2] \notin ready
        BY <1>1, <2>2 DEF Reasons, NoHeap, Goes, Placed
      <3>2. serial_write(Line(reason[1]))
        BY <2>2 DEF NoHeap
      <3> QED  BY <1>5, <3>1, <3>2
    <2>3. CASE ScriptsFail
      <3> DEFINE reason == <<"JavaScript boot failed", "JavaScript environment">>
                 failed == Line("JavaScript boot failed")
      <3>1. reason \in Reasons /\ reason[2] \notin ready
        BY <1>1, <2>3 DEF Reasons, ScriptsFail, Goes, Placed
      <3>2. PICK report \in {<<>>, Line("exception")} : serial_write(report \o failed)
        BY <2>3 DEF ScriptsFail, console_write
      <3>3. /\ report \in Seq(Words) /\ failed \in Seq(Words)
            /\ \A x \in Words \ {LF} : Occurs(x, report) => x = "exception"
            /\ \A x \in Words \ {LF} : Occurs(x, failed) <=> x = "JavaScript boot failed"
        <4>1. {"exception", "JavaScript boot failed"} \subseteq Words
          BY DEF Words
        <4>2. CASE report = <<>>
          <5>1. DOMAIN report = {} /\ report \in Seq(Words)
            BY <4>2, EmptySeq
          <5>2. \A x : ~Occurs(x, report)
            BY <5>1 DEF Occurs
          <5> QED  BY <4>1, <5>1, <5>2, Texts, LineTells
        <4>3. CASE report = Line("exception")
          BY <4>1, <4>3, Texts, LineTells
        <4> QED  BY <3>2, <4>2, <4>3
      <3>4. /\ report \o failed \in Seq(Words)
            /\ \A x : Occurs(x, report \o failed) <=> Occurs(x, report) \/ Occurs(x, failed)
        BY <3>3, ConcatTells, ConcatProperties
      <3>5. /\ "exception" \notin Firsts \cup Marks
            /\ Firsts \cup Marks \subseteq Words \ {LF}
            /\ "JavaScript boot failed" \in Firsts
        BY ClaimsAre DEF Marks, Firsts, LF, Words
      <3>6. Occurs(reason[1], report \o failed)
        BY <3>3, <3>4, <3>5
      <3>7. \A x \in Firsts \cup Marks : Occurs(x, report \o failed) => x = reason[1]
        BY <3>3, <3>4, <3>5
      <3> QED  BY <1>6, <3>1, <3>2, <3>4, <3>6, <3>7
    <2>4. CASE Dying /\ serial_write(Line("abort()"))
      <3> DEFINE reason == <<"abort()", "">>
      <3>1. reason \in Reasons /\ reason[2] \notin ready
        BY <1>1 DEF Reasons, Placed, All, Base
      <3> QED  BY <1>5, <2>4, <3>1
    <2>5. CASE Dying /\ fprintf(Line("exit()"))
      <3> DEFINE reason == <<"exit()", "">>
                 text == Line("exit()")
                 n == IF Len(text) >= PrintSize THEN PrintSize - 1 ELSE Len(text)
                 short == SubSeq(text, 1, n)
      <3>1. reason \in Reasons /\ reason[2] \notin ready
        BY <1>1 DEF Reasons, Placed, All, Base
      <3>2. serial_write(short)
        BY <2>5 DEF fprintf
      <3>3. Len(text) = 2 /\ text[1] = "exit()" /\ text[2] = LF /\ text \in Seq(Words)
        BY Texts DEF Line, Words
      <3> HIDE DEF text
      <3>4. n \in {1, 2} /\ n \in 0 .. Len(text)
        BY <3>3, SerialAssumption
      <3> HIDE DEF n
      <3>5. short \in Seq(Words) /\ DOMAIN short = 1 .. n /\ \A i \in 1 .. n : short[i] = text[i]
        BY <3>3, <3>4, CutIs
      <3> HIDE DEF short
      <3>6. Occurs(reason[1], short)
        BY <3>3, <3>4, <3>5 DEF Occurs
      <3>7. \A x \in Firsts \cup Marks : Occurs(x, short) => x = reason[1]
        <4>1. LF \notin Firsts \cup Marks
          BY ClaimsAre DEF Marks, Firsts, LF
        <4>2. \A x : Occurs(x, short) => x = "exit()" \/ x = LF
          BY <3>3, <3>4, <3>5 DEF Occurs
        <4> QED  BY <4>1, <4>2
      <3> QED  BY <1>6, <3>1, <3>2, <3>5, <3>6, <3>7
    <2>6. CASE Dying /\ fprintf(<<"assertion failed", "expression", "place", LF>>)
      <3> DEFINE reason == <<"assertion failed", "">>
                 text == <<"assertion failed", "expression", "place", LF>>
                 n == IF Len(text) >= PrintSize THEN PrintSize - 1 ELSE Len(text)
                 short == SubSeq(text, 1, n)
      <3>1. reason \in Reasons /\ reason[2] \notin ready
        BY <1>1 DEF Reasons, Placed, All, Base
      <3>2. serial_write(short)
        BY <2>6 DEF fprintf
      <3>3. /\ Len(text) = 4 /\ text \in Seq(Words) /\ text[1] = "assertion failed"
            /\ \A i \in 2 .. 4 : text[i] \in {"expression", "place", LF}
        BY DEF Words
      <3> HIDE DEF text
      <3>4. n \in 1 .. 4 /\ n \in 0 .. Len(text)
        <4>1. PrintSize \in Nat /\ PrintSize > 1
          BY SerialAssumption
        <4>2. Len(text) = 4
          BY <3>3
        <4>3. n = IF 4 >= PrintSize THEN PrintSize - 1 ELSE 4
          BY <4>2
        <4> HIDE DEF n
        <4> QED  BY <4>1, <4>2, <4>3
      <3> HIDE DEF n
      <3>5. short \in Seq(Words) /\ DOMAIN short = 1 .. n /\ \A i \in 1 .. n : short[i] = text[i]
        BY <3>3, <3>4, CutIs
      <3> HIDE DEF short
      <3>6. Occurs(reason[1], short)
        <4>1. 1 \in 1 .. n
          BY <3>4
        <4> QED  BY <3>3, <3>5, <4>1 DEF Occurs
      <3>7. \A x \in Firsts \cup Marks : Occurs(x, short) => x = reason[1]
        <4>1. {"expression", "place", LF} \cap (Firsts \cup Marks) = {}
          BY ClaimsAre DEF Marks, Firsts, LF
        <4>2. ASSUME NEW i \in 1 .. n
              PROVE  short[i] = "assertion failed" \/ short[i] \in {"expression", "place", LF}
          <5>1. i = 1 \/ i \in 2 .. 4
            BY <3>4
          <5> QED  BY <3>3, <3>5, <5>1
        <4> QED  BY <3>5, <4>1, <4>2 DEF Occurs
      <3> QED  BY <1>6, <3>1, <3>2, <3>5, <3>6, <3>7
    <2> QED  BY <2>1, <2>2, <2>3, <2>4, <2>5, <2>6 DEF Dying
  <1>8. Truthful' /\ Complete' /\ FontTold' /\ Unstopped' /\ Explained' /\ Spoken'
    BY <1>1, <1>3, <1>7, Stops
  <1> QED  BY <1>2, <1>4, <1>8 DEF LogInv

(* The transmitter is polled, or dies. *)
LEMMA LogTransmits ==
  ASSUME LogInv, Transmit
  PROVE  LogInv'
  <1>1. WireInv /\ Placed /\ Truthful /\ Complete /\ FontTold /\ Unstopped /\ Explained /\ Spoken
    BY DEF LogInv
  <1>2. WireInv'
    BY <1>1, WireStep DEF Next
  <1>3. at' = at /\ ready' = ready
    BY DEF Transmit, boot
  <1>4. /\ \A x : Told(x)' => Told(x)
        /\ lost' = {} => lost = {} /\ \A x : Told(x) => Told(x)'
        /\ sending = <<>> => sending' = <<>>
    <2>1. CASE Poll
      <3>1. sending # <<>>
        BY <2>1 DEF Poll, Ready, NotReady
      <3> QED  BY <1>1, <2>1, <3>1, PollTells
    <2>2. CASE Dies
      BY <2>2 DEF Dies, Told
    <2> QED  BY <2>1, <2>2 DEF Transmit
  <1>5. Placed' /\ Spoken'
    BY <1>1, <1>3, <1>4 DEF Placed, Spoken
  <1>6. Truthful'
    BY <1>1, <1>3, <1>4 DEF Truthful
  <1>7. Unstopped'
    BY <1>1, <1>3, <1>4 DEF Unstopped
  <1>8. Explained'
    BY <1>1, <1>3, <1>4 DEF Explained
  <1>9. Complete' /\ FontTold'
    BY <1>1, <1>3, <1>4 DEF Complete, FontTold
  <1> QED  BY <1>2, <1>5, <1>6, <1>7, <1>8, <1>9 DEF LogInv

(* The kernel is halted: all it had to say is put. *)
LEMMA LogHalts ==
  ASSUME LogInv, platform_halt
  PROVE  LogInv'
  <1>1. WireInv /\ Placed /\ Truthful /\ Complete /\ FontTold /\ Explained
    BY DEF LogInv
  <1>2. WireInv'
    BY <1>1, WireStep DEF Next
  <1>3. /\ at = "halt" /\ at' = "halted" /\ sending' = <<>>
        /\ sending' = sending /\ wire' = wire /\ lost' = lost /\ ready' = ready
    BY DEF platform_halt, Goes, serial
  <1>4. \A x : Told(x)' <=> Told(x)
    BY <1>3 DEF Told
  <1>5. Placed' /\ Truthful' /\ Unstopped' /\ Spoken'
    BY <1>1, <1>3, <1>4 DEF Placed, Truthful, Unstopped, Spoken, Stopped
  <1>6. Explained'
    BY <1>1, <1>3, <1>4 DEF Explained, Stopped
  <1>7. Complete' /\ FontTold'
    BY <1>1, <1>3, <1>4 DEF Complete, FontTold, Before
  <1> QED  BY <1>2, <1>5, <1>6, <1>7 DEF LogInv

(* The shell, from the end of the boot on. *)
LEMMA LogEnds ==
  ASSUME LogInv, Handover \/ Running \/ platform_reboot \/ PollController \/ UNCHANGED vars
  PROVE  LogInv'
  <1>1. WireInv /\ Placed /\ Truthful /\ Complete /\ FontTold /\ Unstopped /\ Explained /\ Spoken
    BY DEF LogInv
  <1>2. WireInv'
    BY <1>1, WireStep DEF Next
  <1>3. CASE Handover
    <2>1. at' = "shell" /\ ready' = {} /\ wire' = <<>> /\ sending' = <<>>
      BY <1>3 DEF Handover
    <2>2. \A x : ~Told(x)'
      BY <2>1 DEF Told, Occurs
    <2>3. Complete' /\ FontTold'
      BY <2>1, <2>2 DEF Complete, FontTold, Before
    <2> QED
      BY <1>2, <2>1, <2>2, <2>3 DEF LogInv, Placed, Truthful, Unstopped, Explained, Spoken, Stopped
  <1>4. CASE UNCHANGED vars
    <2>1. /\ at' = at /\ ready' = ready /\ lost' = lost /\ sending' = sending
          /\ \A x : Told(x)' <=> Told(x)
      BY <1>4 DEF vars, Told
    <2>2. Placed' /\ Truthful' /\ Unstopped' /\ Spoken'
      BY <1>1, <2>1 DEF Placed, Truthful, Unstopped, Spoken
    <2>3. Explained'
      BY <1>1, <2>1 DEF Explained
    <2>4. Complete' /\ FontTold'
      BY <1>1, <2>1 DEF Complete, FontTold
    <2> QED  BY <1>2, <2>2, <2>3, <2>4 DEF LogInv
  <1>5. CASE Running \/ platform_reboot \/ PollController
    <2>1. /\ at \in {"shell", "rebooting"} /\ at' \in {"shell", "rebooting", "reset"}
          /\ ready' = ready /\ wire' = wire /\ sending' = sending /\ lost' = lost
      BY <1>5 DEF Running, platform_reboot, PollController, InShell, boot, serial
    <2>2. at \notin Stopped /\ at' \notin Stopped /\ Placed'
      BY <1>1, <2>1 DEF Stopped, Placed
    <2>3. Complete' /\ FontTold'
      BY <1>1, <2>1 DEF Complete, FontTold, Told, Before
    <2> QED  BY <1>1, <1>2, <2>1, <2>2, <2>3, LogKept DEF LogInv
  <1> QED  BY <1>3, <1>4, <1>5

(* Every step keeps the invariant of the log, *)
LEMMA LogStep == LogInv /\ [Next]_vars => LogInv'
  BY KmainGoesOn, FontAndScripts, KernelStops, LogTransmits, LogHalts, LogEnds DEF Next, kmain

(* and so it always holds. *)
LEMMA LogAlways == Spec => []LogInv
  <1>1. ASSUME Init PROVE LogInv
    <2>1. /\ said = <<>> /\ sending = <<>> /\ wire = <<>> /\ lost = {}
          /\ at = "entry" /\ ready = {}
      BY <1>1 DEF Init, InitSerial
    <2>2. Put(<<>>)
      BY <2>1, NothingPut DEF Put
    <2>3. WireInv
      BY <2>1, <2>2, NothingPut DEF WireInv
    <2>4. \A x : ~Told(x)
      BY <2>1 DEF Told, Occurs
    <2>5. Complete /\ FontTold
      BY <2>1, <2>4 DEF Complete, FontTold, Before
    <2> QED
      BY <2>1, <2>3, <2>4, <2>5 DEF LogInv, Placed, Truthful, Unstopped, Explained, Spoken, Stopped
  <1> QED  BY <1>1, LogStep, PTL DEF Spec

(***************************************************************************)
(* What the log says of the things that kmain cannot do without is true,   *)
(* and if the UART lost nothing it is complete, tells whether there is     *)
(* FreeType, and gives the reason of a kernel that halted while booting:   *)
(* of kmain, and of abort, exit and failed assertions, in buffers of every *)
(* size.  (Of the framebuffer it says what may not be true, see            *)
(* ReadyLinesTrue.)                                                        *)
(***************************************************************************)
THEOREM LogIsHonest == Spec => []LogHonest
  <1>1. ASSUME LogInv PROVE LogHonest
    <2>1. Truthful /\ Complete /\ FontTold /\ Explained
      BY <1>1 DEF LogInv
    <2>2. \A line \in Trusted : Wired(line) => Claims[line] \subseteq ready
      BY <2>1 DEF Truthful, Told, Occurs, Wired
    <2>3. ASSUME sending = <<>> PROVE \A x : Told(x) <=> Wired(x)
      <3>1. \A x : ~Occurs(x, sending)
        BY <2>3 DEF Occurs
      <3> QED  BY <3>1 DEF Told, Occurs, Wired
    <2>4. ASSUME lost = {}, sending = <<>>, at # "environment", NEW line \in Trusted,
                 Claims[line] \subseteq ready
          PROVE  Wired(line)
      <3>1. Told(line)
        BY <2>1, <2>4, ClaimsAre DEF Complete, Base
      <3> QED  BY <2>3, <2>4, <3>1
    <2>5. ASSUME lost = {}, sending = <<>>, Wired("FreeType ready")
          PROVE  "FreeType" \in ready <=> ~Wired("FreeType initialization failed")
      BY <2>1, <2>3, <2>5 DEF FontTold
    <2>6. ASSUME at = "halted", lost = {}, sending = <<>>
          PROVE  \E reason \in Reasons :
                   /\ Wired(reason[1]) /\ reason[2] \notin ready
                   /\ \A other \in Reasons : Wired(other[1]) => other = reason
      <3>1. PICK reason \in Reasons :
              /\ Told(reason[1]) /\ reason[2] \notin ready
              /\ \A other \in Reasons : Told(other[1]) => other = reason
        BY <2>1, <2>6 DEF Explained, Stopped
      <3> QED  BY <2>3, <2>6, <3>1
    <2> QED  BY <2>2, <2>4, <2>5, <2>6 DEF LogHonest
  <1> QED  BY <1>1, LogAlways, PTL
=============================================================================
