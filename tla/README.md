# JS-OS in TLA+

JS-OS is a freestanding x86_64 kernel whose userspace is QuickJS. This directory holds
TLA+ models of the parts of the kernel whose correctness is not obvious from reading
one function, TLC configurations that check them on small instances, and TLAPS proofs
that what they check holds for every size of the heap, the array, the page tables and so on. Paths below are relative to the repository root
(`src/kernel/...` is the kernel, `vendor/` is third-party code).

    tlc -config MCHeap.cfg MCHeap          # and so on for the other configurations
    tlapm HeapProofs.tla                   # and so on for the other proof modules

## The system

The kernel has one thread of control and takes no interrupts: there is no interrupt
table, the keyboard and the serial port are polled. What interleaves is *calls*: long
sequences of small operations by callers that do not know of each other (QuickJS, the C
library, scripts, the shell) on shared static state, and control that passes from C to a
script and, through native bindings, back to C before the first entry has returned.

| Component | Code | State | Operations | Hard part |
|---|---|---|---|---|
| Boot | `src/main.c` | the log on the serial port | `kmain`: serial, platform, address space, heap, constructors, framebuffer, five scripts, shell | order of initialisation; what a failing step leaves |
| Kernel heap | `src/kernel/heap.c` | block list in the array, `allocation_count` | allocate, callocate, reallocate, release, usable size, statistics | list surgery over long call sequences; overflow; exhaustion |
| JS memory accounting | `runtime.c:31-90` | `JSMallocState` | `runtime_malloc`, `_free`, `_realloc` | accounts across moves and slack; the limit; heap shared with uncharged callers |
| Execution guard, evaluations, jobs | `runtime.c:17-29, 92-303` | `guard.deadline`, `runtime`, `context`, QuickJS's job list | start, run, eval, drain jobs, report, print, prompt | one deadline for nested entries; what runs without one; what a failure leaves pending |
| Shell line editor | `runtime.c:305-383` | `line`, `length`, `cursor_visible` | one handler per key event, blinking | the line and the screen must agree |
| Text console | `framebuffer.c:427-553` | cursor, colours, the pixels | write, scroll, clear, set cursor, show cursor | wraps, scrolling, rubouts across rows, cursor off the screen |
| Drawing | `framebuffer.c:1-425` | the pixels | pixel, blend, rectangles, line, circle, rounded rectangle, triangle, image, text, copy | 64-bit clipping, integer geometry, channel arithmetic |
| MMIO mapper | `platform.c:40-107` | page tables, pool of 64 tables | `platform_map_mmio` | table allocation, existing large pages, wrap-around, partial failure |
| Clock | `platform.c:148-224` | TSC calibration | uptime, unix time, sleep | overflow of tick arithmetic |
| Serial port | `src/kernel/serial.c`, streams in `libc.c` | UART | init, write | bounded wait, dropped characters, a dead UART |
| C library | `src/kernel/libc.c` | none | memory and string functions, `qsort`, `vsnprintf`, `atoi` | overlapping areas, index arithmetic, buffers too small, formatting of limits |
| CPU and power | `platform.c` | none | cpuid, port I/O, reboot, shutdown, halt | the wait for the keyboard controller |

How they interact. `kmain` initialises everything in a fixed order and never returns.
QuickJS allocates through `JSMallocFunctions` from the same heap that `malloc` in
`libc.c` uses for the rest of the kernel. The runtime arms `guard.deadline` before it
evaluates source or runs a job, and disarms it after; QuickJS polls `interrupt_handler`. Promises leave
jobs in QuickJS's list, which the runtime drains after every successful evaluation. The
shell reads key events, edits a line, echoes it on the console, evaluates it, and writes
the prompt; `console_write_n` mirrors everything on the serial port, which is also where
the log of the boot and the C library's output streams go.

Not in the repository, though the code calls it: `src/kernel/api.c` (native bindings),
the keyboard driver, the font renderer, the SVGA driver, `limine.h`, the boot scripts.
They are modelled, where they matter, as what the code here can observe of them.

What makes each component correct:

* heap: the blocks tile the array; what callers hold is what is in use; contents survive;
  a request that can be met is met; statistics are exact; calls return;
* accounting: charged = held, at all times; the limit bounds what is held;
* runtime: a deadline is always that of the innermost entry and never stale; no entry
  without a context, and never a runtime without one; no job forgotten after a success; nothing outlives its deadline;
* shell and console: what is shown is what will be evaluated; one cursor; no overflow of
  the line; the cursor returns to the screen;
* `qsort`: returns the elements sorted, touches nothing else (it does not, see Findings);
* MMIO mapper: after success every page of the range is mapped to itself, no other
  translation changes, no table is used twice;
* drawing: nothing outside the framebuffer is written, shapes are what their equations say,
  clipped (not always, see Findings); texts lie in the box that is measured for them, and
  a blended pixel lies between the two it is made of;
* serial port and boot: what was said arrives in order, or is lost to a late UART and
  nothing else; no wait for hardware is endless; the log says what is true (not always, see
  Findings);
* clock: exact to the microsecond through every wrap; no sleep is too short;
* C library: the string functions do what C says of them; `vsnprintf` writes no byte too
  many and its fields read back as their arguments.

## Modules

| Module | Models | Composes |
|---|---|---|
| `Allocator` | what `heap.h` promises: grants that do not overlap, contents that stay | |
| `Heap` | `heap.c`, block list and walks | implements `Allocator` |
| `HeapProofs` | theorems about `Heap`, `Allocator` among them | extends `Heap` |
| `JsMemory` | the accounting in `runtime.c`, `malloc` in `libc.c` | uses `Allocator` |
| `Runtime` | evaluations, guard and jobs in `runtime.c`, driven by `kmain` | |
| `RuntimeProofs` | theorems about it and `JsMemory` | extends `Runtime`, `JsMemory`, `Induction` |
| `Console` | the text console of `framebuffer.c` | |
| `Shell` | the line editor of `runtime.c`, a terminal at the serial port | extends `Console` |
| `ShellProofs` | theorems about it | extends `Shell` |
| `Qsort` | `qsort` of `libc.c` | |
| `Mmio` | `platform_map_mmio` in `platform.c`, with the processor's walk | |
| `MmioProofs` | theorems about it | extends `Mmio`, `Induction` |
| `Colors` | channels, colours and their blending in `framebuffer.c` | |
| `Raster` | shapes, images and text of `framebuffer.c` | extends `Colors` |
| `RasterProofs` | theorems about it | extends `Raster`, `Induction` |
| `Serial` | `serial.c`, the console's mirror, `fprintf` | |
| `Clock` | calibration, uptime, time of day, sleep in `platform.c` | |
| `Boot` | `kmain`, the ways to halt, the reboot | extends `Serial`, `Clock` |
| `BootProofs` | theorems about the three | extends `Boot`, `Induction` |
| `Strings` | the memory and string functions of `libc.c` | |
| `Format` | `vsnprintf`, `atoi` of `libc.c` | |
| `Libc` | the three, side by side | extends `Strings`, `Format`, `Qsort` |
| `LibcProofs` | theorems about the three | extends `Libc`, `Induction` |
| `Induction` | induction on numbers and finite sets, some arithmetic, for the proofs | |
| `MC*` | constants for TLC | |

### Heap and Allocator

Addresses are offsets from `heap_begin` in units of `HEAP_ALIGNMENT` (16 bytes); a header
is `HeaderUnits` long (2 in the build). The header fields live in the memory they
describe, so `heap.size`, `heap.prev`, ... are functions of the address and
`heap.magic[u]` says whether the word there is `HEAP_MAGIC`. That lets the model express
the interesting errors: an absorbed header inside a payload, a split over the next block,
a stale pointer that `payload_block` takes for a block. It is assumed that no caller
stores `HEAP_MAGIC` at that place itself. `heap.data` is the contents, `client` the
callers' view (what they hold, asked for and wrote), a history variable.

`split_block`, `merge_with_next`, `ReleaseBlock` and `TakeBlock` are functions from heap
to heap; each operation composes them in the order of the code. The loops of
`heap_allocate` and `heap_stats` are one action per block (`SearchNext`, `StatsVisit`),
because what they skip is a property of its own. A refused request (size 0, overflow, not a
pointer of the heap) changes nothing and is no step. `heap_reallocate` is three actions,
one per branch; the moving one searches, copies and releases as the code does.

The abstract `Allocator` has no list: a set of grants and what may be relied on in each
unit. `Heap` implements it under the mapping `Granted`, `Promised`.

Documented by the model, no defect: a shrinking `heap_reallocate` leaves its rest beside
a free block (`heap.c:170-172` splits without merging), so two free blocks can lie side by
side, and a heap where everything was released need not be one block. The action
property `OnlyShrinkingFragments` says that this is the only way it happens.

### JsMemory

Uses the abstract allocator, as `Heap` is shown to implement it: grants may be up to a
header larger than asked for, and any request may fail. QuickJS's calls are checked
against the limit by the size asked for, but charged the usable size; `AccountsExact` and
`LimitHolds` say how far that can go. The kernel's own `malloc` is not charged.

### Runtime

C code is at one place, `pc`; `stack` holds the entries into QuickJS, innermost first. A
script lets time pass, leaves jobs, enters `js_runtime_eval` again through a binding
(exported by `runtime.h` for that purpose; the bindings themselves are not in the
repository), returns or throws. A command is two entries: `shell_evaluate` looks up
`__shellEval` on the global object (kind `lookup`, `runtime.c:271`), where a getter can run any
script code before a deadline is set; `EvaluateLine` then arms the guard and calls what was found
or, when that is no function or the lookup threw, `js_runtime_eval`. The other lookups
(`__shellFormat`, `__shellPrompt`, an error's `stack`) count as part of the entry that uses them, of
kind `print`, `report` or `prompt`: these format values, which can run any script code too (a
`toString`), with no deadline either. The model has all of this, and `GuardExact` states which
entries have a deadline and which have none. It also states the consequence of having one
deadline for all: after a nested evaluation returns, the outer one runs without any.

### Console and Shell

A cell shows a character, nothing, or the cursor's block. The console writes one character
per step. Scripts write, clear and set the cursor, also off the screen, because
`console_set_cursor` does not clamp; `adrift` remembers that. Screens of at least two rows
and columns are assumed (the cursor starts at (1, 1)); with a height of at most 16 pixels
the code never scrolls and the cursor would leave the screen for good.

`ShellAssumption` says what is written: no glyph fills its cell like the cursor's block, which
the proofs need to tell them apart, and the prompt, which a script may set (`__shellPrompt`), has no
control characters. With a line feed in the prompt the cells before the cursor would be those of
several rows, not filled to their ends, and `LineShown` would have to say that instead; typed
characters are printable by the code's own test.

### Qsort

One comparison of `sift_down` per step, in memory that continues behind the array.
`LastParent` keeps the wrap of `(end - 1) / 2` in `size_t`. `MCLibc` runs it beside the other functions of
`libc.c` (`Libc`); by itself (`Spec`) it is what `MCQsortReturns` checks.

### Mmio

The walk of `map_mmio_page` takes one level of the tree per step. An entry is absent, leads
to a table, or maps a span of pages; `high` stands for a set bit above the address or the
PAT bit, which `platform.c:76-78` compares along with the address, so that it refuses such a
large page even where it maps the right memory. The tables start as the firmware left them
(`Trees`); new ones come from a pool that is never returned to. A failing call leaves the
tables it took and the pages it entered, as the code does. `Walk` and `Translated` are what
the processor makes of the tables; the properties are about them and not about the code's walk.

Two assumptions are about the world outside. `FirmwareAssumption`: what the firmware left is a
tree of the levels CR4 says, and where its direct map has single pages, those that devices
ask for map themselves, which is what a direct map is; the code overwrites such an entry
without looking (`platform.c:91-93`). Large pages may be anything, since the code compares
them. `SpanAssumption`: physical addresses lie within what the tree spans, so no two pages
that are asked for share all their slots. TLC evaluates both on every firmware tree of the run.

A range whose rounded
end is exactly 2^64 wraps to 0 (`platform.c:102`): the call enters nothing and returns a
pointer. The run has such a call (the byte at 30); since no page of it is in the
half-open range `start .. end - 1`, `PromisesKept` does not speak about it.

### Raster

A primitive that calls others leaves them in `todo` (the sides of a stroke, the cross and
discs of a rounded rectangle, the chords of a disc); a line advances by a pixel per step, a
circle by a pass of its loop, a text by a character. The screen has one colour: what is painted is the question.
`clip_axis` wraps as the compiled code does. The properties compare a finished call with a
definition that knows nothing of the algorithm: circles are the points nearest to the real
circle, lines have one nearest point per column (or row, when steep) and no gap, triangles
are the points that no edge separates from the opposite corner. `ShapesExact` has a part for rectangles,
triangles, texts and images (`AreasExact`), one for lines (`LinesTrue`) and one for circles, discs and
rounded rectangles (`CirclesExact`).
`edge` computes in `int64_t`, each difference and product of it, and is compared with `Side`, which has all
integers. Coordinates whose arithmetic overflows are left out for everything but filled rectangles, where `clip_axis`
is the subject: `RasterAssumption` asks of lines, circles and rounded rectangles that they be a quarter of the
range or so, `OverflowAssumption` of strokes, texts and images that their far sides still be numbers, and of triangles
that the area of the rectangle around the corners be at most half of `INT64_MAX` (corners at most some 2^31 apart;
beyond that the products at `framebuffer.c:294` overflow).

Text is drawn in the bitmap font, a square for each bit that is set; with FreeType, whose
renderer is not in the repository, `framebuffer_text` passes the call on. A text that
starts left of or above the screen inherits the clipping of rectangles and is left out of
the comparison. `framebuffer_measure_text` counts lines in a loop of its own;
`TextMeasured` holds the two loops against each other. Images are drawn of opaque and
transparent pixels; what `framebuffer_blend_pixel` makes of one pixel between the two is a
call of its own, in formats of 8, 5/6/5 and 10 bits and of channels of 1, 2 and 0 bits
(`Colors`). A channel of more than 8 bits only ever holds 8-bit values here, as
`framebuffer_rgb` makes them (`IsPixel`). `RasterAssumption` asks that formats are what a loader may say
of a pixel of 32 bits: channels that lie in it and do not overlap (`IsFormat`); `framebuffer_init`
does not check it.

### Serial, Clock and Boot

`Serial` takes one poll of the transmitter per step, so that a UART that is late or dies can
come between any two characters; `sending` are the characters that `serial_putc` made of
the text, `lost` the positions given up. A dead UART loses all that follows and costs
`Spins` polls each time. `console_write` and `fprintf` reach the port through it; the
latter by way of a buffer that cuts the text off; `SerialAssumption` wants room for a character
and the end of the string in it (`libc.c` has 2048 bytes).

`Boot` has one action per stretch of `kmain` between two lines of the log; each waits until
the line before is out. A line is a character that stands for its text and a newline, so a
lost character is a lost line or a lost line end. `ready` remembers what has been initialised,
`Dying` is `abort`, `exit` or a failed assertion in code that `kmain` calls. `Claims` is what each line that
says that something is ready claims to be there. `ReadyLinesTrue`, that all of them are true, does not hold: the lines about
the framebuffer and FreeType (`main.c:90`, `:95`) are written whether or not there is one (see Findings).
`LogHonest` says how far the log can be trusted all the same: the other lines (`Trusted`) are true, and complete when nothing was
lost; a failure of FreeType is told exactly if it happened; a halted kernel has given its one true reason. In the shell the log is forgotten and the
clock starts to run (`Handover`); what the shell writes is `Shell`'s subject.

`Clock` computes in numbers below `Word`, so that everything wraps that wraps in 64 bits; the
counter starts at any value of `Starts`, near its end too. What time has really passed is
`ticks`. `FrequencyAssumption` says what the 64 bits allow: the remainder of a second, below the
frequency, times a million fits (frequencies below 18 THz), and so do the microseconds of as
many ticks as there are (above 1 MHz; beyond that the clock would run out before the counter).
The sleep loop is its last pass, `WakeUp`, which any tick may come before.
`SleepHonest` leaves out sleeps whose end does not fit into 64 bits of microseconds: there
`platform.c:220` wraps, where `execution_deadline` (`runtime.c:25`) saturates, and the sleep ends
at once. No document says what should happen after 584,000 years, so it is noted here and not
counted as a finding.

### Strings, Format and Libc

`Strings` runs the loops of the functions, byte by byte, on one small memory, so that areas
that overlap interfere. A call is made if C allows it: only `memmove` gets areas that overlap,
strings end in the memory. `CallsExact` compares with definitions over sequences, which know
neither loops nor addresses. Of the comparisons only the sign of the result counts.

`Format` takes directives as `vsnprintf` has parsed them, flags, width, precision, conversion
and argument, and converts one per step. Numbers of 8 bits stand for all sizes (`Word`); a real
number is a sign and eighths, for which the arithmetic of doubles is exact. `FieldsExact`
says what C says, except where the code keeps less; these are the differences:
a real is cut off at its precision, not rounded, and a precision above 12 is taken for 12; with
the zero flag the zeros come before the sign of a negative real, because `fixed_double` puts
the `-` with the digits and not in `prefix`; a zero with a precision of 0 is printed as `0`, not as
nothing; the space flag is ignored for reals. Nothing in the repository uses or promises these.
The cap of the result at `INT32_MAX` is out of the bounds.

## Runs

| Configuration | Properties | Bounds |
|---|---|---|
| `MCHeap.cfg` | `TypeOK HeapTiled CallersHoldUsedBlocks GrantsAreTight ContentsPreserved SearchSkipsNoFit StatsExact OnlyShrinkingFragments ImplementsAllocator CallsReturn` | 8 units, headers of 1: up to four blocks, all split/merge neighbourhoods, rests that are just too small to be split off; sizes include 0, one that rounds past `SIZE_MAX`, and products that wrap |
| `MCJsMemory.cfg` | `AccountsExact LimitHolds` | 7 units of 2 bytes, limit 7 bytes: the limit falls inside a block, overshoot by slack and padding both occur |
| `MCRuntime.cfg` | `TypeOK GuardExact JobsSettled DeadlineEnds` | clock 0..6, limit 2 (three limits fit, the saturating deadline occurs), 2 scripts (a first and a later one), 2 pending jobs, 3 nested entries |
| `MCShell.cfg` | `LineShown LineMirrored OneCursor CursorKept` | 3 rows by 2 columns, a line of 6: longer than the screen, every wrap and scroll occurs; cursor set up to two rows off the screen |
| `MCMmio.cfg` | `TypeOK PromisesKept TablesFormTree TranslationsKept` | 3 levels of tables of 2, pages of 2 bytes, 32 bytes of addresses; 6 firmware trees (large pages that map the wanted memory, other memory, or have high bits), a pool of 2 tables: it runs out in the middle of a call |
| `MCRaster.cfg` | `TypeOK ShapesExact TextMeasured BlendsExact ShapesEnd` | 5 by 4 pixels, `INT64_MAX` 63, which twice the area around the widest triangle (60) just fits: shapes inside, across each edge and corner, and beyond; every line between 42 points, triangles between 20 points (both turns, degenerate ones too), radii to 4; texts of up to 3 characters and line breaks at scales 0 to 3 of 2; images too short, exact and too long; 4 pixel formats, 13 levels in each channel, 9 alphas |
| `MCBoot.cfg` | `WireFaithful LogHonest UptimeExact SleepHonest WaitsEnd` | 2 polls before a character is given up, one character lost to a late UART, death at any time; `Word` 64, a million of 4, frequencies of 3 to 13 from five kinds of processor, 60 ticks from a counter at 0 and at 50: it wraps, and ticks times a million does |
| `MCLibc.cfg` | `CallsExact SinkExact FieldsExact HeapOrdered SortsBeforeLastSift Returns` | every memory of 5 bytes over 3 values and every call on it; all flags, 3 widths, 4 precisions with numbers at both ends of 8 bits; buffers of 0 to 6; every array of 0 to 6 elements over 3 values, in 8 cells of memory |
| `MCRasterClips.cfg` | `RectsClipped`, violated | the same screen, rectangles only |
| `MCRasterRounds.cfg` | `RoundedInside`, violated | rounded rectangles with even sides |
| `MCBootLog.cfg` | `ReadyLinesTrue`, violated | those of `MCBoot.cfg` |
| `MCQsortReturns.cfg` | `ReturnsSorted`, violated | arrays of up to 3 |

Deadlock is checked except in `MCQsortReturns` (the call ends), `MCRuntime` and `MCBoot*` (the kernel
may halt or be reset) and `MCLibc` (`vsnprintf` and `qsort` return).

Fairness. `Heap`: a walk that has started goes on (`WF_vars(Continue)`), since nothing
else can run on the only thread. `Qsort`, `Libc` for it, and `Raster`: the same. `Boot`: the loops that poll
the UART and the keyboard controller go on; nothing is assumed about either device. `Runtime`: time passes, and script
code that is past its deadline is interrupted (`WF` on `Tick` and `Interrupted`), since
QuickJS polls the handler at every loop and call (`__js_poll_interrupts`); nothing is
assumed about scripts returning, so nothing is claimed about the prompt coming back.
`Shell`, `JsMemory` and `Mmio` have safety properties only, and so have the other parts of `Libc`.

## Findings

`MCQsortReturns` finds that `qsort` (`libc.c:244-257`) does not sort. The last round of
the extraction calls `sift_down` with `end = 0`, where `(end - 1) / 2` wraps to
`SIZE_MAX / 2` (`libc.c:231`): the loop takes the sorted elements behind the one-element
heap for its children, swaps, and continues at indices 3, 7, ... past the array.
`MCLibc` shows that everything up to that call is right: the array is sorted when it is
made.

`MCRasterClips` finds that a rectangle that starts left of or above the screen is drawn to
the opposite edge, even if it ends before the screen begins: a pixel at (-1, -2) paints the
whole screen. `INT64_MAX - start` in `clip_axis` (`framebuffer.c:157`) overflows for every
negative start; it wraps at all optimisation levels of GCC, so that `end` is always
`INT64_MAX`. `ShapesExact` shows that rectangles that start on the screen or beyond its
right and lower edges are right.

`MCRasterRounds` finds that a rounded rectangle sticks out by a pixel on both sides when
the radius is half of an even side, which is what `framebuffer.c:276` limits it to: a disc is
`2 * radius + 1` pixels wide. `CirclesExact` shows that all smaller radii are right. A stroke
thicker than its rectangle is drawn beyond it, too; nothing says that it should not.

`MCBootLog` finds that the log says `framebuffer ready` (`main.c:90`) where there is no framebuffer: `kmain`
writes the line if the loader offered none, and if `framebuffer_init` refused it, whose result it ignores. The same is
true of `FreeType ready` (`main.c:95`), which follows even on `FreeType initialization failed` (`:93`). `LogHonest` shows
that these two are the only such lines, and that the failure of FreeType, at least, can be read from the line before.

## Proofs

Every theorem holds for all values of the constants that satisfy the named assumptions of the
modules (`HeapAssumption`, `OverflowAssumption`, ...), which TLC evaluates on the constants of the runs. No theorem has
other hypotheses. The invariants were first checked by TLC, then proved inductive.

### Heap (`HeapProofs`)

For every heap size, header size, alignment, `SIZE_MAX`, set of request sizes and set of values:

* `TypesHold`, `HeapIsTiled`: `Spec => []TypeOK`, `Spec => []HeapTiled`;
* `CallersHold`, `GrantsTight`, `ContentsArePreserved`: the same for
  `CallersHoldUsedBlocks`, `GrantsAreTight`, `ContentsPreserved`;
* `FirstFit`, `StatsAreExact`: the same for `SearchSkipsNoFit`, `StatsExact`;
* `OnlyShrinksFragment`: `Spec => OnlyShrinkingFragments`;
* `HeapImplementsAllocator`: `Spec => ImplementsAllocator`, the refinement.

The argument has three layers. `Structure` is `TypeOK`, the tiling, and `CallOK`: a walk is
at a block or past the last, and a moving reallocation still owns its old block, too small
for the request. The tiling alone is not inductive, since a search that continues from an
arbitrary address would split garbage. One lemma per helper does the list
surgery: `SplitCuts` and `MergeJoins` say what the functions do address by address,
`CutTiled` and `JoinTiled` that any such change keeps a tiling; `SplitBlock`, `MergeBlock`,
`TakeList`, `ReleaseList` and `MoveList` combine them as the operations do. `StructureStep`
has one case per action.

`Ownership`, on top, adds what callers hold, that a search asks for the size the
caller asked for, and `ContentsKnown`: units with known contents lie in a block in use.
That last conjunct is what makes `ContentsPreserved` inductive: without it a split or a
merge could take a unit with known contents for its own. `GainOwnership`,
`ReleaseOwnership` and `MoveOwnership` are the lemmas, `OwnershipStep` the cases.

`Walks`, beside it, says what a walk knows of the blocks it has passed (`Passed`): none fits,
and `heap_stats` has added them up. Fragmentation is a statement about `Uncoalesced`, the
blocks with a free block behind them: lemmas say what a split, a merge and a
release do to that set, and the step theorem follows without a further invariant.

The refinement maps blocks in use to grants (`Grants`, `GrantAt`) and what callers wrote to
promises. Under `Structure` and `Ownership` each operation is shown to be one of the
allocator's: `GainRefines` makes an allocation `Allocate` or `Callocate`, `LossRefines` a release
`Release`, `MoveRefines` a reallocation that moves `Reallocate`; what stays in place is a case of
`AllocatorStep`, and the steps of a walk change nothing the allocator has (`NothingSeen`).

### Runtime (`RuntimeProofs`)

*Evaluations, guard and jobs.* `TypesHold`, `GuardIsExact` and `JobsAreSettled`, for every limit, clock, number of scripts, jobs and
nested entries. `GuardExact` needs `NestedOnly`: all entries but the outermost are
`js_runtime_eval`'s, so that what an inner entry returns to is script code of an evaluation or a
job. `JobsSettled` is about two places only; `Pending` says what may be pending at each of them
and on the way there, in particular that only a failure reaches the prompt past the queue.

*JavaScript memory.* `AccountsAreExact` and `LimitIsKept`, for every heap, limit and set of sizes. The invariant
`Accounts` says that grants have different pointers (`Apart`), that QuickJS's are among them and are
what its accounts say (`Sound`), and that only the two limits of the code are ever set. The size is a
sum over a set, which the community modules define by recursion over it: `SumsAgree`, `SumsExist` and
`TotalWithout` prove, by induction on finite sets, that it does not matter in which order they are
added up; `Gain` and `Loss` are then what a new and a released block do to the accounts.
`runtime_free` and `runtime_realloc` guard their subtractions against accounts that are too small, and
would leave or clear them then (`runtime.c:51-56`, `:69`); the proof shows that this never occurs,
by `Apart` and `Sound`.

### C library (`LibcProofs`)

`CallsAreExact`, `SinkIsExact`, `HeapIsOrdered`, `SortedBeforeLastSift` and `OnlyLastSiftStrays`, all about `Libc`, for
memories, texts, formats, buffers and arrays of every size.

*Memory and strings.* The invariant is no more than the property and that the memory holds bytes; the
work is in what each loop computes. Loops that write are folds in the model. The fold of the
community modules is a function chosen by its recursion on sets of passes; `CopyEachIs` shows, by
induction on those sets, that after the passes of a set exactly their bytes are copied, from the memory
*before* the loop. That is where overlapping areas matter: `Orderly` says that no pass writes what a later
one reads, and `CopyUpward` and `CopyDownward` that `memmove`'s choice of direction makes it so.
Walks are recursive functions on addresses; `ScanIs` says that a walk ends at the first address where it
may, by induction downwards, and `MemchrIs`, `StrchrIs` and `StrstrIs` name that address. `NeedleIsThere`
is the inner loop of `strstr`: it reaches the needle's zero only where all of the needle lies
in the text, and stops in time at the end of both. `ComparedIs` is the walk of the
comparisons, `TextsCompare` that where it ends decides the order of a dictionary. (`strcasecmp` on texts one
of which begins the other was the delicate case: what is left of the longer one must not
count as equal to the zero.)

*`vsnprintf`.* `SinkInv` adds to `SinkExact` that the text is a sequence and the buffer untouched behind
it; that needs, for every conversion, that it yields a sequence with a length
(`ConvertedIsSequence`), down to the digits of a number, whose count is found by recursion on quotients
(`DigitsExist`). `DirectivesAssumption` is what a format is: a sequence of well-formed directives.

*qsort.* `HeapIsOrdered`, `SortedBeforeLastSift` and `OnlyLastSiftStrays`, for arrays and windows of every
size. `HeapOrder` says which part of the array is a heap at each loop's head (`HeapFrom`) and, while
a sift is under way, that it is one but for the element that sinks (`HeapBut`, whose second
line, that its children are not above its parent, is what makes it inductive).
`SiftGoesOn` is the step of the sift, `RootIsLargest` the induction over the parents that makes the
extracted element the largest; `SwapPermutes` counts each value's occurrences to show that nothing is
lost. `OnlyLastSiftStrays` makes the finding sharp: of all calls of `sift_down`, for all
arrays, only the one with `end = 0` leaves the array.

### MMIO mapper (`MmioProofs`)

`TypesHold`, `TablesStayTree`, `PromisesAreKept` and `TranslationsAreKept`, for tables of every size, trees
of every height, pools of every size and every tree the firmware may leave. The invariant says
that the tables have levels (`Sane`) and are a tree; that the pool's tables not taken yet are
empty; that single pages on the way of what devices ask for map themselves (`Leaves`); that the call under way
is at a table on the processor's own walk for its page (`Under`); and that what was promised
and what the call has done so far translate as they should. The tree is needed because the
code writes one entry and claims one page: `SamePath` shows that two walks that reach the same
entry of a tree select the same slots at every level, which by `SpanAssumption` makes them the same page.
`PageWritten` and `TableLinked` are the two writes; `WalkKeeps` and `TranslationKept` say that a
change that only adds links and pages changes no walk that already ended in one, and so
`TranslationsKept` follows step by step.

### Shell and console (`ShellProofs`)

`LineIsShown`, `LineIsMirrored`, `CursorIsOne` and `WritingKeepsCursor`, for screens and line buffers of
every size, every prompt, message and output. The cells are counted in reading order: the one at
row r and column c is at r * Columns + c (`CellIs`, `CellUnique`), and then a wrap is no event,
a scroll moves every position by `Columns`, and a step back over the start of a row is minus one.
`PutShows` and `BackspaceShows` say for one character what `PutMirrored` and `BackspaceMirrored` say for
the terminal, which only knows its own line.

The properties speak about the line when nothing is left to write. The invariant has to say what
both screens show before that: `Editing` lists the stages, a part of the prompt, a
line that lacks the character typed, and the three of a rubout, in the second of which the
terminal still has the character behind its cursor and the screen does not.
`EditingStep` takes a written character from each stage to the next, `EditingDone` says that
the last one is the line. Besides, `Control` says that the cursor is drawn only while a key is
waited for and is on the screen unless a script left it elsewhere, and `OneCursor` is part of
it: without it, text scrolled over the block could take it along.

### Drawing (`RasterProofs`)

`TypesHold`, `ShapesAreExact` with its three parts `AreasAreExact`, `LinesAreTrue` and `CirclesAreExact`,
`TextsAreMeasured` and `BlendsAreExact`, for screens of every
size, every width of `int64_t`, every font, every pixel format, and all shapes that `RasterAssumption` and
`OverflowAssumption` allow (no sum or product of their coordinates overflows). The
invariant `Inv` has one disjunct for each way a call can be under way: `Cleared` and `StillCall` (nothing
left to do), `ShapeCall`, `LineCall`, `TextCall`.

*Shapes.* `Owed` is what the jobs in `todo` will still paint, as a set of points: `ShapeCall` says
that it and what is painted make up what the call owed at its start. Each step moves points from
the one to the other, so at the end the picture is what the call owed, and what remains is geometry without any
program in it: `RectExact`, `StrokeExact`, `CircleExact`, `RoundedExact`. `ClipIs` is
`clip_axis` for starts that are not negative; `OwedTogether` adds up the jobs of two calls.

*Triangles.* `EdgeFits`: differences up to d and e, with twice d * e in `int64_t`, do not overflow in `edge`. Between the
corners of a triangle, and from them to the points the loops visit, they are within the spread of the corners
(`EdgeIs`); so `edge` is `Side`, whose three values at a point add up to the area (`SidesSum`), and the signs
decide (`TriangleIs`).

*Circles.* The state of the loop determines the radius it was called with: `Square`, computed from
`x`, `y` and `error`, is its square and does not change; `Rooted` says that `x` is the rounded root of what
is left of it after `y` squared (`CircleWidens` is the pass, `RootUnique` and `RootExists` that there is
one such root). So `Owed` of a circle can speak about all its further passes without
counting them. The chords of a disc are lines, drawn by the same loop, level and hence one after the other.
For rounded rectangles the discs must also contain every point between two of theirs (`DiscConvex`), or
the corners would not be cut where `InRounded` says (`CornersCut`).

*Lines.* `Point(c, u, v)` is the point so far along the longer axis and the shorter, which makes one
case of the eight directions. `Close` says that it is at most half a point off, `Off` is
the running error as a function of `u` and `v`; `Drawn` that the painted points are one for each `u` so far.
`LineCall` puts them together: the error is exact, so the next point is close, too; and at the last `u` the only
close `v` is the end's, so both coordinates arrive in the same pass. That is the safety half of termination.
Nothing overflows, since `error` stays within twice the longer axis.

*Texts.* `TextCall` says that the next character's position is that of its line and column, and that
what is painted is what the characters before it cover (`Covered`, `At`). A point lies in one
cell and in one square of its cell, by division with remainder. `Counted` is the
loop of `framebuffer_measure_text` as a function on the text's prefixes; by induction on them
it bounds every column (`Bounded`) and is reached by one (`Reached`).

*Blending.* `ChannelTrue` follows one channel through `framebuffer_blend_pixel`: `MeanIs` says that the
rounded quotient is the mean of two bytes and between them; `LevelTaken` and `LevelReturned` are the ways from
a channel of 1 to 7 bits to a byte and back, one case for each size, and keep the order of levels
(`LevelsOrdered`, `LevelKept`), so that the result cannot overshoot; `LevelError` adds up what the
roundings lose. Shifts are the recursive function `power`; `PowerSum`, by induction, is all that the rest
needs to know of it. `FieldOfSum` says that no channel spills: what the other two contribute is a part below the
channel's bits and a multiple of the power above them (`Around`, `OthersAround`). It needs channels
that do not overlap and lie in the 32 bits of a pixel (`IsFormat`), and 8-bit levels in channels of more than
8 bits (`IsPixel`): `color_channel` cuts off the rest.

### Serial port, clock and boot (`BootProofs`)

`UptimeIsExact`, `SleepsAreHonest`, `WireIsFaithful` and `LogIsHonest`, for words of every width, every
processor, UART and buffer.

*Clock.* `ClockInv`: from `platform_init` on the counter is `boot_tsc` plus the ticks, in 64 bits, and a
deadline is what is due, in 64 bits. `UptimeIs` is the arithmetic of `platform_uptime_us`: for
elapsed = q * f + r with r below f, the microseconds q * 1000000 + r * 1000000 / f are those of the
whole, and no product in between leaves 64 bits (`Elapsed`, `Division`, `DivisionUnique`).

*Wire.* `WireInv` has one existential: there is a `put`, what was taken from `sending` so far, with
`Encoded(said) = put \o sending`, and the wire has of it what is not lost. It moves by one character in
each poll (`HeadMoves`, `PartAtAppend`) and by a text in each writer (`EncodedConcat`). `Encoded` flattens a
sequence of sequences with a function the community modules define by recursion over the length;
`FlattenAppend` gets one step out of it and `SequenceInduction`, induction with a set in the
place of a predicate, the rest: `EncodedShape` says that every line feed follows a return and that the
text is what lies between the returns.

*Log.* `LogHonest` is about the wire, but a line is true or not when it is written, so the
invariant is about what is `Told`, on the wire or about to be: `Truthful` for the trusted lines, `Complete` for what must have
been told, `FontTold` for FreeType, and `Placed`, which says
what is ready at each place of `kmain`. A reason is told only by a kernel that stopped
(`Unstopped`), hence only one; it stays told while nothing is lost (`Explained`); and when the kernel is halted all
of it is on the wire (`Spoken`). `GoesOn` and `Stops` are the two kinds of steps.

### What stays with TLC

* Liveness: `CallsReturn`, `Returns`, `ShapesEnd`, `DeadlineEnds`, `WaitsEnd` are about fairness and
  `ENABLED`, which the prover does not handle.
* `Format`'s `FieldsExact`: what it reads back is computed by folds over digits, for which
  an induction on the value of the number would have to be carried through every flag.

## Not modelled

* `vendor/` (QuickJS, OpenLibm), fonts and boot images: third-party; QuickJS appears as
  what the runtime observes of it.
* Port I/O, cpuid (but for the frequency), the set-up of the floating point unit and of the
  UART's registers, shutdown: hardware effects without state in the program.
* `framebuffer_init`, `framebuffer_copy_rect`, `framebuffer_present`: they copy what the loader
  says or pass the call on to the SVGA driver, which is not in the repository.
* The maths and time shims of `libc.c` (`abs`, `creal`, `fegetround`, `localtime_r`, ...):
  one-line accessors.
* In `vsnprintf`: the parser of directives, length modifiers, `%o`, `%X` and the exponent form of reals,
  whose repeated division by ten only makes sense on real doubles.
* `js_runtime_collect` only makes QuickJS free memory (`runtime_free` in `JsMemory`), and the
  rejection tracker runs as part of the entry whose promise is rejected.

## Plan

1. Heap, its abstract specification and proofs; accounting; runtime; shell and console;
   `qsort`; MMIO mapper; drawing; serial port, clock and boot; strings and formatting. Done.
2. If the native bindings (`api.c`) enter the repository: the composition of `Runtime` with
   `Shell` and `JsMemory` through them.
3. Proofs. Done: heap with its refinement, accounting, runtime, `qsort`, MMIO mapper, shell and
   console, drawing, serial port, clock and boot, C library.
