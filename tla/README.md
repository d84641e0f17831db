# A formal model of boost_openmethod_benchmarks

The repository times one open-method dispatch at a time, with the caches
emptied first, and publishes tables computed from those times. Nothing in a
table shows whether it is right: a region that was not flushed, two rows
measured on different objects, a dispatch that reached the wrong body, or a
file of an earlier run mixed into a median gives a number that looks like any
other. The properties here are about that: what has to hold for a number to
mean what the tables say it means.

The modules are TLA+; TLC checks them on small instances and TLAPS proves the
central facts for every instance. Source references are to the repository
(`src/...` is its C++ directory, `matrix.sh` and `report.py` are at its root).

## 1. Inventory

| part | state it keeps | operations | works with |
|---|---|---|---|
| **cache scrubber** (`src/timing.hpp` `flush_range`, `scrubber`; `object_regions` in `src/main.cpp`) | the sweep buffer; implicitly, the cache and the flushes in flight | `apply(mode, regions)` | called by `run<V>` before each timed call |
| **variants** (26 structs of `src/main.cpp`, `registry_regions` & co. in `src/registries.hpp`) | none | `prepare`, `call`, `regions` of each | `run<V>` calls the three; `regions` must match `call` |
| **measurement loop** (`env`, `timed_call`, `run<V>`, the loops of `main_impl`) | populations, `virtual_ptr` arrays, random engine, samples, rows | build, seed, draw, warm up, scrub, time, push | reads populations, drives the scrubber, feeds `report` |
| **hierarchies** (`src/hierarchy.hpp`) | objects with a `tag` | yardsticks `vf`, `dd`, ..., baseline `touch`, factories | populations of `env` |
| **registries, methods, overriders** (`src/registries.hpp`, `src/use_methods.hpp`) | Boost.OpenMethod's per-registry state | static registration, `initialize`, dispatch | called by `verify` and by the variants |
| **correctness gate** (`verify`, `main_impl` up to it, `--verify`) | `ok`, two strided loop variables | compare every dispatch path with an oracle | exit status read by `run.sh` and `matrix.sh` |
| **pass driver** (`matrix.sh`, `build.sh`) | `results/run*`, `bin/*`, loop counters | check, wipe, build, gate, measure per pass | writes the files `report.py` reads |
| **report, collection** (`report.py` `main`, `load`, `med`) | the rows it loaded | glob, count passes, refuse, render | reads what `matrix.sh` left |
| **time stamps, calibration, pinning** (`src/timing.hpp`) | none; the core's counter | `tsc_start`, `stop_stamp`, `elapsed*`, `calibrate_tsc_hz`, `pin_to_cpu`, `measure_tsc_floor` | `timed_call`, `report` |
| **statistics** (`summarize`) | none | sort, trim, mean, median, p90 | `run<V>` |
| **report, arithmetic** (`report` in `src/main.cpp`, `med` of `report.py`) | none | `net`, `disp`, ratios, medians over passes | rows, csv files |
| **command line** (`parse`) | `config` | option by option, then range checks | `main_impl` |
| **disassembly tables** (`asmtab.py`; `probes.sh`, `src/dispatch_probe.cpp`) | listings | slice, chain, roles; the age of the binaries | the compiled binaries |
| CMake build (`src/CMakeLists.txt`) | none | | |

What is hard about it:

* **The hardware acts on its own.** `clflushopt` is weakly ordered, so flushes
  complete in any order and late; the scheduler can take the core away between
  any two statements and give it back with an empty cache.
* **Two lists must agree, 26 times.** What a variant's `call` reads and what
  its `regions` names are written separately, per vptr policy.
* **Long-range pairing.** A subtraction in the report is meaningful only if
  two loops, run minutes apart, drew the same objects in the same order.
* **A gate that samples.** `verify` looks at 43 x 47 pairs of positions out of
  4096 x 4096 and must let no wrong program through.
* **Two clocks and several counters.** A sample is the difference of two
  readings kept in halves, perhaps of two cores; a stall between any two
  readings goes somewhere, and the tables rest on where.
* **Statistics of few samples and few passes.** A trim of n/20, medians of
  passes of which some are disturbed, a ratio that is 0.000 when its yardstick
  came out below its baseline.
* **A slice by names.** `asmtab.py` follows values through registers and stack
  slots whose offsets move, in windows no test enumerates.
* **A script that dies anywhere** and is started again over its own remains,
  with fewer passes and other source, its output committed to git.

What makes each part correct:

* scrubber: after `apply`, the named lines are out (and no others), whatever
  the alignment and the order of completion;
* variants and loop: a cold sample is cold, a warm one warm, none is a first
  touch, and rows that are subtracted are paired;
* gate: no false alarm; in what it samples, no wrong const-world overrider and
  no crossed lookup goes unnoticed;
* one launch: a pinned sample is the time its window took; `summarize`
  withstands as many disturbances as its comment says; the frequency is off by
  no more than the calibration's edges; a figure of the tables (`x_net`, `net`,
  `disp`) is exact while most passes are clean; a csv is whole; and the launch
  ends whatever its command line;
* disassembly: nothing the call's target is computed from is dropped, the chain
  of loads is counted right, no load is named for another, a stale binary is
  warned of;
* driver and collection: one invocation, one build per column, only gated
  builds, passes interleaved, captions that state what was loaded.

`PROJECT.json` lists under "hazards" the lines where these can go wrong.

## 2. Modules

| module | models | rests on |
|---|---|---|
| `FlushRange` | address arithmetic: lines, regions, `flush_range`'s bounds, `object_regions` | |
| `Scrubber` | `scrubber::apply`, one step per loop iteration, over a cache | `FlushRange` |
| `Registries` | the six registries and their hierarchies | |
| `Variants` | the variants, `main_impl`'s schedule, reads and regions of each | `Registries` |
| `PairedBench` | **abstract specification** of the loop: one plan of draws, every cell measured once on it | |
| `Measure` | `env`, `run<V>` and the loops of `main_impl`, with preemption; refines `PairedBench` | `Variants`, `PairedBench` |
| `Methods` | the 40 methods, their overriders, the id each body returns, the oracles | `Registries` |
| `Gate` | `initialize`, `env`, `verify` on a program with at most one fault | `Methods` |
| `Baselines` | which rows `net`, `disp` and the ratios are taken from | `Variants` |
| `PaidFor` | `Measure` and `Baselines` composed: what a difference of two rows removes | `Measure`, `Baselines` |
| `Widths` | the values of `unsigned long long` and `size_t` (64 bits, or `-m32`) | |
| `Stats` | `summarize`, and the median over the passes | `Widths` |
| `Report` | `net`, `disp`, ratios and the csv of `report` | `Baselines`, `Stats` |
| `CommandLine` | `parse`: options, conversions, checks | `Widths` |
| `Benchmark` | one binary launched once per pass, from the command line to the csv, over the time-stamp counters; what `report.py` computes from the csvs | `Report`, `CommandLine` |
| `Matrix` | `matrix.sh`, what `report.py` makes of its files, and `asmtab.py` of the binaries' age | |
| `Slice` | `bookkeeping`, `chain` and `roles` of `asmtab.py`, with what the instructions do | |
| `InductionLemmas` | induction on the naturals, stated of sets | |
| `ScrubberProofs`, `MeasureProofs`, `GateProofs`, `MatrixProofs`, `StatsProofs`, `BenchmarkProofs`, `SliceProofs` | theorems | the module each is named for (`MeasureProofs`: also `PaidFor`) |
| `MC*` | instances for TLC | |

### Scrubber

Addresses are naturals, `addr & ~63` is rounding down to a multiple of 64. The
variables `ri` and `line` are `i` and `line` of the two loops; `pending` holds
the lines whose `clflushopt` was issued and has not completed; `cache` maps
each resident line to the time of its last touch. `IssueFlush` is an iteration
of `flush_range`; `CompleteFlush` is the hardware's; `Fence` is the one
`_mm_mfence`, which waits for all of them. `SweepStore` is an iteration of the
sweep: the stored line enters the cache and, when the cache is full, the line
touched longest ago leaves. `apply` starts after the warm-up call, with
everything a dispatch may read resident.

### Variants

Memory is a set of named lines, one per thing read or flushed as a unit.
`Reads` says what a variant's timed call loads, from the call form, the vptr
policy, `indirect_vptr`, and whether the body uses its receivers; `Regions`
transcribes each struct's `regions`; `Structs` is all the structs there are,
of which `Schedule` is a choice. A registry keeps its vptr container and
its hash factors in one state object; whether they share a cache line is up to
library, compiler and linker, so it is a constant, `HeaderOnHashLine`, and
neither value is assumed by the proofs.

### Measure

`pc` names the next statement of `main_impl` / `run<V>`: `env`, `run` (the
seeding), `draw`, `warmup`, `scrub`, `timed`, `row`, `report`. The engine is a
stream of indices fixed by the seed and a position `pos`; `rng.seed` sets `pos`
to 0. `BuildEnv` leaves the engine anywhere, because three shuffles used it, and
builds the four `virtual_ptr` arrays from the pointers after the shuffle.
`draws` and `calls` are histories of one `run<V>`. `Scrub` is one step: that
`apply` empties its regions before it returns is what `Scrubber` shows.
`Preempt` empties the cache at any point of a repetition.

### Methods and Gate

A leaf class is its index, which is also its objects' `tag`. `Select` is the
library's choice of overrider, `BodyId` the id a body returns: a const body
returns the leaf it was generated for, a use body what it *read*. A fault is
one of: a class not registered, an overrider missing, a registry whose lookup
gives another class's v-table pointer, one wrong cell of one method's dispatch
table, a method wired to its namesake of the other body world. `Initialize`
rejects overriders of unregistered classes; `BuildEnv` looks the `virtual_ptr`s
up; `CheckPair` is one iteration of the inner loop of `verify`, all checks of
it, over the three populations in turn; `CallUnanswered` is the library's abort.

### PaidFor

`disp` is the difference of two rows that were measured minutes apart. The
composition says what it removes: `DispFrom` picks the subtracted row as
`disp_of` does, over the rows `Measure` produced, and every read of the k-th
call of the one is compared with the k-th call of the other.

### Benchmark

Time is counted in ticks. `now` is core 0's counter; the counter of the core
the thread is on is `Offset` ahead. A reading has two halves, `hi` and `lo`, and
`ElapsedTo` assembles and subtracts them modulo the counter, as
`elapsed_to` does. `pc` follows `main_impl`: `parse` (one option per step),
`pin`, `gate` (what `Gate` models in detail is here its outcome), the four
points of `calibrate_tsc_hz`, then per cell `start` and `call` for each
repetition, `row`, `report`, `exit`. Cell 0 is `measure_tsc_floor`. `Stall` and
`Migrate` happen between any two readings that belong together; `Pin` may fail,
and then the thread may be moved. `truth` and `lapse` record the ticks that
really passed and are read by properties only. A csv is the figures of `Report`
computed from `Summary`, where `std::sort` is `Ascending`: the i-th sample is the
least that at least i of them do not exceed. `Relaunch` is the next pass of `matrix.sh`. An argument
is its text and the number at its start; `ToSize` is `strtoull` stored in a
`size_t`: `-1` wraps, an overlong number saturates, a narrow `size_t` drops the
high bits.

### Slice

A window is built one instruction at a time up to the indirect call (`Walk`,
`Reach`). An instruction has a form, a destination, the registers it reads and
a memory operand: a global, an address made of registers, or a stack slot. Some
of the registers it reads may be named as `cl`, `al` and the like (`narrow`):
the instruction reads them and the patterns of the passes miss them (`Seen`).
`ArgRegs` are the registers the callee takes arguments in.
`Kept`, `Chain` and `Named` transcribe the three passes, each a function that is
recursive along the window (`Needed`, `ChainStates`, `RolesStates`). What they are compared
with (`Sources`, `Dispatch`, `Depth`, `Origin`) follows every value from the
instruction that made it, slots by their address (`SlotOf`), so a `push` between
a spill and its reload moves the offset and not the slot. `Dispatch(w, regs)` is
what reaches the call's target, memory (where arguments passed on the stack
are), or the given registers: none in `SliceSound`, `ArgRegs` in
`ArgumentsKept`.

### Matrix

One action per command of `matrix.sh`. `Wipe` removes one file at a time.
`BuildReads` and `BuildWrites` are the two ends of a compilation, so the source
may change in between. `OpenCsv` is the shell's redirection, which creates the
file before the binary starts; the binary writes when it has measured
everything, through a buffer smaller than the text, so a file may hold only its
head. `OutputLost` is a full disk, which the binary does not notice: the file is
cut (`cuts`) and the script goes on. `Stop` interrupts anywhere, `MeasureFails`
is a failing binary under `set -e`. `Edit` changes `src/`, `EditLibrary` changes
`include/`, whenever somebody likes. `behind` is what the time stamps show, the
binaries older than a file of `src/`; `missed` is what they cannot show: edits
made during a build or to the library. `Refuses` and `Passes` transcribe what
`report.py` derives from the files, at any moment.

## 3. Runs

| run | instance | what it shows |
|---|---|---|
| `scrubber` (1,996 states) | four receivers with object and v-table on, 8 or 16 bytes past a line boundary and sizes 16 and 24; region lists with a null region, a straddling table, an aligned one; a cache of 16 lines, a buffer of 32 | every named line, and in particular the receiver and its v-table with its head, is out when `apply` returns; nothing else is; the sweep displaces everything; `apply` returns |
| `measure` (64,489 states) | the complete schedule of 60 variants in three modes, two objects of two classes, two repetitions, every shuffle; one preemption anywhere in six of the variants, one per shape of memory (`PreemptedIn`) | paired draws and receivers, cold windows, refinement of `PairedBench`, termination; what preemption spoils is exactly the warm window, and no timed call is a first touch; `disp` subtracts what the row paid on its own receivers and nothing else |
| `gate` (49,901 states) | every single fault of a program of three leaves and four objects, strides 2 and 3, three arrangements | no false alarm; no wrong overrider in a sampled const-world call; diagonal told from catch-all in the use world; crossed lookups told; a verdict |
| `matrix` (2,083,116 states) | two compilers, up to three passes, two invocations, two edits of source or library, one file cut by a full disk, every interruption | no blend, only gated builds, interleaving, exact captions after a complete run, off by at most one otherwise; `asmtab.py` warns of exactly the binaries that lack an edit, but for those made during a build or to the library |
| `benchmark` (574,566 states) | twelve command lines, four variants, one to three repetitions, three launches, two disturbances, a counter of two 4-bit halves | pinned samples are exact across carry and wrap; what the trim, the p90, the median and the minimum withstand, to the sample; the calibration's error; medians of `x_net`, `net` and `disp` that are exact while most passes are clean; whole tables, and none after `--reps -1`; every launch ends |
| `slice` (2,197,623 states) | every window of up to four of 29 instructions over two registers, two forms of call | nothing the target or memory is computed from is dropped, narrow names aside; chains are counted right; no stale name |
| `evicts_exactly`, `gate_tells`, `gate_missing`, `caption`, `slice_exact`, `slice_args` | see section 5 | six statements of the documentation that the code does not meet |

**Why the bounds are enough.** The scrubber's behaviour depends on addresses
modulo 64 and on the count of regions only through the two loops; the instances
take each boundary case of the rounding, and section 6 has the proof for all.
The v-table part flushed is 64 bytes in the run against 512 in the code: the
assumption on `VtblBytes` (eight virtual functions fit) is all that is used. In
`measure`, a variant's memory depends on its receivers only through "same
object, same class, different classes"; the run draws one object twice and two
objects of two classes, and two objects of one class, which share a v-table but
no object, are left to the theorem (`ClflushIsCold` is for any population). One
preemption is enough because it forgets everything: the cache is empty after it
whatever happened before. Two repetitions and a second cell are enough for
a stream that is not restarted to be seen, because the instance's period is
prime to the draws of a run; the real engine's period, 2^19937 - 1, does not
wrap. In `gate`, four positions and strides 2 and 3 leave positions sampled by
both loops, by one, and by none, as 97 and 89 do among 4096; three leaves are
the fewest with two wrong ones for a call; `gate_missing` uses the real
numbers. In `matrix`, three passes have a first, a middle and a last, and two
invocations with independent RUNS have the shorter follow the longer.

In `benchmark`, a window opens two ticks before a carry between the halves or
six before the counter wraps, and the works (2 to 23 ticks) cross one or the other;
cores are 100 ticks apart, so a move shows; a stall of 90 is longer than any
work, so one disturbance is enough to bring a yardstick below its baseline and
its `x_net` to 0.000, also in a pass that the clean majority outvotes.
`TrimPer` is 2 instead of 20: two or three repetitions trim one sample and one repetition trims none, which are the two cases of
`summarize`; the properties state the bound in terms of `n` and `TrimPer`.
Three launches with two disturbances give medians of one, two and three passes
with a minority and a majority disturbed. `SizeMod` is narrower than `UllMod`,
as with `-m32`, and `MaxSamples` is below it, so a wrapped `--reps` reaches
`reserve`. In `slice`, two registers are the fewest with a base and an index,
the second of them also an argument's, and the hazards (load, spill, push,
reload, overwritten register, a shift by a loaded count) take four instructions
before the call.

`CHECK_DEADLOCK` is on everywhere: an end state has an explicit stuttering
action, so a behaviour that gets stuck anywhere else is an error. (In `slice`
that action is `Done`, taken once the call is reached.)

**Fairness.** `Scrubber`: weak fairness of the program (one thread, waiting
only on the fence) and of the hardware, which completes a flush it was given.
`Measure` and `Gate`: weak fairness of the program; no step waits on anything,
and preemptions are bounded. `Benchmark`: weak fairness of the program; it is
one thread that waits on nothing but the clock, which advances with every turn
of the calibration loop, and stalls are finite. `Matrix`: weak fairness of the script once
started; nobody is obliged to start it, stop it or edit the source.

## 4. Mutants

Each property of a passing run has a mutant in `PROJECT.json`: a definition of
the model replaced by what a plausible bug would make of it (a fence that does
not wait, a v-table flushed from its address point, an engine not seeded again,
arrays built before the shuffle, a forgotten population, `set -e` lost, the
committed passes removed only up to RUNS, the low half of a reading taken for
all of it, samples trimmed unsorted, the target taken for the elapsed time, the
touch baseline subtracted from rows that touch nothing, a spill slot not
corrected for a push, an exception of `reserve` caught on the way), which makes TLC find the property
violated. Several are bugs the repository's history records: the v-table head,
stale passes, use-world `virtual_ptr` methods left out of the gate, the
fabricated receiver miss of `disp`.

## 5. Where the documentation and the code part ways

* **"evict exactly what the dispatch reads"** (`src/registries.hpp:265-266`).
  For the map registries `registry_regions` names the container object; for
  the vector registries it names the storage, `vptrs.data()`, and the hash
  factors, but not the container whose data pointer the dispatch loads first.
  It is flushed only if it happens to lie on the line of the hash factors, in
  the same state object. Run `evicts_exactly`.
* **"distinct for every pair, so verify can tell which overrider ran"**
  (`src/use_methods.hpp:28-29`). A use body returns what it reads in its
  arguments, so the overrider of another leaf returns the id that is wanted.
  The ids are not distinct either: pairs (0,3) and (1,2) both give -4. Run
  `gate_tells`; `UseWorldKindTold` states what the ids do tell.
* **"an overrider that failed to register"** (`src/main.cpp:1014-1016`).
  With the default build (25 leaves, 4096 objects, seed 12345, libstdc++) no
  sampled pair of the main population is of two objects of leaf 1, 3, 7, 10, 11
  or 17, so a missing diagonal overrider of those leaves falls to the catch-all
  unseen. Run `gate_missing`.
* **"counting run dirs on disk overstated the data actually loaded"**
  (`report.py:380-381`). The count is of files that exist, and the shell
  creates a file before the binary fills it, so an interrupted pass can still
  count. Run `caption`; `CaptionWithinOne` bounds the overstatement.
* **"everything the timing rig leaves in the window and nothing else"**
  (`asmtab.py:543-544`). Only `mov`, `movzx`, `movsx` and `lea` end a register's
  being needed, so what a three-operand form overwrites is kept. The published
  listing of `om ref / indirect`, arity 1, opens clang 22's column with the
  stamp's `mov eax, eax` for that reason (`README.md:721`, overwritten at
  `README.md:726`). Run `slice_exact`.
* **"nothing that reaches the call or its arguments can be dropped"**
  (`README.md:625-628`; `asmtab.py:541-543`, "reaches the call's target or one
  of its arguments"). The slice starts from the registers named in the call
  instruction (`asmtab.py:554`), which are the target's. An argument on the
  stack is a store and kept; one in a register, as the 64-bit ABI passes them,
  is not asked for, so what produces it is dropped unless the target needs it
  too. Run `slice_args`. Nor does it hold for the target alone: the pattern
  for registers (`asmtab.py:552`) matches no `cl` or `al`, so with `shr rdx, cl`
  what loads the count is dropped. `SliceSound` states what does hold: the
  target and memory, as long as nothing in the slice reads under such a name.

None of the six makes a published number wrong by itself: they say what a
table does not rule out.

Three more things met while modelling, without a run of their own: `control()`,
presented as the built-in control (`README.md:406-412`), is never called; the
captions of the tables with Zen columns state the passes of `results/`; and the
age check of `asmtab.py` only warns, and does not look at `include/`.

## 6. Proofs

The state machines follow the same argument: an inductive invariant `IInv`
holds initially (`InitIInv`), is preserved by every step (`NextIInv`, one case
per action), and implies the property. The assumptions are those named in the
modules, and nothing else: sizes are positive, regions are of naturals, a
v-table holds at least eight entries, schedules, streams and command lines are
of the right type (`RegionsAssumption`, `VtblAssumption`, `PlanAssumption`,
`BenchmarkAssumption`, `ArgListsAssumption`, ...), the defaults of `--reps` and
`--objects` are positive and fit a `size_t` (`CommandLineAssumption`); what is
scheduled is one of the program's variants (`StructsAssumption`); instructions
are of the forms the model covers (`FormsAssumption`: one that writes a register
names it, a store has a memory operand, two operands of which one is in memory
leave no third, a call has no narrow operand; section 7 lists what is left out); the sweep's
buffer holds as many lines as the cache (`SweepAssumption`); the gate's faults
are single ones (`FaultsAssumption`); no window is open for as long as the
counter takes to come round (`WindowAssumption`: 2^64 ticks are more than a
century).

What a recursive function or an operator on sequences computes for every input
takes an induction, and the library's induction theorems have an operator as
parameter, which the provers cannot instantiate. `InductionLemmas` states
induction of *sets* instead: a set of naturals that holds 0 and every successor
is all of them (`NatInduct`; `Upward` and `Downward` along an interval), derived
from the well-foundedness of `<`. A proof defines the set its claim holds of and
cites one of these. Nothing about recursive definitions is assumed: that the
functions of `Slice` and `Stats` satisfy their equations is proved the same way
(`NeededIs`, `ReachesIs`, `ChainStatesIs`, `OriginsIs`, `DepthsIs`,
`SumUnfolds`).

`ScrubberProofs`
* `FlushCovers`, `FlushBounds`: the lines `flush_range` visits hold every byte
  of the region, for every address and size; `ReadsAreRegions`: what is read
  through a receiver lies in its two regions, head of the v-table included.
* Inductive invariant: a line of a region already visited, or behind the
  cursor in the current one, is out of the cache or *pending*. "Out" alone is
  not inductive, as the hardware has not caught up; the fence turns "out or
  pending" into "out".
* `EvictsOnlyRegions` needs more (`TightInv`): the cursor and all pending lines
  are lines that hold a byte of a region.
* `SweptOnReturn` rests on the order of the touches: all lines stored so far are
  younger than every line that was there before, so a full cache drops one of
  the old ones as long as there is one; when as many lines are stored as the
  cache holds, none is left. Cardinalities come from `FiniteSetTheorems`.
* `ScrubberTypeOK`, `ScrubberFlushes`, `ReceiverFlushed`, `NothingElseEvicted`,
  `SweepSweeps`.

`MeasureProofs`
* `RegionsCoverReads`: for every variant, what `Reads` has and `Regions` has
  not is at most the map's buckets or the container object.
* Inductive invariant: inside `run<V>` the engine has advanced two positions
  per pair since it was seeded, so the k-th pair is a function of k alone; the
  arrays are aligned with the shuffled pointers; the finished rows replayed the
  stream; and the cache holds what the warm-up put there, less what the scrub
  took. Pairing could not be shown from finished rows alone: it needs the
  engine's position.
* `MeasureTypeOK`, `AllPairedDraws`, `AllPairedReceivers`, `ClflushIsCold`,
  `WarmUpWarms`, `WarmUpTouches`.
* `PaidSubtracted`: what `disp` subtracts of a row. For any schedule of the
  program's variants: `disp_of` finds rows of the same mode, arity and hierarchy
  by going through the variants' shapes (a plain, an `om` or an `ip` struct);
  `PairedReceivers` gives the two rows the same receivers; what is left compares
  the reads of two variants on one pair.
* `LoopIsPaired`: the loop implements the safety part of `PairedBench`. Every
  step is a step of the paired experiment or changes nothing of it; the
  correspondence of cells and places in the nested loops (`PlaceInv`) is a
  division with remainder.

`GateProofs`
* `SampledInv`: as long as no check failed, everything *sampled so far* was
  good: the earlier populations, the earlier rows of this one, and this row up
  to `j`. That a position is sampled before `i + StrideI` exactly if it is at
  most `i` (`NextMultiple`) carries it across the two strided loops.
* `AlarmInv`: a program without a fault that got through `initialize` matches at
  every pair, because selection, lookup and ids agree for any arguments.
* `GateTypeOK`, `GateIsFair`, `ConstWorldIsTold`, `UseWorldKindIsTold`,
  `LookupsAreTold`: for any number of classes and objects, any strides.

`MatrixProofs`
* `FreshInv` (while measuring, every file is of this invocation and its builds)
  makes `NoStaleBlend` inductive, with `ScriptInv` (nothing exists between the
  wipe and the first pass; what was gated is sound).
* `OrderInv`: the files are exactly those of the measurements made so far in
  the order of the two loops, each full or cut, and perhaps the current one.
  `Interleaved` and `CompleteIsExact` are counts over it; `ShortInv` (at most
  one file is neither) survives the interruption and the wipe and gives
  `CaptionWithinOne`; `CutInv` says a cut file lacks its end.
* `AgeInv`: no build is newer than what it was made from; with it,
  `StaleWarned`.
* `MatrixTypeOK`, `NoBlend`, `OnlySoundMeasured`, `AlwaysInterleaved`,
  `CompleteExact`, `CaptionOffByOne`, `WarningExact`.

`StatsProofs`
* `KeepsSome` and `ReadsInside`, on the places `summarize` reads, the 32-bit
  product included.
* Order statistics: the i-th value of `Ascending` is at most x exactly when at
  least i values are (`RankAt`). That it sorts (`AscendingSorts`: in order, every
  value as often as before), what a majority of the passes does to the median
  (`MedianOfMajority`) and what disturbances do to a sample's median, p90,
  minimum and trimmed total (`SummaryRobust`) are then counts of values at most
  x. `SumLeast` adds the direction that a mean is disturbed by every sample more
  than is trimmed: a sum of values none of which is below w is w times their
  number only if all are w.

`BenchmarkProofs`
* `Opened(u)`: the open window's reading is that of the core's counter `u`
  ticks ago. It survives stalls and work because only `now` moves; modular
  arithmetic (`Once`, `Pass`) turns it into the elapsed ticks as long as `u` is
  below the period, and the budget of stalls (`Held`) keeps it there. A window
  of a thread that is not pinned has no such invariant, which is the point.
* `SamplesInv`: nothing is in the sample vector where the thread may yet be
  pinned, so no sample of an unpinned window is taken for a pinned one.
* `CalibInv`: inside the calibration the first stamp is `lapse + edge` old,
  where `edge` counts the stalls between a clock reading and its stamp.
* `RInv` adds what the launch keeps: `TypeInv`; `FillInv`, the samples of the
  cell now measured, none shorter than its work (a stall only adds); `TableInv`,
  every finished row is the summary of its samples and belongs to its place in
  the plan. With `SummaryRobust` it gives `StatsRobust`, and `TypeOK`.
* `PInv` spans the launches. `PublishedExact` compares the csvs of passes that
  were parsed separately, so it needs that `parse` is a function of the command
  line: two paths through the options of one command line agree step by step
  (`PathsAgree`, `ParsedOnce`), hence all csvs are of one configuration, one
  plan, and the same row numbers (`SameYardstick`, `SameFrom`: the lookups of
  `disp_of` and of the yardstick look at variants and modes only). In a
  clean pass every total a figure comes from is `Keep(n)` times a work
  (`CleanWork`), so `net` and `disp` are that multiple of a difference of works
  (`CleanNet`, `CleanDisp`), and in `x_net`, a rounded quotient of two nets or
  0.000, the factor cancels (`CleanXNet` from `DivScale` and `QuotientScale`).
  So all clean passes print one figure, and `MedianOfMajority` does the rest.
* `TablesAreWhole`: `TableInv` at the moment the csv is printed, carried over
  the later launches by `PInv`; that the samples were no fewer than asked for is
  where the launch that cannot reserve them ends without a table.
* `SamplesAreExact`, `CalibrationIsOffByEdges`, `BenchmarkTypeOK`,
  `SummariesWithstand`, `MedianOfCleanPasses`, `TablesAreWhole`.

`SliceProofs`, for windows of every length (`WindowInv`: only their end is a
call)
* `NothingDropped`: backwards, every instruction that reaches the call's target
  or memory is kept if none of them reads a register under a narrow name, because
  what it defines is still needed there: between a definition and its
  use no instruction writes the register (`DefAtIs`), so no plain move takes it
  out of the needed set (`NeededBackTo`, `SourcesKept`).
* `NamesAreRight` and `ChainCountsLoads`: forwards. The invariant of the pass
  after each instruction (`RolesInv`, `ChainInv`) says that what it keeps of a
  register is that of the value's true origin or depth, and what it keeps of a
  slot that of the slot's last store. Both rest on the corrected offset being an
  address: two keys are equal exactly when the slots are, and neither a push nor
  the slot without an offset reaches a slot that was spilled to before
  (`SlotsApart`, `KnownSlotsKept`).
* `ChainExact` has two directions, which the invariant carries together
  (`Agrees`): never less than the true depth, and equal to it in a window without
  `lea`, which the pass counts as a load.

Model-checked only: liveness, which is out of the prover's reach under fairness:
`Returns`, `Finishes`, `Decides`, `Settles`, `Ends`, and the liveness part of
`PairedSpec`. Every invariant and action property of a passing run is stated by
a theorem. The six statements that do not hold (section 5) are refuted by TLC.

## 7. What is abstracted

* Prefetching, speculation, the instruction cache and the TLB: a model of
  "resident" is a set of lines that were read or stored and not evicted.
  `sweep` is shown for a cache that replaces the line touched longest ago;
  other policies are outside the model.
* Address wrap-around at the top of the address space.
* In `Measure` a sample is the receivers it was taken on and the state of the
  cache; in `Benchmark` it is ticks, and the work between two stamps is a
  constant of variant and mode.
* What happens between two windows: it only decides where the counter stands
  when the next one opens, which is any of `Phases`.
* A mean is kept as the total of the samples it is the mean of; standard
  errors, standard deviation, `disp_ns` and the text report for a person are
  left out.
* Boost.OpenMethod's internals: overrider selection, lookup and dispatch are
  modelled from how this code uses and describes them (external in the map).
* More than one fault at a time in the gate; faults of the yardsticks, whose
  bodies are the virtual functions of `src/hierarchy.hpp`.
* A csv cut inside a line; two concurrent `matrix.sh`.
* In `Slice`: flags and other implicit operands, vector registers (which
  `bookkeeping` follows and `chain` does not), `pop` and the i386 PIC-base idiom,
  `add`/`sub` on the stack pointer (which the passes do not follow), and
  instructions that write a register under a narrow name. A load through a
  register is taken not to read what the window stored, a slot included.
  `SliceSound`, `ChainExact` and `RolesSound` name, in their guards, the forms
  the passes do not follow: a register read as `cl`, `al` and the like, the slot
  without an offset, a slot that was pushed, a slot modified in place, `lea`
  (counted as a load), `shrx` with a memory operand.

## 8. Not modelled

* `src/dispatch_probe.cpp`, `probes.sh` and the comparison of the slice with
  the probes' listings: two lists of dispatches written by hand, compared as
  text after compilation. There is no behaviour between them to explore, and the
  comparison is of what compilers emitted.
* The parsing of objdump's output, the names `consistent` gives to fields, and
  the text of the tables of `asmtab.py` and `report.py`: formatting.
* The Zen archive: read once from `results-zen/`, which nothing in the
  repository writes. `control()`: it has no caller.
* Object layout of `src/hierarchy.hpp` beyond the sizes and reads that
  `FlushRange` and `Variants` use.
* `src/CMakeLists.txt`: build configuration, no behaviour of its own.
