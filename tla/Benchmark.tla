------------------------------ MODULE Benchmark ------------------------------
(***************************************************************************)
(* One binary, launched once per pass: main_impl from the command line to  *)
(* the csv, with the time-stamp counters it reads (timing.hpp), and the    *)
(* median report.py takes over the passes.                                 *)
(*                                                                         *)
(* Time is counted in ticks of the time-stamp counter; CLOCK_MONOTONIC     *)
(* advances with it.  Each core has a counter of its own, of two halves.   *)
(* Between two readings the thread may be held up, for some ticks, and,    *)
(* unless it was pinned, moved to another core.  What happens between two  *)
(* windows only decides where the counter stands when the next one opens.  *)
(***************************************************************************)
EXTENDS Report, CommandLine

CONSTANTS
    ArgLists,       \* command lines, each the same for all launches
    Schedule,       \* the variants of a mode, in order
    Work(_, _),     \* ticks between the two stamps of a variant, in a mode
    FloorWork,      \* ticks between two stamps with nothing between
    FloorReps,      \* 20000, samples of measure_tsc_floor
    HalfMod,        \* 2^32, the values of a half of a reading
    Phases,         \* bound: where a counter stands when a window opens
    Offset,         \* what a core's counter is ahead of core 0's
    CalibTicks,     \* the 0.2 s of calibrate_tsc_hz
    MaxSamples,     \* what samples.reserve can allocate
    Stalls,         \* bound: how long the thread may be held up...
    MaxStall,       \* ... at most
    MaxDisturb,     \* bound: stalls and moves, in all launches
    MaxPasses       \* bound: launches

Cores   == DOMAIN Offset
TscMod  == HalfMod * HalfMod

ASSUME BenchmarkAssumption ==
    /\ HalfMod \in Nat \ {0}
    /\ Schedule \in Seq(Variant)
    /\ Phases \subseteq 0 .. (TscMod - 1)
    /\ Offset \in [Cores -> 0 .. (TscMod - 1)]
    /\ MaxStall \in Nat /\ Stalls \subseteq 1 .. MaxStall
    /\ FloorWork \in Nat /\ FloorReps \in Nat \ {0}
    /\ CalibTicks \in Nat \ {0}
    /\ MaxSamples \in Nat
    /\ MaxDisturb \in Nat /\ MaxPasses \in Nat \ {0}

ASSUME ArgListsAssumption == ArgLists \subseteq Seq([text : STRING, num : Int])

\* No window, and no calibration, is open for as long as the counter takes to
\* come round: 2^64 ticks are more than a century.
Fits(work) == work + MaxDisturb * MaxStall < TscMod

ASSUME WindowAssumption ==
    /\ Fits(FloorWork) /\ Fits(CalibTicks)
    /\ \A n \in 1 .. Len(Schedule), m \in CacheModes :
          Work(Schedule[n], m) \in Nat /\ Fits(Work(Schedule[n], m))

VARIABLES
    args,       \* the command line
    ai,         \* main_impl's place in it
    cfg,        \* the configuration
    pc,         \* where main_impl is
    status,     \* the exit status of the last launch
    pinned,     \* sched_setaffinity succeeded
    core,       \* the core the thread is on
    now,        \* core 0's counter
    start,      \* the reading the window was opened with
    lapse,      \* ticks since then
    calib,      \* of the calibration: t1 - t0, elapsed(c0, c1), and the stalls
                \* between a clock reading and the stamp next to it
    samples,    \* of the current cell
    truth,      \* the ticks each of them stands for
    cell,       \* 0 for the noise floor, then the place in Plan
    rows,       \* the cells measured
    csvs,       \* what the launches printed
    disturbed   \* stalls and moves so far

vars == <<args, ai, cfg, pc, status, pinned, core, now, start, lapse, calib,
          samples, truth, cell, rows, csvs, disturbed>>

clock   == <<pinned, core, now, start, lapse>>
results == <<samples, truth, cell, rows>>

-----------------------------------------------------------------------------
(* Readings.                                                                *)

\* The counter of the core, when core 0's is at t.
CounterAt(t) == (t + Offset[core]) % TscMod

\* edx:eax, kept apart until the window is over.
Reading(c) == [hi |-> c \div HalfMod, lo |-> c % HalfMod]

\* Mutant: the high half is not read, as if 32 bits were enough.
AssembleLow(r) == r.lo

Assemble(r) == r.hi * HalfMod + r.lo

\* elapsed_to and elapsed: unsigned, so it wraps.
ElapsedTo(r, stop) == (stop - Assemble(r)) % TscMod

-----------------------------------------------------------------------------
(* The cells main_impl measures: mode by mode, the whole schedule.          *)

IfAsked(mode) == IF mode \in cfg.modes THEN <<mode>> ELSE <<>>

Modes == IfAsked("warm") \o IfAsked("clflush") \o IfAsked("sweep")

Plan ==
    [c \in 1 .. (Len(Modes) * Len(Schedule)) |->
        [mode |-> Modes[(c - 1) \div Len(Schedule) + 1],
         v    |-> Schedule[((c - 1) % Len(Schedule)) + 1]]]

Reps(c)   == IF c = 0 THEN FloorReps ELSE cfg.reps
WorkAt(c) == IF c = 0 THEN FloorWork ELSE Work(Plan[c].v, Plan[c].mode)

Init ==
    /\ args \in ArgLists
    /\ ai = 1
    /\ cfg = DefaultConfig
    /\ pc = "parse"
    /\ status = 0
    /\ pinned = FALSE
    /\ core \in Cores
    /\ now = 0
    /\ start = Reading(0)
    /\ lapse = 0
    /\ calib = [ns |-> 0, ticks |-> 0, edge |-> 0]
    /\ samples = <<>>
    /\ truth = <<>>
    /\ cell = 0
    /\ rows = <<>>
    /\ csvs = <<>>
    /\ disturbed = 0

Exit(s) == pc' = "exit" /\ status' = s

Aborted == 134

\* One option of the command line; parse gives up on one that is unknown, lacks
\* its value, names no mode, or asks for help.
ParseOption ==
    /\ pc = "parse"
    /\ ai <= Len(args)
    /\ LET opt == args[ai].text IN
       \/ /\ opt \in TakesValue
          /\ ai < Len(args)
          /\ opt = "--mode" => ModeKnown(args[ai + 1])
          /\ cfg' = WithValue(cfg, opt, args[ai + 1])
          /\ ai' = ai + 2
          /\ UNCHANGED <<pc, status>>
       \/ /\ opt \in {"--csv", "--verify"}
          /\ cfg' = IF opt = "--csv" THEN [cfg EXCEPT !.csv = TRUE]
                    ELSE [cfg EXCEPT !.verify_only = TRUE]
          /\ ai' = ai + 1
          /\ UNCHANGED <<pc, status>>
       \/ /\ \/ opt \in TakesValue /\ ai = Len(args)
             \/ opt = "--mode" /\ ai < Len(args) /\ ~ModeKnown(args[ai + 1])
             \/ opt \notin TakesValue \cup {"--csv", "--verify"}
          /\ Exit(2)
          /\ UNCHANGED <<ai, cfg>>
    /\ UNCHANGED <<args, clock, calib, results, csvs, disturbed>>

ParseEnd ==
    /\ pc = "parse"
    /\ ai > Len(args)
    /\ IF InRange(cfg) THEN pc' = "pin" /\ UNCHANGED status ELSE Exit(2)
    /\ UNCHANGED <<args, ai, cfg, clock, calib, results, csvs, disturbed>>

\* pin_to_cpu may fail, which main_impl only warns of.
Pin ==
    /\ pc = "pin"
    /\ \/ pinned' = TRUE /\ core' = cfg.cpu /\ cfg.cpu \in Cores
       \/ pinned' = FALSE /\ UNCHANGED core
    /\ pc' = "gate"
    /\ UNCHANGED <<args, ai, cfg, status, now, start, lapse, calib, results,
                   csvs, disturbed>>

\* initialize, env and verify (module Gate): a failure ends the launch, and so
\* does a success when only it was asked for.  The memory for env's objects and
\* sweep buffer may not be had.
Verify ==
    /\ pc = "gate"
    /\ \/ \E s \in {1, Aborted} : Exit(s)
       \/ cfg.verify_only /\ Exit(0)
       \/ ~cfg.verify_only /\ pc' = "calibrate" /\ UNCHANGED status
    /\ UNCHANGED <<args, ai, cfg, clock, calib, results, csvs, disturbed>>

-----------------------------------------------------------------------------
(* calibrate_tsc_hz.                                                        *)

\* The first clock reading.
CalibrateStart ==
    /\ pc = "calibrate"
    /\ now' \in Phases
    /\ lapse' = 0
    /\ calib' = [ns |-> 0, ticks |-> 0, edge |-> 0]
    /\ pc' = "calib_start"
    /\ UNCHANGED <<args, ai, cfg, status, pinned, core, start, results, csvs,
                   disturbed>>

CalibrateStamp ==
    /\ pc = "calib_start"
    /\ start' = Reading(CounterAt(now))
    /\ pc' = "spin"
    /\ UNCHANGED <<args, ai, cfg, status, pinned, core, now, lapse, calib,
                   results, csvs, disturbed>>

\* Mutants: the elapsed time is taken to be the target; the first clock reading
\* is taken again in every turn.
SpinToTarget ==
    /\ pc = "spin"
    /\ now' = (now + 1) % TscMod
    /\ lapse' = lapse + 1
    /\ calib' = [calib EXCEPT !.ns = CalibTicks]
    /\ pc' = IF lapse' >= CalibTicks THEN "calib_stop" ELSE "spin"
    /\ UNCHANGED <<args, ai, cfg, status, pinned, core, start, results, csvs,
                   disturbed>>

SpinAnew ==
    /\ pc = "spin"
    /\ now' = (now + 1) % TscMod
    /\ lapse' = 0
    /\ calib' = [calib EXCEPT !.ns = lapse']
    /\ pc' = IF lapse' >= CalibTicks THEN "calib_stop" ELSE "spin"
    /\ UNCHANGED <<args, ai, cfg, status, pinned, core, start, results, csvs,
                   disturbed>>

\* One turn of the loop: read the clock, leave when the time is up.
Spin ==
    /\ pc = "spin"
    /\ now' = (now + 1) % TscMod
    /\ lapse' = lapse + 1
    /\ calib' = [calib EXCEPT !.ns = lapse']
    /\ pc' = IF lapse' >= CalibTicks THEN "calib_stop" ELSE "spin"
    /\ UNCHANGED <<args, ai, cfg, status, pinned, core, start, results, csvs,
                   disturbed>>

\* The last stamp; the frequency is ticks per ns.  Then the noise floor.
CalibrateEnd ==
    /\ pc = "calib_stop"
    /\ calib' = [calib EXCEPT !.ticks = ElapsedTo(start, CounterAt(now))]
    /\ cell' = 0
    /\ pc' = "start"
    /\ UNCHANGED <<args, ai, cfg, status, clock, samples, truth, rows, csvs,
                   disturbed>>

-----------------------------------------------------------------------------
(* The samples.                                                             *)

\* Mutant: the exception is caught, and what was measured is reported.
ReserveFailsCaught ==
    /\ pc = "start"
    /\ cell > 0 /\ cfg.reps > MaxSamples
    /\ pc' = "report"
    /\ UNCHANGED <<args, ai, cfg, status, clock, calib, results, csvs, disturbed>>

\* samples.reserve(cfg.reps) throws, and nothing catches.
ReserveFails ==
    /\ pc = "start"
    /\ cell > 0 /\ cfg.reps > MaxSamples
    /\ Exit(Aborted)
    /\ UNCHANGED <<args, ai, cfg, clock, calib, results, csvs, disturbed>>

\* tsc_start, wherever the counter is by then.
Start ==
    /\ pc = "start"
    /\ Reps(cell) <= MaxSamples \/ cell = 0
    /\ now' \in Phases
    /\ start' = Reading(CounterAt(now'))
    /\ lapse' = 0
    /\ pc' = "call"
    /\ UNCHANGED <<args, ai, cfg, status, pinned, core, calib, results, csvs,
                   disturbed>>

\* The work of the cell, and the stamp at its end.
Call ==
    /\ pc = "call"
    /\ now' = (now + WorkAt(cell)) % TscMod
    /\ lapse' = lapse + WorkAt(cell)
    /\ samples' = Append(samples, ElapsedTo(start, CounterAt(now')))
    /\ truth' = Append(truth, lapse')
    /\ pc' = IF Len(samples') < Reps(cell) THEN "start" ELSE "row"
    /\ UNCHANGED <<args, ai, cfg, status, pinned, core, start, calib, cell,
                   rows, csvs, disturbed>>

MeasuredRow ==
    [v |-> Plan[cell].v, mode |-> Plan[cell].mode, st |-> Summary(samples),
     truth |-> truth]

\* Mutant: the samples of a variant stay in the vector.
PushRowKeepingSamples ==
    /\ pc = "row"
    /\ rows' = IF cell = 0 THEN rows
               ELSE Append(rows, MeasuredRow)
    /\ samples' = IF Len(samples) > 1 THEN <<samples[1]>> ELSE samples
    /\ truth' = <<>>
    /\ IF cell < Len(Plan) THEN cell' = cell + 1 /\ pc' = "start"
       ELSE pc' = "report" /\ UNCHANGED cell
    /\ UNCHANGED <<args, ai, cfg, status, clock, calib, csvs, disturbed>>

\* summarize; the row is pushed (the noise floor is only printed).
PushRow ==
    /\ pc = "row"
    /\ rows' = IF cell = 0 THEN rows
               ELSE Append(rows, MeasuredRow)
    /\ samples' = <<>>
    /\ truth' = <<>>
    /\ IF cell < Len(Plan) THEN cell' = cell + 1 /\ pc' = "start"
       ELSE pc' = "report" /\ UNCHANGED cell
    /\ UNCHANGED <<args, ai, cfg, status, clock, calib, csvs, disturbed>>

\* report: a csv, or text for a person.
PrintReport ==
    /\ pc = "report"
    /\ csvs' = IF cfg.csv THEN Append(csvs, [csv |-> Csv(rows), rows |-> rows, pinned |-> pinned])
               ELSE csvs
    /\ Exit(0)
    /\ UNCHANGED <<args, ai, cfg, clock, calib, results, disturbed>>

-----------------------------------------------------------------------------
(* What is not the program's doing.                                         *)

BetweenReadings == pc \in {"calib_start", "spin", "calib_stop", "call"}

\* The thread is held up: by an interrupt, another thread, the hypervisor.
Stall(d) ==
    /\ BetweenReadings
    /\ disturbed < MaxDisturb
    /\ now' = (now + d) % TscMod
    /\ lapse' = lapse + d
    /\ calib' = [calib EXCEPT !.edge =
                    IF pc = "calib_start" THEN @ - d
                    ELSE IF pc = "calib_stop" THEN @ + d ELSE @]
    /\ disturbed' = disturbed + 1
    /\ UNCHANGED <<args, ai, cfg, pc, status, pinned, core, start, results, csvs>>

\* The scheduler moves it.
Migrate(c) ==
    /\ BetweenReadings
    /\ disturbed < MaxDisturb
    /\ ~pinned
    /\ c # core
    /\ core' = c
    /\ disturbed' = disturbed + 1
    /\ UNCHANGED <<args, ai, cfg, pc, status, pinned, now, start, lapse, calib,
                   results, csvs>>

\* The next pass: the same command line, a new process.  (Which core it starts
\* on matters no more than where the counter stands.)
Relaunch ==
    /\ pc = "exit"
    /\ status = 0
    /\ csvs # <<>> /\ Len(csvs) < MaxPasses
    /\ pc' = "parse"
    /\ ai' = 1
    /\ cfg' = DefaultConfig
    /\ pinned' = FALSE
    /\ calib' = [ns |-> 0, ticks |-> 0, edge |-> 0]
    /\ rows' = <<>>
    /\ cell' = 0
    /\ UNCHANGED <<args, status, core, now, start, lapse, samples, truth, csvs,
                   disturbed>>

Done == pc = "exit" /\ UNCHANGED vars

Program ==
    ParseOption \/ ParseEnd \/ Pin \/ Verify
    \/ CalibrateStart \/ CalibrateStamp \/ Spin \/ CalibrateEnd
    \/ ReserveFails \/ Start \/ Call \/ PushRow \/ PrintReport

Next ==
    \/ Program
    \/ \E d \in Stalls : Stall(d)
    \/ \E c \in Cores : Migrate(c)
    \/ Relaunch \/ Done

\* One thread that waits on nothing; stalls and moves are bounded.
Spec == Init /\ [][Next]_vars /\ WF_vars(Program)

-----------------------------------------------------------------------------
StatsType == [n : Nat, min : Nat, median : Nat, p90 : Nat, total : Nat]

TypeOK ==
    /\ args \in ArgLists
    /\ ai \in 1 .. (Len(args) + 1)
    /\ cfg.reps \in 0 .. (SizeMod - 1) /\ cfg.objects \in 0 .. (SizeMod - 1)
    /\ cfg.sweep_mb \in 0 .. (SizeMod - 1) /\ cfg.cpu \in Int
    /\ cfg.modes \in (SUBSET CacheModes) \ {{}}
    /\ pc \in {"parse", "pin", "gate", "calibrate", "calib_start", "spin",
              "calib_stop", "start", "call", "row", "report", "exit"}
    /\ status \in {0, 1, 2, Aborted}
    /\ pinned \in BOOLEAN /\ core \in Cores
    /\ now \in 0 .. (TscMod - 1)
    /\ start \in [hi : 0 .. (HalfMod - 1), lo : 0 .. (HalfMod - 1)]
    /\ lapse \in Nat
    /\ calib \in [ns : Nat, ticks : 0 .. (TscMod - 1), edge : Int]
    /\ Len(samples) = Len(truth) /\ Len(samples) <= Reps(cell)
    /\ \A k \in 1 .. Len(samples) : samples[k] \in 0 .. (TscMod - 1)
    /\ cell \in 0 .. Len(Plan)
    /\ Len(rows) \in {cell - 1, cell} \/ (cell = 0 /\ rows = <<>>)
    /\ \A n \in 1 .. Len(rows) : rows[n].st \in StatsType
    /\ Len(csvs) <= MaxPasses
    /\ disturbed \in 0 .. MaxDisturb

\* A pinned thread's samples are the time its windows took, wherever the counter
\* stood: across a carry between the halves that are kept apart, and across the
\* wrap of the counter.  (Not pinned, the two stamps may be of two counters.)
SampleExact == pinned => samples = truth

\* The samples of a row that were disturbed, and the time of one that was not.
Dirty(row)  == {k \in 1 .. Len(row.truth) : row.truth[k] # Work(row.v, row.mode)}
NDirty(row) == Cardinality(Dirty(row))

\* What summarize's comment wants of the trim, to the sample: with n samples the
\* mean is that of undisturbed calls if and only if at most n \div TrimPer were
\* disturbed, which is none below TrimPer; the p90, where `size() * 90` does not
\* wrap, withstands a tenth of them, the median half, and the minimum all but
\* one.
StatsRobust ==
    pinned /\ pc = "report" =>
        \A r \in 1 .. Len(rows) :
            LET row == rows[r]
                n   == cfg.reps
                w   == Work(row.v, row.mode)
            IN  /\ (row.st.total = Keep(n) * w) <=> (NDirty(row) <= n \div TrimPer)
                /\ n * 90 < SizeMod =>
                     ((row.st.p90 = w) <=> (NDirty(row) < n - (n * 90) \div 100))
                /\ (row.st.median = w) <=> (NDirty(row) < n - n \div 2)
                /\ (row.st.min = w)    <=> (NDirty(row) < n)

\* A pinned calibration is off by exactly what held the thread up between a
\* clock reading and the stamp next to it; a stall inside the loop, however
\* long, is in both clocks.
CalibrationError ==
    pinned /\ calib.ticks > 0 => calib.ticks - calib.ns = calib.edge

\* The rows of a table that three of row n's figures are computed from: `net`,
\* `disp`, and `x_net`, which is of two nets.
NetRows(table, n)  == {n, NamedBaseline(table, table[n].mode, "probe")}
DispRows(table, n) == {n, DispFrom(table, table[n])}
XNetRows(table, n) ==
    LET y == YardstickOf(table, table[n])
    IN  {y} \cup UNION {NetRows(table, m) : m \in {n, y} \ {NoRow}}

\* What the first two would be had nothing disturbed the calls.
TrueWork(table, n) == Work(table[n].v, table[n].mode)
TrueNet(table, n)  ==
    TrueWork(table, n)
    - TrueWork(table, NamedBaseline(table, table[n].mode, "probe"))
TrueDisp(table, n) == TrueWork(table, n) - TrueWork(table, DispFrom(table, table[n]))

\* A pass in which the trim has absorbed all that happened to some rows.
CleanFor(pass, involved) ==
    /\ pass.pinned
    /\ \A m \in involved : NDirty(pass.rows[m]) <= cfg.reps \div TrimPer

\* More than half of the passes are, and the report finds the rows it looks for.
MostlyClean(involved) ==
    /\ NoRow \notin involved
    /\ 2 * Cardinality({p \in 1 .. Len(csvs) : CleanFor(csvs[p], involved)}) > Len(csvs)

\* The figures of report.py's tables are medians over the passes, of x_net, net
\* and disp; each is that of the undisturbed calls if more than half of the
\* passes were clean for the rows it comes from, whatever the other passes hold:
\* a disturbed probe, or the 0.000 of a yardstick whose net was not positive.  It
\* rests on every step from the stamps to the median.
PublishedExact ==
    pc = "exit" /\ csvs # <<>> =>
        LET table == csvs[1].rows
            Passes == 1 .. Len(csvs)
            Mean(ticks) == Keep(cfg.reps) * ticks
        IN  \A n \in 1 .. Len(table) :
              /\ MostlyClean(NetRows(table, n)) =>
                    MedianTwice([p \in Passes |-> csvs[p].csv[n].net]) =
                    2 * Mean(TrueNet(table, n))
              /\ MostlyClean(DispRows(table, n)) =>
                    MedianTwice([p \in Passes |-> csvs[p].csv[n].disp]) =
                    2 * Mean(TrueDisp(table, n))
              /\ MostlyClean(XNetRows(table, n)) =>
                    MedianTwice([p \in Passes |-> csvs[p].csv[n].xnet]) =
                    2 * Quotient(TrueNet(table, n),
                                 TrueNet(table, YardstickOf(table, table[n])))

\* A csv, of which matrix.sh knows only that it is there, is whole: it has every
\* cell of the command line's plan, in order, each from as many samples as were
\* asked for.  When the samples cannot be had (--reps -1) none is printed.
WholeTables ==
    pc = "exit" =>
        \A p \in 1 .. Len(csvs) :
            LET table == csvs[p].rows IN
            /\ Len(table) = Len(Plan)
            /\ \A n \in 1 .. Len(table) :
                  /\ table[n].v = Plan[n].v /\ table[n].mode = Plan[n].mode
                  /\ table[n].st.n = cfg.reps

\* Every launch ends: the calibration loop and the repetitions are finite
\* however the thread is held up.
Ends == []<>(pc = "exit")
=============================================================================
