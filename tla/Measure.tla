------------------------------ MODULE Measure ------------------------------
(***************************************************************************)
(* The measurement loop of main.cpp: main_impl from the construction of    *)
(* `env` to the report, and `run<V>` for every variant and cache mode.     *)
(*                                                                         *)
(* One step per statement of run<V> that has an effect outside it.  The    *)
(* scrub is one step here: Scrubber shows that `apply` empties the lines   *)
(* of its regions before it returns.  Between any two steps the thread may *)
(* be preempted, and what runs instead may empty the cache.                *)
(***************************************************************************)
EXTENDS Variants, FiniteSets

CONSTANTS
    NumClasses,     \* num_classes
    NumObjects,     \* cfg.objects
    Reps,           \* cfg.reps
    ModeList,       \* the cache modes selected, in order
    Schedule,       \* the variants run in each mode, in order
    EnginePeriod,   \* states of the random engine
    Streams,        \* the index sequences a seed may give
    MaxPreempts,    \* bound: preemptions per behaviour
    PreemptedIn     \* bound: the variants they happen in

Classes == 0 .. (NumClasses - 1)
Index   == 0 .. (NumObjects - 1)
Modes   == {"warm", "clflush", "sweep"}

ASSUME SizesAssumption ==
    /\ NumClasses \in Nat \ {0}
    /\ NumObjects \in Nat \ {0}     \* parse rejects --objects 0
    /\ Reps \in Nat \ {0}           \* parse rejects --reps 0
    /\ EnginePeriod \in Nat \ {0}
    /\ MaxPreempts \in Nat

ASSUME PlanAssumption ==
    /\ ModeList \in Seq(Modes) /\ ModeList # <<>>
    /\ Schedule \in Seq(Variant) /\ Schedule # <<>>

ASSUME StreamsAssumption == Streams \subseteq [0 .. (EnginePeriod - 1) -> Index]

VARIABLES
    pc,         \* the next statement
    ptrs,       \* env.ptrs and the ipopulations' ptrs, per hierarchy
    vp,         \* env.vp_vec, vp_map, vp_flat, vp_ind, per registry
    stream,     \* the indices the engine yields once seeded with cfg.seed
    pos,        \* draws made since the engine was last seeded
    mi, vi,     \* current mode and variant
    pair,       \* i and j of the current repetition
    draws,      \* history of run<V>: the pairs drawn
    calls,      \* history of run<V>: the receivers of each timed call
    resident,   \* lines in the cache
    touched,    \* lines ever read: their page has been faulted in
    disturbed,  \* preempted since the pair was drawn
    preempts,
    rows        \* one per finished run<V>

envVars == <<ptrs, vp, stream>>
vars == <<pc, ptrs, vp, stream, pos, mi, vi, pair, draws, calls, resident,
          touched, disturbed, preempts, rows>>

V    == Schedule[vi]
Mode == ModeList[mi]

\* The populations are round-robin over the leaves.
LeafOf == [o \in Index |-> o % NumClasses]

\* env::draw, at a position of the engine.
Draw(p) == stream[p % EnginePeriod]

\* prepare: the receivers a variant's arguments designate.  A virtual_ptr
\* variant takes them from its registry's array, the others from ptrs.
Prepare(v, ij) ==
    LET array == IF v.form = "vp" THEN vp[v.group] ELSE ptrs[v.hier]
    IN  IF v.arity = 2 THEN <<array[ij[1]], array[ij[2]]>> ELSE <<array[ij[1]]>>

Receivers(v, ij) == LET a == Prepare(v, ij) IN {a[k] : k \in 1 .. Len(a)}

CallReads   == Reads(V, Receivers(V, pair), LeafOf)
CallRegions == Regions(V, Receivers(V, pair), LeafOf, Classes)

\* A shuffled population: every object once.
Shuffles == {s \in [Index -> Index] : \A o \in Index : \E k \in Index : s[k] = o}

-----------------------------------------------------------------------------
Init ==
    /\ pc = "env"
    /\ ptrs = [h \in Hierarchies |-> [k \in Index |-> k]]
    /\ vp = [r \in VpRegistries |-> [k \in Index |-> k]]
    /\ stream \in Streams
    /\ pos = 0
    /\ mi = 1
    /\ vi = 1
    /\ pair = <<0, 0>>
    /\ draws = <<>>
    /\ calls = <<>>
    /\ resident = {}
    /\ touched = {}
    /\ disturbed = FALSE
    /\ preempts = 0
    /\ rows = <<>>

\* Mutant: the virtual_ptr arrays are built before the population is shuffled.
BuildEnvShufflingLast ==
    /\ pc = "env"
    /\ ptrs' \in [Hierarchies -> Shuffles]
    /\ vp' = [r \in VpRegistries |-> ptrs["main"]]
    /\ pos' \in 0 .. (EnginePeriod - 1)
    /\ pc' = "run"
    /\ UNCHANGED <<stream, mi, vi, pair, draws, calls, resident, touched,
                   disturbed, preempts, rows>>

\* env's constructor: shuffle the main population, build the four virtual_ptr
\* arrays from the shuffled pointers, then build and shuffle the two inplace
\* populations.  The shuffles leave the engine anywhere.
BuildEnv ==
    /\ pc = "env"
    /\ ptrs' \in [Hierarchies -> Shuffles]
    /\ vp' = [r \in VpRegistries |-> ptrs'["main"]]
    /\ pos' \in 0 .. (EnginePeriod - 1)
    /\ pc' = "run"
    /\ UNCHANGED <<stream, mi, vi, pair, draws, calls, resident, touched,
                   disturbed, preempts, rows>>

\* Mutant: the engine goes on from where the last variant left it.
EnterRunUnseeded ==
    /\ pc = "run"
    /\ draws' = <<>>
    /\ calls' = <<>>
    /\ pc' = "draw"
    /\ UNCHANGED <<envVars, pos, mi, vi, pair, resident, touched, disturbed,
                   preempts, rows>>

\* Entry of run<V>: no samples yet, and the engine is seeded again.
EnterRun ==
    /\ pc = "run"
    /\ pos' = 0
    /\ draws' = <<>>
    /\ calls' = <<>>
    /\ pc' = "draw"
    /\ UNCHANGED <<envVars, mi, vi, pair, resident, touched, disturbed,
                   preempts, rows>>

\* Mutant: a pair of equal indices is drawn again, from the same state.
DrawPairRejecting ==
    /\ pc = "draw"
    /\ Draw(pos) # Draw(pos + 1)
    /\ pair' = <<Draw(pos), Draw(pos + 1)>>
    /\ pos' = pos + 2
    /\ draws' = Append(draws, pair')
    /\ disturbed' = FALSE
    /\ pc' = "warmup"
    /\ UNCHANGED <<envVars, mi, vi, calls, resident, touched, preempts, rows>>

\* i = e.draw(), j = e.draw(): both are drawn whatever the arity.
DrawPair ==
    /\ pc = "draw"
    /\ pair' = <<Draw(pos), Draw(pos + 1)>>
    /\ pos' = pos + 2
    /\ draws' = Append(draws, pair')
    /\ disturbed' = FALSE
    /\ pc' = "warmup"
    /\ UNCHANGED <<envVars, mi, vi, calls, resident, touched, preempts, rows>>

\* Mutants: the call is optimised away; only the first repetition warms up.
WarmUpElided ==
    /\ pc = "warmup"
    /\ pc' = "scrub"
    /\ UNCHANGED <<envVars, pos, mi, vi, pair, draws, calls, resident, touched,
                   disturbed, preempts, rows>>

WarmUpOnce ==
    /\ pc = "warmup"
    /\ resident' = IF Len(draws) = 1 THEN resident \cup CallReads ELSE resident
    /\ touched' = IF Len(draws) = 1 THEN touched \cup CallReads ELSE touched
    /\ pc' = "scrub"
    /\ UNCHANGED <<envVars, pos, mi, vi, pair, draws, calls, disturbed,
                   preempts, rows>>

\* The untimed call: its cycles are discarded.
WarmUp ==
    /\ pc = "warmup"
    /\ resident' = resident \cup CallReads
    /\ touched' = touched \cup CallReads
    /\ pc' = "scrub"
    /\ UNCHANGED <<envVars, pos, mi, vi, pair, draws, calls, disturbed,
                   preempts, rows>>

\* regs.clear, V::regions, scrub.apply.
Scrub ==
    /\ pc = "scrub"
    /\ resident' = CASE Mode = "warm"    -> resident
                     [] Mode = "clflush" -> resident \ CallRegions
                     [] Mode = "sweep"   -> {}
    /\ pc' = "timed"
    /\ UNCHANGED <<envVars, pos, mi, vi, pair, draws, calls, touched,
                   disturbed, preempts, rows>>

\* The timed call and samples.push_back; after the last one the loop ends.
TimedCall ==
    /\ pc = "timed"
    /\ resident' = resident \cup CallReads
    /\ touched' = touched \cup CallReads
    /\ calls' = Append(calls, Prepare(V, pair))
    /\ pc' = IF Len(calls) + 1 = Reps THEN "row" ELSE "draw"
    /\ UNCHANGED <<envVars, pos, mi, vi, pair, draws, disturbed, preempts, rows>>

\* Mutants: the schedule is left one variant late, and one variant early.
PushRowOnePastLast ==
    /\ pc = "row"
    /\ rows' = Append(rows, [variant |-> V, mode |-> Mode,
                             draws |-> draws, calls |-> calls])
    /\ vi' = vi + 1
    /\ pc' = "run"
    /\ UNCHANGED <<envVars, pos, mi, pair, draws, calls, resident, touched,
                   disturbed, preempts>>

PushRowSkippingLast ==
    /\ pc = "row"
    /\ rows' = Append(rows, [variant |-> V, mode |-> Mode,
                             draws |-> draws, calls |-> calls])
    /\ \/ /\ vi + 1 < Len(Schedule)
          /\ vi' = vi + 1 /\ pc' = "run" /\ UNCHANGED mi
       \/ /\ vi + 1 >= Len(Schedule) /\ mi < Len(ModeList)
          /\ vi' = 1 /\ mi' = mi + 1 /\ pc' = "run"
       \/ /\ vi + 1 >= Len(Schedule) /\ mi = Len(ModeList)
          /\ pc' = "report" /\ UNCHANGED <<vi, mi>>
    /\ UNCHANGED <<envVars, pos, pair, draws, calls, resident, touched,
                   disturbed, preempts>>

\* run<V> returns its row; main_impl goes on to the next variant, the next mode
\* after the last variant, and the report after the last mode.
PushRow ==
    /\ pc = "row"
    /\ rows' = Append(rows, [variant |-> V, mode |-> Mode,
                             draws |-> draws, calls |-> calls])
    /\ \/ /\ vi < Len(Schedule)
          /\ vi' = vi + 1 /\ pc' = "run" /\ UNCHANGED mi
       \/ /\ vi = Len(Schedule) /\ mi < Len(ModeList)
          /\ vi' = 1 /\ mi' = mi + 1 /\ pc' = "run"
       \/ /\ vi = Len(Schedule) /\ mi = Len(ModeList)
          /\ pc' = "report" /\ UNCHANGED <<vi, mi>>
    /\ UNCHANGED <<envVars, pos, pair, draws, calls, resident, touched,
                   disturbed, preempts>>

\* The scheduler runs something else on the core, which empties the cache.
Preempt ==
    /\ pc \in {"warmup", "scrub", "timed"}
    /\ preempts < MaxPreempts
    /\ V \in PreemptedIn
    /\ preempts' = preempts + 1
    /\ resident' = {}
    /\ disturbed' = TRUE
    /\ UNCHANGED <<pc, envVars, pos, mi, vi, pair, draws, calls, touched, rows>>

Program ==
    BuildEnv \/ EnterRun \/ DrawPair \/ WarmUp \/ Scrub \/ TimedCall \/ PushRow

Done == pc = "report" /\ UNCHANGED vars

Next == Program \/ Preempt \/ Done

\* The thread is runnable until it reports: it waits on nothing.
Spec == Init /\ [][Next]_vars /\ WF_vars(Program)
-----------------------------------------------------------------------------
Pairs == Index \X Index

RowType == [variant : Variant, mode : Modes, draws : Seq(Pairs),
            calls : Seq(Seq(Index))]

TypeOK ==
    /\ pc \in {"env", "run", "draw", "warmup", "scrub", "timed", "row", "report"}
    /\ ptrs \in [Hierarchies -> [Index -> Index]]
    /\ vp \in [VpRegistries -> [Index -> Index]]
    /\ stream \in Streams
    /\ pos \in Nat
    /\ mi \in 1 .. Len(ModeList)
    /\ vi \in 1 .. Len(Schedule)
    /\ pair \in Pairs
    /\ draws \in Seq(Pairs)
    /\ Len(draws) <= Reps
    /\ calls \in Seq(Seq(Index))
    /\ disturbed \in BOOLEAN
    /\ preempts \in 0 .. MaxPreempts
    /\ rows \in Seq(RowType)

\* When the report is made, every row was drawn on the same pairs: every
\* variant, in every mode, draws the identical sequence of index
\* pairs (run<V> seeds the engine again, and every repetition draws twice).
PairedDraws ==
    pc = "report" =>
        \A m, n \in DOMAIN rows : rows[m].draws = rows[n].draws

\* Two rows that `disp` or a ratio may combine were measured on the same
\* objects in the same order: the k-th timed call of both has the same first
\* receiver and, if both have one, the same second.  It takes the virtual_ptr
\* arrays to be aligned with the shuffled pointers.
PairedReceivers ==
    pc = "report" =>
        \A m, n \in DOMAIN rows :
            rows[m].variant.hier = rows[n].variant.hier =>
                /\ Len(rows[m].calls) = Len(rows[n].calls)
                /\ \A k \in DOMAIN rows[m].calls :
                     \A r \in DOMAIN rows[m].calls[k] \cap DOMAIN rows[n].calls[k] :
                        rows[m].calls[k][r] = rows[n].calls[k][r]

\* What no variant's regions name: a map's buckets, which the README says, and
\* the object that holds vptr_vector's data pointer (reached all the same when
\* it lies on the line of the hash factors, which the regions do name).
Unreached ==
    IF V.group \in MapRegistries THEN {BucketsLine(V.group)}
    ELSE {HeaderLine(V.group)}

\* When a clflush call is timed, nothing it reads is cached but what the scrub
\* cannot reach: each variant's `regions` matches the path its `call` takes.
ColdWindow ==
    pc = "timed" /\ Mode = "clflush" => CallReads \cap resident \subseteq Unreached

\* The warm-up call leaves everything the timed call reads in the cache, so the
\* scrub has something to evict and `warm` measures a hot cache, unless the
\* thread was preempted since.
WarmedUp ==
    ~disturbed /\ (pc = "scrub" \/ (pc = "timed" /\ Mode = "warm")) =>
        CallReads \subseteq resident

\* The cold modes measure eviction, not first-touch page faults: whatever a
\* timed call reads was read before.
NoFirstTouch == pc = "timed" => CallReads \subseteq touched

\* The loop ends, and the report is reached.
Finishes == <>(pc = "report")

\* The pairs the seeded engine yields, two draws a repetition.
SeededPairs == [k \in 1 .. Reps |-> <<Draw(2 * k - 2), Draw(2 * k - 1)>>]

Cells == [c \in 1 .. (Len(ModeList) * Len(Schedule)) |->
            <<ModeList[((c - 1) \div Len(Schedule)) + 1],
              Schedule[((c - 1) % Len(Schedule)) + 1]>>]

\* The loop implements the paired experiment: every cell of modes x variants is
\* measured once, in order, on the one sequence the seed fixes.
Paired == INSTANCE PairedBench WITH
    plan <- SeededPairs,
    results <- [n \in DOMAIN rows |->
                  [cell |-> <<rows[n].mode, rows[n].variant>>,
                   draws |-> rows[n].draws]]

PairedSpec == Paired!Spec

\* registries.hpp states the point of the clflush regions: "to evict exactly
\* what the dispatch reads", whatever the layout.  The README exempts the map
\* registries.
EvictsWhatDispatchReads ==
    pc = "timed" /\ Mode = "clflush" /\ V.group \notin MapRegistries =>
        CallReads \cap resident = {}
=============================================================================
