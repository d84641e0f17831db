--------------------------- MODULE MeasureProofs ---------------------------
(***************************************************************************)
(* The measurement loop, for every schedule of variants and modes, every   *)
(* population, every seed and any number of repetitions and preemptions.   *)
(***************************************************************************)
EXTENDS PaidFor, InductionLemmas, TLAPS

\* The k-th pair a freshly seeded engine yields.
PairAt(k) == <<Draw(2 * k - 2), Draw(2 * k - 1)>>

\* Phases inside run<V>, and those inside one repetition of it.
InRun == pc \in {"draw", "warmup", "scrub", "timed", "row"}
InRep == pc \in {"warmup", "scrub", "timed"}

\* One pair is drawn per timed call, the current repetition's being in flight.
CountInv ==
    /\ pc = "draw" => Len(draws) = Len(calls) /\ Len(draws) < Reps
    /\ InRep => Len(draws) = Len(calls) + 1 /\ Len(draws) <= Reps
    /\ pc = "row" => Len(draws) = Reps /\ Len(calls) = Reps

\* Inside run<V> the engine has made two draws per pair since it was seeded, so
\* the pairs drawn so far are the first ones of the seeded stream, and the
\* calls timed so far were made on the receivers those pairs designate.
DrawInv ==
    /\ InRun => /\ pos = 2 * Len(draws)
                /\ \A k \in 1 .. Len(draws) : draws[k] = PairAt(k)
                /\ \A k \in 1 .. Len(calls) : calls[k] = Prepare(V, PairAt(k))
    /\ InRep => pair = PairAt(Len(draws))

\* The virtual_ptr arrays are aligned with the pointers of the main hierarchy.
AlignedInv == pc # "env" => \A r \in VpRegistries : vp[r] = ptrs["main"]

\* No row exists before the environment does; every row replayed the stream.
RowInv ==
    /\ pc = "env" => rows = <<>>
    /\ \A n \in DOMAIN rows :
        /\ Len(rows[n].draws) = Reps /\ Len(rows[n].calls) = Reps
        /\ \A k \in 1 .. Reps : rows[n].draws[k] = PairAt(k)
        /\ \A k \in 1 .. Reps : rows[n].calls[k] = Prepare(rows[n].variant, PairAt(k))

\* The cache around the timed call.
CacheInv ==
    /\ pc \in {"scrub", "timed"} => CallReads \subseteq touched
    /\ WarmedUp
    /\ pc = "timed" /\ Mode = "clflush" => resident \cap CallRegions = {}

IInv == TypeOK /\ CountInv /\ DrawInv /\ AlignedInv /\ RowInv /\ CacheInv
-----------------------------------------------------------------------------
\* A draw is an index into the population.
LEMMA DrawTyped ==
    ASSUME stream \in Streams, NEW p \in Nat
    PROVE  Draw(p) \in Index
<1>1. p % EnginePeriod \in 0 .. (EnginePeriod - 1)
  BY SizesAssumption
<1>2. stream \in [0 .. (EnginePeriod - 1) -> Index]
  BY StreamsAssumption
<1>. QED
  BY <1>1, <1>2 DEF Draw

LEMMA CurrentTyped ==
    ASSUME TypeOK
    PROVE  V \in Variant /\ Mode \in Modes
BY PlanAssumption DEF TypeOK, V, Mode

\* The arguments of a call are indices of existing objects.
LEMMA PrepareTyped ==
    ASSUME TypeOK, NEW v \in Variant, NEW ij \in Pairs
    PROVE  Prepare(v, ij) \in Seq(Index)
<1>1. v.hier \in Hierarchies /\ (v.form = "vp" => v.group \in VpRegistries)
  BY DEF Variant, Row
<1>2. ij[1] \in Index /\ ij[2] \in Index
  BY DEF Pairs
<1>. DEFINE array == IF v.form = "vp" THEN vp[v.group] ELSE ptrs[v.hier]
<1>3. array \in [Index -> Index]
  BY <1>1 DEF TypeOK
<1>4. array[ij[1]] \in Index /\ array[ij[2]] \in Index
  BY <1>2, <1>3
<1>. HIDE DEF array
<1>5. <<array[ij[1]], array[ij[2]]>> \in Seq(Index) /\ <<array[ij[1]]>> \in Seq(Index)
  BY <1>4
<1>. QED
  BY <1>5 DEF Prepare, array

\* Where run<V> names what its call reads: the regions of a variant cover its
\* reads, but for a map's buckets and the vector's container object.
LEMMA RegionsCoverReads ==
    ASSUME NEW v \in Variant, NEW objs, NEW leafOf, NEW classes,
           \A o \in objs : leafOf[o] \in classes
    PROVE  Reads(v, objs, leafOf) \ Regions(v, objs, leafOf, classes)
              \subseteq IF v.group \in MapRegistries THEN {BucketsLine(v.group)}
                        ELSE {HeaderLine(v.group)}
<1>. DEFINE leaves == {leafOf[o] : o \in objs}
            reg == v.group
<1>1. v.form \in {"probe", "direct", "touch", "vf", "ref", "vp"}
  BY DEF Variant, Row
<1>2. CASE v.form \in {"probe", "direct", "touch", "vf"}
  BY <1>2 DEF Reads, Regions, ObjectRegions
<1>3. CASE v.form \in {"ref", "vp"}
  <2>1. TableReads(v, leaves) \subseteq
          {FnLine(v), ArenaLine(reg)} \cup StaticVptrRegions(reg, classes)
    BY DEF TableReads, StaticVptrRegions
  <2>2. {ArenaLine(reg)} \cup StaticVptrRegions(reg, classes) \subseteq
          Regions(v, objs, leafOf, classes)
    BY <1>3 DEF Regions, InplaceRegistryRegions, RegistryRegions
  <2>3. {FnLine(v)} \cup ObjectRegions(v, objs, leafOf) \subseteq
          Regions(v, objs, leafOf, classes)
    BY <1>3 DEF Regions
  <2>4. Reads(v, objs, leafOf) \subseteq
          ObjectRegions(v, objs, leafOf) \cup TableReads(v, leaves)
          \cup (IF v.form = "ref" THEN LookupReads(reg) ELSE {})
    BY <1>3 DEF Reads, ObjectRegions
  <2>5. LookupReads(reg) \ Regions(v, objs, leafOf, classes) \subseteq
          IF reg \in MapRegistries THEN {BucketsLine(reg)} ELSE {HeaderLine(reg)}
    BY <1>3 DEF Regions, RegistryRegions, LookupReads
  <2>. QED
    BY <2>1, <2>2, <2>3, <2>4, <2>5
<1>. QED
  BY <1>1, <1>2, <1>3
-----------------------------------------------------------------------------
LEMMA SameEnv ==
    ASSUME UNCHANGED envVars
    PROVE  /\ \A k : PairAt(k)' = PairAt(k)
           /\ \A v, ij : Prepare(v, ij)' = Prepare(v, ij)
BY DEF envVars, PairAt, Draw, Prepare

LEMMA SameCall ==
    ASSUME UNCHANGED <<envVars, mi, vi, pair>>
    PROVE  /\ V' = V /\ Mode' = Mode
           /\ CallReads' = CallReads /\ CallRegions' = CallRegions
BY DEF envVars, V, Mode, CallReads, CallRegions, Receivers, Prepare

LEMMA InitIInv == Init => IInv
<1>. SUFFICES ASSUME Init PROVE IInv
  OBVIOUS
<1>1. 0 \in Index /\ pair \in Pairs
  BY SizesAssumption DEF Init, Index, Pairs
<1>2. mi \in 1 .. Len(ModeList) /\ vi \in 1 .. Len(Schedule)
  BY PlanAssumption DEF Init
<1>3. /\ ptrs \in [Hierarchies -> [Index -> Index]]
      /\ vp \in [VpRegistries -> [Index -> Index]]
  BY DEF Init
<1>4. /\ draws \in Seq(Pairs) /\ calls \in Seq(Seq(Index)) /\ rows \in Seq(RowType)
      /\ Len(draws) <= Reps /\ preempts \in 0 .. MaxPreempts
  BY SizesAssumption DEF Init
<1>5. TypeOK
  BY <1>1, <1>2, <1>3, <1>4 DEF Init, TypeOK
<1>. QED
  BY <1>5 DEF Init, IInv, CountInv, DrawInv, AlignedInv, RowInv, CacheInv,
     WarmedUp, InRun, InRep

LEMMA NextIInv == IInv /\ [Next]_vars => IInv'
<1>. SUFFICES ASSUME IInv, [Next]_vars PROVE IInv'
  OBVIOUS
<1>. USE DEF IInv
<1>1. CASE BuildEnv
  <2>1. TypeOK'
    <3>1. ptrs' \in [Hierarchies -> [Index -> Index]]
      BY <1>1 DEF BuildEnv, Shuffles
    <3>2. vp' \in [VpRegistries -> [Index -> Index]]
      BY <1>1, <3>1 DEF BuildEnv, Hierarchies
    <3>3. pos' \in Nat
      BY <1>1, SizesAssumption DEF BuildEnv
    <3>. QED
      BY <1>1, <3>1, <3>2, <3>3 DEF BuildEnv, TypeOK
  <2>. QED
    BY <1>1, <2>1 DEF BuildEnv, CountInv, DrawInv, AlignedInv, RowInv, CacheInv,
       WarmedUp, InRun, InRep
<1>2. CASE EnterRun
  <2>1. TypeOK'
    BY <1>2, SizesAssumption DEF EnterRun, TypeOK, envVars
  <2>2. CountInv' /\ DrawInv'
    BY <1>2, SizesAssumption DEF EnterRun, CountInv, DrawInv, InRun, InRep
  <2>3. AlignedInv' /\ RowInv'
    BY <1>2, SameEnv DEF EnterRun, AlignedInv, RowInv, envVars
  <2>. QED
    BY <1>2, <2>1, <2>2, <2>3 DEF EnterRun, CacheInv, WarmedUp
<1>3. CASE DrawPair
  <2>1. pair' = <<Draw(pos), Draw(pos + 1)>> /\ pair' \in Pairs
    BY <1>3, DrawTyped DEF DrawPair, TypeOK, Pairs
  <2>2. /\ draws' = Append(draws, pair') /\ draws' \in Seq(Pairs)
        /\ Len(draws') = Len(draws) + 1 /\ Len(draws') <= Reps
        /\ draws'[Len(draws')] = pair'
        /\ \A k \in 1 .. Len(draws) : draws'[k] = draws[k]
    BY <1>3, <2>1, SizesAssumption DEF DrawPair, TypeOK, CountInv
  <2>3. TypeOK'
    <3>1. pos' \in Nat
      BY <1>3 DEF DrawPair, TypeOK
    <3>. QED
      BY <1>3, <2>1, <2>2, <3>1 DEF DrawPair, TypeOK, envVars
  <2>4. CountInv'
    BY <1>3, <2>2 DEF DrawPair, CountInv, InRep, TypeOK
  <2>5. pair' = PairAt(Len(draws'))
    BY <1>3, <2>1, <2>2 DEF DrawPair, DrawInv, InRun, PairAt, TypeOK
  <2>6. DrawInv'
    BY <1>3, <2>2, <2>5, SameEnv, SameCall
    DEF DrawPair, DrawInv, InRun, InRep, TypeOK, V
  <2>7. AlignedInv' /\ RowInv'
    BY <1>3, SameEnv DEF DrawPair, AlignedInv, RowInv, envVars
  <2>. QED
    BY <1>3, <2>3, <2>4, <2>6, <2>7 DEF DrawPair, CacheInv, WarmedUp
<1>4. CASE WarmUp
  <2>1. TypeOK' /\ CountInv'
    BY <1>4 DEF WarmUp, TypeOK, envVars, CountInv, InRep
  <2>2. DrawInv' /\ AlignedInv' /\ RowInv'
    BY <1>4, SameEnv, SameCall
    DEF WarmUp, DrawInv, AlignedInv, RowInv, envVars, InRun, InRep
  <2>3. CacheInv'
    BY <1>4, SameCall DEF WarmUp, CacheInv, WarmedUp
  <2>. QED
    BY <2>1, <2>2, <2>3
<1>5. CASE Scrub
  <2>1. TypeOK' /\ CountInv'
    BY <1>5 DEF Scrub, TypeOK, envVars, CountInv, InRep
  <2>2. DrawInv' /\ AlignedInv' /\ RowInv'
    BY <1>5, SameEnv, SameCall
    DEF Scrub, DrawInv, AlignedInv, RowInv, envVars, InRun, InRep
  <2>3. CacheInv'
    BY <1>5, SameCall, CurrentTyped DEF Scrub, CacheInv, WarmedUp, Modes
  <2>. QED
    BY <2>1, <2>2, <2>3
<1>6. CASE TimedCall
  <2>1. V \in Variant /\ Prepare(V, pair) \in Seq(Index)
    BY CurrentTyped, PrepareTyped DEF TypeOK
  <2>2. /\ calls' \in Seq(Seq(Index)) /\ Len(calls') = Len(calls) + 1
        /\ calls'[Len(calls')] = Prepare(V, pair)
        /\ \A k \in 1 .. Len(calls) : calls'[k] = calls[k]
    BY <1>6, <2>1 DEF TimedCall, TypeOK
  <2>3. TypeOK'
    BY <1>6, <2>2 DEF TimedCall, TypeOK, envVars
  <2>4. CountInv'
    BY <1>6, <2>2, SizesAssumption DEF TimedCall, CountInv, InRep, TypeOK
  <2>5. pair = PairAt(Len(calls'))
    BY <1>6, <2>2 DEF TimedCall, DrawInv, CountInv, InRep, TypeOK
  <2>6. DrawInv'
    <3>1. UNCHANGED envVars /\ V' = V /\ UNCHANGED <<draws, pos, pair>>
      BY <1>6 DEF TimedCall, V
    <3>2. \A k \in 1 .. Len(calls') : calls'[k] = Prepare(V, PairAt(k))
      <4>1. \A k \in 1 .. Len(calls') : k \in 1 .. Len(calls) \/ k = Len(calls')
        BY <2>2 DEF TypeOK
      <4>2. \A k \in 1 .. Len(calls) : calls[k] = Prepare(V, PairAt(k))
        BY <1>6 DEF TimedCall, DrawInv, InRun
      <4>. QED
        BY <2>2, <2>5, <4>1, <4>2
    <3>3. /\ pos = 2 * Len(draws)
          /\ \A k \in 1 .. Len(draws) : draws[k] = PairAt(k)
      BY <1>6 DEF TimedCall, DrawInv, InRun
    <3>4. ~InRep'
      BY <1>6 DEF TimedCall, InRep
    <3>. QED
      BY <3>1, <3>2, <3>3, <3>4, SameEnv DEF DrawInv
  <2>7. AlignedInv' /\ RowInv'
    BY <1>6, SameEnv DEF TimedCall, AlignedInv, RowInv, envVars
  <2>. QED
    BY <1>6, <2>3, <2>4, <2>6, <2>7 DEF TimedCall, CacheInv, WarmedUp
<1>7. CASE PushRow
  <2>. DEFINE new == [variant |-> V, mode |-> Mode, draws |-> draws, calls |-> calls]
  <2>1. new \in RowType
    BY CurrentTyped DEF TypeOK, RowType
  <2>2. /\ rows' = Append(rows, new) /\ rows' \in Seq(RowType)
        /\ DOMAIN rows' = DOMAIN rows \cup {Len(rows) + 1}
        /\ rows'[Len(rows) + 1] = new
        /\ \A n \in DOMAIN rows : rows'[n] = rows[n]
    BY <1>7, <2>1 DEF PushRow, TypeOK
  <2>3. TypeOK'
    BY <1>7, <2>2 DEF PushRow, TypeOK, envVars
  <2>4. pc' \in {"run", "report"}
    BY <1>7 DEF PushRow
  <2>5. CountInv' /\ DrawInv' /\ CacheInv'
    BY <2>4 DEF CountInv, DrawInv, InRun, InRep, CacheInv, WarmedUp
  <2>6. AlignedInv'
    BY <1>7 DEF PushRow, AlignedInv, envVars
  <2>7. /\ Len(new.draws) = Reps /\ Len(new.calls) = Reps
        /\ \A k \in 1 .. Reps : new.draws[k] = PairAt(k)
        /\ \A k \in 1 .. Reps : new.calls[k] = Prepare(new.variant, PairAt(k))
    BY <1>7 DEF PushRow, CountInv, DrawInv, InRun
  <2>8. RowInv'
    BY <1>7, <2>2, <2>4, <2>7, SameEnv DEF PushRow, RowInv
  <2>. QED
    BY <2>3, <2>5, <2>6, <2>8
<1>8. CASE Preempt
  <2>1. TypeOK' /\ CountInv'
    BY <1>8, SizesAssumption DEF Preempt, TypeOK, envVars, CountInv, InRep
  <2>2. DrawInv' /\ AlignedInv' /\ RowInv'
    BY <1>8, SameEnv, SameCall
    DEF Preempt, DrawInv, AlignedInv, RowInv, envVars, InRun, InRep
  <2>3. CacheInv'
    BY <1>8, SameCall DEF Preempt, CacheInv, WarmedUp
  <2>. QED
    BY <2>1, <2>2, <2>3
<1>9. CASE UNCHANGED vars
  <2>1. UNCHANGED envVars /\ UNCHANGED <<envVars, mi, vi, pair>>
    BY <1>9 DEF vars, envVars
  <2>2. TypeOK' /\ CountInv' /\ AlignedInv'
    BY <1>9 DEF vars, TypeOK, CountInv, AlignedInv, InRep
  <2>3. DrawInv' /\ RowInv'
    BY <1>9, <2>1, SameEnv, SameCall DEF vars, DrawInv, RowInv, InRun, InRep
  <2>4. CacheInv'
    BY <1>9, <2>1, SameCall DEF vars, CacheInv, WarmedUp
  <2>. QED
    BY <2>2, <2>3, <2>4
<1>. QED
  BY <1>1, <1>2, <1>3, <1>4, <1>5, <1>6, <1>7, <1>8, <1>9 DEF Next, Program, Done

LEMMA Inductive == Spec => []IInv
BY InitIInv, NextIInv, PTL DEF Spec

-----------------------------------------------------------------------------
\* The loop's state stays well typed; in particular the schedule and mode
\* indices never leave their lists, and every receiver is an existing object.
THEOREM MeasureTypeOK == Spec => []TypeOK
BY Inductive, PTL DEF IInv

\* What a finished row holds, field by field.
LEMMA RowTyped ==
    ASSUME TypeOK, NEW n \in DOMAIN rows
    PROVE  /\ rows[n].variant \in Variant
           /\ rows[n].draws \in Seq(Pairs)
           /\ rows[n].calls \in Seq(Seq(Index))
<1>1. rows \in Seq(RowType)
  BY DEF TypeOK
<1>2. rows[n] \in RowType
  BY <1>1
<1>. QED
  BY <1>2 DEF RowType

\* Paired draws: whatever the shuffles of env left in the engine, and however
\* many repetitions, every row of the report was measured on the same pairs.
THEOREM AllPairedDraws == Spec => []PairedDraws
<1>1. IInv => PairedDraws
  <2>. SUFFICES ASSUME IInv, NEW m \in DOMAIN rows, NEW n \in DOMAIN rows
                PROVE  rows[m].draws = rows[n].draws
    BY DEF PairedDraws
  <2>1. rows[m].draws \in Seq(Pairs) /\ rows[n].draws \in Seq(Pairs)
    BY RowTyped DEF IInv
  <2>2. /\ Len(rows[m].draws) = Reps /\ Len(rows[n].draws) = Reps
        /\ \A k \in 1 .. Reps : rows[m].draws[k] = rows[n].draws[k]
    BY DEF IInv, RowInv
  <2>. QED
    BY <2>1, <2>2
<1>. QED
  BY Inductive, <1>1, PTL

\* Paired receivers: two rows of one hierarchy were measured on the same
\* objects in the same order, whether their arguments are references or
\* virtual_ptrs of any registry.
THEOREM AllPairedReceivers == Spec => []PairedReceivers
<1>1. IInv => PairedReceivers
  <2>. SUFFICES ASSUME IInv, pc = "report",
                       NEW m \in DOMAIN rows, NEW n \in DOMAIN rows,
                       rows[m].variant.hier = rows[n].variant.hier
                PROVE  /\ Len(rows[m].calls) = Len(rows[n].calls)
                       /\ \A k \in DOMAIN rows[m].calls :
                            \A r \in DOMAIN rows[m].calls[k] \cap DOMAIN rows[n].calls[k] :
                               rows[m].calls[k][r] = rows[n].calls[k][r]
    BY DEF PairedReceivers
  <2>. DEFINE u == rows[m].variant
              v == rows[n].variant
  <2>1. /\ u \in Variant /\ v \in Variant
        /\ rows[m].calls \in Seq(Seq(Index)) /\ rows[n].calls \in Seq(Seq(Index))
    BY RowTyped DEF IInv
  <2>2. /\ Len(rows[m].calls) = Reps /\ Len(rows[n].calls) = Reps
        /\ \A k \in 1 .. Reps : /\ rows[m].calls[k] = Prepare(u, PairAt(k))
                               /\ rows[n].calls[k] = Prepare(v, PairAt(k))
    BY DEF IInv, RowInv
  <2>3. \A w \in {u, v} : w.form = "vp" => w.hier = "main" /\ vp[w.group] = ptrs["main"]
    BY <2>1 DEF IInv, AlignedInv, Variant, HierOf, VpRegistries, InplaceRegistries
  <2>4. \A ij : \A r \in DOMAIN Prepare(u, ij) \cap DOMAIN Prepare(v, ij) :
            Prepare(u, ij)[r] = Prepare(v, ij)[r]
    BY <2>3 DEF Prepare
  <2>5. DOMAIN rows[m].calls = 1 .. Reps
    BY <2>1, <2>2
  <2>6. ASSUME NEW k \in DOMAIN rows[m].calls,
               NEW r \in DOMAIN rows[m].calls[k] \cap DOMAIN rows[n].calls[k]
        PROVE  rows[m].calls[k][r] = rows[n].calls[k][r]
    <3>1. /\ rows[m].calls[k] = Prepare(u, PairAt(k))
          /\ rows[n].calls[k] = Prepare(v, PairAt(k))
      BY <2>2, <2>5, <2>6
    <3>. QED
      BY <2>4, <2>6, <3>1
  <2>. QED
    BY <2>2, <2>6
<1>. QED
  BY Inductive, <1>1, PTL

\* The clflush window is cold, but for what no region names: at the moment a
\* clflush call is timed, whatever it reads was flushed and nothing brought it
\* back, however often the thread was preempted.
THEOREM ClflushIsCold == Spec => []ColdWindow
<1>1. IInv => ColdWindow
  <2>. SUFFICES ASSUME IInv, pc = "timed", Mode = "clflush"
                PROVE  CallReads \cap resident \subseteq Unreached
    BY DEF ColdWindow
  <2>1. V \in Variant
    BY CurrentTyped DEF IInv
  <2>2. \A o \in Receivers(V, pair) : LeafOf[o] \in Classes
    <3>1. Prepare(V, pair) \in Seq(Index)
      BY <2>1, PrepareTyped DEF IInv, TypeOK
    <3>2. \A o \in Index : o % NumClasses \in Classes
      BY SizesAssumption DEF Index, Classes
    <3>. QED
      BY <3>1, <3>2 DEF Receivers, LeafOf
  <2>3. CallReads \ CallRegions \subseteq Unreached
    BY <2>1, <2>2, RegionsCoverReads DEF CallReads, CallRegions, Unreached
  <2>4. resident \cap CallRegions = {}
    BY DEF IInv, CacheInv
  <2>. QED
    BY <2>3, <2>4
<1>. QED
  BY Inductive, <1>1, PTL

\* The warm-up call does its job: undisturbed, what a call is about to read is
\* cached when the scrub starts, and still is when a warm call is timed.
THEOREM WarmUpWarms == Spec => []WarmedUp
<1>1. IInv => WarmedUp
  BY DEF IInv, CacheInv
<1>. QED
  BY Inductive, <1>1, PTL

\* No timed call is the first to touch anything: the cold modes measure eviction
\* and no page faults.
THEOREM WarmUpTouches == Spec => []NoFirstTouch
<1>1. IInv => NoFirstTouch
  BY DEF IInv, CacheInv, NoFirstTouch
<1>. QED
  BY Inductive, <1>1, PTL
-----------------------------------------------------------------------------
(* What `disp` subtracts is what the row paid.                              *)

\* Which are baselines, and which read their receivers with which form.
Shaped(v) ==
    /\ v \in Variant
    /\ ~v.touches =>
         v.form \in {"probe", "direct"} \/ (v.form = "vp" /\ v.body # "use")
    /\ v.touches =>
         v.form \in {"touch", "vf", "ref"} \/ (v.form = "vp" /\ v.body = "use")
    /\ v.group = "baseline" => v.form \in {"probe", "direct", "touch"}
    /\ v.form \in {"probe", "direct"} => v.arity = 0

LEMMA EmptyShape == Shaped(VProbe) /\ Shaped(VDirect)
<1>1. "main" \in Hierarchies /\ 0 \in 0 .. 2
  BY DEF Hierarchies
<1>. QED
  BY <1>1 DEF Shaped, VProbe, VDirect, Baseline, Variant, Row

LEMMA TouchShape ==
    ASSUME NEW hier \in Hierarchies, NEW arity \in 0 .. 2
    PROVE  Shaped(Baseline("touch", hier, arity, TRUE))
BY DEF Shaped, Baseline, Variant, Row

LEMMA YardstickShape ==
    ASSUME NEW hier \in Hierarchies, NEW arity \in 0 .. 2, NEW body \in {"const", "use"}
    PROVE  Shaped(Yardstick(hier, arity, body))
BY DEF Shaped, Yardstick, Variant, Row

LEMMA DispatchShape ==
    ASSUME NEW reg \in Registries, NEW arity \in 0 .. 2, NEW body \in {"const", "use"}
    PROVE  /\ Shaped(Dispatch("ref", reg, arity, body, TRUE))
           /\ reg \in VpRegistries => /\ Shaped(Dispatch("vp", reg, arity, "const", FALSE))
                                      /\ Shaped(Dispatch("vp", reg, arity, "use", TRUE))
<1>1. HierOf(reg) \in Hierarchies /\ reg # "baseline"
  BY DEF HierOf, Hierarchies, Registries, VpRegistries, InplaceRegistries
<1>2. Shaped(Dispatch("ref", reg, arity, body, TRUE))
  BY <1>1 DEF Shaped, Dispatch, Variant, Row
<1>3. ASSUME reg \in VpRegistries PROVE Shaped(Dispatch("vp", reg, arity, "const", FALSE))
  BY <1>1, <1>3 DEF Shaped, Dispatch, Variant, Row
<1>4. ASSUME reg \in VpRegistries PROVE Shaped(Dispatch("vp", reg, arity, "use", TRUE))
  BY <1>1, <1>4 DEF Shaped, Dispatch, Variant, Row
<1>. QED
  BY <1>2, <1>3, <1>4

LEMMA StructShape ==
    ASSUME NEW v \in Structs
    PROVE  Shaped(v)
<1>1. CASE v \in PlainStructs
  <2>1. "main" \in Hierarchies /\ 1 \in 0 .. 2 /\ 2 \in 0 .. 2
    BY DEF Hierarchies
  <2>2. Shaped(VTouch1) /\ Shaped(VTouch2)
    BY <2>1, TouchShape DEF VTouch1, VTouch2
  <2>3. Shaped(VVf1) /\ Shaped(VVf2) /\ Shaped(VVfu1) /\ Shaped(VVfu2)
    BY <2>1, YardstickShape DEF VVf1, VVf2, VVfu1, VVfu2
  <2>. QED
    BY <1>1, <2>2, <2>3, EmptyShape DEF PlainStructs
<1>2. ASSUME NEW reg \in VpRegistries,
             v \in OmStructs(reg)
      PROVE  Shaped(v)
  <2>1. reg \in Registries /\ 1 \in 0 .. 2 /\ 2 \in 0 .. 2
    BY DEF Registries
  <2>2. /\ Shaped(VOmVp1(reg)) /\ Shaped(VOmVp2(reg))
        /\ Shaped(VOmVpu1(reg)) /\ Shaped(VOmVpu2(reg))
    BY <2>1, DispatchShape DEF VOmVp1, VOmVp2, VOmVpu1, VOmVpu2
  <2>3. /\ Shaped(VOmRef1(reg)) /\ Shaped(VOmRef2(reg))
        /\ Shaped(VOmRefu1(reg)) /\ Shaped(VOmRefu2(reg))
    BY <2>1, DispatchShape DEF VOmRef1, VOmRef2, VOmRefu1, VOmRefu2
  <2>. QED
    BY <1>2, <2>2, <2>3 DEF OmStructs
<1>3. ASSUME NEW reg \in InplaceRegistries,
             v \in IpStructs(reg)
      PROVE  Shaped(v)
  <2>1. reg \in Registries /\ reg \in Hierarchies /\ 1 \in 0 .. 2 /\ 2 \in 0 .. 2
    BY DEF Registries, Hierarchies
  <2>2. Shaped(VIpTouch1(reg)) /\ Shaped(VIpTouch2(reg))
    BY <2>1, TouchShape DEF VIpTouch1, VIpTouch2
  <2>3. /\ Shaped(VIpVf1(reg)) /\ Shaped(VIpVf2(reg))
        /\ Shaped(VIpVfu1(reg)) /\ Shaped(VIpVfu2(reg))
    BY <2>1, YardstickShape DEF VIpVf1, VIpVf2, VIpVfu1, VIpVfu2
  <2>4. /\ Shaped(VIpRef1(reg)) /\ Shaped(VIpRef2(reg))
        /\ Shaped(VIpRefu1(reg)) /\ Shaped(VIpRefu2(reg))
    BY <2>1, DispatchShape DEF VIpRef1, VIpRef2, VIpRefu1, VIpRefu2
  <2>. QED
    BY <1>3, <2>2, <2>3, <2>4 DEF IpStructs
<1>4. \/ v \in PlainStructs
      \/ \E reg \in VpRegistries : v \in OmStructs(reg)
      \/ \E reg \in InplaceRegistries : v \in IpStructs(reg)
  BY DEF Structs
<1>. QED
  BY <1>1, <1>2, <1>3, <1>4

\* A search that finds a row finds one that passes its test.
LEMMA Found ==
    ASSUME NEW m \in Nat, NEW T \in SUBSET (1 .. m), T # {}
    PROVE  Min(T) \in T
BY NatMin DEF Min

\* What `disp` subtracts: for a row that reads no receiver a baseline that reads
\* none, for the others the touch baseline of its mode, arity and hierarchy.
LEMMA SubtractedRow ==
    ASSUME TypeOK, \A m \in DOMAIN rows : rows[m].variant \in Structs,
           NEW n \in DOMAIN rows, NEW b, b = DispFrom(Table, Table[n]), b # NoRow
    PROVE  /\ b \in DOMAIN rows
           /\ LET u == rows[b].variant  v == rows[n].variant
              IN  IF ~v.touches THEN u.form \in {"probe", "direct"}
                  ELSE u.form = "touch" /\ u.arity = v.arity /\ u.hier = v.hier
<1>. DEFINE v == rows[n].variant
            Is(i, name) == Table[i].v.group = "baseline" /\ Table[i].mode = Table[n].mode
                           /\ Table[i].v.form = name
            Obj(i) == /\ Table[i].v.group = "baseline" /\ Table[i].mode = Table[n].mode
                      /\ Table[i].v.arity = Table[n].v.arity
                      /\ Table[i].v.hier = Table[n].v.hier
            Named(name) == {i \in 1 .. Len(Table) : Is(i, name)}
            Objs == {i \in 1 .. Len(Table) : Obj(i)}
<1>1. /\ Len(rows) \in Nat /\ DOMAIN rows = 1 .. Len(rows) /\ Len(Table) = Len(rows)
      /\ \A i \in 1 .. Len(rows) : /\ Table[i].v = rows[i].variant
                                   /\ Table[i].mode = rows[i].mode
  BY DEF TypeOK, Table
<1>2. /\ \A name : Named(name) \in SUBSET (1 .. Len(rows))
      /\ Objs \in SUBSET (1 .. Len(rows))
  BY <1>1
<1>3. CASE ~v.touches
  <2>1. PICK d : d = NamedBaseline(Table, Table[n].mode, "direct")
    OBVIOUS
  <2>2. PICK p : p = NamedBaseline(Table, Table[n].mode, "probe")
    OBVIOUS
  <2>3. b = IF d # NoRow THEN d ELSE p
    BY <1>1, <1>3, <2>1, <2>2 DEF DispFrom
  <2>4. d # NoRow => d \in Named("direct")
    <3>1. d = IF Named("direct") # {} THEN Min(Named("direct")) ELSE 0
      BY <2>1 DEF NamedBaseline, SelectInSeq
    <3>. QED
      BY <1>1, <1>2, <3>1, Found DEF NoRow
  <2>5. p # NoRow => p \in Named("probe")
    <3>1. p = IF Named("probe") # {} THEN Min(Named("probe")) ELSE 0
      BY <2>2 DEF NamedBaseline, SelectInSeq
    <3>. QED
      BY <1>1, <1>2, <3>1, Found DEF NoRow
  <2>. QED
    BY <1>1, <1>3, <2>3, <2>4, <2>5
<1>4. CASE v.touches
  <2>1. PICK o : o = ObjBaseline(Table, Table[n])
    OBVIOUS
  <2>2. b = o /\ v.arity # 0
    BY <1>1, <1>4, <2>1 DEF DispFrom
  <2>3. o = IF Objs # {} THEN Min(Objs) ELSE 0
    BY <2>1 DEF ObjBaseline, SelectInSeq
  <2>4. b \in Objs
    BY <1>1, <1>2, <2>2, <2>3, Found DEF NoRow
  <2>5. /\ b \in DOMAIN rows /\ rows[b].variant.group = "baseline"
        /\ rows[b].variant.arity = v.arity /\ rows[b].variant.hier = v.hier
    BY <1>1, <2>4
  <2>6. rows[b].variant.form = "touch"
    BY <2>2, <2>5, StructShape DEF Shaped
  <2>. QED
    BY <1>4, <2>5, <2>6
<1>. QED
  BY <1>3, <1>4

\* Every row is of a scheduled variant.
LEMMA RowsScheduled == Spec => [](\A n \in DOMAIN rows : rows[n].variant \in Structs)
<1>. DEFINE Inv == \A n \in DOMAIN rows : rows[n].variant \in Structs
<1>1. Init => Inv
  BY DEF Init
<1>2. TypeOK /\ Inv /\ [Next]_vars => Inv'
  <2>. SUFFICES ASSUME TypeOK, Inv, [Next]_vars PROVE Inv'
    OBVIOUS
  <2>1. CASE PushRow
    <3>1. V \in Structs
      BY StructsAssumption, PlanAssumption DEF V, Range, TypeOK
    <3>2. /\ DOMAIN rows' = DOMAIN rows \cup {Len(rows) + 1}
          /\ \A n \in DOMAIN rows : rows'[n] = rows[n]
          /\ rows'[Len(rows) + 1].variant = V
      BY <2>1 DEF PushRow, TypeOK
    <3>. QED
      BY <3>1, <3>2
  <2>2. CASE UNCHANGED rows
    BY <2>2
  <2>. QED
    BY <2>1, <2>2 DEF Next, Program, Done, BuildEnv, EnterRun, DrawPair, WarmUp, Scrub,
       TimedCall, Preempt, vars
<1>. QED
  BY MeasureTypeOK, <1>1, <1>2, PTL DEF Spec

\* What `disp` subtracts of a row is what that row paid, on the very receivers it
\* was called on: the subtracted call read nothing the row's call did not, and
\* all the receivers the row read.
THEOREM PaidSubtracted == Spec => []SubtractsOnlyPaid
<1>1. IInv /\ (\A n \in DOMAIN rows : rows[n].variant \in Structs) => SubtractsOnlyPaid
  <2>. SUFFICES ASSUME IInv, \A n \in DOMAIN rows : rows[n].variant \in Structs,
                       pc = "report", NEW n \in DOMAIN rows,
                       DispFrom(Table, Table[n]) # NoRow,
                       NEW k \in DOMAIN rows[n].calls
                PROVE  LET b == DispFrom(Table, Table[n])
                       IN  /\ ReadAt(b, k) \subseteq ReadAt(n, k)
                           /\ ReadAt(n, k) \cap ObjectsAt(n, k) \subseteq ReadAt(b, k)
    BY DEF SubtractsOnlyPaid
  <2>1. PICK b : b = DispFrom(Table, Table[n])
    OBVIOUS
  <2>. DEFINE u == rows[b].variant
              v == rows[n].variant
              objects == ObjectsAt(n, k)
  <2>2. /\ b \in DOMAIN rows
        /\ IF ~v.touches THEN u.form \in {"probe", "direct"}
           ELSE u.form = "touch" /\ u.arity = v.arity /\ u.hier = v.hier
    BY <2>1, SubtractedRow DEF IInv
  <2>3. v \in Structs /\ v \in Variant /\ u \in Variant
    BY <2>2, StructShape DEF Shaped
  <2>4. objects = {ObjLine(v.hier, o) : o \in Range(rows[n].calls[k])}
    BY DEF ObjectsAt
  <2>5. CASE ~v.touches
    <3>1. ReadAt(b, k) = {}
      <4>1. u.form \in {"probe", "direct"}
        BY <2>2, <2>5
      <4>. QED
        BY <4>1 DEF ReadAt, Reads
    <3>2. v.form \in {"probe", "direct"} \/ (v.form = "vp" /\ v.body # "use")
      BY <2>3, <2>5, StructShape DEF Shaped
    <3>3. ReadAt(n, k) \cap objects = {}
      BY <3>2, <2>4 DEF ReadAt, Reads, TableReads, FnLine, ArenaLine, StaticVptrLine, ObjLine
    <3>. QED
      BY <2>1, <3>1, <3>3
  <2>6. CASE v.touches
    <3>1. k \in 1 .. Reps /\ rows[n].calls[k] = Prepare(v, PairAt(k))
          /\ rows[b].calls[k] = Prepare(u, PairAt(k))
      BY <2>2, RowTyped DEF IInv, RowInv
    <3>2. Prepare(u, PairAt(k)) = Prepare(v, PairAt(k))
      <4>1. v.form = "vp" => v.hier = "main" /\ vp[v.group] = ptrs["main"]
        BY <2>3 DEF IInv, AlignedInv, Variant, HierOf, VpRegistries, InplaceRegistries
      <4>. QED
        BY <2>2, <2>6, <4>1 DEF Prepare
    <3>3. ReadAt(b, k) = objects
      BY <2>2, <2>4, <2>6, <3>1, <3>2 DEF ReadAt, Reads
    <3>4. v.form \in {"touch", "vf", "ref"} \/ (v.form = "vp" /\ v.body = "use")
      BY <2>3, <2>6, StructShape DEF Shaped
    <3>5. objects \subseteq ReadAt(n, k)
      BY <2>4, <3>4 DEF ReadAt, Reads
    <3>. QED
      BY <2>1, <3>3, <3>5
  <2>. QED
    BY <2>5, <2>6
<1>. QED
  BY Inductive, RowsScheduled, <1>1, PTL
-----------------------------------------------------------------------------
(* The loop implements the paired experiment, step by step.                 *)

LEMMA DivMod ==
    ASSUME NEW q \in Nat, NEW r \in Nat, NEW s \in Nat \ {0}, r < s
    PROVE  (q * s + r) \div s = q /\ (q * s + r) % s = r
OBVIOUS

LEMMA FunAsSeq ==
    ASSUME NEW S, NEW m \in Nat, NEW f \in [1 .. m -> S], NEW e \in S
    PROVE  /\ Len(f) = m
           /\ Append(f, e) = [n \in 1 .. (m + 1) |-> IF n = m + 1 THEN e ELSE f[n]]
<1>1. f \in Seq(S) /\ Len(f) = m
  OBVIOUS
<1>. DEFINE a == Append(f, e)
<1>2. /\ a \in Seq(S) /\ Len(a) = m + 1 /\ a[m + 1] = e
      /\ \A n \in 1 .. m : a[n] = f[n]
  BY <1>1
<1>. HIDE DEF a
<1>3. a = [n \in 1 .. (m + 1) |-> a[n]]
  BY <1>2
<1>4. \A n \in 1 .. (m + 1) : a[n] = IF n = m + 1 THEN e ELSE f[n]
  BY <1>2
<1>. QED
  BY <1>1, <1>3, <1>4 DEF a

LEMMA PlaceBound ==
    ASSUME NEW q \in Nat, NEW r \in Nat, NEW s \in Nat \ {0}, NEW m \in Nat, r < s, q < m
    PROVE  q * s + r \in Nat /\ q * s + r < m * s
OBVIOUS

\* The rows so far are those of the modes and variants before the current ones.
PlaceInv ==
    /\ pc # "report" => Len(rows) = (mi - 1) * Len(Schedule) + (vi - 1)
    /\ pc = "row" => draws = SeededPairs

\* The drawn pairs of a finished row are the seeded ones, as a sequence.
LEMMA SeededDraws ==
    ASSUME IInv, pc = "row"
    PROVE  draws = SeededPairs
<1>1. draws \in Seq(Pairs) /\ Len(draws) = Reps
      /\ \A n \in 1 .. Len(draws) : draws[n] = PairAt(n)
  BY DEF IInv, TypeOK, CountInv, DrawInv, InRun
<1>2. SeededPairs = [n \in 1 .. Reps |-> PairAt(n)]
  BY DEF SeededPairs, PairAt
<1>. QED
  BY <1>1, <1>2

LEMMA PlaceNext ==
    ASSUME IInv, PlaceInv, PushRow
    PROVE  /\ pc' # "report" => Len(rows') = (mi' - 1) * Len(Schedule) + (vi' - 1)
           /\ Len(rows) + 1 \in 1 .. (Len(ModeList) * Len(Schedule))
           /\ Cells[Len(rows) + 1] = <<Mode, V>>
<1>. DEFINE s == Len(Schedule)
            q == mi - 1
            p == vi - 1
<1>1. /\ s \in Nat \ {0} /\ Len(ModeList) \in Nat /\ q \in Nat /\ p \in Nat
      /\ p < s /\ q < Len(ModeList) /\ mi = q + 1 /\ vi = p + 1
  BY PlanAssumption DEF IInv, TypeOK
<1>2. Len(rows) = q * s + p
  BY DEF PlaceInv, PushRow
<1>3. /\ (q * s + p) \div s = q /\ (q * s + p) % s = p
      /\ q * s + p \in Nat /\ q * s + p < Len(ModeList) * s
  BY <1>1, DivMod, PlaceBound
<1>4. Len(rows) + 1 \in 1 .. (Len(ModeList) * s)
  <2>1. Len(ModeList) * s \in Nat
    BY <1>1
  <2>. QED
    BY <1>2, <1>3, <2>1
<1>5. Cells[Len(rows) + 1] = <<Mode, V>>
  <2>1. Cells[Len(rows) + 1] = <<ModeList[(((Len(rows) + 1) - 1) \div s) + 1],
                                 Schedule[(((Len(rows) + 1) - 1) % s) + 1]>>
    BY <1>4 DEF Cells
  <2>2. (Len(rows) + 1) - 1 = q * s + p
    BY <1>2, <1>3
  <2>. QED
    BY <1>1, <1>3, <2>1, <2>2 DEF Mode, V
<1>6. Len(rows') = q * s + p + 1
  BY <1>2 DEF PushRow, IInv, TypeOK
<1>7. pc' # "report" => Len(rows') = (mi' - 1) * s + (vi' - 1)
  <2>1. CASE vi < s
    <3>1. mi' - 1 = q /\ vi' - 1 = p + 1
      BY <1>1, <2>1 DEF PushRow
    <3>2. (mi' - 1) * s + (vi' - 1) = q * s + (p + 1)
      BY <3>1
    <3>3. q * s \in Nat
      BY <1>1
    <3>. QED
      BY <1>1, <1>6, <3>2, <3>3
  <2>2. CASE vi = s /\ mi < Len(ModeList)
    <3>1. mi' - 1 = q + 1 /\ vi' - 1 = 0 /\ p + 1 = s
      BY <1>1, <2>2 DEF PushRow
    <3>2. (q + 1) * s = q * s + s /\ q * s \in Nat
      BY <1>1
    <3>3. (mi' - 1) * s + (vi' - 1) = (q + 1) * s + 0
      BY <3>1
    <3>. QED
      BY <1>1, <1>6, <3>1, <3>2, <3>3
  <2>3. CASE vi = s /\ mi = Len(ModeList)
    BY <1>1, <2>3 DEF PushRow
  <2>. QED
    BY <2>1, <2>2, <2>3 DEF PushRow
<1>. QED
  BY <1>4, <1>5, <1>7

LEMMA PlaceInductive == Spec => []PlaceInv
<1>1. Init => PlaceInv
  BY PlanAssumption DEF Init, PlaceInv
<1>2. IInv /\ PlaceInv /\ IInv' /\ [Next]_vars => PlaceInv'
  <2>. SUFFICES ASSUME IInv, PlaceInv, IInv', [Next]_vars PROVE PlaceInv'
    OBVIOUS
  <2>1. CASE PushRow
    <3>1. pc' # "row"
      BY <2>1 DEF PushRow
    <3>. QED
      BY <2>1, <3>1, PlaceNext DEF PlaceInv
  <2>2. CASE BuildEnv \/ EnterRun \/ DrawPair \/ WarmUp \/ Scrub \/ TimedCall \/ Preempt
             \/ UNCHANGED vars
    <3>1. (UNCHANGED <<rows, mi, vi>> /\ pc # "report") \/ UNCHANGED vars
      BY <2>2 DEF BuildEnv, EnterRun, DrawPair, WarmUp, Scrub, TimedCall, Preempt
    <3>2. pc' # "report" => Len(rows') = (mi' - 1) * Len(Schedule) + (vi' - 1)
      BY <3>1 DEF PlaceInv, vars
    <3>3. pc' = "row" => draws' = SeededPairs'
      <4>1. IInv' /\ (pc = "row")' => (draws = SeededPairs)'
        BY SeededDraws, PTL
      <4>. QED
        BY <4>1
    <3>. QED
      BY <3>2, <3>3 DEF PlaceInv
  <2>. QED
    BY <2>1, <2>2 DEF Next, Program, Done
<1>. QED
  BY Inductive, <1>1, <1>2, PTL DEF Spec

\* Every cell of modes x variants is measured once, in order, on the one
\* sequence of pairs the seed fixes: the loop is the paired experiment that the
\* subtractions of report.py assume.
THEOREM LoopIsPaired == Spec => Paired!Init /\ [][Paired!Next]_(Paired!vars)
<1>1. Init => Paired!Init
  <2>. SUFFICES ASSUME Init PROVE Paired!Init
    OBVIOUS
  <2>1. SeededPairs \in [1 .. Reps -> Pairs]
    <3>1. ASSUME NEW n \in 1 .. Reps PROVE PairAt(n) \in Pairs
      <4>1. 2 * n - 2 \in Nat /\ 2 * n - 1 \in Nat
        BY SizesAssumption
      <4>. QED
        BY <4>1, DrawTyped DEF Init, PairAt, Pairs
    <3>. QED
      BY <3>1 DEF SeededPairs, PairAt
  <2>2. DOMAIN rows = {}
    BY DEF Init
  <2>. QED
    BY <2>1, <2>2 DEF Paired!Init
<1>2. IInv /\ PlaceInv /\ [Next]_vars => [Paired!Next]_(Paired!vars)
  <2>. SUFFICES ASSUME IInv, PlaceInv, [Next]_vars PROVE [Paired!Next]_(Paired!vars)
    OBVIOUS
  <2>. DEFINE mapped(n) == [cell |-> <<rows[n].mode, rows[n].variant>>, draws |-> rows[n].draws]
              results == [n \in DOMAIN rows |-> mapped(n)]
  <2>1. CASE PushRow
    <3>1. /\ rows \in Seq(RowType) /\ DOMAIN rows = 1 .. Len(rows) /\ Len(rows) \in Nat
          /\ DOMAIN rows' = 1 .. (Len(rows) + 1)
          /\ \A n \in DOMAIN rows : rows'[n] = rows[n]
          /\ rows'[Len(rows) + 1] =
               [variant |-> V, mode |-> Mode, draws |-> draws, calls |-> calls]
      BY <2>1 DEF PushRow, IInv, TypeOK
    <3>3. draws = SeededPairs /\ SeededPairs' = SeededPairs
      BY <2>1 DEF PushRow, PlaceInv, SeededPairs, Draw, envVars
    <3>4. /\ Len(Cells) = Len(ModeList) * Len(Schedule)
          /\ Len(rows) + 1 \in 1 .. Len(Cells)
          /\ Cells[Len(rows) + 1] = <<Mode, V>>
      <4>1. Len(ModeList) * Len(Schedule) \in Nat
        BY PlanAssumption
      <4>2. Len(Cells) = Len(ModeList) * Len(Schedule)
        BY <4>1 DEF Cells
      <4>. QED
        BY <2>1, <4>2, PlaceNext
    <3>. DEFINE n0  == Len(rows)
                new == [cell |-> Cells[n0 + 1], draws |-> SeededPairs]
                S   == {mapped(n) : n \in 1 .. n0} \cup {new}
    <3>2. results \in [1 .. n0 -> S] /\ new \in S /\ n0 \in Nat
      BY <3>1
    <3>6. /\ Len(results) = n0
          /\ Append(results, new) =
               [n \in 1 .. (n0 + 1) |-> IF n = n0 + 1 THEN new ELSE results[n]]
      <4>. HIDE DEF results, new, S, n0
      <4>. QED
        BY <3>2, FunAsSeq
    <3>7. ASSUME NEW n \in 1 .. (n0 + 1)
          PROVE  mapped(n)' = IF n = n0 + 1 THEN new ELSE results[n]
      <4>1. CASE n = n0 + 1
        BY <3>1, <3>3, <3>4, <4>1
      <4>2. CASE n # n0 + 1
        <5>1. n \in DOMAIN rows /\ rows'[n] = rows[n]
          BY <3>1, <4>2
        <5>. QED
          BY <4>2, <5>1
      <4>. QED
        BY <4>1, <4>2
    <3>5. results' = Append(results, new)
      <4>1. results' = [n \in DOMAIN rows' |-> mapped(n)']
        OBVIOUS
      <4>. QED
        BY <3>1, <3>6, <3>7, <4>1
    <3>8. Len(results) < Len(Cells)
      BY <3>1, <3>4, <3>6
    <3>9. results' = Append(results, [cell |-> Cells[Len(results) + 1], draws |-> SeededPairs])
      BY <3>5, <3>6
    <3>10. Paired!MeasureCell
      BY <3>3, <3>8, <3>9 DEF Paired!MeasureCell
    <3>. QED
      BY <3>10 DEF Paired!Next
  <2>2. CASE UNCHANGED rows /\ UNCHANGED stream
    BY <2>2 DEF Paired!vars, SeededPairs, Draw
  <2>. QED
    BY <2>1, <2>2 DEF Next, Program, Done, BuildEnv, EnterRun, DrawPair, WarmUp, Scrub,
       TimedCall, Preempt, vars, envVars
<1>. QED
  BY Inductive, PlaceInductive, <1>1, <1>2, PTL DEF Spec
=============================================================================
