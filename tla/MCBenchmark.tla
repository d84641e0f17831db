---------------------------- MODULE MCBenchmark ----------------------------
(* A counter of two halves of 4 bits, two cores of which one is 100 ticks     *)
(* ahead, windows that open just before a carry between the halves and just    *)
(* before the counter wraps; four variants that between them are a       *)
(* probe, a touch baseline, a yardstick and a dispatch; up to three passes    *)
(* and two disturbances, long enough to bring a yardstick below its baseline. *)
(* With TrimPer = 2, two or three repetitions trim one sample, one none.      *)
EXTENDS Benchmark

\* Sorting, against a sort: every sequence of up to five values, negative ones
\* too.
ASSUME \A s \in UNION {[1 .. n -> -1 .. 2] : n \in 0 .. 5} :
          Ascending(s) = SortSeq(s, <)

MCSchedule == <<VProbe, VTouch1, VVf1, VOmRef1("vptr_vector")>>

MCOffset == [c \in 0 .. 1 |-> 100 * c]

MCPhases == {14, 250}

MCStalls == {90}

Cost == [v \in Range(MCSchedule) |->
            2 + 3 * Cardinality(Reads(v, {0}, [o \in {0} |-> 0]))]

MCWork(v, mode) == Cost[v]

MCArgLists ==
    {<<Opt("--csv"), Opt("--mode"), Opt("warm")>>,
     <<Opt("--mode"), Opt("sweep"), Opt("--reps"), Num("3", 3)>>,
     <<Opt("--reps"), Num("1", 1), Opt("--mode"), Opt("all")>>,
     <<Opt("--verify")>>,
     <<Opt("--csv"), Opt("--reps"), Num("-1", -1)>>,
     <<Opt("--reps"), Opt("--csv")>>,
     <<Opt("--csv"), Opt("--cpu")>>,
     <<Opt("--cpu"), Num("-1", -1)>>,
     <<Opt("--sweep-mb"), Num("-1", -1)>>,
     <<Opt("--sweep-mb"), Num("16", 16)>>,
     <<Opt("--mode"), Opt("hot")>>,
     <<Opt("--help")>>}
=============================================================================
