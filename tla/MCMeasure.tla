----------------------------- MODULE MCMeasure -----------------------------
(* The whole of main_impl's schedule in the three modes, on two objects of   *)
(* two classes and two repetitions; the thread is preempted once, anywhere   *)
(* in a variant of MCPreemptedIn, one per shape of memory.                   *)
(*                                                                           *)
(* The engine's period exceeds the draws of a run and is no multiple of      *)
(* them, so a run that is not seeded again reads another part of the stream. *)
EXTENDS PaidFor

MCModeList == <<"warm", "clflush", "sweep">>

\* One object twice, then two objects.
MCStreams == { [p \in 0 .. 6 |-> <<0, 0, 1, 0, 1, 1, 0>>[p + 1]] }

\* A baseline, a yardstick, and dispatches through each kind of lookup.
MCSchedule ==
    <<VTouch1, VVf2, VOmVp1("indirect"), VOmRef2("vptr_vector"),
      VOmRefu1("flat_map"), VIpRef1("inplace_ind")>>

MCPreemptedIn == Range(MCSchedule)
=============================================================================
