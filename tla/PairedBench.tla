---------------------------- MODULE PairedBench ----------------------------
(***************************************************************************)
(* What the measurement loop promises the arithmetic of the report: an     *)
(* experiment that fixes ONE sequence of receiver pairs and runs every     *)
(* cell of its plan on that sequence, each cell once, in order.  `disp` is *)
(* a difference of two cells, and only paired cells may be subtracted.     *)
(***************************************************************************)
EXTENDS Integers, Sequences

CONSTANTS
    Cells,  \* what is measured, in order
    Pairs,  \* the receiver pairs there are
    Reps    \* repetitions per cell

VARIABLES
    plan,       \* the pairs every cell replays
    results     \* one per measured cell

vars == <<plan, results>>

Init ==
    /\ plan \in [1 .. Reps -> Pairs]
    /\ results = <<>>

MeasureCell ==
    /\ Len(results) < Len(Cells)
    /\ results' = Append(results, [cell |-> Cells[Len(results) + 1], draws |-> plan])
    /\ UNCHANGED plan

Next == MeasureCell

Spec == Init /\ [][Next]_vars /\ WF_vars(Next)
=============================================================================
