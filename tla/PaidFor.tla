------------------------------- MODULE PaidFor -------------------------------
(***************************************************************************)
(* The measurement loop (module Measure) and the rows the report subtracts *)
(* (module Baselines), composed: what a difference of two measured rows    *)
(* removes.                                                                *)
(***************************************************************************)
EXTENDS Measure, Baselines

\* Measure runs any record of the shape of a variant; what a subtraction removes
\* is a matter of the variants there are.
ASSUME StructsAssumption == Range(Schedule) \subseteq Structs

\* The rows, as report looks at them.
Table == [n \in 1 .. Len(rows) |-> [v |-> rows[n].variant, mode |-> rows[n].mode]]

\* What the k-th timed call of row n read.
ReadAt(n, k) == Reads(rows[n].variant, Range(rows[n].calls[k]), LeafOf)

ObjectsAt(n, k) ==
    {ObjLine(rows[n].variant.hier, o) : o \in Range(rows[n].calls[k])}

\* What `disp` subtracts of a row is what that row paid, no more and no less, on
\* the very receivers it was called on: everything the subtracted row's k-th
\* call read, the row's own k-th call read, and all the receivers the row read
\* are subtracted.  (The touch baseline once was subtracted from rows that
\* never read their receivers; the two inplace hierarchies have objects of
\* their own.)
SubtractsOnlyPaid ==
    pc = "report" =>
        LET table == Table IN
        \A n \in DOMAIN rows :
            LET b == DispFrom(table, table[n]) IN
            b # NoRow =>
                \A k \in DOMAIN rows[n].calls :
                    /\ ReadAt(b, k) \subseteq ReadAt(n, k)
                    /\ ReadAt(n, k) \cap ObjectsAt(n, k) \subseteq ReadAt(b, k)
=============================================================================
