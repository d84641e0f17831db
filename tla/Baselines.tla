------------------------------ MODULE Baselines ------------------------------
(***************************************************************************)
(* report (main.cpp): which rows a row's `net`, `disp` and ratios are      *)
(* taken from.                                                             *)
(*                                                                         *)
(* A measured row is a record with a variant v and a cache mode.  Rows are *)
(* searched in the order they were measured.                               *)
(***************************************************************************)
EXTENDS Variants, SequencesExt

NoRow == 0

\* named_baseline: baselines are told apart by name.
NamedBaseline(rows, mode, name) ==
    SelectInSeq(rows, LAMBDA b :
        b.v.group = "baseline" /\ b.mode = mode /\ b.v.form = name)

\* obj_baseline: the touch baseline of the arity and hierarchy.
ObjBaseline(rows, r) ==
    SelectInSeq(rows, LAMBDA b :
        /\ b.v.group = "baseline" /\ b.mode = r.mode
        /\ b.v.arity = r.v.arity /\ b.v.hier = r.v.hier)

\* Mutant: the touch baseline is taken from every row, as it once was.
DispFromAlwaysTouch(rows, r) ==
    IF r.v.arity = 0 THEN NoRow ELSE ObjBaseline(rows, r)

\* The row disp_of subtracts: for a row that never reads its receivers the
\* direct call (else the probe), for the others the touch baseline.
DispFrom(rows, r) ==
    IF ~r.v.touches
    THEN LET d == NamedBaseline(rows, r.mode, "direct")
         IN  IF d # NoRow THEN d ELSE NamedBaseline(rows, r.mode, "probe")
    ELSE IF r.v.arity = 0 THEN NoRow ELSE ObjBaseline(rows, r)

\* The row ratio_of divides by.
YardstickOf(rows, r) ==
    IF r.v.arity = 0 \/ r.v.group = "baseline" THEN NoRow
    ELSE SelectInSeq(rows, LAMBDA y :
            /\ y.v.group = "yardstick" /\ y.mode = r.mode
            /\ y.v.arity = r.v.arity /\ y.v.hier = r.v.hier
            /\ y.v.body = r.v.body)
=============================================================================
