------------------------------- MODULE Report -------------------------------
(***************************************************************************)
(* report (main.cpp): the figures of the csv.  A row also has statistics,  *)
(* st.                                                                     *)
(***************************************************************************)
EXTENDS Baselines, Stats

\* net_of and disp_of.  A row that reads its receivers and finds no touch
\* baseline has no `disp`; the others fall back on what they find.
Net(rows, r) ==
    LET b == NamedBaseline(rows, r.mode, "probe")
    IN  IF b = NoRow THEN r.st.total ELSE r.st.total - rows[b].st.total

Disp(rows, r) ==
    LET b == DispFrom(rows, r)
    IN  IF b # NoRow THEN r.st.total - rows[b].st.total
        ELSE IF r.v.touches THEN 0 ELSE r.st.total

\* Thousandths of a quotient, to the nearest: the csv has three decimals.
Thousandths(num, den) ==
    IF num >= 0 THEN (2000 * num + den) \div (2 * den)
    ELSE -((2000 * (-num) + den) \div (2 * den))

\* A ratio, or 0 when the yardstick's figure is not positive.
Quotient(val, base) == IF base > 0 THEN Thousandths(val, base) ELSE 0

XNet(rows, r) ==
    LET y == YardstickOf(rows, r)
    IN  IF y = NoRow THEN 0 ELSE Quotient(Net(rows, r), Net(rows, rows[y]))

XDisp(rows, r) ==
    LET y == YardstickOf(rows, r)
    IN  IF y = NoRow THEN 0 ELSE Quotient(Disp(rows, r), Disp(rows, rows[y]))

\* What --csv prints of every row.
Csv(rows) ==
    [n \in 1 .. Len(rows) |->
        [v |-> rows[n].v, mode |-> rows[n].mode,
         net |-> Net(rows, rows[n]), disp |-> Disp(rows, rows[n]),
         xnet |-> XNet(rows, rows[n]), xdisp |-> XDisp(rows, rows[n])]]
=============================================================================
