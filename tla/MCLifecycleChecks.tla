--------------------------- MODULE MCLifecycleChecks ---------------------------
(* Short batches about the trade U1 and a second one, of every kind of scan.  *)
(* Time is in half seconds, a day has four of them and a report is late after *)
(* four.                                                                      *)
EXTENDS LifecycleChecks

CONSTANTS U1, U2

Report(k, action) == [key |-> k, action |-> action, valuation |-> None, termination |-> None]
Valued(k, t)      == [Report(k, "VALU") EXCEPT !.valuation = t]
Ended(k, day)     == [Report(k, "ETRM") EXCEPT !.termination = day]

MCRecordBatches ==
    {<<>>} \union
    {<<r>> : r \in {Report(U1, "NEWT"), Report(U1, "MODI"), Report(U1, "CORR"), Report(U1, "VALU"),
                    Report(U1, "ETRM"), Ended(U1, 0), Ended(U1, 1),
                    Valued(U1, 0), Valued(U1, 1), Valued(U1, 2), Valued(U1, 5),
                    Report(None, "MODI"), Report(U2, "NEWT")}} \union
    {<<Report(U1, "NEWT"), Report(U1, "MODI")>>, <<Report(U1, "NEWT"), Report(U1, "NEWT")>>,
     <<Report(U1, "NEWT"), Valued(U1, 5)>>, <<Valued(U1, 5), Valued(U1, 0)>>,
     <<Report(U2, "NEWT"), Report(U1, "ETRM")>>, <<Ended(U1, 1), Ended(U1, 0)>>,
     <<Report(U2, "MODI"), Report(U1, "NEWT")>>}

State(k, outstanding, value, rate, label) ==
    [key |-> k, outstanding |-> outstanding, value |-> value, rate |-> rate,
     labels |-> [l \in {"maturity", "portfolio", "haircut", "category"} |->
                     IF l = "portfolio" THEN "P" ELSE label]]

First  == State(U1, TRUE, 10, 10, "A")
Other  == State(U2, TRUE, 10, 10, "A")
Moved  == [First EXCEPT !.labels["portfolio"] = "Q"]

MCSnapshots ==
    LET rows == {First, Moved, [First EXCEPT !.outstanding = FALSE],
                 State(U1, TRUE, 7, 15, "A"), State(U1, TRUE, 5, 5, "A"), State(U1, TRUE, 3, 0, "A"),
                 State(U1, TRUE, 0, 4, "A"), State(U1, TRUE, None, None, "A"),
                 State(U1, TRUE, 10, 10, "B"), State(U1, TRUE, 10, 10, None)}
    IN {<<>>, <<Other>>, <<State(None, TRUE, 10, 10, "A")>>, <<First, State(U1, TRUE, 3, 10, "B")>>}
       \union {<<r>> : r \in rows} \union {<<Other, r>> : r \in {First, State(U1, TRUE, 10, 10, "B")}}

Margin(k, event, reported, margin) ==
    [key |-> k, event |-> event, reported |-> reported, margin |-> margin]

MCMargins ==
    {<<>>, <<Margin(U2, 0, 1, 1)>>, <<Margin(None, 0, 8, 1)>>}
    \union {<<Margin(U1, e, e + d, m)>> : e \in {0, 1}, d \in {0, 4, 5}, m \in {2, 3}}
    \union {<<Margin(U1, 0, 1, None)>>, <<Margin(U1, None, 8, 1)>>, <<Margin(U1, 0, 1, 1), Margin(U1, 0, 6, 3)>>,
            <<Margin(U1, 0, 1, 2), Margin(U2, 0, 6, 2)>>}

MCBatches == [k \in AnyKind |-> IF k \in RecordKind THEN MCRecordBatches
                                ELSE IF k \in SnapshotKind THEN MCSnapshots ELSE MCMargins]
================================================================================
