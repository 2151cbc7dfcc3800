------------------------------ MODULE MCIssueSink ------------------------------
(* Small instances of IssueSink: five issues of three checks, with a tie in   *)
(* the order, an overridden check and a check that raises nothing.            *)
EXTENDS IssueSink, TLC

CONSTANTS i1, i2, i3, i4, i5, CHECK_A, CHECK_B, CHECK_C

MCCheck == {CHECK_A, CHECK_B, CHECK_C}
MCIssue == {i1, i2, i3, i4, i5}
MCSeverity == {"high", "warning"}
MCRaises == (CHECK_A :> {i1, i4, i5}) @@ (CHECK_B :> {i2, i3}) @@ (CHECK_C :> {})
MCRank == (i1 :> 3) @@ (i2 :> 1) @@ (i3 :> 3) @@ (i4 :> 2) @@ (i5 :> 4)
MCBaseSeverity == [i \in MCIssue |-> IF i \in {i1, i2} THEN "high" ELSE "warning"]
MCOverrides == (CHECK_B :> "warning")
================================================================================
