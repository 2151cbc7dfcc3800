----------------------------- MODULE MCHistoryStore -----------------------------
(* Four scans over one store: e1 and e2 read EMIR reports of the same trade,  *)
(* e3 an empty batch, and t1 is a TSR snapshot, which searches the EMIR table  *)
(* and binds too many UTIs when MaxBinds is 2.                                 *)
EXTENDS HistoryStore, TLC

CONSTANTS e1, e2, e3, t1, r1, r2, q1, q2

MCScan == {e1, e2, e3, t1}
MCRecord == {r1, r2, q1, q2}
MCText == {"U1", "U2", " U1", ""}
MCTrim == [x \in MCText |-> IF x = " U1" THEN "U1" ELSE x]
MCKeyOf == (r1 :> "U1") @@ (r2 :> "U1") @@ (q1 :> "U1") @@ (q2 :> "U2")
MCBatch == (e1 :> {r1}) @@ (e2 :> {r2}) @@ (e3 :> {}) @@ (t1 :> {q1, q2})
MCTable == (e1 :> "emir_records") @@ (e2 :> "emir_records") @@ (e3 :> "emir_records")
           @@ (t1 :> "tr_state_records")
MCKeyTable == [s \in MCScan |-> "emir_records"]

\* The second scan read the UTI from a Parquet column, with a leading space.
MCKeyOfPadded == [MCKeyOf EXCEPT ![r2] = " U1"]
================================================================================
