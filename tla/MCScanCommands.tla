---------------------------- MODULE MCScanCommands ----------------------------
(* Every command twice in one directory; and the commands that persist, three *)
(* at a time, two of them in one directory and one concurrently in another.   *)
EXTENDS ScanCommands

CONSTANTS d1, d2

AnyOptions == [store : BOOLEAN, xsd : BOOLEAN, mail : BOOLEAN]

OnlyStore == {[store |-> TRUE, xsd |-> FALSE, mail |-> FALSE]}

Execution(plan, dir, options) == [plan |-> plan, dir |-> dir, options |-> options]

Twice == {<<Execution(c, d1, AnyOptions), Execution(c, d1, AnyOptions)>> :
              c \in StoreCommands \union FileCommands}

Persisting == {EmirScan, EmirTrState, SftrTrState}

Mixed == {<<Execution(a, d1, OnlyStore), Execution(b, d1, OnlyStore), Execution(c, d2, OnlyStore)>> :
              a \in Persisting, b \in Persisting, c \in {EmirScan, EmirTrState}}

MCLines == Twice \union Mixed
================================================================================
