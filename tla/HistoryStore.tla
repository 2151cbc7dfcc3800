------------------------------ MODULE HistoryStore ------------------------------
(***************************************************************************)
(* The SQLite history store shared by concurrent scans (one process each): *)
(* persist_*_batch writes a scans row and the batch in one transaction;    *)
(* load_prior_* and load_latest_prior_* read what earlier scans left.      *)
(*                                                                         *)
(* SQLite itself is external: one writer at a time, a transaction is all   *)
(* or nothing, an AUTOINCREMENT id is allocated inside the transaction,    *)
(* a reader sees the committed state, and a statement binds at most        *)
(* MaxBinds parameters.                                                    *)
(***************************************************************************)
EXTENDS Integers, Sequences, FiniteSets

CONSTANTS
    Scan,        \* executions of a scan command with --store
    Record,      \* the records of all their inputs
    Text,        \* key texts: a UTI or portfolio code, padded or not
    Trim,        \* Trim[t]: t without surrounding white space
    KeyOf,       \* KeyOf[r]: the key text of record r as it was read
    Batch,       \* Batch[s]: the records scan s persists
    Table,       \* Table[s]: the table its records go to
    KeyTable,    \* KeyTable[s]: the table it searches by key
    MaxBinds,    \* SQLITE_MAX_VARIABLE_NUMBER
    Empty,       \* the text of a missing or blank key
    NoOne        \* no scan: the write lock is free

ASSUME StoreAssumption ==
    /\ Trim \in [Text -> Text]
    /\ \A t \in Text : Trim[Trim[t]] = Trim[t]
    /\ KeyOf \in [Record -> Text]
    /\ Batch \in [Scan -> SUBSET Record]
    /\ \A s, t \in Scan : s # t => Batch[s] \cap Batch[t] = {}
    /\ NoOne \notin Scan
    /\ MaxBinds \in Nat

VARIABLES
    scans,     \* the committed scans in scan_id order: scans[id] is the scan
    writer,    \* the scan whose transaction holds the write lock, or NoOne
    pending,   \* per scan: rows inserted by its open transaction
    pc,        \* per scan: where the command is
    scanId,    \* per scan: the id persist returned, 0 before
    loads,     \* per scan: how many of its two loads returned
    byKey,     \* per scan: result of load_prior_*
    latest     \* per scan: result of load_latest_prior_*

loadVars == <<loads, byKey, latest>>
vars == <<scans, writer, pending, pc, scanId, loadVars>>

Stage == {"start", "inserting", "persisted", "loaded", "done", "failed"}

TypeOK ==
    /\ scans \in Seq(Scan)
    /\ writer \in Scan \union {NoOne}
    /\ pending \in [Scan -> SUBSET Record]
    /\ pc \in [Scan -> Stage]
    /\ scanId \in [Scan -> Nat]
    /\ loads \in [Scan -> 0..2]
    /\ byKey \in [Scan -> SUBSET Record]
    /\ latest \in [Scan -> SUBSET Record]

Init ==
    /\ scans = <<>>
    /\ writer = NoOne
    /\ pending = [s \in Scan |-> {}]
    /\ pc = [s \in Scan |-> "start"]
    /\ scanId = [s \in Scan |-> 0]
    /\ loads = [s \in Scan |-> 0]
    /\ byKey = [s \in Scan |-> {}]
    /\ latest = [s \in Scan |-> {}]

----------------------------------------------------------------------------
\* persist_emir_batch and its siblings

\* conn.transaction() and insert_scan: the first write takes the lock.
BeginPersist(s) ==
    /\ pc[s] = "start" /\ writer = NoOne
    /\ writer' = s
    /\ pc' = [pc EXCEPT ![s] = "inserting"]
    /\ scanId' = [scanId EXCEPT ![s] = Len(scans) + 1]
    /\ UNCHANGED <<scans, pending, loadVars>>

\* Another process held the lock longer than the busy timeout.
StoreBusy(s) ==
    /\ pc[s] = "start" /\ writer # NoOne
    /\ pc' = [pc EXCEPT ![s] = "failed"]
    /\ UNCHANGED <<scans, writer, pending, scanId, loadVars>>

\* One insert_*_record of the loop.
InsertRow(s) ==
    /\ pc[s] = "inserting"
    /\ \E r \in Batch[s] \ pending[s] :
           pending' = [pending EXCEPT ![s] = @ \union {r}]
    /\ UNCHANGED <<scans, writer, pc, scanId, loadVars>>

Commit(s) ==
    /\ pc[s] = "inserting" /\ pending[s] = Batch[s]
    /\ scans' = Append(scans, s)
    /\ writer' = NoOne
    /\ pc' = [pc EXCEPT ![s] = "persisted"]
    /\ UNCHANGED <<pending, scanId, loadVars>>

\* A failed insert or commit drops the Transaction, a killed process drops the
\* connection: either way SQLite rolls back and frees the lock.  The id is
\* given to the next scan.
Abort(s) ==
    /\ pc[s] \notin {"done", "failed"}
    /\ pc' = [pc EXCEPT ![s] = "failed"]
    /\ writer' = IF writer = s THEN NoOne ELSE writer
    /\ pending' = [pending EXCEPT ![s] = {}]
    /\ scanId' = [scanId EXCEPT ![s] = IF pc[s] = "inserting" THEN 0 ELSE @]
    /\ UNCHANGED <<scans, loadVars>>

----------------------------------------------------------------------------
\* load_prior_* and load_latest_prior_*

\* The caller trims the keys of its own batch and drops the empty ones.
Keyed(s) == {r \in Batch[s] : Trim[KeyOf[r]] # Empty}

Wanted(s) == {Trim[KeyOf[r]] : r \in Keyed(s)}

\* Fault (a mutated form, as are the definitions marked Fault below): scan_id <= ?
\* in place of scan_id < ?.
BelowOrEqual(s) == IF KeyTable[s] = Table[s] THEN scanId[s] ELSE Len(scans)

\* Fault: the newest scan id is taken for the scan's own.
BelowNewest(s) == Len(scans) - 1

\* exclude_scan_id: the scan's own id when it searches the table it wrote,
\* i64::MAX when it searches another one.
Below(s) == IF KeyTable[s] = Table[s] THEN scanId[s] - 1 ELSE Len(scans)

RowsIn(table, n) == UNION {Batch[scans[k]] : k \in {j \in 1..n : Table[scans[j]] = table}}

\* uti IN (...) compares the stored text, which was not trimmed.
LoadPrior(s) ==
    /\ pc[s] = "persisted" /\ Cardinality(Keyed(s)) < MaxBinds
    /\ byKey' = [byKey EXCEPT ![s] =
                    {r \in RowsIn(KeyTable[s], Below(s)) : KeyOf[r] \in Wanted(s)}]
    /\ pc' = [pc EXCEPT ![s] = "loaded"]
    /\ loads' = [loads EXCEPT ![s] = 1]
    /\ UNCHANGED <<scans, writer, pending, scanId, latest>>

\* Fault: the failing statement is retried.
LoadPriorRetries(s) ==
    /\ pc[s] = "persisted" /\ Cardinality(Keyed(s)) >= MaxBinds
    /\ UNCHANGED vars

\* One bind per keyed record of the batch and one for the id: the statement of a
\* larger batch does not compile, after the batch was committed.
LoadPriorTooLarge(s) ==
    /\ pc[s] = "persisted" /\ Cardinality(Keyed(s)) >= MaxBinds
    /\ pc' = [pc EXCEPT ![s] = "failed"]
    /\ UNCHANGED <<scans, writer, pending, scanId, loadVars>>

\* SELECT MAX(scan_id) FROM <table> WHERE scan_id < ?: a scan without rows has
\* no row there and is passed over.
Snapshots(s) == {k \in 1..(scanId[s] - 1) : Table[scans[k]] = Table[s] /\ Batch[scans[k]] # {}}

\* Fault: every row below the scan is loaded, not those of one scan.
LoadAllEarlier(s) ==
    /\ pc[s] = "loaded"
    /\ latest' = [latest EXCEPT ![s] = UNION {Batch[scans[k]] : k \in Snapshots(s)}]
    /\ pc' = [pc EXCEPT ![s] = "done"]
    /\ loads' = [loads EXCEPT ![s] = 2]
    /\ UNCHANGED <<scans, writer, pending, scanId, byKey>>

LoadLatest(s) ==
    /\ pc[s] = "loaded"
    /\ latest' = [latest EXCEPT ![s] =
                     UNION {Batch[scans[k]] : k \in {j \in Snapshots(s) : \A i \in Snapshots(s) : i <= j}}]
    /\ pc' = [pc EXCEPT ![s] = "done"]
    /\ loads' = [loads EXCEPT ![s] = 2]
    /\ UNCHANGED <<scans, writer, pending, scanId, byKey>>

Step(s) == \/ BeginPersist(s) \/ StoreBusy(s) \/ InsertRow(s) \/ Commit(s)
           \/ LoadPrior(s) \/ LoadPriorTooLarge(s) \/ LoadLatest(s)

Finished == (\A s \in Scan : pc[s] \in {"done", "failed"}) /\ UNCHANGED vars

Next == (\E s \in Scan : Step(s) \/ Abort(s)) \/ Finished

Spec == Init /\ [][Next]_vars

\* Each command is a process of its own that keeps running until it ends.
FairSpec == Spec /\ \A s \in Scan : WF_vars(Step(s))

----------------------------------------------------------------------------
\* Properties

Loaded(s) == loads[s] >= 1

OwnTable(s) == KeyTable[s] = Table[s]

\* Two scans of the same table that met a record with the same key cannot both
\* miss it: the one with the larger id has the other's record in its prior view,
\* and the smaller one never does, however the two processes interleaved.
\* Without it two concurrent submissions of one NEWT could both look clean.
ExactlyOneSeesTheOther ==
    \A s, t \in Scan :
        /\ Loaded(s) /\ Loaded(t) /\ scanId[s] < scanId[t]
        /\ OwnTable(s) /\ OwnTable(t) /\ Table[s] = Table[t]
        => /\ \A r \in Batch[s] : Trim[KeyOf[r]] \in Wanted(t) => r \in byKey[t]
           /\ byKey[s] \cap Batch[t] = {}

\* A prior view stays what the history before the scan says, whatever is
\* committed later: rerunning a check on it would give the same issues.
PriorViewIsHistory ==
    \A s \in Scan : Loaded(s) /\ OwnTable(s) =>
        byKey[s] = {r \in RowsIn(Table[s], scanId[s] - 1) : KeyOf[r] \in Wanted(s)}

\* The cross-batch layer compares with one whole earlier snapshot, never with
\* a mixture of two or a part of one.
LatestIsOneSnapshot ==
    \A s \in Scan : latest[s] # {} =>
        \E k \in 1..(scanId[s] - 1) :
            /\ Table[scans[k]] = Table[s] /\ latest[s] = Batch[scans[k]]
            /\ \A j \in (k + 1)..(scanId[s] - 1) :
                   Table[scans[j]] = Table[s] => Batch[scans[j]] = {}

\* What the claims above rest on: an id is a place in the history although an id
\* whose transaction was rolled back is given out again; no scan is there twice;
\* the write lock is held by exactly the scan that is writing.
StoreInv ==
    /\ \A s \in Scan : writer = s <=> pc[s] = "inserting"
    /\ \A j, k \in 1..Len(scans) : scans[j] = scans[k] => j = k
    /\ \A s \in Scan : pc[s] \in {"start", "inserting"} =>
           /\ \A k \in 1..Len(scans) : scans[k] # s
           /\ loads[s] = 0
    /\ \A s \in Scan : pc[s] = "inserting" => scanId[s] = Len(scans) + 1
    /\ \A s \in Scan : pc[s] = "persisted" => loads[s] = 0
    /\ \A s \in Scan : pc[s] = "loaded" => Loaded(s)
    /\ \A s \in Scan : pc[s] \in {"persisted", "loaded", "done"} \/ Loaded(s) =>
           scanId[s] \in 1..Len(scans) /\ scans[scanId[s]] = s
    /\ PriorViewIsHistory

\* What makes LatestIsOneSnapshot inductive: who has a snapshot has ended, and its
\* scan_id is not given to another scan any more.
LatestInv == LatestIsOneSnapshot /\ \A s \in Scan : latest[s] # {} => pc[s] = "done"

\* Every command ends, also when several wait for the same store.
AllEnd == <>(\A s \in Scan : pc[s] \in {"done", "failed"})

ViewOf(s, before) ==
    {r \in UNION {Batch[before[k]] : k \in {j \in 1..Len(before) : Table[before[j]] = Table[s]}} :
        KeyOf[r] \in Wanted(s)}

History == INSTANCE HistoryLog WITH
    log  <- scans,
    view <- [s \in Scan |-> IF OwnTable(s) /\ Loaded(s) THEN {byKey[s]} ELSE {}],
    View <- ViewOf

ImplementsHistory == History!LogSpec
================================================================================
