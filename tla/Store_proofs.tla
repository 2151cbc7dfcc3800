------------------------------ MODULE Store_proofs ------------------------------
(***************************************************************************)
(* Theorems about the store: HistoryStore, for any number of concurrent    *)
(* scans, any batches, and aborts or crashes at any step; StoreMigrations, *)
(* for any number of processes and crashes.                                *)
(***************************************************************************)
EXTENDS HistoryStore, StoreMigrations, TLAPS

\* Committing a scan does not change what lies below an earlier position.
LEMMA RowsInStable ==
    ASSUME scans \in Seq(Scan), NEW s \in Scan, scans' = Append(scans, s),
           NEW table, NEW n \in Nat, n <= Len(scans)
    PROVE  RowsIn(table, n)' = RowsIn(table, n)
<1>1. \A k \in 1..n : scans'[k] = scans[k]
  OBVIOUS
<1> QED BY <1>1 DEF RowsIn

LEMMA RowsInType ==
    ASSUME TypeOK, NEW table, NEW n \in Nat, n <= Len(scans)
    PROVE  RowsIn(table, n) \in SUBSET Record
<1>1. \A k \in 1..n : scans[k] \in Scan
  BY DEF TypeOK
<1> QED BY <1>1, StoreAssumption DEF RowsIn

LEMMA LoadPriorType ==
    ASSUME TypeOK, StoreInv, NEW s \in Scan, LoadPrior(s)
    PROVE  TypeOK'
<1>1. Len(scans) \in Nat /\ scanId[s] \in 1..Len(scans)
  BY DEF TypeOK, StoreInv, LoadPrior
<1>2. Below(s) \in Nat /\ Below(s) <= Len(scans)
  BY <1>1 DEF Below
<1>3. {r \in RowsIn(KeyTable[s], Below(s)) : KeyOf[r] \in Wanted(s)} \in SUBSET Record
  BY <1>2, RowsInType
<1> QED BY <1>3 DEF LoadPrior, TypeOK, Stage

LEMMA LoadLatestType ==
    ASSUME TypeOK, StoreInv, NEW s \in Scan, LoadLatest(s)
    PROVE  TypeOK'
<1>1. Len(scans) \in Nat /\ scanId[s] \in 1..Len(scans)
  BY DEF TypeOK, StoreInv, LoadLatest
<1>2. \A k \in 1..(scanId[s] - 1) : scans[k] \in Scan /\ Batch[scans[k]] \in SUBSET Record
  BY <1>1, StoreAssumption DEF TypeOK
<1>3. UNION {Batch[scans[k]] : k \in {j \in Snapshots(s) : \A i \in Snapshots(s) : i <= j}}
        \in SUBSET Record
  BY <1>2 DEF Snapshots
<1> QED BY <1>3 DEF LoadLatest, TypeOK, Stage

LEMMA TypeStep ==
    ASSUME TypeOK, StoreInv, [Next]_vars
    PROVE  TypeOK'
<1>1. ASSUME NEW s \in Scan, Step(s) \/ Abort(s) PROVE TypeOK'
  <2>1. CASE BeginPersist(s)
    BY <2>1 DEF BeginPersist, loadVars, TypeOK, Stage
  <2>2. CASE StoreBusy(s)
    BY <2>2 DEF StoreBusy, loadVars, TypeOK, Stage
  <2>3. CASE InsertRow(s)
    <3>1. pending' \in [Scan -> SUBSET Record]
      <4>1. PICK r \in Batch[s] \ pending[s] : pending' = [pending EXCEPT ![s] = @ \union {r}]
        BY <2>3 DEF InsertRow
      <4>2. r \in Record
        BY <4>1, StoreAssumption
      <4> QED BY <4>1, <4>2 DEF TypeOK
    <3> QED BY <2>3, <3>1 DEF InsertRow, loadVars, TypeOK
  <2>4. CASE Commit(s)
    BY <2>4 DEF Commit, loadVars, TypeOK, Stage
  <2>5. CASE LoadPrior(s)
    BY <2>5, LoadPriorType
  <2>6. CASE LoadPriorTooLarge(s)
    BY <2>6 DEF LoadPriorTooLarge, loadVars, TypeOK, Stage
  <2>7. CASE LoadLatest(s)
    BY <2>7, LoadLatestType
  <2>8. CASE Abort(s)
    BY <2>8 DEF Abort, loadVars, TypeOK, Stage
  <2> QED BY <1>1, <2>1, <2>2, <2>3, <2>4, <2>5, <2>6, <2>7, <2>8 DEF Step
<1>2. CASE UNCHANGED vars
  BY <1>2 DEF vars, loadVars, TypeOK
<1> QED BY <1>1, <1>2 DEF Next, Finished

----------------------------------------------------------------------------
\* The steps that change neither the history nor what was loaded.

LEMMA PriorViewUnchanged ==
    ASSUME StoreInv, UNCHANGED <<scans, loads, byKey>>,
           \A s \in Scan : Loaded(s) => scanId'[s] = scanId[s]
    PROVE  PriorViewIsHistory'
  BY DEF StoreInv, PriorViewIsHistory, Loaded, RowsIn

LEMMA CommitInv ==
    ASSUME TypeOK, StoreInv, NEW s \in Scan, Commit(s)
    PROVE  StoreInv'
<1>1. /\ scans \in Seq(Scan) /\ Len(scans) \in Nat /\ pc \in [Scan -> Stage]
      /\ scans' = Append(scans, s) /\ Len(scans') = Len(scans) + 1
      /\ scans'[Len(scans) + 1] = s
      /\ \A k \in 1..Len(scans) : scans'[k] = scans[k]
      /\ pc[s] = "inserting" /\ pc' = [pc EXCEPT ![s] = "persisted"]
      /\ UNCHANGED <<scanId, loads, byKey>> /\ writer' = NoOne
  BY DEF Commit, TypeOK, loadVars
<1>2. \A t \in Scan : writer' = t <=> pc'[t] = "inserting"
  BY <1>1, StoreAssumption DEF StoreInv
<1>3. \A j, k \in 1..Len(scans') : scans'[j] = scans'[k] => j = k
  BY <1>1 DEF StoreInv
<1>4. \A t \in Scan : pc'[t] \in {"start", "inserting"} =>
          (\A k \in 1..Len(scans') : scans'[k] # t) /\ loads'[t] = 0
  BY <1>1 DEF StoreInv
<1>5. \A t \in Scan : pc'[t] = "inserting" => scanId'[t] = Len(scans') + 1
  BY <1>1, <1>2, StoreAssumption
<1>6. \A t \in Scan : pc'[t] = "persisted" => loads'[t] = 0
  BY <1>1 DEF StoreInv
<1>7. \A t \in Scan : pc'[t] \in {"persisted", "loaded", "done"} \/ loads'[t] >= 1 =>
          scanId'[t] \in 1..Len(scans') /\ scans'[scanId'[t]] = t
  <2> TAKE t \in Scan
  <2>1. CASE t = s
    <3>1. scanId'[s] = Len(scans) + 1
      BY <1>1 DEF StoreInv
    <3> QED BY <1>1, <2>1, <3>1
  <2>2. CASE t # s
    BY <1>1, <2>2 DEF StoreInv, Loaded
  <2> QED BY <2>1, <2>2
<1>8. PriorViewIsHistory'
  <2> SUFFICES ASSUME NEW t \in Scan, Loaded(t), OwnTable(t)
               PROVE  byKey[t] = {r \in RowsIn(Table[t], scanId[t] - 1)' : KeyOf[r] \in Wanted(t)}
    BY <1>1 DEF PriorViewIsHistory, Loaded, OwnTable, Wanted, Keyed
  <2>1. scanId[t] \in 1..Len(scans)
    BY DEF StoreInv
  <2>2. PICK n \in Nat : n = scanId[t] - 1 /\ n <= Len(scans)
    BY <1>1, <2>1
  <2>3. RowsIn(Table[t], n)' = RowsIn(Table[t], n)
    BY <1>1, <2>2, RowsInStable
  <2>4. RowsIn(Table[t], scanId[t] - 1)' = RowsIn(Table[t], n)'
    BY <1>1, <2>2
  <2> QED BY <2>2, <2>3, <2>4 DEF StoreInv, PriorViewIsHistory
<1>9. \A t \in Scan : pc'[t] = "loaded" => loads'[t] >= 1
  BY <1>1 DEF StoreInv, Loaded
<1> QED BY <1>2, <1>3, <1>4, <1>5, <1>6, <1>7, <1>8, <1>9 DEF StoreInv, Loaded

LEMMA LoadPriorInv ==
    ASSUME TypeOK, StoreInv, NEW s \in Scan, LoadPrior(s)
    PROVE  StoreInv'
<1>1. /\ pc \in [Scan -> Stage] /\ loads \in [Scan -> 0..2] /\ byKey \in [Scan -> SUBSET Record]
      /\ pc[s] = "persisted" /\ pc' = [pc EXCEPT ![s] = "loaded"]
      /\ loads' = [loads EXCEPT ![s] = 1]
      /\ UNCHANGED <<scans, scanId, writer>>
  BY DEF LoadPrior, TypeOK
<1>2. \A t \in Scan : t # s => loads'[t] = loads[t] /\ pc'[t] = pc[t] /\ byKey'[t] = byKey[t]
  BY <1>1 DEF LoadPrior
<1>3. scanId[s] \in 1..Len(scans) /\ scans[scanId[s]] = s
  BY <1>1 DEF StoreInv
<1>4. PriorViewIsHistory'
  <2> SUFFICES ASSUME NEW t \in Scan, Loaded(t)', OwnTable(t)
               PROVE  byKey'[t] = {r \in RowsIn(Table[t], scanId[t] - 1) : KeyOf[r] \in Wanted(t)}
    BY <1>1 DEF PriorViewIsHistory, OwnTable, Wanted, Keyed, RowsIn
  <2>1. CASE t = s
    BY <1>1, <2>1 DEF LoadPrior, Below, OwnTable
  <2>2. CASE t # s
    BY <1>2, <2>2 DEF StoreInv, PriorViewIsHistory, Loaded
  <2> QED BY <2>1, <2>2
<1>5. \A t \in Scan : writer' = t <=> pc'[t] = "inserting"
  BY <1>1 DEF StoreInv
<1>6. \A t \in Scan : pc'[t] \in {"start", "inserting"} =>
          (\A k \in 1..Len(scans) : scans[k] # t) /\ loads'[t] = 0
  BY <1>1, <1>2 DEF StoreInv
<1>7. \A t \in Scan : pc'[t] = "inserting" => scanId[t] = Len(scans) + 1
  BY <1>1 DEF StoreInv
<1>8. \A t \in Scan : pc'[t] = "persisted" => loads'[t] = 0
  BY <1>1, <1>2 DEF StoreInv
<1>9. \A t \in Scan : pc'[t] \in {"persisted", "loaded", "done"} \/ loads'[t] >= 1 =>
          scanId[t] \in 1..Len(scans) /\ scans[scanId[t]] = t
  BY <1>1, <1>2, <1>3 DEF StoreInv, Loaded
<1>10. \A t \in Scan : pc'[t] = "loaded" => loads'[t] >= 1
  BY <1>1, <1>2 DEF StoreInv, Loaded
<1> QED BY <1>1, <1>4, <1>5, <1>6, <1>7, <1>8, <1>9, <1>10 DEF StoreInv, Loaded

LEMMA LoadLatestInv ==
    ASSUME TypeOK, StoreInv, NEW s \in Scan, LoadLatest(s)
    PROVE  StoreInv'
<1>1. /\ pc \in [Scan -> Stage] /\ loads \in [Scan -> 0..2]
      /\ pc[s] = "loaded" /\ pc' = [pc EXCEPT ![s] = "done"]
      /\ loads' = [loads EXCEPT ![s] = 2]
      /\ UNCHANGED <<scans, scanId, writer, byKey>>
  BY DEF LoadLatest, TypeOK
<1>2. \A t \in Scan : t # s => loads'[t] = loads[t] /\ pc'[t] = pc[t]
  BY <1>1
<1>3. scanId[s] \in 1..Len(scans) /\ scans[scanId[s]] = s /\ Loaded(s)
  BY <1>1 DEF StoreInv
<1>4. PriorViewIsHistory'
  <2> SUFFICES ASSUME NEW t \in Scan, Loaded(t)', OwnTable(t)
               PROVE  byKey[t] = {r \in RowsIn(Table[t], scanId[t] - 1) : KeyOf[r] \in Wanted(t)}
    BY <1>1 DEF PriorViewIsHistory, OwnTable, Wanted, Keyed, RowsIn
  <2>1. Loaded(t)
    BY <1>2, <1>3 DEF Loaded
  <2> QED BY <2>1 DEF StoreInv, PriorViewIsHistory
<1>5. \A t \in Scan : writer' = t <=> pc'[t] = "inserting"
  BY <1>1 DEF StoreInv
<1>6. \A t \in Scan : pc'[t] \in {"start", "inserting"} =>
          (\A k \in 1..Len(scans) : scans[k] # t) /\ loads'[t] = 0
  BY <1>1, <1>2 DEF StoreInv
<1>7. \A t \in Scan : pc'[t] = "inserting" => scanId[t] = Len(scans) + 1
  BY <1>1 DEF StoreInv
<1>8. \A t \in Scan : pc'[t] = "persisted" => loads'[t] = 0
  BY <1>1, <1>2 DEF StoreInv
<1>9. \A t \in Scan : pc'[t] \in {"persisted", "loaded", "done"} \/ loads'[t] >= 1 =>
          scanId[t] \in 1..Len(scans) /\ scans[scanId[t]] = t
  BY <1>1, <1>2, <1>3 DEF StoreInv, Loaded
<1>10. \A t \in Scan : pc'[t] = "loaded" => loads'[t] >= 1
  BY <1>1, <1>2 DEF StoreInv, Loaded
<1> QED BY <1>1, <1>4, <1>5, <1>6, <1>7, <1>8, <1>9, <1>10 DEF StoreInv, Loaded

\* BeginPersist, StoreBusy, InsertRow, LoadPriorTooLarge and Abort leave the
\* history and the prior views alone.
LEMMA OtherInv ==
    ASSUME TypeOK, StoreInv, NEW s \in Scan,
           \/ BeginPersist(s) \/ StoreBusy(s) \/ InsertRow(s)
           \/ LoadPriorTooLarge(s) \/ Abort(s)
    PROVE  StoreInv'
<1>1. UNCHANGED <<scans, loads, byKey>>
  BY DEF BeginPersist, StoreBusy, InsertRow, LoadPriorTooLarge, Abort, loadVars
<1>2. /\ pc \in [Scan -> Stage] /\ scanId \in [Scan -> Nat] /\ Len(scans) \in Nat
  BY DEF TypeOK
<1>3. \A t \in Scan : t # s => pc'[t] = pc[t] /\ scanId'[t] = scanId[t]
  BY <1>2 DEF BeginPersist, StoreBusy, InsertRow, LoadPriorTooLarge, Abort
<1>4. Loaded(s) => scanId'[s] = scanId[s]
  BY <1>2 DEF BeginPersist, StoreBusy, InsertRow, LoadPriorTooLarge, Abort, StoreInv, Loaded
<1>5. PriorViewIsHistory'
  BY <1>1, <1>3, <1>4, PriorViewUnchanged
<1>6. \A t \in Scan : writer' = t <=> pc'[t] = "inserting"
  BY <1>2, StoreAssumption
     DEF BeginPersist, StoreBusy, InsertRow, LoadPriorTooLarge, Abort, StoreInv
<1>7. \A t \in Scan : pc'[t] \in {"start", "inserting"} =>
          (\A k \in 1..Len(scans) : scans[k] # t) /\ loads[t] = 0
  BY <1>2, <1>3 DEF BeginPersist, StoreBusy, InsertRow, LoadPriorTooLarge, Abort, StoreInv
<1>8. \A t \in Scan : pc'[t] = "inserting" => scanId'[t] = Len(scans) + 1
  BY <1>2, <1>3 DEF BeginPersist, StoreBusy, InsertRow, LoadPriorTooLarge, Abort, StoreInv
<1>9. \A t \in Scan : /\ pc'[t] = "persisted" => loads[t] = 0
                      /\ pc'[t] = "loaded" => loads[t] >= 1
  BY <1>2, <1>3
     DEF BeginPersist, StoreBusy, InsertRow, LoadPriorTooLarge, Abort, StoreInv, Loaded
<1>10. \A t \in Scan : pc'[t] \in {"persisted", "loaded", "done"} \/ loads[t] >= 1 =>
           scanId'[t] \in 1..Len(scans) /\ scans[scanId'[t]] = t
  <2>1. pc'[s] \in {"persisted", "loaded", "done"} => pc[s] = pc'[s] /\ scanId'[s] = scanId[s]
    BY <1>2 DEF BeginPersist, StoreBusy, InsertRow, LoadPriorTooLarge, Abort
  <2> QED BY <1>3, <1>4, <2>1 DEF StoreInv, Loaded
<1>11. \A j, k \in 1..Len(scans) : scans[j] = scans[k] => j = k
  BY DEF StoreInv
<1> QED BY <1>1, <1>5, <1>6, <1>7, <1>8, <1>9, <1>10, <1>11 DEF StoreInv, Loaded

LEMMA InvStep == TypeOK /\ StoreInv /\ [Next]_vars => (TypeOK /\ StoreInv)'
<1> SUFFICES ASSUME TypeOK, StoreInv, [Next]_vars PROVE StoreInv'
  BY TypeStep
<1>1. ASSUME NEW s \in Scan, Step(s) \/ Abort(s) PROVE StoreInv'
  BY <1>1, CommitInv, LoadPriorInv, LoadLatestInv, OtherInv DEF Step
<1>2. CASE UNCHANGED vars
  BY <1>2 DEF vars, loadVars, StoreInv, PriorViewIsHistory, Loaded, RowsIn
<1> QED BY <1>1, <1>2 DEF Next, Finished

LEMMA InitInv == Init => TypeOK /\ StoreInv
<1> SUFFICES ASSUME Init PROVE TypeOK /\ StoreInv
  OBVIOUS
<1>1. TypeOK
  BY DEF Init, TypeOK, Stage
<1>2. StoreInv
  BY StoreAssumption DEF Init, StoreInv, PriorViewIsHistory, Loaded
<1> QED BY <1>1, <1>2

\* Every reachable state is well typed.
THEOREM StoreTypeCorrect == Spec => []TypeOK
  BY InitInv, InvStep, PTL DEF Spec

\* load_prior_emir / load_prior_sftr called with the scan's own id return exactly
\* the matching rows of the scans committed before it, and nothing another
\* process commits later changes that.
THEOREM PriorViewCorrect == Spec => []PriorViewIsHistory
<1>1. StoreInv => PriorViewIsHistory
  BY DEF StoreInv
<1> QED BY InitInv, InvStep, <1>1, PTL DEF Spec

\* Stored keys have no surrounding white space, as every CSV and XML reader
\* ensures (the Parquet reader does not).
KeysAreTrimmed == \A r \in Record : Trim[KeyOf[r]] = KeyOf[r]

LEMMA SeesTheOther ==
    ASSUME TypeOK, StoreInv, KeysAreTrimmed
    PROVE  ExactlyOneSeesTheOther
<1> SUFFICES ASSUME NEW s \in Scan, NEW t \in Scan,
                    Loaded(s), Loaded(t), scanId[s] < scanId[t],
                    OwnTable(s), OwnTable(t), Table[s] = Table[t]
             PROVE  /\ \A r \in Batch[s] : Trim[KeyOf[r]] \in Wanted(t) => r \in byKey[t]
                    /\ byKey[s] \cap Batch[t] = {}
  BY DEF ExactlyOneSeesTheOther
<1>1. /\ Len(scans) \in Nat
      /\ scanId[s] \in 1..Len(scans) /\ scans[scanId[s]] = s
      /\ scanId[t] \in 1..Len(scans) /\ scans[scanId[t]] = t
  BY DEF TypeOK, StoreInv
<1>2. /\ byKey[s] = {r \in RowsIn(Table[s], scanId[s] - 1) : KeyOf[r] \in Wanted(s)}
      /\ byKey[t] = {r \in RowsIn(Table[t], scanId[t] - 1) : KeyOf[r] \in Wanted(t)}
  BY DEF StoreInv, PriorViewIsHistory
<1>3. ASSUME NEW r \in Batch[s], Trim[KeyOf[r]] \in Wanted(t) PROVE r \in byKey[t]
  <2>1. KeyOf[r] \in Wanted(t)
    BY <1>3, StoreAssumption DEF KeysAreTrimmed
  <2>2. scanId[s] \in 1..(scanId[t] - 1)
    BY <1>1
  <2>3. r \in RowsIn(Table[t], scanId[t] - 1)
    BY <1>1, <2>2 DEF RowsIn
  <2> QED BY <1>2, <2>1, <2>3
<1>4. ASSUME NEW r \in byKey[s], r \in Batch[t] PROVE FALSE
  <2>1. PICK k \in 1..(scanId[s] - 1) : r \in Batch[scans[k]]
    BY <1>2 DEF RowsIn
  <2>2. k \in 1..Len(scans) /\ scans[k] \in Scan /\ scans[k] # t
    BY <1>1, <2>1 DEF StoreInv, TypeOK
  <2> QED BY <1>4, <2>1, <2>2, StoreAssumption
<1> QED BY <1>3, <1>4

\* Of two scans that met one key in the same table, exactly the later sees the
\* other's records: a NEWT reported twice is flagged in exactly one of the two
\* reports however the processes interleave.
THEOREM DuplicatesAreSeen ==
    ASSUME KeysAreTrimmed
    PROVE  Spec => []ExactlyOneSeesTheOther
<1>1. TypeOK /\ StoreInv => ExactlyOneSeesTheOther
  BY SeesTheOther
<1> QED BY InitInv, InvStep, <1>1, PTL DEF Spec

----------------------------------------------------------------------------
\* The snapshot that a scan compares with.

LEMMA LoadLatestSnapshot ==
    ASSUME TypeOK, StoreInv, LatestInv, NEW s \in Scan, LoadLatest(s)
    PROVE  LatestInv'
<1>1. /\ pc \in [Scan -> Stage] /\ latest \in [Scan -> SUBSET Record]
      /\ pc' = [pc EXCEPT ![s] = "done"] /\ UNCHANGED <<scans, scanId>>
      /\ \A t \in Scan : t # s => latest'[t] = latest[t]
  BY DEF LoadLatest, TypeOK
<1>2. Len(scans) \in Nat /\ scanId[s] \in 1..Len(scans)
  BY DEF TypeOK, StoreInv, LoadLatest
<1> DEFINE Newest == {j \in Snapshots(s) : \A i \in Snapshots(s) : i <= j}
<1>3. latest'[s] = UNION {Batch[scans[k]] : k \in Newest}
  BY <1>1 DEF LoadLatest
<1>4. ASSUME latest'[s] # {}
      PROVE  \E k \in 1..(scanId[s] - 1) :
                 /\ Table[scans[k]] = Table[s] /\ latest'[s] = Batch[scans[k]]
                 /\ \A j \in (k + 1)..(scanId[s] - 1) :
                        Table[scans[j]] = Table[s] => Batch[scans[j]] = {}
  <2>1. PICK k : k \in Newest
    BY <1>3, <1>4
  <2>2. k \in 1..(scanId[s] - 1) /\ Table[scans[k]] = Table[s]
    BY <2>1 DEF Snapshots
  <2>3. ASSUME NEW j \in Newest PROVE j = k
    <3>1. j \in Int /\ k \in Int
      BY <1>2, <2>1 DEF Snapshots
    <3>2. j <= k /\ k <= j
      BY <2>1
    <3> QED BY <3>1, <3>2
  <2>4. latest'[s] = Batch[scans[k]]
    BY <1>3, <2>1, <2>3
  <2>5. ASSUME NEW j \in (k + 1)..(scanId[s] - 1), Table[scans[j]] = Table[s], Batch[scans[j]] # {}
        PROVE  FALSE
    <3>1. j \in Snapshots(s)
      BY <1>2, <2>2, <2>5 DEF Snapshots
    <3> QED BY <1>2, <2>1, <2>2, <2>5, <3>1
  <2> QED BY <2>2, <2>4, <2>5
<1>5. ASSUME NEW t \in Scan, t # s, latest'[t] # {}
      PROVE  \E k \in 1..(scanId[t] - 1) :
                 /\ Table[scans[k]] = Table[t] /\ latest'[t] = Batch[scans[k]]
                 /\ \A j \in (k + 1)..(scanId[t] - 1) :
                        Table[scans[j]] = Table[t] => Batch[scans[j]] = {}
  BY <1>1, <1>5 DEF LatestInv, LatestIsOneSnapshot
<1>6. LatestIsOneSnapshot'
  BY <1>1, <1>4, <1>5 DEF LatestIsOneSnapshot
<1>7. \A t \in Scan : latest'[t] # {} => pc'[t] = "done"
  BY <1>1 DEF LatestInv
<1> QED BY <1>6, <1>7 DEF LatestInv

\* A scan that ended keeps its place, and the history below it does not change.
LEMMA OtherSnapshot ==
    ASSUME TypeOK, StoreInv, LatestInv, NEW s \in Scan,
           \/ BeginPersist(s) \/ StoreBusy(s) \/ InsertRow(s) \/ Commit(s)
           \/ LoadPrior(s) \/ LoadPriorTooLarge(s) \/ Abort(s)
    PROVE  LatestInv'
<1>1. /\ pc \in [Scan -> Stage] /\ scanId \in [Scan -> Nat] /\ latest' = latest
      /\ scans \in Seq(Scan) /\ Len(scans) \in Nat
      /\ scans' = scans \/ scans' = Append(scans, s)
  BY DEF TypeOK, BeginPersist, StoreBusy, InsertRow, Commit, LoadPrior, LoadPriorTooLarge,
         Abort, loadVars
<1>2. \A k \in 1..Len(scans) : scans'[k] = scans[k]
  BY <1>1
<1>3. ASSUME NEW t \in Scan, pc[t] = "done"
      PROVE  pc'[t] = "done" /\ scanId'[t] = scanId[t] /\ scanId[t] \in 1..Len(scans)
  BY <1>1, <1>3 DEF BeginPersist, StoreBusy, InsertRow, Commit, LoadPrior,
                    LoadPriorTooLarge, Abort, StoreInv
<1>4. ASSUME NEW t \in Scan, latest[t] # {}
      PROVE  \E k \in 1..(scanId'[t] - 1) :
                 /\ Table[scans'[k]] = Table[t] /\ latest[t] = Batch[scans'[k]]
                 /\ \A j \in (k + 1)..(scanId'[t] - 1) :
                        Table[scans'[j]] = Table[t] => Batch[scans'[j]] = {}
  <2>1. scanId'[t] = scanId[t] /\ scanId[t] \in 1..Len(scans)
    BY <1>3, <1>4 DEF LatestInv
  <2>2. PICK k \in 1..(scanId[t] - 1) :
            /\ Table[scans[k]] = Table[t] /\ latest[t] = Batch[scans[k]]
            /\ \A j \in (k + 1)..(scanId[t] - 1) :
                   Table[scans[j]] = Table[t] => Batch[scans[j]] = {}
    BY <1>4 DEF LatestInv, LatestIsOneSnapshot
  <2>3. \A j \in 1..(scanId[t] - 1) : scans'[j] = scans[j]
    BY <1>1, <1>2, <2>1
  <2>4. \A j \in (k + 1)..(scanId[t] - 1) : j \in 1..(scanId[t] - 1)
    BY <1>1, <2>1
  <2>5. /\ k \in 1..(scanId'[t] - 1)
        /\ Table[scans'[k]] = Table[t] /\ latest[t] = Batch[scans'[k]]
    BY <2>1, <2>2, <2>3
  <2>6. \A j \in (k + 1)..(scanId'[t] - 1) : Table[scans'[j]] = Table[t] => Batch[scans'[j]] = {}
    BY <2>1, <2>2, <2>3, <2>4
  <2> QED BY <2>5, <2>6
<1>5. LatestIsOneSnapshot'
  BY <1>1, <1>4 DEF LatestIsOneSnapshot
<1> QED BY <1>1, <1>3, <1>5 DEF LatestInv

LEMMA LatestStep == TypeOK /\ StoreInv /\ LatestInv /\ [Next]_vars => LatestInv'
<1> SUFFICES ASSUME TypeOK, StoreInv, LatestInv, [Next]_vars PROVE LatestInv'
  OBVIOUS
<1>1. ASSUME NEW s \in Scan, Step(s) \/ Abort(s) PROVE LatestInv'
  BY <1>1, LoadLatestSnapshot, OtherSnapshot DEF Step
<1>2. CASE UNCHANGED vars
  BY <1>2 DEF vars, loadVars, LatestInv, LatestIsOneSnapshot
<1> QED BY <1>1, <1>2 DEF Next, Finished

\* load_latest_prior_*: what the cross-batch layer compares with is the whole batch
\* of one scan, the last one below its own id that left rows in its table; scans that
\* commit between persist and load, or after it, make no difference.
THEOREM LatestIsAWholeScan == Spec => []LatestIsOneSnapshot
<1>1. Init => LatestInv
  BY DEF Init, LatestInv, LatestIsOneSnapshot
<1>2. LatestInv => LatestIsOneSnapshot
  BY DEF LatestInv
<1> QED BY InitInv, InvStep, LatestStep, <1>1, <1>2, PTL DEF Spec

----------------------------------------------------------------------------
\* The store implements the log of HistoryLog.

\* What a scan was given, as HistoryLog sees it.
ViewBar == [s \in Scan |-> IF OwnTable(s) /\ Loaded(s) THEN {byKey[s]} ELSE {}]

LEMMA CommitEnters ==
    ASSUME TypeOK, StoreInv, NEW s \in Scan, Commit(s)
    PROVE  History!Enter(s)
<1>1. \A k \in 1..Len(scans) : scans[k] # s
  BY DEF Commit, StoreInv
<1>2. scans' = Append(scans, s) /\ UNCHANGED <<loads, byKey>>
  BY DEF Commit, loadVars
<1>3. ViewBar' = ViewBar
  BY <1>2 DEF ViewBar, Loaded, OwnTable
<1> QED BY <1>1, <1>2, <1>3 DEF History!Enter, ViewBar

LEMMA LoadPriorLooks ==
    ASSUME TypeOK, StoreInv, NEW s \in Scan, LoadPrior(s), OwnTable(s)
    PROVE  History!Look(s)
<1>1. /\ scans \in Seq(Scan) /\ Len(scans) \in Nat /\ UNCHANGED scans
      /\ loads \in [Scan -> 0..2] /\ byKey \in [Scan -> SUBSET Record]
      /\ loads' = [loads EXCEPT ![s] = 1]
      /\ \A t \in Scan : t # s => byKey'[t] = byKey[t]
  BY DEF LoadPrior, TypeOK
<1>2. scanId[s] \in 1..Len(scans) /\ scans[scanId[s]] = s /\ loads[s] = 0
  BY DEF LoadPrior, StoreInv
<1>3. History!Position(s) = scanId[s]
  BY <1>2 DEF History!Position, StoreInv
<1> DEFINE n == scanId[s] - 1
           before == SubSeq(scans, 1, n)
<1>4. n \in Nat /\ n <= Len(scans)
  BY <1>1, <1>2
<1>5. Len(before) = n /\ \A k \in 1..n : before[k] = scans[k]
  BY <1>1, <1>4
<1>6. byKey'[s] = ViewOf(s, before)
  <2>1. byKey'[s] = {r \in RowsIn(Table[s], n) : KeyOf[r] \in Wanted(s)}
    BY DEF LoadPrior, TypeOK, Below, OwnTable
  <2> HIDE DEF before, n
  <2>2. {k \in 1..Len(before) : Table[before[k]] = Table[s]} = {j \in 1..n : Table[scans[j]] = Table[s]}
    BY <1>5
  <2>3. UNION {Batch[before[k]] : k \in {j \in 1..Len(before) : Table[before[j]] = Table[s]}}
          = RowsIn(Table[s], n)
    BY <1>5, <2>2 DEF RowsIn
  <2> QED BY <2>1, <2>3 DEF ViewOf
<1>7. ViewBar[s] = {} /\ ViewBar' = [ViewBar EXCEPT ![s] = {ViewOf(s, before)}]
  <2> HIDE DEF before, n
  <2>1. ASSUME NEW t \in Scan
        PROVE  ViewBar'[t] = IF t = s THEN {ViewOf(s, before)} ELSE ViewBar[t]
    <3>1. CASE t = s
      <4>1. ViewBar'[s] = {byKey'[s]}
        BY <1>1 DEF ViewBar, Loaded, OwnTable
      <4> QED BY <1>6, <3>1, <4>1
    <3>2. CASE t # s
      <4>1. loads'[t] = loads[t] /\ byKey'[t] = byKey[t]
        BY <1>1, <3>2
      <4> QED BY <3>2, <4>1 DEF ViewBar, Loaded, OwnTable
    <3> QED BY <3>1, <3>2
  <2>2. ViewBar' = [t \in Scan |-> ViewBar'[t]] /\ ViewBar = [t \in Scan |-> ViewBar[t]]
    BY DEF ViewBar
  <2>3. ViewBar[s] = {}
    BY <1>2 DEF ViewBar, Loaded
  <2> HIDE DEF ViewBar
  <2> QED BY <2>1, <2>2, <2>3
<1> QED BY <1>1, <1>2, <1>3, <1>7 DEF History!Look, ViewBar

LEMMA OtherStutters ==
    ASSUME TypeOK, StoreInv, NEW s \in Scan,
           \/ BeginPersist(s) \/ StoreBusy(s) \/ InsertRow(s) \/ LoadPriorTooLarge(s)
           \/ Abort(s) \/ LoadLatest(s) \/ (LoadPrior(s) /\ ~OwnTable(s))
    PROVE  UNCHANGED <<scans, ViewBar>>
<1>1. CASE \/ BeginPersist(s) \/ StoreBusy(s) \/ InsertRow(s) \/ LoadPriorTooLarge(s) \/ Abort(s)
  <2>1. UNCHANGED <<scans, loads, byKey>>
    BY <1>1 DEF BeginPersist, StoreBusy, InsertRow, LoadPriorTooLarge, Abort, loadVars
  <2> QED BY <2>1 DEF ViewBar, Loaded, OwnTable
<1>2. CASE LoadLatest(s)
  <2>1. /\ UNCHANGED <<scans, byKey>> /\ loads \in [Scan -> 0..2]
        /\ loads[s] >= 1 /\ loads' = [loads EXCEPT ![s] = 2]
    BY <1>2 DEF LoadLatest, TypeOK, StoreInv, Loaded
  <2> QED BY <2>1 DEF ViewBar, Loaded, OwnTable
<1>3. CASE LoadPrior(s) /\ ~OwnTable(s)
  <2>1. /\ UNCHANGED scans /\ loads \in [Scan -> 0..2] /\ byKey \in [Scan -> SUBSET Record]
        /\ \A t \in Scan : t # s => byKey'[t] = byKey[t] /\ loads'[t] = loads[t]
    BY <1>3 DEF LoadPrior, TypeOK
  <2> QED BY <1>3, <2>1 DEF ViewBar, Loaded, OwnTable
<1> QED BY <1>1, <1>2, <1>3

LEMMA HistoryStep ==
    TypeOK /\ StoreInv /\ [Next]_vars => [History!LogNext]_<<scans, ViewBar>>
<1> SUFFICES ASSUME TypeOK, StoreInv, [Next]_vars
             PROVE  History!LogNext \/ UNCHANGED <<scans, ViewBar>>
  OBVIOUS
<1>1. ASSUME NEW s \in Scan, Step(s) \/ Abort(s)
      PROVE  History!LogNext \/ UNCHANGED <<scans, ViewBar>>
  <2>1. CASE Commit(s)
    BY <2>1, CommitEnters DEF History!LogNext
  <2>2. CASE LoadPrior(s) /\ OwnTable(s)
    BY <2>2, LoadPriorLooks DEF History!LogNext
  <2> QED BY <1>1, <2>1, <2>2, OtherStutters DEF Step
<1>2. CASE UNCHANGED vars
  BY <1>2 DEF vars, loadVars, ViewBar, Loaded, OwnTable
<1> QED BY <1>1, <1>2 DEF Next, Finished

\* Seen from outside, persist_*_batch and load_prior_* are two atomic operations on a
\* log of whole batches, whatever the processes do in between and wherever they die.
THEOREM StoreImplementsHistory == Spec => ImplementsHistory
<1>1. Init => History!LogInit
  BY DEF Init, History!LogInit, Loaded
<1>2. TypeOK /\ StoreInv /\ [Next]_vars
        => [History!LogNext]_<<scans, [s \in Scan |-> IF OwnTable(s) /\ Loaded(s) THEN {byKey[s]} ELSE {}]>>
  BY HistoryStep DEF ViewBar
<1> QED BY InitInv, InvStep, <1>1, <1>2, PTL DEF Spec, ImplementsHistory, History!LogSpec

----------------------------------------------------------------------------
(* The migrations *)


LEMMA NextVersionFact ==
    ASSUME NEW p \in Process, MigrationsTypeOK, Remaining(p) # {}
    PROVE  NextVersion(p) \in Remaining(p) /\ NextVersion(p) \in {1, 2}
<1>1. Remaining(p) \subseteq {1, 2}
  BY DEF Remaining, Version
<1>2. \E v \in Remaining(p) : \A w \in Remaining(p) : v <= w
  <2>1. CASE 1 \in Remaining(p)
    BY <1>1, <2>1
  <2>2. CASE 1 \notin Remaining(p)
    BY <1>1, <2>2
  <2> QED BY <2>1, <2>2
<1> QED BY <1>1, <1>2 DEF NextVersion

LEMMA MigrationsTypeStep ==
    MigrationsTypeOK /\ MigrationsInv /\ [MigrationsNext]_migrationVars => MigrationsTypeOK'
<1> SUFFICES ASSUME MigrationsTypeOK, MigrationsInv, [MigrationsNext]_migrationVars
             PROVE  MigrationsTypeOK'
  OBVIOUS
<1> USE MigrationsAssumption DEF MigrationsTypeOK, OpeningStage, Goto, Disturb, schema
<1>1. ASSUME NEW p \in Process, Run(p) \/ MigrationBusy(p) \/ Crash(p) PROVE MigrationsTypeOK'
  <2>1. CASE Open(p)
    BY <2>1 DEF Open
  <2>2. CASE EnsureVersionTable(p)
    BY <2>2 DEF EnsureVersionTable
  <2>3. CASE LoadApplied(p)
    <3>1. opening' \in [Process -> OpeningStage]
      BY <2>3 DEF LoadApplied
    <3>2. applied' \in [Process -> SUBSET Version]
      BY <2>3 DEF LoadApplied
    <3> QED BY <2>3, <3>1, <3>2 DEF LoadApplied
  <2>4. CASE DetectLegacy(p)
    BY <2>4 DEF DetectLegacy
  <2>5. CASE BackfillLegacy(p)
    <3>1. CASE 1 \in versions
      BY <2>5, <3>1 DEF BackfillLegacy
    <3>2. CASE 1 \notin versions
      <4>1. applied' \in [Process -> SUBSET Version]
        <5>1. applied[p] \union {1} \in SUBSET Version
          BY DEF Version
        <5> QED BY <2>5, <3>2, <5>1 DEF BackfillLegacy
      <4>2. versions' \in SUBSET Version
        <5>1. versions \union {1} \in SUBSET Version
          BY DEF Version
        <5>2. versions' = versions \union {1}
          BY <2>5, <3>2 DEF BackfillLegacy
        <5> QED BY <5>1, <5>2
      <4>3. disturbed' \in [Process -> BOOLEAN]
        BY <2>5, <3>2 DEF BackfillLegacy
      <4> QED BY <2>5, <3>2, <4>1, <4>2, <4>3 DEF BackfillLegacy
    <3> QED BY <3>1, <3>2
  <2>6. CASE BeginMigration(p)
    BY <2>6 DEF BeginMigration
  <2>7. CASE CommitMigration(p)
    <3>1. PICK v \in Version : v = NextVersion(p)
      BY <2>7, NextVersionFact DEF CommitMigration, MigrationsInv, Version
    <3>2. applied' \in [Process -> SUBSET Version]
      BY <2>7, <3>1 DEF CommitMigration
    <3> QED BY <2>7, <3>1, <3>2 DEF CommitMigration
  <2>8. CASE Opened(p)
    BY <2>8 DEF Opened
  <2>9. CASE Rerun(p)
    BY <2>9 DEF Rerun
  <2>10. CASE MigrationBusy(p)
    BY <2>10 DEF MigrationBusy
  <2>11. CASE Crash(p)
    BY <2>11 DEF Crash
  <2> QED BY <1>1, <2>1, <2>2, <2>3, <2>4, <2>5, <2>6, <2>7, <2>8, <2>9, <2>10, <2>11 DEF Run
<1>2. CASE UNCHANGED migrationVars
  BY <1>2 DEF migrationVars
<1> QED BY <1>1, <1>2 DEF MigrationsNext, AllOpen

----------------------------------------------------------------------------
\* The steps that leave the committed schema and the write lock alone.
LEMMA QuietInv ==
    ASSUME MigrationsTypeOK, MigrationsInv, NEW p \in Process,
           \/ Open(p) \/ EnsureVersionTable(p) \/ LoadApplied(p) \/ DetectLegacy(p)
           \/ Opened(p) \/ Rerun(p) \/ MigrationBusy(p)
    PROVE  MigrationsInv'
<1> USE MigrationsAssumption DEF MigrationsTypeOK, OpeningStage, Goto, schema
<1>1. UNCHANGED <<tables, ruleCodes, versions, migrator>>
  BY DEF Open, EnsureVersionTable, LoadApplied, DetectLegacy, Opened, Rerun, MigrationBusy
<1>2. \A q \in Process : q # p => opening'[q] = opening[q] /\ applied'[q] = applied[q]
  BY DEF Open, EnsureVersionTable, LoadApplied, DetectLegacy, Opened, Rerun, MigrationBusy
<1>3. opening'[p] # "commit" /\ opening[p] # "commit"
  BY DEF Open, EnsureVersionTable, LoadApplied, DetectLegacy, Opened, Rerun, MigrationBusy
<1>4. /\ opening'[p] \in {"apply", "open"} => applied'[p] \subseteq versions
      /\ opening'[p] \in {"ensure", "load", "detect", "backfill"} => applied'[p] = {}
      /\ opening'[p] = "backfill" => tables
      /\ opening'[p] = "open" => applied'[p] = Version
  <2>1. CASE LoadApplied(p)
    BY <2>1 DEF LoadApplied
  <2>2. CASE Opened(p)
    BY <2>2 DEF Opened, MigrationsInv, Remaining
  <2>3. CASE DetectLegacy(p)
    BY <2>3 DEF DetectLegacy, MigrationsInv
  <2>4. CASE Open(p)
    BY <2>4 DEF Open
  <2>5. CASE EnsureVersionTable(p)
    BY <2>5 DEF EnsureVersionTable, MigrationsInv
  <2>6. CASE Rerun(p) \/ MigrationBusy(p)
    BY <2>6 DEF Rerun, MigrationBusy
  <2> QED BY <2>1, <2>2, <2>3, <2>4, <2>5, <2>6
<1>5. \A q \in Process : opening'[q] = "commit" =>
          q # p /\ Remaining(q)' = Remaining(q) /\ NextVersion(q)' = NextVersion(q)
  BY <1>2, <1>3 DEF Remaining, NextVersion
<1>6. \A q \in Process : opening'[q] = "commit" =>
          /\ (Remaining(q) # {})' /\ (NextVersion(q) \notin versions)'
          /\ SqlSucceeds(NextVersion(q))'
  BY <1>1, <1>2, <1>5 DEF MigrationsInv, SqlSucceeds
<1>7. VersionsMatchSchema'
  BY <1>1 DEF MigrationsInv, VersionsMatchSchema
<1>8. \A q \in Process : migrator' = q <=> opening'[q] = "commit"
  BY <1>1, <1>2, <1>3 DEF MigrationsInv
<1>9. \A q \in Process : opening'[q] \in {"apply", "commit", "open"} => applied'[q] \subseteq versions'
  BY <1>1, <1>2, <1>3, <1>4 DEF MigrationsInv
<1>10. \A q \in Process :
          /\ opening'[q] \in {"ensure", "load", "detect", "backfill"} => applied'[q] = {}
          /\ opening'[q] = "backfill" => tables'
          /\ opening'[q] = "open" => applied'[q] = Version
  BY <1>1, <1>2, <1>3, <1>4 DEF MigrationsInv
<1> QED BY <1>6, <1>7, <1>8, <1>9, <1>10 DEF MigrationsInv

\* The three steps that write: each one is the only migrator while it does.
LEMMA BackfillInv ==
    ASSUME MigrationsTypeOK, MigrationsInv, NEW p \in Process, BackfillLegacy(p)
    PROVE  MigrationsInv'
<1> USE MigrationsAssumption DEF Goto
<1>1. /\ opening \in [Process -> OpeningStage] /\ applied \in [Process -> SUBSET Version]
      /\ opening[p] = "backfill" /\ migrator = Unlocked /\ tables /\ applied[p] = {}
      /\ UNCHANGED <<tables, ruleCodes, migrator>>
  BY DEF BackfillLegacy, MigrationsTypeOK, MigrationsInv
<1>2. \A q \in Process : q # p => opening'[q] = opening[q] /\ applied'[q] = applied[q]
  BY <1>1 DEF BackfillLegacy
<1>3. opening'[p] \in {"error", "apply"} /\ (opening'[p] = "apply" => applied'[p] \subseteq versions')
  BY <1>1 DEF BackfillLegacy
<1>4. versions \subseteq versions' /\ (2 \in versions' <=> 2 \in versions)
  BY DEF BackfillLegacy
<1>5. \A q \in Process : opening'[q] # "commit"
  BY <1>1, <1>2, <1>3, MigrationsAssumption DEF MigrationsInv
<1>6. VersionsMatchSchema'
  BY <1>1, <1>4 DEF MigrationsInv, VersionsMatchSchema
<1>7. \A q \in Process : migrator' = q <=> opening'[q] = "commit"
  BY <1>1, <1>5
<1>8. \A q \in Process : opening'[q] \in {"apply", "commit", "open"} => applied'[q] \subseteq versions'
  BY <1>2, <1>3, <1>4 DEF MigrationsInv
<1>9. \A q \in Process :
          /\ opening'[q] \in {"ensure", "load", "detect", "backfill"} => applied'[q] = {}
          /\ opening'[q] = "backfill" => tables'
          /\ opening'[q] = "open" => applied'[q] = Version
  BY <1>1, <1>2, <1>3 DEF MigrationsInv
<1> QED BY <1>5, <1>6, <1>7, <1>8, <1>9 DEF MigrationsInv

LEMMA BeginInv ==
    ASSUME MigrationsTypeOK, MigrationsInv, NEW p \in Process, BeginMigration(p)
    PROVE  MigrationsInv'
<1> USE MigrationsAssumption DEF Goto, schema
<1>1. /\ opening \in [Process -> OpeningStage] /\ opening[p] = "apply"
      /\ migrator = Unlocked /\ Remaining(p) # {}
      /\ UNCHANGED <<tables, ruleCodes, versions, applied>>
  BY DEF BeginMigration, MigrationsTypeOK
<1>2. \A q \in Process : q # p => opening'[q] = opening[q] /\ opening[q] # "commit"
  BY <1>1 DEF BeginMigration, MigrationsInv
<1>3. \/ opening'[p] = "error" /\ migrator' = Unlocked
      \/ /\ opening'[p] = "commit" /\ migrator' = p
         /\ SqlSucceeds(NextVersion(p)) /\ NextVersion(p) \notin versions
  BY <1>1 DEF BeginMigration
<1>4. \A q \in Process : Remaining(q)' = Remaining(q) /\ NextVersion(q)' = NextVersion(q)
  BY <1>1 DEF Remaining, NextVersion
<1>5. \A q \in Process : opening'[q] = "commit" =>
          /\ (Remaining(q) # {})' /\ (NextVersion(q) \notin versions)'
          /\ SqlSucceeds(NextVersion(q))'
  BY <1>1, <1>2, <1>3, <1>4 DEF SqlSucceeds
<1>6. VersionsMatchSchema'
  BY <1>1 DEF MigrationsInv, VersionsMatchSchema
<1>7. \A q \in Process : migrator' = q <=> opening'[q] = "commit"
  BY <1>1, <1>2, <1>3
<1>8. \A q \in Process : opening'[q] \in {"apply", "commit", "open"} => applied'[q] \subseteq versions'
  BY <1>1, <1>2 DEF MigrationsInv
<1>9. \A q \in Process :
          /\ opening'[q] \in {"ensure", "load", "detect", "backfill"} => applied'[q] = {}
          /\ opening'[q] = "backfill" => tables'
          /\ opening'[q] = "open" => applied'[q] = Version
  BY <1>1, <1>2, <1>3 DEF MigrationsInv
<1> QED BY <1>5, <1>6, <1>7, <1>8, <1>9 DEF MigrationsInv

LEMMA CommitMigrationInv ==
    ASSUME MigrationsTypeOK, MigrationsInv, NEW p \in Process, CommitMigration(p)
    PROVE  MigrationsInv'
<1> USE MigrationsAssumption DEF Goto
<1>1. /\ opening \in [Process -> OpeningStage] /\ applied \in [Process -> SUBSET Version]
      /\ opening[p] = "commit" /\ migrator = p /\ migrator' = Unlocked
      /\ applied[p] \subseteq versions
      /\ SqlSucceeds(NextVersion(p))
  BY DEF CommitMigration, MigrationsTypeOK, MigrationsInv
<1>2. PICK v \in {1, 2} : v = NextVersion(p)
  BY <1>1, NextVersionFact DEF MigrationsInv
<1>3. /\ tables' = (tables \/ v = 1) /\ ruleCodes' = (ruleCodes \/ v = 2)
      /\ versions' = versions \union {v}
      /\ applied' = [applied EXCEPT ![p] = @ \union {v}]
      /\ opening' = [opening EXCEPT ![p] = "apply"]
  BY <1>2 DEF CommitMigration
<1>4. \A q \in Process : q # p => opening'[q] = opening[q] /\ applied'[q] = applied[q]
  BY <1>3
<1>5. opening'[p] = "apply" /\ applied'[p] = applied[p] \union {v}
  BY <1>1, <1>3
<1>6. \A q \in Process : opening'[q] # "commit"
  BY <1>1, <1>4, <1>5 DEF MigrationsInv
<1>7. VersionsMatchSchema'
  <2>1. CASE v = 1
    BY <1>3, <2>1 DEF MigrationsInv, VersionsMatchSchema
  <2>2. CASE v = 2
    <3>1. tables
      BY <1>1, <1>2, <2>2 DEF SqlSucceeds
    <3> QED BY <1>3, <2>2, <3>1 DEF MigrationsInv, VersionsMatchSchema
  <2> QED BY <2>1, <2>2
<1>8. \A q \in Process : migrator' = q <=> opening'[q] = "commit"
  BY <1>1, <1>6
<1>9. \A q \in Process : opening'[q] \in {"apply", "commit", "open"} => applied'[q] \subseteq versions'
  BY <1>1, <1>3, <1>4, <1>5 DEF MigrationsInv
<1>10. \A q \in Process :
          /\ opening'[q] \in {"ensure", "load", "detect", "backfill"} => applied'[q] = {}
          /\ opening'[q] = "backfill" => tables'
          /\ opening'[q] = "open" => applied'[q] = Version
  BY <1>3, <1>4, <1>5 DEF MigrationsInv
<1> QED BY <1>6, <1>7, <1>8, <1>9, <1>10 DEF MigrationsInv

LEMMA CrashInv ==
    ASSUME MigrationsTypeOK, MigrationsInv, NEW p \in Process, Crash(p)
    PROVE  MigrationsInv'
<1> USE MigrationsAssumption DEF Goto, schema
<1>1. /\ opening \in [Process -> OpeningStage] /\ opening' = [opening EXCEPT ![p] = "closed"]
      /\ migrator' = IF migrator = p THEN Unlocked ELSE migrator
      /\ UNCHANGED <<tables, ruleCodes, versions, applied>>
  BY DEF Crash, MigrationsTypeOK
<1>2. opening'[p] = "closed" /\ \A q \in Process : q # p => opening'[q] = opening[q]
  BY <1>1
<1>3. \A q \in Process : Remaining(q)' = Remaining(q) /\ NextVersion(q)' = NextVersion(q)
  BY <1>1 DEF Remaining, NextVersion
<1>4. \A q \in Process : opening'[q] = "commit" =>
          /\ (Remaining(q) # {})' /\ (NextVersion(q) \notin versions)'
          /\ SqlSucceeds(NextVersion(q))'
  BY <1>1, <1>2, <1>3 DEF SqlSucceeds, MigrationsInv
<1>5. VersionsMatchSchema'
  BY <1>1 DEF MigrationsInv, VersionsMatchSchema
<1>6. \A q \in Process : migrator' = q <=> opening'[q] = "commit"
  BY <1>1, <1>2 DEF MigrationsInv
<1>7. \A q \in Process : opening'[q] \in {"apply", "commit", "open"} => applied'[q] \subseteq versions'
  BY <1>1, <1>2 DEF MigrationsInv
<1>8. \A q \in Process :
          /\ opening'[q] \in {"ensure", "load", "detect", "backfill"} => applied'[q] = {}
          /\ opening'[q] = "backfill" => tables'
          /\ opening'[q] = "open" => applied'[q] = Version
  BY <1>1, <1>2 DEF MigrationsInv
<1> QED BY <1>4, <1>5, <1>6, <1>7, <1>8 DEF MigrationsInv

LEMMA MigrationsInvStep ==
    MigrationsTypeOK /\ MigrationsInv /\ [MigrationsNext]_migrationVars
        => (MigrationsTypeOK /\ MigrationsInv)'
<1> SUFFICES ASSUME MigrationsTypeOK, MigrationsInv, [MigrationsNext]_migrationVars
             PROVE  MigrationsInv'
  BY MigrationsTypeStep
<1>1. ASSUME NEW p \in Process, Run(p) \/ MigrationBusy(p) \/ Crash(p) PROVE MigrationsInv'
  BY <1>1, QuietInv, BackfillInv, BeginInv, CommitMigrationInv, CrashInv DEF Run
<1>2. CASE UNCHANGED migrationVars
  <2>1. \A q \in Process : Remaining(q)' = Remaining(q) /\ NextVersion(q)' = NextVersion(q)
    BY <1>2 DEF migrationVars, Remaining, NextVersion
  <2>2. \A q \in Process : SqlSucceeds(NextVersion(q))' <=> SqlSucceeds(NextVersion(q))
    BY <1>2, <2>1 DEF migrationVars, schema, SqlSucceeds
  <2>3. VersionsMatchSchema'
    BY <1>2 DEF migrationVars, schema, MigrationsInv, VersionsMatchSchema
  <2> QED BY <1>2, <2>1, <2>2, <2>3 DEF migrationVars, schema, MigrationsInv
<1> QED BY <1>1, <1>2 DEF MigrationsNext, AllOpen

LEMMA MigrationsInitInv == MigrationsInit => MigrationsTypeOK /\ MigrationsInv
<1> SUFFICES ASSUME MigrationsInit PROVE MigrationsTypeOK /\ MigrationsInv
  OBVIOUS
<1>1. MigrationsTypeOK
  <2>1. tables \in BOOLEAN /\ ruleCodes \in BOOLEAN /\ versions \in SUBSET Version
    BY DEF MigrationsInit, Version
  <2>2. /\ opening \in [Process -> OpeningStage] /\ applied \in [Process -> SUBSET Version]
        /\ disturbed \in [Process -> BOOLEAN]
    BY DEF MigrationsInit, OpeningStage
  <2> QED BY <2>1, <2>2, MigrationsAssumption DEF MigrationsInit, MigrationsTypeOK
<1>2. VersionsMatchSchema
  BY DEF MigrationsInit, VersionsMatchSchema
<1> QED BY <1>1, <1>2, MigrationsAssumption DEF MigrationsInit, MigrationsInv

\* Every reachable state is well typed.
THEOREM MigrationsTypeCorrect == MigrationsSpec => []MigrationsTypeOK
  BY MigrationsInitInv, MigrationsInvStep, PTL DEF MigrationsSpec

\* A process whose open_store returned works on a current schema, whatever the
\* store was before and whoever else opened it or was killed meanwhile.
THEOREM OpenStoreIsCurrent == MigrationsSpec => []OpenMeansCurrent
<1>1. MigrationsTypeOK /\ MigrationsInv => OpenMeansCurrent
  BY DEF MigrationsTypeOK, MigrationsInv, VersionsMatchSchema, OpenMeansCurrent, Version
<1> QED BY MigrationsInitInv, MigrationsInvStep, <1>1, PTL DEF MigrationsSpec

----------------------------------------------------------------------------
\* Failures to open.

\* m0002 fails only if its column is there before its version is recorded, and a
\* version row only if it is there: neither for who read every version there is.
LEMMA BeginRaces ==
    ASSUME MigrationsTypeOK, MigrationsInv, RacesInv, NEW p \in Process, BeginMigration(p)
    PROVE  RacesInv'
<1>1. /\ opening[p] = "apply" /\ Remaining(p) # {} /\ opening \in [Process -> OpeningStage]
      /\ UNCHANGED <<applied, versions, disturbed>>
      /\ opening' = [opening EXCEPT ![p] = "commit"] \/ opening' = [opening EXCEPT ![p] = "error"]
  BY DEF BeginMigration, Goto, schema, MigrationsTypeOK
<1>2. ASSUME opening'[p] = "error" PROVE disturbed[p]
  <2> SUFFICES ASSUME ~disturbed[p] PROVE FALSE
    OBVIOUS
  <2>1. applied[p] = versions
    BY <1>1 DEF RacesInv
  <2>2. NextVersion(p) \in Remaining(p) /\ NextVersion(p) \in {1, 2}
    BY <1>1, NextVersionFact
  <2>3. NextVersion(p) \notin versions
    BY <2>1, <2>2 DEF Remaining
  <2>4. ~SqlSucceeds(NextVersion(p))
    BY <1>1, <1>2, <2>3 DEF BeginMigration, Goto
  <2>5. NextVersion(p) = 2 /\ ~(tables /\ ~ruleCodes)
    BY <2>2, <2>4 DEF SqlSucceeds
  <2>6. ~ruleCodes
    BY <2>3, <2>5 DEF MigrationsInv, VersionsMatchSchema
  <2>7. 1 \in versions
    <3>1. \A w \in Remaining(p) : 2 <= w
      <4>1. \E v \in Remaining(p) : \A w \in Remaining(p) : v <= w
        BY <1>1 DEF Remaining, Version
      <4> QED BY <2>5, <4>1 DEF NextVersion
    <3> QED BY <2>1, <3>1 DEF Remaining, Version
  <2> QED BY <2>5, <2>6, <2>7 DEF MigrationsInv, VersionsMatchSchema
<1>3. \A q \in Process : q # p => opening'[q] = opening[q]
  BY <1>1
<1> QED BY <1>1, <1>2, <1>3 DEF RacesInv, OnlyRacesFail

\* A step that writes a version: everybody else is disturbed by it, and the migrator
\* adds the version to what it works with.
LEMMA WriteRaces ==
    ASSUME MigrationsTypeOK, MigrationsInv, RacesInv, NEW p \in Process,
           BackfillLegacy(p) \/ CommitMigration(p)
    PROVE  RacesInv'
<1>1. opening \in [Process -> OpeningStage] /\ applied \in [Process -> SUBSET Version]
  BY DEF MigrationsTypeOK
<1>2. CASE BackfillLegacy(p) /\ 1 \in versions
  <2>1. disturbed[p]
    BY <1>2 DEF BackfillLegacy, RacesInv, MigrationsInv
  <2> QED BY <1>1, <1>2, <2>1 DEF BackfillLegacy, Goto, RacesInv, OnlyRacesFail
<1>3. CASE CommitMigration(p) \/ (BackfillLegacy(p) /\ 1 \notin versions)
  <2>1. PICK v \in {1, NextVersion(p)} :
            /\ versions' = versions \union {v}
            /\ applied' = [applied EXCEPT ![p] = @ \union {v}]
    BY <1>3 DEF CommitMigration, BackfillLegacy
  <2>2. /\ opening[p] \in {"backfill", "commit"} /\ opening' = [opening EXCEPT ![p] = "apply"]
        /\ disturbed' = [q \in Process |-> IF q = p THEN disturbed[q] ELSE TRUE]
    BY <1>3 DEF CommitMigration, BackfillLegacy, Goto, Disturb
  <2>3. ~disturbed[p] => applied[p] = versions
    BY <2>2 DEF RacesInv
  <2>4. /\ opening'[p] = "apply" /\ disturbed'[p] = disturbed[p]
        /\ applied'[p] = applied[p] \union {v}
    BY <1>1, <2>1, <2>2
  <2>5. \A q \in Process : q # p => disturbed'[q]
    BY <2>2
  <2> QED BY <2>1, <2>3, <2>4, <2>5 DEF RacesInv, OnlyRacesFail
<1> QED BY <1>2, <1>3

\* The other steps write nothing.
LEMMA QuietRaces ==
    ASSUME MigrationsTypeOK, MigrationsInv, RacesInv, NEW p \in Process,
           \/ Open(p) \/ EnsureVersionTable(p) \/ LoadApplied(p) \/ DetectLegacy(p)
           \/ Opened(p) \/ Rerun(p) \/ MigrationBusy(p) \/ Crash(p)
    PROVE  RacesInv'
<1>1. /\ opening \in [Process -> OpeningStage] /\ applied \in [Process -> SUBSET Version]
      /\ disturbed \in [Process -> BOOLEAN] /\ versions' = versions
  BY DEF MigrationsTypeOK, Open, EnsureVersionTable, LoadApplied, DetectLegacy, Opened, Rerun,
         MigrationBusy, Crash, schema
<1>2. \A q \in Process : q # p =>
          opening'[q] = opening[q] /\ applied'[q] = applied[q] /\ disturbed'[q] = disturbed[q]
  BY <1>1 DEF Open, EnsureVersionTable, LoadApplied, DetectLegacy, Opened, Rerun,
              MigrationBusy, Crash, Goto
<1>3. /\ opening'[p] = "error" => disturbed'[p]
      /\ ~disturbed'[p] /\ opening'[p] \in {"detect", "backfill", "apply", "commit", "open"}
         => applied'[p] = versions
  <2>1. CASE LoadApplied(p)
    BY <1>1, <2>1 DEF LoadApplied, Goto
  <2>2. CASE Open(p) \/ EnsureVersionTable(p) \/ Rerun(p) \/ MigrationBusy(p) \/ Crash(p)
    BY <1>1, <2>2 DEF Open, EnsureVersionTable, Rerun, MigrationBusy, Crash, Goto
  <2>3. CASE DetectLegacy(p) \/ Opened(p)
    BY <1>1, <2>3 DEF DetectLegacy, Opened, Goto, RacesInv
  <2> QED BY <2>1, <2>2, <2>3
<1> QED BY <1>1, <1>2, <1>3 DEF RacesInv, OnlyRacesFail

LEMMA RacesStep ==
    MigrationsTypeOK /\ MigrationsInv /\ RacesInv /\ [MigrationsNext]_migrationVars => RacesInv'
<1> SUFFICES ASSUME MigrationsTypeOK, MigrationsInv, RacesInv, [MigrationsNext]_migrationVars
             PROVE  RacesInv'
  OBVIOUS
<1>1. ASSUME NEW p \in Process, Run(p) \/ MigrationBusy(p) \/ Crash(p) PROVE RacesInv'
  BY <1>1, BeginRaces, WriteRaces, QuietRaces DEF Run
<1>2. CASE UNCHANGED migrationVars
  BY <1>2 DEF migrationVars, schema, RacesInv, OnlyRacesFail
<1> QED BY <1>1, <1>2 DEF MigrationsNext, AllOpen

\* load_applied and has_legacy_scans_table read outside the transaction that writes,
\* yet open_store fails only for who raced with another migrator or met its lock: a
\* process that has the file for itself always gets its store, crashes or not.
THEOREM OpenFailsOnlyInRaces == MigrationsSpec => []OnlyRacesFail
<1>1. MigrationsInit => RacesInv
  BY DEF MigrationsInit, RacesInv, OnlyRacesFail
<1>2. RacesInv => OnlyRacesFail
  BY DEF RacesInv
<1> QED BY MigrationsInitInv, MigrationsInvStep, RacesStep, <1>1, <1>2, PTL DEF MigrationsSpec
================================================================================
