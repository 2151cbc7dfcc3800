-------------------------- MODULE ScanCommands_proofs --------------------------
(***************************************************************************)
(* Theorems about ScanCommands for any lines made of the commands of       *)
(* CommandPlans: any number of executions and of output directories, any   *)
(* interleaving of them, and a failure of any step.                        *)
(***************************************************************************)
EXTENDS ScanCommands, TLAPS, FiniteSetTheorems

----------------------------------------------------------------------------
(* What every plan has in common *)

FileSet(c) == {c.files[k] : k \in 1..Len(c.files)}

WellFormed(c) ==
    /\ Len(c.files) \in Nat
    /\ c.mail \subseteq FileSet(c) \ {"xsd_errors.csv"}
    /\ \A k \in 1..Len(c.files) : c.files[k] = "xsd_errors.csv" => k = Len(c.files)
    /\ c.own => c.key = c.table /\ c.table # None
    /\ c.own \in BOOLEAN
    /\ ~ c.own => c.key = None \/ c.key # c.table

LEMMA ThreeReports ==
    ASSUME NEW c, NEW csv, NEW html, c.files = <<"summary.json", csv, html>>,
           csv # "xsd_errors.csv", html # "xsd_errors.csv"
    PROVE  /\ Len(c.files) = 3
           /\ FileSet(c) = {"summary.json", csv, html}
           /\ \A k \in 1..Len(c.files) : c.files[k] # "xsd_errors.csv"
<1>1. Len(c.files) = 3 /\ c.files[1] = "summary.json" /\ c.files[2] = csv /\ c.files[3] = html
  OBVIOUS
<1>2. 1..3 = {1, 2, 3}
  OBVIOUS
<1> QED BY <1>1, <1>2 DEF FileSet

LEMMA RecordScanWellFormed ==
    ASSUME NEW table, table # None
    PROVE  WellFormed(RecordScan(table))
<1> DEFINE c == RecordScan(table)
<1>1. /\ c.files = <<"summary.json", "issues.csv", "report.html", "xsd_errors.csv">>
      /\ c.mail = {"summary.json", "issues.csv", "report.html"} /\ c.own = TRUE /\ c.table = table /\ c.key = table
  BY DEF RecordScan, Plan, Attached
<1> HIDE DEF c
<1>2. /\ Len(c.files) = 4 /\ c.files[1] = "summary.json" /\ c.files[2] = "issues.csv"
      /\ c.files[3] = "report.html" /\ c.files[4] = "xsd_errors.csv"
  BY <1>1
<1>3. 1..4 = {1, 2, 3, 4}
  OBVIOUS
<1>4. FileSet(c) = {"summary.json", "issues.csv", "report.html", "xsd_errors.csv"}
  BY <1>2, <1>3 DEF FileSet
<1>5. WellFormed(c)
  BY <1>1, <1>2, <1>3, <1>4 DEF WellFormed
<1> QED BY <1>5 DEF c

\* The plans that write three reports.
LEMMA ThreeReportsWellFormed ==
    ASSUME NEW store_, NEW table, NEW key, NEW latest_, NEW csv, NEW html,
           csv # "xsd_errors.csv", html # "xsd_errors.csv", key = None \/ key # table
    PROVE  WellFormed(Plan(store_, table, key, FALSE, latest_, Reports(csv, html), {"summary.json", csv, html}))
<1> DEFINE c == Plan(store_, table, key, FALSE, latest_, Reports(csv, html), {"summary.json", csv, html})
<1>1. /\ c.files = <<"summary.json", csv, html>> /\ c.mail = {"summary.json", csv, html}
      /\ c.own = FALSE /\ c.table = table /\ c.key = key
  BY DEF Plan, Reports
<1> HIDE DEF c
<1>2. /\ Len(c.files) = 3 /\ FileSet(c) = {"summary.json", csv, html}
      /\ \A k \in 1..Len(c.files) : c.files[k] # "xsd_errors.csv"
  BY <1>1, ThreeReports
<1>3. WellFormed(c)
  BY <1>1, <1>2 DEF WellFormed
<1> QED BY <1>3 DEF c

LEMMA ActivityScanWellFormed ==
    ASSUME NEW key, key # None
    PROVE  WellFormed(ActivityScan(key))
<1> DEFINE c == ActivityScan(key)
<1>1. /\ c.files = <<"summary.json", "tr_activity_summary.json", "tr_activity_issues.csv", "tr_activity_report.html">>
      /\ c.mail = {"summary.json", "tr_activity_issues.csv", "tr_activity_report.html"}
      /\ c.own = FALSE /\ c.table = None /\ c.key = key
  BY DEF ActivityScan, Plan
<1> HIDE DEF c
<1>2. /\ Len(c.files) = 4 /\ c.files[1] = "summary.json" /\ c.files[2] = "tr_activity_summary.json"
      /\ c.files[3] = "tr_activity_issues.csv" /\ c.files[4] = "tr_activity_report.html"
  BY <1>1
<1>3. 1..4 = {1, 2, 3, 4}
  OBVIOUS
<1>4. FileSet(c) = {"summary.json", "tr_activity_summary.json", "tr_activity_issues.csv", "tr_activity_report.html"}
  BY <1>2, <1>3 DEF FileSet
<1>5. WellFormed(c)
  BY <1>1, <1>2, <1>3, <1>4 DEF WellFormed
<1> QED BY <1>5 DEF c

LEMMA OtherPlansWellFormed ==
    WellFormed(DataQualityPack) /\ WellFormed(Normalizer) /\ WellFormed(Validator)
<1>1. WellFormed(DataQualityPack)
  <2> DEFINE c == DataQualityPack
  <2>1. /\ c.files = <<"summary.json", "issues.csv", "indicators.csv", "evidence.csv", "report.html">>
        /\ c.mail = {"summary.json", "issues.csv", "report.html"}
        /\ c.own = FALSE /\ c.key = None
    BY DEF DataQualityPack, Plan, Attached
  <2> HIDE DEF c
  <2>2. /\ Len(c.files) = 5 /\ c.files[1] = "summary.json" /\ c.files[2] = "issues.csv"
        /\ c.files[3] = "indicators.csv" /\ c.files[4] = "evidence.csv" /\ c.files[5] = "report.html"
    BY <2>1
  <2>3. 1..5 = {1, 2, 3, 4, 5}
    OBVIOUS
  <2>4. FileSet(c) = {"summary.json", "issues.csv", "indicators.csv", "evidence.csv", "report.html"}
    BY <2>2, <2>3 DEF FileSet
  <2>5. WellFormed(c)
    BY <2>1, <2>2, <2>3, <2>4 DEF WellFormed
  <2> QED BY <2>5 DEF c
<1>2. WellFormed(Normalizer)
  <2>1. /\ Normalizer.files = <<"records.parquet">> /\ Normalizer.mail = {}
        /\ Normalizer.own = FALSE /\ Normalizer.key = None
    BY DEF Normalizer, Plan
  <2>2. Len(Normalizer.files) = 1 /\ \A k \in 1..1 : k = 1
    BY <2>1
  <2> QED BY <2>1, <2>2 DEF WellFormed
<1>3. WellFormed(Validator)
  <2>1. /\ Validator.files = <<>> /\ Validator.mail = {}
        /\ Validator.own = FALSE /\ Validator.key = None
    BY DEF Validator, Plan
  <2>2. Len(Validator.files) = 0 /\ 1..0 = {}
    BY <2>1
  <2> QED BY <2>1, <2>2 DEF WellFormed
<1> QED BY <1>1, <1>2, <1>3

\* Every command mails reports it writes itself, xsd_errors.csv is the last of
\* them, and a search without an upper bound is in another table.
LEMMA PlansWellFormed == \A c \in StoreCommands \union FileCommands : WellFormed(c)
<1>1. WellFormed(EmirScan) /\ WellFormed(SftrScan)
  BY RecordScanWellFormed DEF EmirScan, SftrScan, None
<1>2. \A csv, html : csv # "xsd_errors.csv" /\ html # "xsd_errors.csv" => WellFormed(Storeless(csv, html))
  BY ThreeReportsWellFormed DEF Storeless
<1>3. \A table, key, csv, html :
          /\ csv # "xsd_errors.csv" /\ html # "xsd_errors.csv" /\ (key = None \/ key # table)
          => WellFormed(StateScan(table, key, csv, html))
  BY ThreeReportsWellFormed DEF StateScan
<1>4. \A table, key : key # table => WellFormed(AnswerScan(table, key))
  BY ThreeReportsWellFormed DEF AnswerScan, Attached
<1>5. \A key, csv, html : 
          /\ csv # "xsd_errors.csv" /\ html # "xsd_errors.csv" /\ key # None
          => WellFormed(ReadOnlyScan(key, csv, html))
  BY ThreeReportsWellFormed DEF ReadOnlyScan
<1>6. \A c \in StoreCommands : WellFormed(c)
  BY <1>1, <1>3, <1>4, <1>5, ActivityScanWellFormed
  DEF StoreCommands, EmirFeedback, EmirTrState, EmirMar, EmirMsr, EmirTrActivity, EmirTrAudit,
      SftrMissingCollateral, SftrReconcile, SftrTrState, SftrTrActivity, SftrTrAudit, None
<1>7. \A c \in FileCommands : WellFormed(c)
  BY <1>2, OtherPlansWellFormed
  DEF FileCommands, EmirNormalize, EmirValidate, EmirReconStats, EmirWarnings, EmirCollateralAudit,
      EmirBookReconcile, EmirDataQualityPack, EmirQuery, EmirStatusAdvice, SftrNormalize,
      SftrValidate, SftrBookReconcile, SftrDataQualityPack, SftrMar, SftrMsr,
      SftrTrStatusAdvice, SftrReuseActivity, SftrReuseState
<1> QED BY <1>6, <1>7

\* What the plan of an execution has.
LEMMA PlanFacts ==
    ASSUME TypeOK
    PROVE  \A e \in Exec : WellFormed(PlanOf(e))
  BY CommandsAssumption, PlansWellFormed DEF TypeOK, Exec, PlanOf

----------------------------------------------------------------------------
(* The executions and the directories *)

LEMMA ExecFacts ==
    ASSUME TypeOK
    PROVE  /\ Exec \subseteq 1..N /\ N \in Nat
           /\ \A e \in Exec : e \in Nat /\ e # 0 /\ DirOf(e) \in Dir
           /\ \A e \in Exec : \A k \in 1..Len(PlanOf(e).files) : PlanOf(e).files[k] \in File
<1>1. Exec \subseteq 1..N /\ N \in Nat
  BY CommandsAssumption DEF TypeOK, Exec
<1>2. \A e \in Exec : DirOf(e) \in Dir
  BY DEF Dir
<1>3. \A e \in Exec : \A k \in 1..Len(PlanOf(e).files) : PlanOf(e).files[k] \in File
  BY DEF File
<1>4. \A e \in Exec : e \in Nat /\ e # 0
  BY <1>1
<1> QED BY <1>1, <1>2, <1>3, <1>4

LEMMA LastReportFacts ==
    ASSUME TypeOK, NEW e \in Exec
    PROVE  /\ Len(PlanOf(e).files) \in Nat /\ LastReport(e) \in Int
           /\ LastReport(e) <= Len(PlanOf(e).files)
           /\ \A f \in PlanOf(e).mail :
                  \E k \in 1..Len(PlanOf(e).files) : k <= LastReport(e) /\ f = PlanOf(e).files[k]
<1>1. WellFormed(PlanOf(e))
  BY PlanFacts
<1>2. Len(PlanOf(e).files) \in Nat
  BY <1>1 DEF WellFormed
<1>3. LastReport(e) = Len(PlanOf(e).files) \/ LastReport(e) = Len(PlanOf(e).files) - 1
  <2> DEFINE n == Len(PlanOf(e).files)
             without == "xsd_errors.csv" \in {PlanOf(e).files[k] : k \in 1..n} /\ ~ opts[e].xsd
  <2>1. LastReport(e) = n - (IF without THEN 1 ELSE 0)
    BY DEF LastReport
  <2>2. n \in Nat
    BY <1>2
  <2> HIDE DEF n, without
  <2>3. LastReport(e) = n \/ LastReport(e) = n - 1
    BY <2>1, <2>2
  <2> QED BY <2>3 DEF n
<1>4. LastReport(e) \in Int /\ LastReport(e) <= Len(PlanOf(e).files)
  BY <1>2, <1>3
<1>5. ASSUME NEW f \in PlanOf(e).mail
      PROVE  \E k \in 1..Len(PlanOf(e).files) : k <= LastReport(e) /\ f = PlanOf(e).files[k]
  <2>1. PICK k \in 1..Len(PlanOf(e).files) : f = PlanOf(e).files[k] /\ f # "xsd_errors.csv"
    BY <1>1, <1>5 DEF WellFormed, FileSet
  <2>2. CASE k = Len(PlanOf(e).files) /\ LastReport(e) = k - 1
    <3>1. PICK j \in 1..Len(PlanOf(e).files) : PlanOf(e).files[j] = "xsd_errors.csv"
      <4>1. LastReport(e) # Len(PlanOf(e).files) - 0
        BY <1>2, <2>2
      <4>2. "xsd_errors.csv" \in {PlanOf(e).files[j] : j \in 1..Len(PlanOf(e).files)}
        BY <4>1 DEF LastReport
      <4> QED BY <4>2
    <3>2. j = k
      BY <3>1, <2>2, <1>1 DEF WellFormed
    <3> QED BY <3>1, <3>2, <2>1
  <2>3. CASE ~ (k = Len(PlanOf(e).files) /\ LastReport(e) = k - 1)
    BY <1>2, <1>3, <2>1, <2>3
  <2> QED BY <2>2, <2>3
<1> QED BY <1>2, <1>4, <1>5

----------------------------------------------------------------------------
(* What a step does to the executions *)

Stage == {"new", "read", "open", "stored", "write", "mail"} \union Ended

\* A step is one execution's: no other's variables change.
Moves(e) == Step(e) \/ WriteFails(e) \/ Fail(e)

LEMMA NextMoves ==
    ASSUME [Next]_vars
    PROVE  UNCHANGED vars \/ \E e \in Exec : Moves(e)
  BY DEF Next, Done, Moves

LEMMA LineStays ==
    ASSUME TypeOK, NEW e \in Exec, Moves(e)
    PROVE  /\ line' = line /\ Exec' = Exec /\ Dir' = Dir /\ File' = File
           /\ \A x \in Exec : PlanOf(x)' = PlanOf(x) /\ DirOf(x)' = DirOf(x)
<1>1. line' = line
  BY DEF Moves, Step, Start, ReadInputs, Persist, LoadPriors, WriteReport, WriteFails, AllWritten, SendMail, Fail
<1>2. Exec' = Exec /\ \A x \in Exec : PlanOf(x)' = PlanOf(x) /\ DirOf(x)' = DirOf(x)
  BY <1>1 DEF Exec, PlanOf, DirOf
<1>3. Dir' = Dir
  BY <1>1 DEF Dir, Exec, DirOf
<1>4. File' = File
  BY <1>1 DEF File, Exec, PlanOf
<1> QED BY <1>1, <1>2, <1>3, <1>4

LEMMA OthersStay ==
    ASSUME TypeOK, NEW e \in Exec, Moves(e), NEW x \in Exec, x # e
    PROVE  /\ pc'[x] = pc[x] /\ opts'[x] = opts[x] /\ next'[x] = next[x]
           /\ seen'[x] = seen[x] /\ latest'[x] = latest[x] /\ mailed'[x] = mailed[x]
  BY DEF Moves, Step, Start, ReadInputs, Persist, LoadPriors, WriteReport, WriteFails, AllWritten,
         SendMail, Fail, Goto, TypeOK

\* How an execution gets on.
LEMMA Stages ==
    ASSUME TypeOK, NEW e \in Exec, Moves(e)
    PROVE  /\ pc[e] \notin Ended /\ pc'[e] \in Stage \ {"new"}
           /\ pc'[e] = "read" => pc[e] = "new" /\ Start(e)
           /\ pc'[e] = "open" => pc[e] = "read"
           /\ pc'[e] = "stored" => pc[e] = "open"
           /\ pc'[e] = "write" => pc[e] \in {"read", "stored", "write"}
           /\ pc'[e] = "mail" => pc[e] = "write"
           /\ pc'[e] = "ok" => pc[e] \in {"write", "mail"}
<1> USE DEF Goto, TypeOK, Stage, Ended
<1>1. CASE Start(e)
  BY <1>1 DEF Start
<1>2. CASE ReadInputs(e)
  BY <1>2 DEF ReadInputs
<1>3. CASE Persist(e)
  BY <1>3 DEF Persist
<1>4. CASE LoadPriors(e)
  BY <1>4 DEF LoadPriors
<1>5. CASE WriteReport(e)
  BY <1>5 DEF WriteReport
<1>6. CASE AllWritten(e)
  BY <1>6 DEF AllWritten
<1>7. CASE SendMail(e)
  BY <1>7 DEF SendMail
<1>8. CASE WriteFails(e)
  BY <1>8 DEF WriteFails
<1>9. CASE Fail(e)
  BY <1>9 DEF Fail
<1> QED BY <1>1, <1>2, <1>3, <1>4, <1>5, <1>6, <1>7, <1>8, <1>9 DEF Moves, Step

\* Which step changes what else.
LEMMA Changes ==
    ASSUME TypeOK, NEW e \in Exec, Moves(e)
    PROVE  /\ opts' = opts \/ Start(e)
           /\ store' = store \/ Persist(e)
           /\ (seen' = seen /\ latest' = latest) \/ LoadPriors(e)
           /\ (disk' = disk /\ next' = next) \/ WriteReport(e) \/ WriteFails(e)
           /\ mailed' = mailed \/ SendMail(e)
  BY DEF Moves, Step, Start, ReadInputs, Persist, LoadPriors, WriteReport, WriteFails, AllWritten,
         SendMail, Fail

\* What a step leaves in the file it writes.
LEMMA Writes ==
    ASSUME TypeOK, NEW e \in Exec, WriteReport(e) \/ WriteFails(e), NEW d \in Dir, NEW f \in File
    PROVE  /\ disk'[d][f] # disk[d][f] =>
                 /\ d = DirOf(e) /\ f = PlanOf(e).files[next[e]]
                 /\ disk'[d][f].by = e
           /\ WriteReport(e) /\ d = DirOf(e) /\ f = PlanOf(e).files[next[e]] =>
                 disk'[d][f] = [by |-> e, whole |-> TRUE]
<1>1. PICK w \in BOOLEAN : Put(e, w) /\ (WriteReport(e) => w = TRUE)
  <2>1. CASE WriteReport(e)
    BY <2>1 DEF WriteReport
  <2>2. CASE ~ WriteReport(e)
    BY <2>2 DEF WriteFails
  <2> QED BY <2>1, <2>2
<1>2. disk \in [Dir -> [File -> [by : 0..N, whole : BOOLEAN]]]
  BY DEF TypeOK
<1>3. disk' = [disk EXCEPT ![DirOf(e)][PlanOf(e).files[next[e]]] = [by |-> e, whole |-> w]]
  BY <1>1 DEF Put
<1>4. CASE d = DirOf(e) /\ f = PlanOf(e).files[next[e]]
  <2>1. disk'[d][f] = [by |-> e, whole |-> w]
    BY <1>2, <1>3, <1>4
  <2>2. disk'[d][f].by = e
    BY <2>1
  <2>3. WriteReport(e) => disk'[d][f] = [by |-> e, whole |-> TRUE]
    BY <2>1, <1>1
  <2> QED BY <2>2, <2>3, <1>4
<1>5. CASE ~ (d = DirOf(e) /\ f = PlanOf(e).files[next[e]])
  <2>1. disk'[d][f] = disk[d][f]
    BY <1>2, <1>3, <1>5
  <2> QED BY <2>1, <1>5
<1> QED BY <1>4, <1>5

----------------------------------------------------------------------------
(* The variables keep their types *)

LEMMA CommittedExecs ==
    ASSUME TypeOK
    PROVE  /\ Len(store) \in Nat /\ \A k \in 1..Len(store) : store[k] \in Exec
           /\ \A e \in Exec : PriorOf(e) \subseteq Exec
<1>1. Len(store) \in Nat /\ \A k \in 1..Len(store) : store[k] \in Exec
  BY DEF TypeOK
<1> QED BY <1>1 DEF PriorOf, BatchesIn

\* The latest of a set of places that is not empty is one of them: the one above
\* which there is the least, by inclusion.
LEMMA LatestPlace ==
    ASSUME NEW n \in Nat, NEW S \in SUBSET (1..n), S # {}
    PROVE  (CHOOSE k \in S : \A j \in S : j <= k) \in S
<1> DEFINE Above(k) == {j \in S : j > k}
           R == StrictSubsetOrdering(S)
           T == {Above(k) : k \in S}
<1>1. IsFiniteSet(S)
  <2>1. IsFiniteSet(1..n)
    BY FS_Interval
  <2> QED BY <2>1, FS_Subset
<1>2. IsWellFoundedOn(R, SUBSET S)
  BY <1>1, FS_StrictSubsetOrderingWellFounded, FS_FiniteSubsetsOfFinite
<1>3. T \subseteq SUBSET S /\ T # {}
  OBVIOUS
<1>4. \A A, B \in SUBSET S : A \subseteq B /\ A # B => <<A, B>> \in R
  BY DEF StrictSubsetOrdering
<1> HIDE DEF R
<1>5. PICK A \in T : \A B \in T : <<B, A>> \notin R
  BY <1>2, <1>3, WFMin
<1>6. PICK k \in S : A = Above(k)
  BY <1>5
<1>7. \A j \in S : j <= k
  <2> SUFFICES ASSUME NEW j \in S, ~ (j <= k) PROVE FALSE
    OBVIOUS
  <2>1. S \subseteq Int /\ j \in Int /\ k \in Int /\ k < j
    OBVIOUS
  <2>2. Above(j) \subseteq Above(k) /\ j \in Above(k) /\ j \notin Above(j)
    <3>1. \A i \in Int : i > j => i > k
      BY <2>1
    <3>2. j > k /\ ~ (j > j)
      BY <2>1
    <3> QED BY <2>1, <3>1, <3>2
  <2>3. <<Above(j), Above(k)>> \in R
    BY <2>2, <1>4
  <2> QED BY <2>3, <1>5, <1>6
<1> QED BY <1>6, <1>7

LEMMA EarlierFacts ==
    ASSUME TypeOK, NEW e \in Exec
    PROVE  \/ LatestOf(e) = 0
           \/ \E k \in 1..Len(store) :
                  /\ LatestOf(e) = store[k] /\ k < PlaceOf(e)
<1>1. Earlier(e) \subseteq 1..Len(store) /\ Len(store) \in Nat
  BY CommittedExecs DEF Earlier, BatchesIn
<1>2. CASE LatestOf(e) # 0
  <2> DEFINE k == CHOOSE i \in Earlier(e) : \A j \in Earlier(e) : j <= i
  <2>1. Earlier(e) # {} /\ LatestOf(e) = store[k]
    BY <1>2 DEF LatestOf
  <2>2. k \in Earlier(e)
    BY <1>1, <2>1, LatestPlace
  <2> HIDE DEF k
  <2> QED BY <1>1, <2>1, <2>2 DEF Earlier
<1> QED BY <1>2

LEMMA TypeStep ==
    ASSUME TypeOK, [Next]_vars
    PROVE  TypeOK'
<1>1. CASE UNCHANGED vars
  <2>1. Exec' = Exec /\ Dir' = Dir /\ File' = File
    BY <1>1 DEF vars, Exec, Dir, File, DirOf, PlanOf
  <2> QED BY <1>1, <2>1 DEF vars, TypeOK
<1>2. ASSUME NEW e \in Exec, Moves(e)
      PROVE  TypeOK'
  <2>1. line' = line /\ Exec' = Exec /\ Dir' = Dir /\ File' = File
    BY <1>2, LineStays
  <2>2. pc' \in [Exec -> Stage]
    <3>1. pc' = pc \/ \E x : Goto(e, x)
      BY <1>2 DEF Moves, Step, Start, ReadInputs, Persist, LoadPriors, WriteReport, WriteFails,
                  AllWritten, SendMail, Fail
    <3>2. pc'[e] \in Stage /\ pc \in [Exec -> Stage]
      BY <1>2, Stages DEF TypeOK, Stage
    <3> QED BY <3>1, <3>2 DEF Goto
  <2>3. opts' \in [Exec -> [store : BOOLEAN, xsd : BOOLEAN, mail : BOOLEAN]]
    <3>1. line[e].options \subseteq [store : BOOLEAN, xsd : BOOLEAN, mail : BOOLEAN]
      BY CommandsAssumption DEF TypeOK, Exec
    <3>2. CASE Start(e)
      BY <3>1, <3>2 DEF Start, TypeOK
    <3> QED BY <3>2, <1>2, Changes DEF TypeOK
  <2>4. store' \in Seq(Exec)
    <3>1. CASE Persist(e)
      BY <3>1 DEF Persist, TypeOK
    <3> QED BY <3>1, <1>2, Changes DEF TypeOK
  <2>5. seen' \in [Exec -> SUBSET Exec] /\ latest' \in [Exec -> 0..N]
    <3>1. CASE LoadPriors(e)
      <4>1. PriorOf(e) \subseteq Exec
        BY CommittedExecs
      <4>2. LatestOf(e) \in 0..N
        BY EarlierFacts, CommittedExecs, ExecFacts
      <4> QED BY <3>1, <4>1, <4>2 DEF LoadPriors, TypeOK
    <3> QED BY <3>1, <1>2, Changes DEF TypeOK
  <2>6. next' \in [Exec -> Nat]
    <3>1. CASE WriteReport(e)
      BY <3>1 DEF WriteReport, TypeOK
    <3>2. CASE WriteFails(e)
      BY <3>2 DEF WriteFails, TypeOK
    <3> QED BY <3>1, <3>2, <1>2, Changes DEF TypeOK
  <2>7. disk' \in [Dir -> [File -> [by : 0..N, whole : BOOLEAN]]]
    <3>1. disk' = disk \/ \E w \in BOOLEAN : Put(e, w)
      BY <1>2, Changes DEF WriteReport, WriteFails
    <3>2. e \in 0..N /\ disk \in [Dir -> [File -> [by : 0..N, whole : BOOLEAN]]]
      BY ExecFacts DEF TypeOK
    <3>3. ASSUME NEW w \in BOOLEAN, Put(e, w)
          PROVE  disk' \in [Dir -> [File -> [by : 0..N, whole : BOOLEAN]]]
      <4> DEFINE v == [by |-> e, whole |-> w]
                 inner == [disk[DirOf(e)] EXCEPT ![PlanOf(e).files[next[e]]] = v]
      <4>1. v \in [by : 0..N, whole : BOOLEAN] /\ DirOf(e) \in Dir
        BY <3>2, ExecFacts
      <4>2. disk' = [disk EXCEPT ![DirOf(e)] = inner]
        BY <3>3 DEF Put
      <4> HIDE DEF v
      <4>3. inner \in [File -> [by : 0..N, whole : BOOLEAN]]
        BY <3>2, <4>1
      <4> HIDE DEF inner
      <4> QED BY <3>2, <4>1, <4>2, <4>3
    <3> QED BY <3>1, <3>2, <3>3
  <2>8. mailed' \in [Exec -> SUBSET [file : File, by : 0..N]]
    <3>1. CASE SendMail(e) /\ mailed' # mailed
      <4> DEFINE m == {[file |-> f, by |-> On(DirOf(e), f).by] : f \in PlanOf(e).mail}
      <4>1. \A f \in PlanOf(e).mail : On(DirOf(e), f) # Missing
        BY <3>1 DEF SendMail
      <4>2. \A f \in PlanOf(e).mail : f \in File /\ On(DirOf(e), f).by \in 0..N
        BY <4>1, ExecFacts DEF On, TypeOK
      <4>3. m \subseteq [file : File, by : 0..N]
        BY <4>2
      <4>4. mailed' = [mailed EXCEPT ![e] = m]
        BY <3>1 DEF SendMail
      <4> HIDE DEF m
      <4> QED BY <4>3, <4>4 DEF TypeOK
    <3> QED BY <3>1, <1>2, Changes DEF TypeOK
  <2> QED BY <2>1, <2>2, <2>3, <2>4, <2>5, <2>6, <2>7, <2>8 DEF TypeOK, Stage
<1> QED BY <1>1, <1>2, NextMoves

\* Every variable has its type, whatever is executed.
THEOREM CommandsTypeOK == Spec => []TypeOK
<1>1. Init => TypeOK
  <2> SUFFICES ASSUME Init PROVE TypeOK
    OBVIOUS
  <2>1. line \in Lines /\ N \in Nat
    BY CommandsAssumption DEF Init
  <2> QED BY <2>1 DEF Init, TypeOK, NoOptions, Missing, Ended
<1>2. TypeOK /\ [Next]_vars => TypeOK'
  BY TypeStep
<1> QED BY <1>1, <1>2, PTL DEF Spec

----------------------------------------------------------------------------
(* The parts of the invariant, one lemma each *)

\* A directory is given to a command after those before it ended.
LEMMA TurnStep ==
    ASSUME TypeOK, InTurn, [Next]_vars
    PROVE  InTurn'
<1>1. CASE UNCHANGED vars
  BY <1>1 DEF vars, InTurn, Exec, DirOf, Started
<1>2. ASSUME NEW e \in Exec, Moves(e)
      PROVE  InTurn'
  <2> SUFFICES ASSUME NEW d \in Exec, NEW g \in Exec, d < g, DirOf(d) = DirOf(g), pc'[g] # "new"
               PROVE  pc'[d] \in Ended
    BY <1>2, LineStays DEF InTurn, Started
  <2>1. CASE pc[g] # "new"
    <3>1. pc[d] \in Ended
      BY <2>1 DEF InTurn, Started
    <3>2. d # e
      BY <3>1, <1>2, Stages
    <3> QED BY <3>1, <3>2, <1>2, OthersStay
  <2>2. CASE pc[g] = "new"
    <3>1. g = e
      BY <2>2, <1>2, OthersStay
    <3>2. Start(e) \/ pc'[e] # "read"
      BY <1>2, Stages
    <3>3. Start(e)
      BY <2>2, <3>1, <1>2 DEF Moves, Step, ReadInputs, Persist, LoadPriors, WriteReport, WriteFails,
                               AllWritten, SendMail, Fail
    <3>4. pc[d] \in Ended
      BY <3>1, <3>3 DEF Start
    <3> QED BY <3>1, <3>4, <1>2, OthersStay, ExecFacts
  <2> QED BY <2>1, <2>2
<1> QED BY <1>1, <1>2, NextMoves

\* A commit comes after every commit of its directory, and is the first of its
\* execution.
LEMMA CommitIsNew ==
    ASSUME TypeOK, InTurn, StoreOrder, NEW e \in Exec, pc[e] = "open", NEW k \in 1..Len(store)
    PROVE  store[k] # e /\ (DirOf(store[k]) = DirOf(e) => store[k] < e)
<1>1. store[k] \in Exec /\ pc[store[k]] \notin {"new", "read", "open"}
  BY CommittedExecs DEF StoreOrder
<1>2. store[k] # e
  BY <1>1
<1>3. ASSUME DirOf(store[k]) = DirOf(e), e < store[k]
      PROVE  FALSE
  BY <1>1, <1>3 DEF InTurn, Started, Ended
<1> QED BY <1>1, <1>2, <1>3, ExecFacts

LEMMA StoreStep ==
    ASSUME TypeOK, InTurn, StoreOrder, Stored, [Next]_vars
    PROVE  StoreOrder' /\ Stored' /\ \A d \in Exec : pc[d] # "open" => (d \in Committed' <=> d \in Committed)
<1>0. Len(store) \in Nat /\ \A k \in 1..Len(store) : store[k] \in Exec
  BY CommittedExecs
<1>1. CASE UNCHANGED vars
  BY <1>1 DEF vars, StoreOrder, Stored, Committed, Exec, DirOf, PlanOf
<1>2. ASSUME NEW e \in Exec, Moves(e), store' = store
      PROVE  StoreOrder' /\ Stored' /\ \A d \in Exec : pc[d] # "open" => (d \in Committed' <=> d \in Committed)
  <2>1. \A k \in 1..Len(store) : pc'[store[k]] \notin {"new", "read", "open"}
    <3> SUFFICES ASSUME NEW k \in 1..Len(store) PROVE pc'[store[k]] \notin {"new", "read", "open"}
      OBVIOUS
    <3>1. store[k] \in Exec /\ pc[store[k]] \notin {"new", "read", "open"}
      BY <1>0 DEF StoreOrder
    <3>2. CASE store[k] = e
      BY <3>1, <3>2, <1>2, Stages
    <3>3. CASE store[k] # e
      BY <3>1, <3>3, <1>2, OthersStay
    <3> QED BY <3>2, <3>3
  <2>2. Committed' = Committed
    BY <1>2 DEF Committed
  <2>3. ASSUME NEW g \in Exec, pc'[g] = "stored", PlanOf(g).table # None
        PROVE  g \in Committed
    <3>1. CASE g = e
      <4>1. Persist(e) \/ pc[e] = "stored"
        BY <3>1, <2>3, <1>2, Stages DEF Moves, Step, Start, ReadInputs, LoadPriors, WriteReport,
                                        WriteFails, AllWritten, SendMail, Fail, Goto, TypeOK, Ended
      <4>2. Persist(e) => store' # store
        <5> SUFFICES ASSUME Persist(e) PROVE store' # store
          OBVIOUS
        <5>1. store' = Append(store, e)
          BY <3>1, <2>3 DEF Persist
        <5> QED BY <5>1, <1>0 DEF TypeOK
      <4> QED BY <3>1, <2>3, <4>1, <4>2, <1>2 DEF Stored
    <3>2. CASE g # e
      BY <3>2, <2>3, <1>2, OthersStay DEF Stored
    <3> QED BY <3>1, <3>2
  <2>4. StoreOrder'
    BY <2>1, <1>0, <1>2, LineStays DEF StoreOrder
  <2>5. Stored'
    BY <2>2, <2>3, <1>2, LineStays DEF Stored
  <2> QED BY <2>2, <2>4, <2>5
<1>3. ASSUME NEW e \in Exec, Persist(e), store' # store
      PROVE  StoreOrder' /\ Stored' /\ \A d \in Exec : pc[d] # "open" => (d \in Committed' <=> d \in Committed)
  <2> DEFINE n == Len(store) + 1
  <2>1. /\ pc[e] = "open" /\ store' = Append(store, e)
        /\ pc' = [pc EXCEPT ![e] = "stored"]
    BY <1>3 DEF Persist, Goto
  <2>2. /\ Len(store') = n /\ store'[n] = e /\ n \in Nat
        /\ n \in 1..n /\ \A k \in 1..Len(store) : k \in 1..n /\ store'[k] = store[k]
        /\ \A k \in 1..n : k \in 1..Len(store) \/ k = n
    BY <2>1, <1>0 DEF TypeOK
  <2>3. Moves(e)
    BY <1>3 DEF Moves, Step
  <2> HIDE DEF n
  <2>4. \A k \in 1..n : store'[k] \in Exec /\ (k # n => store'[k] = store[k] /\ store'[k] # e)
    BY <2>1, <2>2, <1>0, CommitIsNew
  <2>5. \A k \in 1..n : pc'[store'[k]] \notin {"new", "read", "open"}
    BY <2>1, <2>2, <2>4 DEF StoreOrder, TypeOK
  <2>6. \A j, k \in 1..n : store'[j] = store'[k] => j = k
    BY <2>2, <2>4 DEF StoreOrder
  <2>7. ASSUME NEW j \in 1..n, NEW k \in 1..n, j < k, DirOf(store'[j]) = DirOf(store'[k])
        PROVE  store'[j] < store'[k]
    <3>1. j \in 1..Len(store) /\ store'[j] = store[j]
      BY <2>2, <2>7, <1>0
    <3>2. CASE k = n
      BY <2>1, <2>2, <3>1, <3>2, <2>7, CommitIsNew
    <3>3. CASE k # n
      BY <2>2, <3>1, <3>3, <2>7 DEF StoreOrder
    <3> QED BY <3>2, <3>3
  <2>8. StoreOrder'
    BY <2>2, <2>3, <2>4, <2>5, <2>6, <2>7, LineStays DEF StoreOrder
  <2>9. \A d : d \in Committed' <=> d \in Committed \/ d = e
    <3>1. Committed' = {store'[k] : k \in 1..n}
      BY <2>2 DEF Committed
    <3>2. ASSUME NEW d, d \in Committed'
          PROVE  d \in Committed \/ d = e
      <4>1. PICK k \in 1..n : d = store'[k]
        BY <3>1, <3>2
      <4> QED BY <4>1, <2>2 DEF Committed
    <3>3. ASSUME NEW d, d \in Committed
          PROVE  d \in Committed'
      <4>1. PICK k \in 1..Len(store) : d = store[k]
        BY <3>3 DEF Committed
      <4> QED BY <4>1, <3>1, <2>2
    <3> QED BY <3>1, <3>2, <3>3, <2>2
  <2>10. ASSUME NEW g \in Exec, pc'[g] = "stored", PlanOf(g).table # None
         PROVE  g \in Committed'
    BY <2>1, <2>9, <2>10 DEF Stored, TypeOK
  <2>11. Stored'
    BY <2>3, <2>10, LineStays DEF Stored
  <2> QED BY <2>1, <2>8, <2>9, <2>11
<1> QED BY <1>1, <1>2, <1>3, NextMoves, Changes

\* The loads return other batches: a search of the own table stops below the own
\* scan_id, and a search without that bound is in another table.
LEMMA PriorsAreOthers ==
    ASSUME TypeOK, StoreOrder, NEW e \in Exec, PlanOf(e).key # None
    PROVE  e \notin PriorOf(e)
<1> SUFFICES ASSUME e \in PriorOf(e) PROVE FALSE
  OBVIOUS
<1>1. PICK k \in 1..Len(store) :
          /\ store[k] = e /\ PlanOf(store[k]).table = PlanOf(e).key
          /\ PlanOf(e).own => k < PlaceOf(e)
  BY DEF PriorOf, BatchesIn
<1>2. WellFormed(PlanOf(e))
  BY PlanFacts
<1>3. PlanOf(e).own
  BY <1>1, <1>2 DEF WellFormed
<1>4. PlaceOf(e) = k
  BY <1>1 DEF PlaceOf, StoreOrder
<1> QED BY <1>1, <1>3, <1>4, CommittedExecs

LEMMA LatestIsOther ==
    ASSUME TypeOK, StoreOrder, NEW e \in Exec
    PROVE  LatestOf(e) # e
<1> SUFFICES ASSUME LatestOf(e) = e PROVE FALSE
  OBVIOUS
<1>1. PICK k \in 1..Len(store) : store[k] = e /\ k < PlaceOf(e)
  BY EarlierFacts, ExecFacts
<1>2. PlaceOf(e) = k
  BY <1>1 DEF PlaceOf, StoreOrder
<1> QED BY <1>1, <1>2, CommittedExecs

LEMMA PriorStep ==
    ASSUME TypeOK, StoreOrder, NeverItsOwnPrior, [Next]_vars
    PROVE  NeverItsOwnPrior'
<1>1. CASE UNCHANGED vars
  BY <1>1 DEF vars, NeverItsOwnPrior, Exec
<1>2. ASSUME NEW e \in Exec, Moves(e)
      PROVE  NeverItsOwnPrior'
  <2> SUFFICES ASSUME NEW g \in Exec PROVE g \notin seen'[g] /\ latest'[g] # g
    BY <1>2, LineStays DEF NeverItsOwnPrior
  <2>1. CASE g = e /\ LoadPriors(e)
    <3>1. seen'[e] = (IF PlanOf(e).key = None THEN {} ELSE PriorOf(e)) /\ latest'[e] = LatestOf(e)
      BY <2>1 DEF LoadPriors, TypeOK
    <3> QED BY <2>1, <3>1, PriorsAreOthers, LatestIsOther
  <2>2. CASE ~ (g = e /\ LoadPriors(e))
    BY <2>2, <1>2, Changes, OthersStay DEF NeverItsOwnPrior
  <2> QED BY <2>1, <2>2
<1> QED BY <1>1, <1>2, NextMoves

\* A repetition searches its own table below its own scan_id, which is above that
\* of every earlier execution in its directory.
LEMMA PriorsAreCommitted ==
    ASSUME TypeOK, StoreOrder, NEW d \in Exec, NEW e \in Exec, e \in Committed,
           d < e, DirOf(d) = DirOf(e), PlanOf(d) = PlanOf(e), PlanOf(e).own
    PROVE  d \in PriorOf(e) <=> d \in Committed
<1>1. WellFormed(PlanOf(e))
  BY PlanFacts
<1>2. PICK j \in 1..Len(store) : store[j] = e
  BY DEF Committed
<1>3. PlaceOf(e) = j
  BY <1>2 DEF PlaceOf, StoreOrder
<1>4. ASSUME NEW k \in 1..Len(store), store[k] = d
      PROVE  d \in PriorOf(e)
  <2>1. Len(store) \in Nat /\ d \in Int /\ e \in Int
    BY CommittedExecs, ExecFacts
  <2>2. ~ (j < k)
    BY <1>2, <1>4, <2>1 DEF StoreOrder
  <2>3. k < j
    BY <2>1, <2>2, <1>2, <1>4
  <2>4. PlanOf(store[k]).table = PlanOf(e).key
    BY <1>1, <1>4 DEF WellFormed
  <2> QED BY <1>3, <1>4, <2>3, <2>4 DEF PriorOf, BatchesIn
<1>5. d \in PriorOf(e) => d \in Committed
  BY DEF PriorOf, BatchesIn, Committed
<1> QED BY <1>4, <1>5 DEF Committed

LEMMA RepetitionStep ==
    ASSUME TypeOK, InTurn, StoreOrder, Stored, RepetitionSeesCommitted, [Next]_vars
    PROVE  RepetitionSeesCommitted'
<1>1. CASE UNCHANGED vars
  BY <1>1 DEF vars, RepetitionSeesCommitted, Exec, DirOf, PlanOf, Committed
<1>2. ASSUME NEW e \in Exec, Moves(e)
      PROVE  RepetitionSeesCommitted'
  <2> SUFFICES ASSUME NEW d \in Exec, NEW g \in Exec,
                      d < g, DirOf(d) = DirOf(g), PlanOf(d) = PlanOf(g), PlanOf(g).own,
                      pc'[g] \in {"write", "mail", "ok"}, opts'[g].store
               PROVE  d \in seen'[g] <=> d \in Committed'
    <3>1. Exec' = Exec /\ \A x \in Exec : PlanOf(x)' = PlanOf(x) /\ DirOf(x)' = DirOf(x)
      BY <1>2, LineStays
    <3> QED BY <3>1 DEF RepetitionSeesCommitted
  <2>1. pc[g] # "new"
    <3>1. CASE g = e
      BY <3>1, <1>2, Stages
    <3>2. CASE g # e
      BY <3>2, <1>2, OthersStay
    <3> QED BY <3>1, <3>2
  <2>2. pc[d] \in Ended
    BY <2>1 DEF InTurn, Started
  <2>3. d \in Committed' <=> d \in Committed
    BY <2>2, StoreStep DEF Ended
  <2>4. CASE g = e /\ LoadPriors(e)
    <3>1. pc[e] = "stored" /\ seen'[e] = (IF PlanOf(e).key = None THEN {} ELSE PriorOf(e))
      BY <2>4 DEF LoadPriors, TypeOK
    <3>2. PlanOf(e).key # None /\ PlanOf(e).table # None
      BY <2>4, PlanFacts DEF WellFormed
    <3>3. e \in Committed
      BY <3>1, <3>2 DEF Stored
    <3> QED BY <2>3, <2>4, <3>1, <3>2, <3>3, PriorsAreCommitted
  <2>5. CASE g = e /\ ~ LoadPriors(e)
    <3>1. seen' = seen /\ opts' = opts
      BY <2>1, <2>5, <1>2, Changes DEF Start
    <3>2. pc[e] # "read"
      <4> SUFFICES ASSUME pc[e] = "read" PROVE FALSE
        OBVIOUS
      <4>1. ReadInputs(e)
        BY <2>5, <1>2 DEF Moves, Step, Start, Persist, LoadPriors, WriteReport,
                          WriteFails, AllWritten, SendMail, Fail, Goto, TypeOK
      <4> QED BY <4>1, <2>5, <3>1 DEF ReadInputs, Goto, TypeOK
    <3>3. pc[e] # "stored"
      BY <2>5, <1>2 DEF Moves, Step, Start, ReadInputs, Persist, WriteReport,
                        WriteFails, AllWritten, SendMail, Fail, Goto, TypeOK
    <3>4. pc[e] \in {"write", "mail", "ok"}
      BY <2>5, <3>2, <3>3, <1>2, Stages
    <3> QED BY <2>3, <2>5, <3>1, <3>4 DEF RepetitionSeesCommitted
  <2>6. CASE g # e
    BY <2>3, <2>6, <1>2, OthersStay DEF RepetitionSeesCommitted
  <2> QED BY <2>4, <2>5, <2>6
<1> QED BY <1>1, <1>2, NextMoves

LEMMA DiskStep ==
    ASSUME TypeOK, DiskOwned, [Next]_vars
    PROVE  DiskOwned'
<1>1. CASE UNCHANGED vars
  BY <1>1 DEF vars, DiskOwned, Exec, Dir, File, DirOf, PlanOf, Started
<1>2. ASSUME NEW e \in Exec, Moves(e)
      PROVE  DiskOwned'
  <2> SUFFICES ASSUME NEW d \in Dir, NEW f \in File, disk'[d][f].by # 0
               PROVE  /\ disk'[d][f].by \in Exec /\ DirOf(disk'[d][f].by) = d
                      /\ pc'[disk'[d][f].by] # "new"
    BY <1>2, LineStays DEF DiskOwned, Started
  <2>1. CASE disk'[d][f] = disk[d][f]
    <3> DEFINE g == disk[d][f].by
    <3>1. g \in Exec /\ DirOf(g) = d /\ pc[g] # "new"
      BY <2>1 DEF DiskOwned, Started
    <3>2. pc'[g] # "new"
      BY <3>1, <1>2, Stages, OthersStay
    <3> QED BY <2>1, <3>1, <3>2
  <2>2. CASE disk'[d][f] # disk[d][f]
    <3>1. WriteReport(e) \/ WriteFails(e)
      BY <2>2, <1>2, Changes
    <3>2. disk'[d][f].by = e /\ d = DirOf(e)
      BY <2>2, <3>1, Writes
    <3> QED BY <3>2, <1>2, Stages
  <2> QED BY <2>1, <2>2
<1> QED BY <1>1, <1>2, NextMoves

\* A report an execution wrote is overwritten only by a later execution, which
\* waits for it to end.
LEMMA WrittenStep ==
    ASSUME TypeOK, InTurn, WrittenSoFar, [Next]_vars
    PROVE  WrittenSoFar'
<1>1. CASE UNCHANGED vars
  <2>1. Exec' = Exec /\ \A g \in Exec : PlanOf(g)' = PlanOf(g) /\ DirOf(g)' = DirOf(g)
    BY <1>1 DEF vars, Exec, DirOf, PlanOf
  <2>2. \A g \in Exec : LastReport(g)' = LastReport(g)
    BY <1>1 DEF vars, PlanOf, LastReport
  <2> QED BY <1>1, <2>1, <2>2 DEF vars, WrittenSoFar
<1>2. ASSUME NEW e \in Exec, Moves(e)
      PROVE  WrittenSoFar'
  <2> DEFINE Early == {"new", "read", "open", "stored"}
             Kept(g, k) == \/ disk'[DirOf(g)][PlanOf(g).files[k]] = [by |-> g, whole |-> TRUE]
                           \/ disk'[DirOf(g)][PlanOf(g).files[k]].by > g
  <2>1. ASSUME NEW g \in Exec, pc'[g] \in Early
        PROVE  next'[g] = 1
    <3>1. CASE g = e
      <4>1. pc[e] \in Early
        BY <3>1, <2>1, <1>2, Stages DEF Stage, Ended
      <4>2. next' = next
        BY <4>1, <1>2, Changes DEF WriteReport, WriteFails
      <4> QED BY <3>1, <4>1, <4>2 DEF WrittenSoFar
    <3>2. CASE g # e
      BY <3>2, <2>1, <1>2, OthersStay DEF WrittenSoFar
    <3> QED BY <3>1, <3>2
  <2>2. ASSUME NEW g \in Exec, pc'[g] \in {"mail", "ok"}
        PROVE  next'[g] > LastReport(g)'
    <3>1. CASE g = e
      <4>1. pc[e] \in {"write", "mail"} /\ opts' = opts
        BY <3>1, <2>2, <1>2, Stages, Changes DEF Start, Goto, TypeOK, Ended
      <4>2. LastReport(g)' = LastReport(g)
        BY <4>1, <1>2, LineStays DEF LastReport
      <4>3. CASE AllWritten(e)
        BY <3>1, <4>2, <4>3 DEF AllWritten
      <4>4. CASE ~ AllWritten(e)
        <5>1. pc[e] = "mail"
          BY <4>1, <4>4, <3>1, <2>2, <1>2 DEF Moves, Step, Start, ReadInputs, Persist, LoadPriors,
                WriteReport, WriteFails, SendMail, Fail, Goto, TypeOK, Ended
        <5>2. next' = next
          BY <5>1, <1>2, Changes DEF WriteReport, WriteFails
        <5> QED BY <3>1, <4>2, <5>1, <5>2 DEF WrittenSoFar
      <4> QED BY <4>3, <4>4
    <3>2. CASE g # e
      <4>1. LastReport(g)' = LastReport(g)
        BY <3>2, <1>2, OthersStay, LineStays DEF LastReport
      <4> QED BY <3>2, <4>1, <2>2, <1>2, OthersStay DEF WrittenSoFar
    <3> QED BY <3>1, <3>2
  <2>3. ASSUME NEW g \in Exec, pc'[g] # "failed", NEW k \in 1..Len(PlanOf(g).files), k < next'[g]
        PROVE  Kept(g, k)
    <3> DEFINE f == PlanOf(g).files[k]
    <3>1. DirOf(g) \in Dir /\ f \in File /\ g \in Nat /\ e \in Nat
      BY ExecFacts
    <3>2. pc[g] # "failed"
      BY <2>3, <1>2, Stages, OthersStay DEF Ended
    <3>3. ASSUME k < next[g], disk'[DirOf(g)][f] = disk[DirOf(g)][f]
          PROVE  Kept(g, k)
      BY <3>2, <3>3 DEF WrittenSoFar
    <3>4. CASE g = e /\ WriteReport(e)
      <4>1. next'[e] = next[e] + 1 /\ next[e] \in Nat
        BY <3>4 DEF WriteReport, TypeOK
      <4>2. CASE k = next[e]
        BY <3>1, <3>4, <4>2, Writes
      <4>3. CASE k # next[e]
        <5>1. k < next[g]
          BY <2>3, <3>4, <4>1, <4>3, PlanFacts
        <5>2. CASE disk'[DirOf(g)][f] # disk[DirOf(g)][f]
          BY <3>1, <3>4, <5>2, Writes
        <5> QED BY <5>1, <5>2, <3>3
      <4> QED BY <4>2, <4>3
    <3>5. CASE g = e /\ ~ WriteReport(e)
      <4>1. ~ WriteFails(e)
        BY <2>3, <3>5 DEF WriteFails, Goto, TypeOK
      <4>2. disk' = disk /\ next' = next
        BY <3>5, <4>1, <1>2, Changes
      <4> QED BY <4>2, <3>3, <2>3
    <3>6. CASE g # e
      <4>1. next'[g] = next[g]
        BY <3>6, <1>2, OthersStay
      <4>2. CASE disk'[DirOf(g)][f] # disk[DirOf(g)][f]
        <5>1. WriteReport(e) \/ WriteFails(e)
          BY <4>2, <1>2, Changes
        <5>2. DirOf(g) = DirOf(e) /\ disk'[DirOf(g)][f].by = e
          <6>1. ASSUME NEW d \in Dir, NEW h \in File, disk'[d][h] # disk[d][h]
                PROVE  d = DirOf(e) /\ disk'[d][h].by = e
            BY <5>1, <6>1, Writes
          <6> QED BY <3>1, <4>2, <6>1
        <5>3. pc[g] # "new"
          <6>1. Len(PlanOf(g).files) \in Nat /\ k \in Int /\ 1 <= k /\ k < next[g]
            BY <2>3, <4>1, LastReportFacts
          <6>2. pc[g] = "new" => next[g] = 1
            BY DEF WrittenSoFar
          <6> QED BY <6>1, <6>2
        <5>4. ~ (e < g)
          BY <5>2, <5>3, <1>2, Stages DEF InTurn, Started
        <5> QED BY <3>1, <3>6, <5>2, <5>4
      <4> QED BY <4>1, <4>2, <3>3, <2>3
    <3> QED BY <3>4, <3>5, <3>6
  <2> HIDE DEF Early, Kept
  <2>4. /\ Exec' = Exec
        /\ \A g \in Exec : PlanOf(g)' = PlanOf(g) /\ DirOf(g)' = DirOf(g)
    BY <1>2, LineStays
  <2> QED BY <2>1, <2>2, <2>3, <2>4 DEF WrittenSoFar, Early, Kept
<1> QED BY <1>1, <1>2, NextMoves

\* While an execution waits to send its e-mail, its reports are its own.
LEMMA MailFilesAreOwn ==
    ASSUME TypeOK, InTurn, DiskOwned, WrittenSoFar, NEW e \in Exec, pc[e] = "mail",
           NEW f \in PlanOf(e).mail
    PROVE  On(DirOf(e), f) = [by |-> e, whole |-> TRUE]
<1>1. PICK k \in 1..Len(PlanOf(e).files) : k <= LastReport(e) /\ f = PlanOf(e).files[k]
  BY LastReportFacts
<1>2. k < next[e]
  <2>1. next[e] > LastReport(e) /\ next[e] \in Nat /\ LastReport(e) \in Int
    BY LastReportFacts DEF WrittenSoFar, TypeOK
  <2>2. k \in Int
    BY LastReportFacts
  <2> QED BY <2>1, <2>2, <1>1
<1>3. f \in File /\ DirOf(e) \in Dir
  BY <1>1, ExecFacts
<1>4. \/ disk[DirOf(e)][f] = [by |-> e, whole |-> TRUE]
      \/ disk[DirOf(e)][f].by > e
  BY <1>1, <1>2 DEF WrittenSoFar
<1>5. ~ (disk[DirOf(e)][f].by > e)
  <2> SUFFICES ASSUME disk[DirOf(e)][f].by > e PROVE FALSE
    OBVIOUS
  <2> DEFINE g == disk[DirOf(e)][f].by
  <2>1. e \in Nat /\ e # 0 /\ g \in 0..N /\ N \in Nat
    BY <1>3, ExecFacts DEF TypeOK
  <2>2. g # 0 /\ e < g
    BY <2>1
  <2>3. g \in Exec /\ DirOf(g) = DirOf(e) /\ pc[g] # "new"
    BY <2>2, <1>3 DEF DiskOwned, Started
  <2>4. pc[e] \in Ended
    BY <2>2, <2>3 DEF InTurn, Started
  <2> QED BY <2>4 DEF Ended
<1> QED BY <1>3, <1>4, <1>5 DEF On

LEMMA MailStep ==
    ASSUME TypeOK, InTurn, DiskOwned, WrittenSoFar, Mailed, [Next]_vars
    PROVE  Mailed'
<1>1. CASE UNCHANGED vars
  BY <1>1 DEF vars, Mailed, Exec, PlanOf
<1>2. ASSUME NEW e \in Exec, Moves(e)
      PROVE  Mailed'
  <2> SUFFICES ASSUME NEW g \in Exec, pc'[g] = "ok", opts'[g].mail
               PROVE  mailed'[g] = {[file |-> f, by |-> g] : f \in PlanOf(g).mail}
    BY <1>2, LineStays DEF Mailed
  <2>1. CASE g # e
    BY <2>1, <1>2, OthersStay DEF Mailed
  <2>2. CASE g = e
    <3>1. pc[e] \in {"write", "mail"} /\ opts' = opts
      BY <2>2, <1>2, Stages, Changes DEF Start, Goto, TypeOK, Ended
    <3>2. ~ AllWritten(e)
      BY <2>2, <3>1 DEF AllWritten, Goto, TypeOK
    <3>3. SendMail(e)
      BY <2>2, <3>1, <3>2, <1>2 DEF Moves, Step, Start, ReadInputs, Persist, LoadPriors,
            WriteReport, WriteFails, Fail, Goto, TypeOK, Ended
    <3>4. mailed'[e] = {[file |-> f, by |-> On(DirOf(e), f).by] : f \in PlanOf(e).mail}
      BY <2>2, <3>3 DEF SendMail, Goto, TypeOK
    <3>5. \A f \in PlanOf(e).mail : On(DirOf(e), f).by = e
      BY <3>3, MailFilesAreOwn DEF SendMail
    <3> QED BY <2>2, <3>4, <3>5
  <2> QED BY <2>1, <2>2
<1> QED BY <1>1, <1>2, NextMoves

----------------------------------------------------------------------------
(* The theorems *)

LEMMA InitInv == Init => CommandsInv
<1> SUFFICES ASSUME Init PROVE CommandsInv
  OBVIOUS
<1>1. TypeOK
  <2>1. line \in Lines /\ N \in Nat
    BY CommandsAssumption DEF Init
  <2> QED BY <2>1 DEF Init, TypeOK, NoOptions, Missing, Ended
<1>2. /\ \A e \in Exec : pc[e] = "new" /\ seen[e] = {} /\ latest[e] = 0 /\ next[e] = 1
      /\ Len(store) = 0
      /\ \A d \in Dir, f \in File : disk[d][f].by = 0
  BY DEF Init, Missing
<1>3. InTurn /\ Stored /\ NeverItsOwnPrior /\ RepetitionSeesCommitted /\ Mailed
  BY <1>2, ExecFacts, <1>1
  DEF InTurn, Started, Stored, NeverItsOwnPrior, RepetitionSeesCommitted, Mailed
<1>4. StoreOrder
  BY <1>2 DEF StoreOrder
<1>5. DiskOwned
  BY <1>2 DEF DiskOwned
<1>6. WrittenSoFar
  <2>1. \A k \in Nat : k < 1 => k = 0
    OBVIOUS
  <2>2. \A e \in Exec : Len(PlanOf(e).files) \in Nat
    BY <1>1, LastReportFacts
  <2>3. \A e \in Exec : \A k \in 1..Len(PlanOf(e).files) : ~ (k < next[e])
    BY <1>2, <2>2
  <2> QED BY <1>2, <2>3 DEF WrittenSoFar
<1> QED BY <1>1, <1>3, <1>4, <1>5, <1>6 DEF CommandsInv

LEMMA InvStep == CommandsInv /\ [Next]_vars => CommandsInv'
<1> SUFFICES ASSUME CommandsInv, [Next]_vars PROVE CommandsInv'
  OBVIOUS
<1>1. /\ TypeOK /\ InTurn /\ StoreOrder /\ Stored /\ NeverItsOwnPrior
      /\ RepetitionSeesCommitted /\ DiskOwned /\ WrittenSoFar /\ Mailed
  BY DEF CommandsInv
<1> QED BY <1>1, TypeStep, TurnStep, StoreStep, PriorStep, RepetitionStep, DiskStep, WrittenStep,
           MailStep DEF CommandsInv

LEMMA InvAlways == Spec => []CommandsInv
  BY InitInv, InvStep, PTL DEF Spec

\* No check compares a batch with itself, whatever is executed, in whatever
\* order and wherever it fails: load_prior_* is called below the own scan_id, or
\* on a table the command does not persist to.
THEOREM NoBatchIsItsOwnPrior == Spec => []NeverItsOwnPrior
<1>1. CommandsInv => NeverItsOwnPrior
  BY DEF CommandsInv
<1> QED BY <1>1, InvAlways, PTL

\* A repeated scan compares with what a failed one committed, and with nothing a
\* failed one did not commit.
THEOREM RepetitionComparesWithCommitted == Spec => []RepetitionSeesCommitted
<1>1. CommandsInv => RepetitionSeesCommitted
  BY DEF CommandsInv
<1> QED BY <1>1, InvAlways, PTL

\* A command that succeeded wrote each of its reports to its end, and only a
\* later execution in its directory replaced one.
THEOREM SuccessMeansComplete == Spec => []OkMeansComplete
<1>1. CommandsInv => OkMeansComplete
  <2> SUFFICES ASSUME CommandsInv, NEW e \in Exec, pc[e] = "ok", NEW f \in FilesOf(e)
               PROVE  \/ disk[DirOf(e)][f] = [by |-> e, whole |-> TRUE]
                      \/ disk[DirOf(e)][f].by > e
    BY DEF OkMeansComplete
  <2>1. TypeOK /\ WrittenSoFar
    BY DEF CommandsInv
  <2>2. PICK k \in 1..LastReport(e) : f = PlanOf(e).files[k]
    BY DEF FilesOf
  <2>3. /\ LastReport(e) \in Int /\ Len(PlanOf(e).files) \in Nat
        /\ LastReport(e) <= Len(PlanOf(e).files)
    BY <2>1, LastReportFacts
  <2>4. k \in 1..Len(PlanOf(e).files)
    BY <2>2, <2>3
  <2>5. next[e] > LastReport(e) /\ next[e] \in Nat
    BY <2>1 DEF WrittenSoFar, TypeOK
  <2>6. k < next[e]
    BY <2>2, <2>3, <2>5
  <2> QED BY <2>1, <2>2, <2>4, <2>6 DEF WrittenSoFar
<1> QED BY <1>1, InvAlways, PTL

\* The e-mail is about the execution that sends it.
THEOREM MailIsOfItsExecution == Spec => []MailIsOwn
<1>1. CommandsInv => MailIsOwn
  BY MailFilesAreOwn DEF CommandsInv, MailIsOwn, Mailed
<1> QED BY <1>1, InvAlways, PTL
================================================================================
