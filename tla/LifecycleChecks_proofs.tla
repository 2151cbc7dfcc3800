------------------------ MODULE LifecycleChecks_proofs ------------------------
(***************************************************************************)
(* Theorems about LifecycleChecks for any batches, any number of scans and *)
(* any units of time: what a scan sees of the history, and what the checks *)
(* of all scans together say of it.                                        *)
(***************************************************************************)
EXTENDS LifecycleChecks, TLAPS, FiniteSetTheorems

----------------------------------------------------------------------------
(* Rows, as read and as stored *)

LEMMA Kinds ==
    /\ RecordKind \union SnapshotKind \union {"margin_activity"} = AnyKind
    /\ RecordKind \intersect SnapshotKind = {}
    /\ "margin_activity" \notin RecordKind \union SnapshotKind
    /\ \A k \in RecordKind : k # "sftr" <=> k = "emir"
  BY DEF RecordKind, SnapshotKind, AnyKind

LEMMA BatchFacts ==
    ASSUME TypeOK, NEW n \in Scans
    PROVE  /\ batches[n] \in Batches[kind] /\ batches[n] \in Seq(Rows(batches[n]))
           /\ Len(batches[n]) \in Nat /\ DOMAIN batches[n] = 1..Len(batches[n])
<1>1. batches[n] \in Batches[kind] /\ kind \in AnyKind
  BY DEF TypeOK, Scans
<1> QED BY <1>1, RowsAssumption

LEMMA RecordRowFacts ==
    ASSUME TypeOK, kind \in RecordKind, NEW n \in Scans, NEW r \in Rows(batches[n])
    PROVE  r \in [key : {r.key}, action : {r.action},
                  valuation : Int \union {None}, termination : Int \union {None}]
  BY BatchFacts, RowsAssumption

LEMMA MarginRowFacts ==
    ASSUME TypeOK, kind = "margin_activity", NEW n \in Scans, NEW r \in Rows(batches[n])
    PROVE  r \in [key : {r.key}, event : {r.event}, reported : {r.reported}, margin : Int \union {None}]
  BY BatchFacts, RowsAssumption

LEMMA TimeFacts ==
    /\ \A t \in Int : Truncated(t) \in Int
    /\ \A t \in Int : t \div Day \in Int
    /\ Truncated(None) = None
<1>1. \A t \in Int : t \div Second \in Int /\ t \div Day \in Int
  BY LifecycleAssumption
<1>2. \A t \in Int : (t \div Second) * Second \in Int
  BY <1>1, LifecycleAssumption
<1> QED BY <1>1, <1>2, RowsAssumption DEF Truncated

\* Storing a row keeps its key and all but its times.
LEMMA StoredFacts ==
    ASSUME TypeOK, NEW n \in Scans, NEW r \in Rows(batches[n])
    PROVE  /\ Stored(r).key = r.key
           /\ kind \in SnapshotKind => Stored(r) = r
           /\ kind \in RecordKind => /\ Stored(r).action = r.action
                                     /\ Stored(r).termination = r.termination
                                     /\ Stored(r).valuation = Truncated(r.valuation)
           /\ kind = "margin_activity" => Stored(r).margin = r.margin
<1>1. CASE kind \in RecordKind
  <2>1. r \in [key : {r.key}, action : {r.action},
               valuation : Int \union {None}, termination : Int \union {None}]
    BY <1>1, RecordRowFacts
  <2>2. Stored(r) = [r EXCEPT !.valuation = Truncated(@)]
    <3>1. kind \notin SnapshotKind /\ kind # "margin_activity"
      BY <1>1, Kinds
    <3> QED BY <1>1, <3>1 DEF Stored
  <2> QED BY <1>1, <2>1, <2>2, Kinds
<1>2. CASE kind \in SnapshotKind
  BY <1>2, Kinds DEF Stored, SnapshotKind, RecordKind
<1>3. CASE kind = "margin_activity"
  <2>1. r \in [key : {r.key}, event : {r.event}, reported : {r.reported}, margin : Int \union {None}]
    BY <1>3, MarginRowFacts
  <2>2. Stored(r) = [r EXCEPT !.event = Truncated(@), !.reported = Truncated(@)]
    BY <1>3 DEF Stored, RecordKind, SnapshotKind
  <2> QED BY <1>3, <2>1, <2>2, Kinds
<1> QED BY <1>1, <1>2, <1>3, Kinds DEF TypeOK

----------------------------------------------------------------------------
(* The latest of several scans, and the first *)

\* A set of integers between bounds that is not empty has a greatest element: the
\* one above which there is the least, by inclusion.
LEMMA GreatestOf ==
    ASSUME NEW S \in SUBSET Int, IsFiniteSet(S), S # {}
    PROVE  \E k \in S : \A j \in S : j <= k
<1> DEFINE Above(k) == {j \in S : j > k}
           R == StrictSubsetOrdering(S)
           T == {Above(k) : k \in S}
<1>1. IsWellFoundedOn(R, SUBSET S)
  BY FS_StrictSubsetOrderingWellFounded, FS_FiniteSubsetsOfFinite
<1>2. T \subseteq SUBSET S /\ T # {}
  OBVIOUS
<1>3. \A A, B \in SUBSET S : A \subseteq B /\ A # B => <<A, B>> \in R
  BY DEF StrictSubsetOrdering
<1> HIDE DEF R
<1>4. PICK A \in T : \A B \in T : <<B, A>> \notin R
  BY <1>1, <1>2, WFMin
<1>5. PICK k \in S : A = Above(k)
  BY <1>4
<1>6. \A j \in S : j <= k
  <2> SUFFICES ASSUME NEW j \in S, ~ (j <= k) PROVE FALSE
    OBVIOUS
  <2>1. S \subseteq Int /\ j \in Int /\ k \in Int /\ k < j
    OBVIOUS
  <2>2. \A i \in Int : i > j => i > k
    BY <2>1
  <2>3. j > k /\ ~ (j > j)
    BY <2>1
  <2>4. Above(j) \subseteq Above(k) /\ j \in Above(k) /\ j \notin Above(j)
    BY <2>1, <2>2, <2>3
  <2>5. <<Above(j), Above(k)>> \in R
    BY <2>4, <1>3
  <2> QED BY <2>5, <1>4, <1>5
<1> QED BY <1>6

LEMMA LatestScan ==
    ASSUME NEW a \in Int, NEW n \in Int, NEW S \in SUBSET (a..n), S # {}
    PROVE  \E k \in S : \A j \in S : j <= k
<1>1. IsFiniteSet(S)
  <2>1. IsFiniteSet(a..n)
    BY FS_Interval
  <2> QED BY <2>1, FS_Subset
<1>2. S \in SUBSET Int
  OBVIOUS
<1> QED BY <1>1, <1>2, GreatestOf

\* The first of some scans: the one that leaves the most before it.
LEMMA FirstScan ==
    ASSUME NEW a \in Int, NEW n \in Int, NEW S \in SUBSET (a..n), S # {}
    PROVE  \E k \in S : \A j \in S : k <= j
<1> DEFINE T == {i \in (0 - n)..(0 - a) : 0 - i \in S}
<1>1. \A j \in S : j \in Int /\ 0 - j \in (0 - n)..(0 - a) /\ 0 - (0 - j) = j
  OBVIOUS
<1>2. T # {} /\ T \in SUBSET ((0 - n)..(0 - a)) /\ 0 - n \in Int /\ 0 - a \in Int
  <2>1. PICK j \in S : TRUE
    OBVIOUS
  <2>2. 0 - j \in T
    BY <1>1, <2>1
  <2> QED BY <2>2
<1> HIDE DEF T
<1>3. PICK k \in T : \A j \in T : j <= k
  BY <1>2, LatestScan
<1>4. 0 - k \in S /\ k \in Int
  BY <1>3 DEF T
<1>5. \A j \in S : 0 - j \in T
  BY <1>1 DEF T
<1>6. \A j \in S : 0 - k <= j
  BY <1>1, <1>3, <1>4, <1>5
<1> QED BY <1>4, <1>6

LEMMA PriorIsLatest ==
    ASSUME TypeOK, NEW n \in Scans \union {ScanId}, Filled(n) # {}
    PROVE  \E m \in Filled(n) :
               /\ \A i \in Filled(n) : i <= m
               /\ PriorBatch(n) = [i \in 1..Len(batches[m]) |-> Stored(batches[m][i])]
<1>1. n \in Int /\ Filled(n) \in SUBSET (1..(n - 1)) /\ n - 1 \in Int
  BY DEF Filled, Scans, ScanId, TypeOK
<1>2. \E m \in Filled(n) : \A i \in Filled(n) : i <= m
  <2> DEFINE S == Filled(n)
             z == n - 1
  <2> HIDE DEF S, z
  <2>1. S \in SUBSET (1..z) /\ z \in Int /\ S # {} /\ 1 \in Int
    BY <1>1 DEF S, z
  <2>2. \E m \in S : \A i \in S : i <= m
    BY <2>1, LatestScan
  <2> QED BY <2>2 DEF S
<1> DEFINE m == Latest(Filled(n))
<1>3. m \in Filled(n) /\ \A i \in Filled(n) : i <= m
  BY <1>2 DEF Latest
<1>4. PriorBatch(n) = [i \in 1..Len(batches[m]) |-> Stored(batches[m][i])]
  BY DEF PriorBatch
<1> HIDE DEF m
<1> QED BY <1>3, <1>4

\* A scan after whose batch nothing was read until scan n compares with it.
LEMMA ComparedWith ==
    ASSUME TypeOK, NEW n \in Scans, NEW m \in 1..(n - 1), batches[m] # <<>>,
           \A i \in (m + 1)..(n - 1) : batches[i] = <<>>
    PROVE  PriorBatch(n) = [i \in 1..Len(batches[m]) |-> Stored(batches[m][i])]
<1>1. n \in Int /\ m \in Int
  BY DEF Scans, TypeOK
<1>2. m \in Filled(n)
  BY DEF Filled
<1>3. PICK l \in Filled(n) :
          /\ \A i \in Filled(n) : i <= l
          /\ PriorBatch(n) = [i \in 1..Len(batches[l]) |-> Stored(batches[l][i])]
  BY <1>2, PriorIsLatest
<1>4. l \in 1..(n - 1) /\ batches[l] # <<>> /\ m <= l
  BY <1>2, <1>3 DEF Filled
<1>5. l = m
  <2>1. l \notin (m + 1)..(n - 1)
    BY <1>4
  <2> QED BY <1>1, <1>4, <2>1
<1> QED BY <1>3, <1>5

\* The rows of what is read back are those stored.
LEMMA RowsReadBack ==
    ASSUME TypeOK, NEW n \in Scans, NEW p,
           p = [i \in 1..Len(batches[n]) |-> Stored(batches[n][i])]
    PROVE  /\ Rows(p) = {Stored(r) : r \in Rows(batches[n])}
           /\ Keys(p) = Keys(batches[n])
           /\ batches[n] # <<>> => p # <<>>
           /\ kind \in SnapshotKind => p = batches[n]
<1>1. Len(batches[n]) \in Nat /\ DOMAIN batches[n] = 1..Len(batches[n])
      /\ batches[n] \in Seq(Rows(batches[n]))
  BY BatchFacts
<1>2. DOMAIN p = 1..Len(batches[n]) /\ \A i \in 1..Len(batches[n]) : p[i] = Stored(batches[n][i])
  OBVIOUS
<1>3. Len(p) = Len(batches[n])
  BY <1>1
<1>4. Rows(p) = {Stored(r) : r \in Rows(batches[n])}
  BY <1>2, <1>3 DEF Rows
<1>5. \A r \in Rows(batches[n]) : Stored(r).key = r.key /\ (kind \in SnapshotKind => Stored(r) = r)
  BY StoredFacts
<1>6. Keys(p) = Keys(batches[n])
  BY <1>4, <1>5 DEF Keys
<1>7. batches[n] # <<>> => p # <<>>
  <2> SUFFICES ASSUME p = <<>> PROVE batches[n] = <<>>
    OBVIOUS
  <2>1. Len(batches[n]) = 0
    BY <1>3
  <2> QED BY <1>1, <2>1
<1>8. kind \in SnapshotKind => p = batches[n]
  <2> SUFFICES ASSUME kind \in SnapshotKind PROVE p = batches[n]
    OBVIOUS
  <2>1. \A i \in 1..Len(batches[n]) : p[i] = batches[n][i]
    BY <1>2, <1>5 DEF Rows
  <2>2. batches[n] = [i \in 1..Len(batches[n]) |-> batches[n][i]]
    BY <1>1
  <2> QED BY <2>1, <2>2
<1> QED BY <1>4, <1>6, <1>7, <1>8

----------------------------------------------------------------------------
(* The inductive invariant *)

LEMMA InitInv == Init => LifecycleInv
<1> SUFFICES ASSUME Init PROVE LifecycleInv
  OBVIOUS
<1>1. batches = <<>> /\ raised = <<>> /\ lost = {} /\ kind \in AnyKind /\ 1..0 = {}
  BY DEF Init
<1>2. TypeOK
  BY <1>1 DEF TypeOK
<1>3. AsChecked
  BY <1>1 DEF AsChecked, Scans
<1> QED BY <1>2, <1>3 DEF LifecycleInv

\* The keys of rows are keys of the batches there may be.
AllKeys == UNION {Keys(b) : b \in Batches[kind]}

LEMMA IssueWhat ==
    \A x : x \in Issue <=> \E c \in CheckName, k \in AllKeys : x = [check |-> c, key |-> k]
  BY DEF Issue, AllKeys

LEMMA RaiseWhat ==
    ASSUME NEW c, NEW ks
    PROVE  \A x : x \in Raise(c, ks) <=> \E k \in ks : x = [check |-> c, key |-> k]
  BY DEF Raise

LEMMA RaiseIsIssue ==
    \A c, ks : c \in CheckName /\ ks \subseteq AllKeys => Raise(c, ks) \subseteq Issue
<1> SUFFICES ASSUME NEW c \in CheckName, NEW ks, ks \subseteq AllKeys, NEW x \in Raise(c, ks)
             PROVE  x \in Issue
  OBVIOUS
<1> QED BY IssueWhat, RaiseWhat

LEMMA KeysOfBatch ==
    ASSUME TypeOK, NEW b \in Batches[kind]
    PROVE  Keys(b) \subseteq AllKeys /\ \A r \in Rows(b) : r.key # None => r.key \in AllKeys
  BY DEF AllKeys, Keys

LEMMA RecordIssuesTyped ==
    ASSUME TypeOK, NEW b \in Batches[kind], NEW p
    PROVE  RecordIssues(b, p) \subseteq Issue
<1>1. \A a : KeysOf(WithAction(Rows(b), a)) \subseteq AllKeys
  BY KeysOfBatch DEF KeysOf, WithAction
<1>2. \A v \in Valuations(Rows(b)) : v.key \in AllKeys
  BY KeysOfBatch DEF Valuations, WithAction
<1>3. /\ ModiWithoutNewt(b, p) \subseteq AllKeys
      /\ EtrmWithoutNewt(b, p) \subseteq AllKeys
      /\ DuplicateNewtForUti(b, p) \subseteq AllKeys
  BY <1>1 DEF ModiWithoutNewt, EtrmWithoutNewt, DuplicateNewtForUti
<1>4. /\ ValuationRegression(b, p) \subseteq AllKeys
      /\ ValuationAfterTermination(b, p) \subseteq AllKeys
  BY <1>2 DEF ValuationRegression, ValuationAfterTermination
<1>5. /\ Raise("modi_without_newt", ModiWithoutNewt(b, p)) \subseteq Issue
      /\ Raise("etrm_without_newt", EtrmWithoutNewt(b, p)) \subseteq Issue
      /\ Raise("duplicate_newt", DuplicateNewtForUti(b, p)) \subseteq Issue
      /\ Raise("valuation_regression", ValuationRegression(b, p)) \subseteq Issue
      /\ Raise("valuation_after_termination", ValuationAfterTermination(b, p)) \subseteq Issue
  BY <1>3, <1>4, RaiseIsIssue DEF CheckName
<1> QED BY <1>5 DEF RecordIssues

LEMMA SnapshotIssuesTyped ==
    ASSUME TypeOK, NEW b \in Batches[kind], NEW p, Keys(p) \subseteq AllKeys
    PROVE  SnapshotIssues(b, p) \subseteq Issue /\ Borderline(b, p) \subseteq Issue
<1>1. Dropped(b, p) \subseteq AllKeys
  BY DEF Dropped, Keys
<1>2. \A m \in Pairs(b, p) : m.new.key \in AllKeys
  BY KeysOfBatch DEF Pairs, Keys
<1>3. \A ms \in SUBSET Pairs(b, p) : NewKeys(ms) \subseteq AllKeys
  BY <1>2 DEF NewKeys
<1>4. Falls(b, p) \subseteq Pairs(b, p) /\ Drifts(b, p) \subseteq Pairs(b, p)
  BY DEF Falls, Drifts
<1>5. \A l : Changed(b, p, l) \subseteq AllKeys
  BY <1>2 DEF Changed
<1>6. Labels \subseteq CheckName
  BY DEF Labels, CheckName
<1>7. \A l \in Labels : Raise(l, Changed(b, p, l)) \subseteq Issue
  BY <1>5, <1>6, RaiseIsIssue
<1>8. UNION {Raise(l, Changed(b, p, l)) : l \in Labels} \subseteq Issue
  BY <1>7
<1>9. /\ NewKeys({m \in Falls(b, p) : ~AtFallLimit(m)}) \subseteq AllKeys
      /\ NewKeys({m \in Drifts(b, p) : ~AtDriftLimit(m)}) \subseteq AllKeys
      /\ NewKeys({m \in Falls(b, p) : AtFallLimit(m)}) \subseteq AllKeys
      /\ NewKeys({m \in Drifts(b, p) : AtDriftLimit(m)}) \subseteq AllKeys
  BY <1>3, <1>4
<1>10. /\ Raise("dropped", Dropped(b, p)) \subseteq Issue
       /\ Raise("value_fell", NewKeys({m \in Falls(b, p) : ~AtFallLimit(m)})) \subseteq Issue
       /\ Raise("haircut_drift", NewKeys({m \in Drifts(b, p) : ~AtDriftLimit(m)})) \subseteq Issue
       /\ Raise("value_fell", NewKeys({m \in Falls(b, p) : AtFallLimit(m)})) \subseteq Issue
       /\ Raise("haircut_drift", NewKeys({m \in Drifts(b, p) : AtDriftLimit(m)})) \subseteq Issue
  BY <1>1, <1>9, RaiseIsIssue DEF CheckName
<1>11. SnapshotIssues(b, p) \subseteq Issue
  BY <1>8, <1>10 DEF SnapshotIssues
<1>12. Borderline(b, p) \subseteq Issue
  BY <1>10 DEF Borderline
<1> QED BY <1>11, <1>12

LEMMA MarginIssuesTyped ==
    ASSUME TypeOK, NEW b \in Batches[kind], NEW p, Keys(p) \subseteq AllKeys
    PROVE  MarginIssues(b, p) \subseteq Issue
<1>1. Keys(b) \subseteq AllKeys
  BY KeysOfBatch
<1>2. /\ PortfolioGap(b, p) \subseteq AllKeys
      /\ NegativeTrend(b, p) \subseteq AllKeys
  BY <1>1 DEF PortfolioGap, NegativeTrend
<1>3. RecurringLateMargin(b, p) \subseteq AllKeys
  BY <1>1 DEF RecurringLateMargin, KeysOf, Keys
<1>4. /\ Raise("gap", PortfolioGap(b, p)) \subseteq Issue
      /\ Raise("recurring_late", RecurringLateMargin(b, p)) \subseteq Issue
      /\ Raise("negative_trend", NegativeTrend(b, p)) \subseteq Issue
  BY <1>2, <1>3, RaiseIsIssue DEF CheckName
<1> QED BY <1>4 DEF MarginIssues

\* A scan adds a batch and its issues.
LEMMA ScanAdds ==
    ASSUME TypeOK, NEW b \in Batches[kind], NEW issues \in SUBSET Issue, Scan(b, issues)
    PROVE  /\ TypeOK' /\ kind' = kind /\ Scans' = Scans \union {ScanId} /\ ScanId \notin Scans
           /\ \A n \in Scans : batches'[n] = batches[n] /\ raised'[n] = raised[n]
           /\ batches'[ScanId] = b /\ raised'[ScanId] = issues
<1>1. kind' = kind /\ batches' = Append(batches, b) /\ raised' = Append(raised, issues)
  BY DEF Scan
<1>2. batches \in Seq(Batches[kind]) /\ raised \in Seq(SUBSET Issue) /\ Len(raised) = Len(batches)
  BY DEF TypeOK
<1>3. /\ Len(batches) \in Nat /\ Len(batches') = ScanId /\ Len(raised') = ScanId
      /\ batches' \in Seq(Batches[kind]) /\ raised' \in Seq(SUBSET Issue)
  BY <1>1, <1>2 DEF ScanId
<1>4. Scans' = Scans \union {ScanId} /\ ScanId \notin Scans
  BY <1>3 DEF Scans, ScanId
<1>5. lost' \subseteq Scans'
  BY <1>4 DEF Scan, TypeOK, Scans
<1>6. Issue' = Issue
  BY <1>1 DEF Issue
<1>7. TypeOK'
  BY <1>1, <1>3, <1>5, <1>6 DEF TypeOK, Scans
<1>8. \A n \in Scans : batches'[n] = batches[n] /\ raised'[n] = raised[n]
  BY <1>1, <1>2 DEF Scans
<1>9. batches'[ScanId] = b /\ raised'[ScanId] = issues
  BY <1>1, <1>2 DEF ScanId
<1> QED BY <1>1, <1>4, <1>7, <1>8, <1>9

\* A scan never changes what an earlier one saw of the history.
LEMMA HistoryStays ==
    ASSUME TypeOK, kind' = kind, \A n \in Scans : batches'[n] = batches[n],
           NEW n \in Scans \union {ScanId}
    PROVE  PriorBatch(n)' = PriorBatch(n) /\ \A c : PriorRecords(n, c)' = PriorRecords(n, c)
<1>1. \A m \in 1..(n - 1) : batches'[m] = batches[m]
  <2>1. 1..(n - 1) \subseteq Scans
    BY DEF Scans, ScanId, TypeOK
  <2> QED BY <2>1
<1>2. \A r : Stored(r)' = Stored(r)
  BY DEF Stored
<1>3. Filled(n)' = Filled(n) /\ Filled(n) \subseteq 1..(n - 1)
  BY <1>1 DEF Filled
<1>4. PriorBatch(n)' = PriorBatch(n)
  <2>1. CASE Filled(n) = {}
    BY <1>3, <2>1 DEF PriorBatch
  <2>2. CASE Filled(n) # {}
    <3>1. PICK m \in Filled(n) : m = Latest(Filled(n))
      <4>1. \E m \in Filled(n) : \A i \in Filled(n) : i <= m
        BY <2>2, PriorIsLatest
      <4> QED BY <4>1 DEF Latest
    <3>2. PICK S : S = Filled(n) /\ S = Filled(n)'
      BY <1>3
    <3>3. Latest(Filled(n))' = m
      BY <3>1, <3>2
    <3>4. PICK c : c = batches[m] /\ c = batches'[m]
      BY <1>1, <1>3, <3>1
    <3>5. PriorBatch(n) = [i \in 1..Len(c) |-> Stored(c[i])]
      BY <2>2, <3>1, <3>4 DEF PriorBatch
    <3>6. PriorBatch(n)' = [i \in 1..Len(c) |-> Stored(c[i])']
      BY <2>2, <3>2, <3>3, <3>4 DEF PriorBatch
    <3> QED BY <1>2, <3>5, <3>6
  <2> QED BY <2>1, <2>2
<1>5. ASSUME NEW c PROVE PriorRecords(n, c)' = PriorRecords(n, c)
  <2> DEFINE all == UNION {Rows(batches[m]) : m \in 1..(n - 1)}
  <2>1. \A m \in 1..(n - 1) : Rows(batches[m])' = Rows(batches[m])
    BY <1>1 DEF Rows
  <2>2. all' = all
    BY <2>1
  <2>3. PriorRecords(n, c) = {Stored(r) : r \in {q \in all : q.key \in Keys(c)}}
    BY DEF PriorRecords
  <2>4. PriorRecords(n, c)' = {Stored(r)' : r \in {q \in all' : q.key \in Keys(c)}}
    BY DEF PriorRecords, Keys, Rows
  <2> HIDE DEF all
  <2> QED BY <1>2, <2>2, <2>3, <2>4
<1> QED BY <1>4, <1>5

\* What AsChecked says of one scan.
CheckedOf(n, b, p) ==
    /\ kind \in RecordKind => raised[n] = RecordIssues(b, PriorRecords(n, b))
    /\ kind \notin RecordKind /\ p = <<>> => raised[n] = {}
    /\ kind \in SnapshotKind /\ p # <<>> =>
           /\ SnapshotIssues(b, p) \subseteq raised[n]
           /\ raised[n] \subseteq SnapshotIssues(b, p) \union Borderline(b, p)
    /\ kind = "margin_activity" /\ p # <<>> => raised[n] = MarginIssues(b, p)

\* The checks look at the two batches and the kind of the scan only.
LEMMA ChecksStay ==
    ASSUME kind' = kind, NEW b, NEW p
    PROVE  /\ RecordIssues(b, p)' = RecordIssues(b, p)
           /\ SnapshotIssues(b, p)' = SnapshotIssues(b, p)
           /\ Borderline(b, p)' = Borderline(b, p)
           /\ MarginIssues(b, p)' = MarginIssues(b, p)
<1>1. RecordIssues(b, p)' = RecordIssues(b, p)
  BY DEF RecordIssues, ModiWithoutNewt, EtrmWithoutNewt, DuplicateNewtForUti, ValuationRegression,
         ValuationAfterTermination, Newts, KeysOf, WithAction, Valuations, Terminations, Raise, Rows
<1>2. MarginIssues(b, p)' = MarginIssues(b, p)
  BY DEF MarginIssues, PortfolioGap, RecurringLateMargin, NegativeTrend, Margins, KeysOf, Late, Raise,
         Rows, Keys, Stated
<1>3. Dropped(b, p)' = Dropped(b, p)
  BY DEF Dropped, Rows, Keys
<1>4. Pairs(b, p)' = Pairs(b, p) /\ FallLimit' = FallLimit /\ Labels' = Labels
  BY DEF Pairs, LastOf, Rows, Keys, FallLimit, Labels
<1>5. /\ \A m : AtFallLimit(m)' = AtFallLimit(m)
      /\ \A m : AtDriftLimit(m)' = AtDriftLimit(m)
  BY <1>4 DEF AtFallLimit, AtDriftLimit, Excess, Abs
<1>6. /\ Falls(b, p)' = Falls(b, p)
      /\ Drifts(b, p)' = Drifts(b, p)
      /\ \A l : Changed(b, p, l)' = Changed(b, p, l)
  BY <1>4 DEF Falls, Drifts, Changed, Stated, Excess, Abs
<1>7. SnapshotIssues(b, p)' = SnapshotIssues(b, p)
  BY <1>3, <1>4, <1>5, <1>6 DEF SnapshotIssues, Raise, NewKeys
<1>8. Borderline(b, p)' = Borderline(b, p)
  BY <1>5, <1>6 DEF Borderline, Raise, NewKeys
<1> QED BY <1>1, <1>2, <1>7, <1>8

LEMMA CheckedStays ==
    ASSUME TypeOK, kind' = kind, \A n \in Scans : batches'[n] = batches[n] /\ raised'[n] = raised[n],
           NEW n \in Scans, CheckedOf(n, batches[n], PriorBatch(n))
    PROVE  CheckedOf(n, batches[n], PriorBatch(n))'
<1>1. PICK b, p : b = batches[n] /\ p = PriorBatch(n)
  OBVIOUS
<1>2. b = batches'[n] /\ p = PriorBatch(n)'
  BY <1>1, HistoryStays
<1>3. PriorRecords(n, b)' = PriorRecords(n, b)
  BY HistoryStays
<1>4. /\ SnapshotIssues(b, p)' = SnapshotIssues(b, p)
      /\ Borderline(b, p)' = Borderline(b, p)
      /\ MarginIssues(b, p)' = MarginIssues(b, p)
  BY ChecksStay
<1>5. PICK q : q = PriorRecords(n, b)
  OBVIOUS
<1>6. RecordIssues(b, q)' = RecordIssues(b, q)
  BY ChecksStay
<1>7. CheckedOf(n, b, p)'
  BY <1>1, <1>3, <1>4, <1>5, <1>6 DEF CheckedOf
<1> QED BY <1>2, <1>7

\* What is read back has keys of the batches there may be.
LEMMA PriorKeys ==
    ASSUME TypeOK, NEW n \in Scans \union {ScanId}
    PROVE  Keys(PriorBatch(n)) \subseteq AllKeys
<1>1. CASE Filled(n) = {}
  <2>1. PriorBatch(n) = <<>>
    BY <1>1 DEF PriorBatch
  <2>2. Keys(<<>>) = {}
    BY DEF Keys, Rows
  <2> QED BY <2>1, <2>2
<1>2. CASE Filled(n) # {}
  <2>1. PICK m \in Filled(n) : PriorBatch(n) = [i \in 1..Len(batches[m]) |-> Stored(batches[m][i])]
    BY <1>2, PriorIsLatest
  <2>2. m \in Scans
    BY DEF Filled, Scans, ScanId, TypeOK
  <2>3. Keys(PriorBatch(n)) = Keys(batches[m])
    BY <2>1, <2>2, RowsReadBack
  <2> QED BY <2>2, <2>3, KeysOfBatch, BatchFacts
<1> QED BY <1>1, <1>2

\* The issues of a new scan are those of its checks.
LEMMA NewScan ==
    ASSUME TypeOK, NEW b \in Batches[kind], ScanRecords(b) \/ ScanSnapshot(b) \/ ScanMargins(b)
    PROVE  \E issues \in SUBSET Issue :
               /\ Scan(b, issues)
               /\ kind \in RecordKind => issues = RecordIssues(b, PriorRecords(ScanId, b))
               /\ kind \notin RecordKind /\ PriorBatch(ScanId) = <<>> => issues = {}
               /\ kind \in SnapshotKind /\ PriorBatch(ScanId) # <<>> =>
                      /\ SnapshotIssues(b, PriorBatch(ScanId)) \subseteq issues
                      /\ issues \subseteq SnapshotIssues(b, PriorBatch(ScanId))
                                          \union Borderline(b, PriorBatch(ScanId))
               /\ kind = "margin_activity" /\ PriorBatch(ScanId) # <<>> =>
                      issues = MarginIssues(b, PriorBatch(ScanId))
<1> DEFINE p == PriorBatch(ScanId)
<1>0. Keys(p) \subseteq AllKeys
  BY PriorKeys
<1>1. CASE ScanRecords(b)
  <2>1. kind \in RecordKind /\ Scan(b, RecordIssues(b, PriorRecords(ScanId, b)))
    BY <1>1 DEF ScanRecords
  <2>2. RecordIssues(b, PriorRecords(ScanId, b)) \subseteq Issue
    BY RecordIssuesTyped
  <2> QED BY <2>1, <2>2, Kinds
<1>2. CASE ScanSnapshot(b)
  <2> HIDE DEF p
  <2>1. kind \in SnapshotKind /\ kind \notin RecordKind /\ kind # "margin_activity"
    BY <1>2, Kinds DEF ScanSnapshot
  <2>2. CASE p = <<>>
    <3>1. Scan(b, {})
      BY <1>2, <2>2 DEF ScanSnapshot, p
    <3> QED BY <2>1, <2>2, <3>1 DEF p
  <2>3. CASE p # <<>>
    <3>1. PICK rounding \in SUBSET Borderline(b, p) : Scan(b, SnapshotIssues(b, p) \union rounding)
      BY <1>2, <2>3 DEF ScanSnapshot, p
    <3>2. SnapshotIssues(b, p) \subseteq Issue /\ Borderline(b, p) \subseteq Issue
      BY <1>0, SnapshotIssuesTyped
    <3>3. SnapshotIssues(b, p) \union rounding \in SUBSET Issue
      BY <3>2
    <3> QED BY <2>1, <2>3, <3>1, <3>3 DEF p
  <2> QED BY <2>2, <2>3
<1>3. CASE ScanMargins(b)
  <2> HIDE DEF p
  <2>1. kind = "margin_activity" /\ kind \notin RecordKind /\ kind \notin SnapshotKind
    BY <1>3, Kinds DEF ScanMargins
  <2>2. MarginIssues(b, p) \subseteq Issue
    BY <1>0, MarginIssuesTyped
  <2>3. Scan(b, IF p = <<>> THEN {} ELSE MarginIssues(b, p))
    BY <1>3 DEF ScanMargins, p
  <2> QED BY <2>1, <2>2, <2>3 DEF p
<1> QED BY <1>1, <1>2, <1>3

LEMMA InvStep == LifecycleInv /\ [Next]_vars => LifecycleInv'
<1> SUFFICES ASSUME LifecycleInv, [Next]_vars PROVE LifecycleInv'
  OBVIOUS
<1>0. TypeOK /\ \A n \in Scans : CheckedOf(n, batches[n], PriorBatch(n))
  BY DEF LifecycleInv, AsChecked, CheckedOf
<1>1. CASE UNCHANGED vars
  <2>1. TypeOK' /\ Scans' = Scans
    BY <1>0, <1>1 DEF vars, TypeOK, Issue, Scans
  <2>2. \A n \in Scans : CheckedOf(n, batches[n], PriorBatch(n))'
    BY <1>0, <1>1, CheckedStays DEF vars
  <2> QED BY <2>1, <2>2 DEF LifecycleInv, AsChecked, CheckedOf
<1>2. ASSUME NEW b \in Batches[kind], ScanRecords(b) \/ ScanSnapshot(b) \/ ScanMargins(b)
      PROVE  LifecycleInv'
  <2> DEFINE p == PriorBatch(ScanId)
  <2>1. PICK issues \in SUBSET Issue :
            /\ Scan(b, issues)
            /\ kind \in RecordKind => issues = RecordIssues(b, PriorRecords(ScanId, b))
            /\ kind \notin RecordKind /\ p = <<>> => issues = {}
            /\ kind \in SnapshotKind /\ p # <<>> =>
                   /\ SnapshotIssues(b, p) \subseteq issues
                   /\ issues \subseteq SnapshotIssues(b, p) \union Borderline(b, p)
            /\ kind = "margin_activity" /\ p # <<>> => issues = MarginIssues(b, p)
    BY <1>0, <1>2, NewScan
  <2>2. /\ TypeOK' /\ kind' = kind /\ Scans' = Scans \union {ScanId} /\ ScanId \notin Scans
        /\ \A n \in Scans : batches'[n] = batches[n] /\ raised'[n] = raised[n]
        /\ batches'[ScanId] = b /\ raised'[ScanId] = issues
    BY <1>0, <2>1, ScanAdds
  <2>3. \A n \in Scans : CheckedOf(n, batches[n], PriorBatch(n))'
    BY <1>0, <2>2, CheckedStays
  <2>4. PICK id : id = ScanId
    OBVIOUS
  <2>5. CheckedOf(id, batches[id], PriorBatch(id))'
    <3>1. PICK q : q = PriorBatch(id)
      OBVIOUS
    <3>2. PICK old : old = PriorRecords(id, b)
      OBVIOUS
    <3>3. q = PriorBatch(id)' /\ old = PriorRecords(id, b)' /\ b = batches'[id] /\ issues = raised'[id]
      BY <1>0, <2>2, <2>4, <3>1, <3>2, HistoryStays
    <3>4. /\ SnapshotIssues(b, q)' = SnapshotIssues(b, q)
          /\ Borderline(b, q)' = Borderline(b, q)
          /\ MarginIssues(b, q)' = MarginIssues(b, q)
          /\ RecordIssues(b, old)' = RecordIssues(b, old)
      BY <2>2, ChecksStay
    <3>5. CheckedOf(id, b, q)'
      BY <2>1, <2>2, <2>4, <3>1, <3>2, <3>3, <3>4 DEF CheckedOf
    <3> QED BY <3>3, <3>5
  <2>6. \A n \in Scans' : CheckedOf(n, batches[n], PriorBatch(n))'
    BY <2>2, <2>3, <2>4, <2>5
  <2> QED BY <2>2, <2>6 DEF LifecycleInv, AsChecked, CheckedOf
<1> QED BY <1>1, <1>2 DEF Next, Done

LEMMA InvAlways == Spec => []LifecycleInv
  BY InitInv, InvStep, PTL DEF Spec

\* The history and the issues keep their types: an issue names a check and a key
\* that some row of the store has, never a blank one.
THEOREM LifecycleTypeOK == Spec => []TypeOK
<1>1. LifecycleInv => TypeOK
  BY DEF LifecycleInv
<1> QED BY <1>1, InvAlways, PTL

----------------------------------------------------------------------------
(* Records: silent exactly when legal *)

\* What the checks of a record scan say of a key, read off the stored rows.
LEMMA FlaggedBy ==
    ASSUME LifecycleInv, kind \in RecordKind, NEW n \in Scans, NEW k, NEW b, NEW p,
           b = batches[n], p = PriorRecords(n, b)
    PROVE  Flagged(k, n) <=> \/ k \in ModiWithoutNewt(b, p) \/ k \in EtrmWithoutNewt(b, p)
                             \/ k \in DuplicateNewtForUti(b, p)
                             \/ kind = "emir" /\ k \in ValuationRegression(b, p)
                             \/ kind = "emir" /\ k \in ValuationAfterTermination(b, p)
<1>1. raised[n] = RecordIssues(b, p)
  BY DEF LifecycleInv, AsChecked
<1>2. ASSUME NEW c, NEW ks
      PROVE  (\E x \in Raise(c, ks) : x.key = k) <=> k \in ks
  <2>1. ASSUME NEW x \in Raise(c, ks), x.key = k PROVE k \in ks
    <3>1. PICK j \in ks : x = [check |-> c, key |-> j]
      BY RaiseWhat
    <3> QED BY <2>1, <3>1
  <2>2. ASSUME k \in ks PROVE \E x \in Raise(c, ks) : x.key = k
    <3>1. [check |-> c, key |-> k] \in Raise(c, ks)
      BY <2>2, RaiseWhat
    <3> QED BY <3>1
  <2> QED BY <2>1, <2>2
<1>3. kind # "sftr" <=> kind = "emir"
  BY Kinds
<1> DEFINE M == Raise("modi_without_newt", ModiWithoutNewt(b, p))
           E == Raise("etrm_without_newt", EtrmWithoutNewt(b, p))
           D == Raise("duplicate_newt", DuplicateNewtForUti(b, p))
           R == Raise("valuation_regression", ValuationRegression(b, p))
           T == Raise("valuation_after_termination", ValuationAfterTermination(b, p))
<1>4. raised[n] = UNION {M, E, D, IF kind = "sftr" THEN {} ELSE R \union T}
  BY <1>1 DEF RecordIssues
<1>5. /\ (\E x \in M : x.key = k) <=> k \in ModiWithoutNewt(b, p)
      /\ (\E x \in E : x.key = k) <=> k \in EtrmWithoutNewt(b, p)
      /\ (\E x \in D : x.key = k) <=> k \in DuplicateNewtForUti(b, p)
      /\ (\E x \in R : x.key = k) <=> k \in ValuationRegression(b, p)
      /\ (\E x \in T : x.key = k) <=> k \in ValuationAfterTermination(b, p)
  BY <1>2
<1> HIDE DEF M, E, D, R, T
<1>6. \A x : x \in raised[n] <=> x \in M \/ x \in E \/ x \in D \/ (kind = "emir" /\ (x \in R \/ x \in T))
  BY <1>3, <1>4
<1>7. Flagged(k, n) <=> \/ (\E x \in M : x.key = k) \/ (\E x \in E : x.key = k) \/ (\E x \in D : x.key = k)
                        \/ (kind = "emir" /\ ((\E x \in R : x.key = k) \/ (\E x \in T : x.key = k)))
  BY <1>6 DEF Flagged
<1> QED BY <1>5, <1>7

\* The prior rows of a key of the batch are its rows in all earlier batches.
LEMMA PriorRowsOf ==
    ASSUME TypeOK, NEW n \in Scans, NEW b, NEW p, b = batches[n], p = PriorRecords(n, b),
           NEW k \in Keys(b)
    PROVE  \A x : x \in p /\ x.key = k
                  <=> \E m \in 1..(n - 1) : \E r \in Rows(batches[m]) : r.key = k /\ x = Stored(r)
<1>1. \A m \in 1..(n - 1) : m \in Scans
  BY DEF Scans, TypeOK
<1>2. \A m \in 1..(n - 1) : \A r \in Rows(batches[m]) : Stored(r).key = r.key
  BY <1>1, StoredFacts
<1>3. \A x : x \in p <=> \E m \in 1..(n - 1) : \E r \in Rows(batches[m]) : r.key \in Keys(b) /\ x = Stored(r)
  <2> DEFINE all == UNION {Rows(batches[m]) : m \in 1..(n - 1)}
  <2>1. \A r : r \in all <=> \E m \in 1..(n - 1) : r \in Rows(batches[m])
    OBVIOUS
  <2>2. p = {Stored(r) : r \in {q \in all : q.key \in Keys(b)}}
    BY DEF PriorRecords
  <2> HIDE DEF all
  <2>3. \A x : x \in p <=> \E r \in all : r.key \in Keys(b) /\ x = Stored(r)
    BY <2>2
  <2> QED BY <2>1, <2>3
<1> QED BY <1>2, <1>3

LEMMA ActionsOf ==
    ASSUME TypeOK, kind \in RecordKind, NEW n \in Scans, NEW b, NEW p, b = batches[n],
           p = PriorRecords(n, b), NEW k \in Keys(b)
    PROVE  /\ \A a : k \in KeysOf(WithAction(Rows(b), a)) <=> Has(n, k, a)
           /\ k \in Newts(p) <=> \E m \in 1..(n - 1) : Has(m, k, {"NEWT"})
<1>1. k # None
  BY DEF Keys
<1>2. \A rows, a : k \in KeysOf(WithAction(rows, a)) <=> \E r \in rows : r.key = k /\ r.action \in a
  BY <1>1 DEF KeysOf, WithAction
<1>3. \A m \in 1..(n - 1) : \A r \in Rows(batches[m]) : Stored(r).action = r.action
  <2>1. \A m \in 1..(n - 1) : m \in Scans
    BY DEF Scans, TypeOK
  <2> QED BY <2>1, StoredFacts
<1>4. k \in Newts(p) <=> \E x : x \in p /\ x.key = k /\ x.action = "NEWT"
  BY <1>2 DEF Newts
<1>5. (\E x : x \in p /\ x.key = k /\ x.action = "NEWT")
      <=> \E m \in 1..(n - 1) : \E r \in Rows(batches[m]) : r.key = k /\ Stored(r).action = "NEWT"
  BY PriorRowsOf
<1>6. k \in Newts(p) <=> \E m \in 1..(n - 1) : Has(m, k, {"NEWT"})
  BY <1>3, <1>4, <1>5 DEF Has
<1> QED BY <1>2, <1>6 DEF Has

LEMMA ValuationFacts ==
    ASSUME TypeOK, kind \in RecordKind, NEW n \in Scans, NEW k, k # None
    PROVE  /\ \A v \in ValuationsOf(n, k) : v.valuation \in Int
           /\ \A x \in Rows(batches[n]) : x.key = k => 
                 /\ Stored(x) \in Valuations({Stored(x)}) <=> x \in ValuationsOf(n, k)
                 /\ Stored(x) \in Terminations({Stored(x)}) <=> x \in Terminations(Rows(batches[n]))
           /\ \A t \in Terminations(Rows(batches[n])) : t.termination \in Int
<1>1. \A x \in Rows(batches[n]) :
          x \in [key : {x.key}, action : {x.action},
                 valuation : Int \union {None}, termination : Int \union {None}]
  BY RecordRowFacts
<1>2. \A x \in Rows(batches[n]) : x.valuation \in Int \union {None} /\ x.termination \in Int \union {None}
  BY <1>1
<1>3. \A x \in Rows(batches[n]) : x.valuation = None <=> Truncated(x.valuation) = None
  BY <1>2, TimeFacts, RowsAssumption
<1>4. \A x \in Rows(batches[n]) : /\ Stored(x).key = x.key /\ Stored(x).action = x.action
                                  /\ Stored(x).termination = x.termination
                                  /\ Stored(x).valuation = Truncated(x.valuation)
  BY StoredFacts
<1>5. \A rows, x : x \in Valuations(rows)
                   <=> x \in rows /\ x.key # None /\ x.action = "VALU" /\ x.valuation # None
  BY DEF Valuations, WithAction
<1>6. \A rows, x : x \in Terminations(rows)
                   <=> x \in rows /\ x.key # None /\ x.action = "ETRM" /\ x.termination # None
  BY DEF Terminations, WithAction
<1>7. \A v \in ValuationsOf(n, k) : v.valuation \in Int
  BY <1>2, <1>5 DEF ValuationsOf
<1>8. \A t \in Terminations(Rows(batches[n])) : t.termination \in Int
  BY <1>2, <1>6
<1>9. ASSUME NEW x \in Rows(batches[n]), x.key = k
      PROVE  /\ Stored(x) \in Valuations({Stored(x)}) <=> x \in ValuationsOf(n, k)
             /\ Stored(x) \in Terminations({Stored(x)}) <=> x \in Terminations(Rows(batches[n]))
  BY <1>3, <1>4, <1>5, <1>6, <1>9 DEF ValuationsOf
<1> QED BY <1>7, <1>8, <1>9

\* The rows of a key among those read back, as the earlier batches have them.
LEMMA TimesOf ==
    ASSUME TypeOK, kind \in RecordKind, NEW n \in Scans, NEW b, NEW p, b = batches[n],
           p = PriorRecords(n, b), NEW k \in Keys(b)
    PROVE  /\ k \in ValuationRegression(b, p)
              <=> \E v \in ValuationsOf(n, k) : \E m \in 1..(n - 1) :
                      \E u \in ValuationsOf(m, k) : v.valuation < Truncated(u.valuation)
           /\ k \in ValuationAfterTermination(b, p)
              <=> \E v \in ValuationsOf(n, k) : \E m \in 1..(n - 1) :
                      \E t \in Terminations(Rows(batches[m])) :
                          t.key = k /\ t.termination <= v.valuation \div Day
<1>0. k # None
  BY DEF Keys
<1>1. \A m \in 1..(n - 1) : m \in Scans
  BY DEF Scans, TypeOK
<1>2. ASSUME NEW m \in 1..(n - 1), NEW r \in Rows(batches[m]), r.key = k
      PROVE  /\ Stored(r) \in Valuations({Stored(r)}) <=> r \in ValuationsOf(m, k)
             /\ Stored(r) \in Terminations({Stored(r)}) <=> r \in Terminations(Rows(batches[m]))
             /\ Stored(r).valuation = Truncated(r.valuation) /\ Stored(r).termination = r.termination
  BY <1>0, <1>1, <1>2, ValuationFacts, StoredFacts
<1>3. \A rows, x : x \in Valuations(rows) <=> x \in rows /\ x \in Valuations({x})
  BY DEF Valuations, WithAction
<1>4. \A rows, x : x \in Terminations(rows) <=> x \in rows /\ x \in Terminations({x})
  BY DEF Terminations, WithAction
<1>5. \A x : x \in p /\ x.key = k
             <=> \E m \in 1..(n - 1) : \E r \in Rows(batches[m]) : r.key = k /\ x = Stored(r)
  BY PriorRowsOf
<1>6. \A m : \A r \in ValuationsOf(m, k) : r \in Rows(batches[m]) /\ r.key = k
  BY DEF ValuationsOf, Valuations, WithAction
<1>7. \A m : \A r \in Terminations(Rows(batches[m])) : r \in Rows(batches[m])
  BY <1>4
<1>8. \A x : x \in Valuations(p) /\ x.key = k
             <=> \E m \in 1..(n - 1) : \E u \in ValuationsOf(m, k) : x = Stored(u)
  <2>1. ASSUME NEW x \in Valuations(p), x.key = k
        PROVE  \E m \in 1..(n - 1) : \E u \in ValuationsOf(m, k) : x = Stored(u)
    <3>1. x \in p /\ x \in Valuations({x})
      BY <1>3
    <3>2. PICK m \in 1..(n - 1) : \E r \in Rows(batches[m]) : r.key = k /\ x = Stored(r)
      BY <1>5, <2>1, <3>1
    <3>3. PICK r \in Rows(batches[m]) : r.key = k /\ x = Stored(r)
      BY <3>2
    <3> QED BY <1>2, <3>1, <3>3
  <2>2. ASSUME NEW m \in 1..(n - 1), NEW u \in ValuationsOf(m, k)
        PROVE  Stored(u) \in Valuations(p) /\ Stored(u).key = k
    <3>1. u \in Rows(batches[m]) /\ u.key = k
      BY <1>6
    <3>2. Stored(u) \in p /\ Stored(u).key = k
      BY <1>5, <3>1
    <3> QED BY <1>2, <1>3, <3>1, <3>2
  <2> QED BY <2>1, <2>2
<1>9. \A x : x \in Terminations(p) /\ x.key = k
             <=> \E m \in 1..(n - 1) : \E t \in Terminations(Rows(batches[m])) : t.key = k /\ x = Stored(t)
  <2>1. ASSUME NEW x \in Terminations(p), x.key = k
        PROVE  \E m \in 1..(n - 1) : \E t \in Terminations(Rows(batches[m])) : t.key = k /\ x = Stored(t)
    <3>1. x \in p /\ x \in Terminations({x})
      BY <1>4
    <3>2. PICK m \in 1..(n - 1) : \E r \in Rows(batches[m]) : r.key = k /\ x = Stored(r)
      BY <1>5, <2>1, <3>1
    <3>3. PICK r \in Rows(batches[m]) : r.key = k /\ x = Stored(r)
      BY <3>2
    <3> QED BY <1>2, <3>1, <3>3
  <2>2. ASSUME NEW m \in 1..(n - 1), NEW t \in Terminations(Rows(batches[m])), t.key = k
        PROVE  Stored(t) \in Terminations(p) /\ Stored(t).key = k
    <3>1. t \in Rows(batches[m])
      BY <1>7
    <3>2. Stored(t) \in p /\ Stored(t).key = k
      BY <1>5, <2>2, <3>1
    <3> QED BY <1>2, <1>4, <2>2, <3>1, <3>2
  <2> QED BY <2>1, <2>2
<1>10. k \in ValuationRegression(b, p)
       <=> \E v \in ValuationsOf(n, k) : \E x : x \in Valuations(p) /\ x.key = k /\ v.valuation < x.valuation
  BY DEF ValuationRegression, ValuationsOf
<1>11. k \in ValuationAfterTermination(b, p)
       <=> \E v \in ValuationsOf(n, k) : \E x : x \in Terminations(p) /\ x.key = k
                                                /\ x.termination <= v.valuation \div Day
  BY DEF ValuationAfterTermination, ValuationsOf
<1>12. \A m \in 1..(n - 1) : \A u \in ValuationsOf(m, k) : Stored(u).valuation = Truncated(u.valuation)
  BY <1>2, <1>6
<1>13. \A m \in 1..(n - 1) : \A t \in Terminations(Rows(batches[m])) :
           t.key = k => Stored(t).termination = t.termination
  BY <1>2, <1>7
<1>14. k \in ValuationRegression(b, p)
       <=> \E v \in ValuationsOf(n, k) : \E m \in 1..(n - 1) :
               \E u \in ValuationsOf(m, k) : v.valuation < Truncated(u.valuation)
  BY <1>8, <1>10, <1>12
<1>15. k \in ValuationAfterTermination(b, p)
       <=> \E v \in ValuationsOf(n, k) : \E m \in 1..(n - 1) :
               \E t \in Terminations(Rows(batches[m])) : t.key = k /\ t.termination <= v.valuation \div Day
  BY <1>9, <1>11, <1>13
<1> QED BY <1>14, <1>15

\* A scan says nothing of a key it does not read.
LEMMA NotMentioned ==
    ASSUME LifecycleInv, kind \in RecordKind, NEW n \in Scans, NEW k, k # None, k \notin Keys(batches[n])
    PROVE  ~Flagged(k, n) /\ ValuationsOf(n, k) = {} /\ \A a : ~Has(n, k, a)
<1> DEFINE b == batches[n]
           p == PriorRecords(n, b)
<1>1. \A r \in Rows(b) : r.key # k
  BY DEF Keys
<1>2. \A a : ~Has(n, k, a)
  BY <1>1 DEF Has
<1>3. ValuationsOf(n, k) = {}
  BY <1>1 DEF ValuationsOf, Valuations, WithAction
<1>4. \A a : k \notin KeysOf(WithAction(Rows(b), a))
  BY <1>1 DEF KeysOf, WithAction
<1>5. \A v \in Valuations(Rows(b)) : v.key # k
  BY <1>1 DEF Valuations, WithAction
<1> HIDE DEF b, p
<1>6. /\ k \notin ModiWithoutNewt(b, p) /\ k \notin EtrmWithoutNewt(b, p)
      /\ k \notin DuplicateNewtForUti(b, p)
  BY <1>4 DEF ModiWithoutNewt, EtrmWithoutNewt, DuplicateNewtForUti
<1>7. k \notin ValuationRegression(b, p) /\ k \notin ValuationAfterTermination(b, p)
  BY <1>5 DEF ValuationRegression, ValuationAfterTermination
<1>8. ~Flagged(k, n)
  <2>1. b = batches[n] /\ p = PriorRecords(n, b)
    BY DEF b, p
  <2> QED BY <1>6, <1>7, <2>1, FlaggedBy
<1> QED BY <1>2, <1>3, <1>8

\* Whether a key was opened before scan n.
Opened(n, k) == \E m \in 1..(n - 1) : Has(m, k, {"NEWT"})

Regressed(n, k) ==
    \E v \in ValuationsOf(n, k) : \E m \in 1..(n - 1) :
        \E u \in ValuationsOf(m, k) : v.valuation < Truncated(u.valuation)

Outlived(n, k) ==
    \E v \in ValuationsOf(n, k) : \E m \in 1..(n - 1) : \E t \in Terminations(Rows(batches[m])) :
        t.key = k /\ t.termination <= v.valuation \div Day

\* One scan is silent about a trade exactly when it adds a legal step to its life.
LEMMA FlaggedIff ==
    ASSUME LifecycleInv, kind \in RecordKind, NEW n \in Scans, NEW k, k # None
    PROVE  Flagged(k, n) <=> \/ Has(n, k, {"MODI", "CORR", "ETRM"}) /\ ~Opened(n, k)
                             \/ Has(n, k, {"NEWT"}) /\ Opened(n, k)
                             \/ kind = "emir" /\ (Regressed(n, k) \/ Outlived(n, k))
<1>0. TypeOK
  BY DEF LifecycleInv
<1>1. CASE k \notin Keys(batches[n])
  BY <1>1, NotMentioned DEF Regressed, Outlived
<1>2. CASE k \in Keys(batches[n])
  <2>1. PICK b, p : b = batches[n] /\ p = PriorRecords(n, b)
    OBVIOUS
  <2>2. k \in Newts(p) <=> Opened(n, k)
    BY <1>0, <1>2, <2>1, ActionsOf DEF Opened
  <2>3. \A a : k \in KeysOf(WithAction(Rows(b), a)) <=> Has(n, k, a)
    BY <1>0, <1>2, <2>1, ActionsOf
  <2>4. /\ k \in ValuationRegression(b, p) <=> Regressed(n, k)
        /\ k \in ValuationAfterTermination(b, p) <=> Outlived(n, k)
    BY <1>0, <1>2, <2>1, TimesOf DEF Regressed, Outlived
  <2>5. Flagged(k, n) <=> \/ k \in ModiWithoutNewt(b, p) \/ k \in EtrmWithoutNewt(b, p)
                          \/ k \in DuplicateNewtForUti(b, p)
                          \/ kind = "emir" /\ k \in ValuationRegression(b, p)
                          \/ kind = "emir" /\ k \in ValuationAfterTermination(b, p)
    BY <2>1, FlaggedBy
  <2>6. /\ k \in ModiWithoutNewt(b, p) <=> Has(n, k, {"MODI", "CORR"}) /\ ~Opened(n, k)
        /\ k \in EtrmWithoutNewt(b, p) <=> Has(n, k, {"ETRM"}) /\ ~Opened(n, k)
        /\ k \in DuplicateNewtForUti(b, p) <=> Has(n, k, {"NEWT"}) /\ Opened(n, k)
    BY <2>2, <2>3 DEF ModiWithoutNewt, EtrmWithoutNewt, DuplicateNewtForUti
  <2>7. Has(n, k, {"MODI", "CORR", "ETRM"}) <=> Has(n, k, {"MODI", "CORR"}) \/ Has(n, k, {"ETRM"})
    BY DEF Has
  <2> QED BY <2>4, <2>5, <2>6, <2>7
<1> QED BY <1>1, <1>2

\* The checks of all scans together: silence about a trade, in every scan, means that
\* its life over all batches is legal, and a legal life is passed over in silence.
THEOREM RecordsSilentExactlyWhenLegal == Spec => []SilentExactlyWhenLegal
<1>1. LifecycleInv => SilentExactlyWhenLegal
  <2> SUFFICES ASSUME LifecycleInv, kind \in RecordKind, NEW k \in UNION {Keys(batches[n]) : n \in Scans}
               PROVE  (\A n \in Scans : ~Flagged(k, n)) <=> LegalLife(k)
    BY DEF SilentExactlyWhenLegal
  <2>0. TypeOK /\ k # None
    BY DEF LifecycleInv, Keys
  <2>1. \A n \in Scans : n \in Nat /\ \A m \in 1..(n - 1) : m \in Scans /\ m < n
    BY <2>0 DEF Scans, TypeOK
  <2>2. \A n \in Scans : Flagged(k, n) <=> \/ Has(n, k, {"MODI", "CORR", "ETRM"}) /\ ~Opened(n, k)
                                           \/ Has(n, k, {"NEWT"}) /\ Opened(n, k)
                                           \/ kind = "emir" /\ (Regressed(n, k) \/ Outlived(n, k))
    BY <2>0, FlaggedIff
  <2>3. (\A m, n \in Scans : Has(m, k, {"NEWT"}) /\ Has(n, k, {"NEWT"}) => m = n)
        <=> \A n \in Scans : ~(Has(n, k, {"NEWT"}) /\ Opened(n, k))
    <3>1. ASSUME \A m, n \in Scans : Has(m, k, {"NEWT"}) /\ Has(n, k, {"NEWT"}) => m = n,
                 NEW n \in Scans, Has(n, k, {"NEWT"}), Opened(n, k)
          PROVE  FALSE
      BY <2>1, <3>1 DEF Opened
    <3>2. ASSUME \A n \in Scans : ~(Has(n, k, {"NEWT"}) /\ Opened(n, k)),
                 NEW m \in Scans, NEW n \in Scans, Has(m, k, {"NEWT"}), Has(n, k, {"NEWT"})
          PROVE  m = n
      <4>1. m \notin 1..(n - 1) /\ n \notin 1..(m - 1)
        BY <3>2 DEF Opened
      <4> QED BY <2>0, <4>1 DEF Scans, TypeOK
    <3> QED BY <3>1, <3>2
  <2>4. ASSUME NEW n \in Scans, NEW m \in 1..(n - 1), NEW v \in ValuationsOf(n, k)
        PROVE  /\ \A u \in ValuationsOf(m, k) :
                      v.valuation >= Truncated(u.valuation) <=> ~(v.valuation < Truncated(u.valuation))
               /\ \A t \in Terminations(Rows(batches[m])) :
                      v.valuation \div Day < t.termination <=> ~(t.termination <= v.valuation \div Day)
    <3>1. v.valuation \in Int /\ v.valuation \div Day \in Int
      BY <2>0, ValuationFacts, TimeFacts
    <3>2. \A u \in ValuationsOf(m, k) : Truncated(u.valuation) \in Int
      BY <2>0, <2>1, ValuationFacts, TimeFacts
    <3>3. \A t \in Terminations(Rows(batches[m])) : t.termination \in Int
      BY <2>0, <2>1, ValuationFacts
    <3> QED BY <3>1, <3>2, <3>3
  <2>5. (\A n \in Scans : \A m \in 1..(n - 1) : \A v \in ValuationsOf(n, k) :
               /\ \A u \in ValuationsOf(m, k) : v.valuation >= Truncated(u.valuation)
               /\ \A t \in Terminations(Rows(batches[m])) :
                      t.key = k => v.valuation \div Day < t.termination)
        <=> \A n \in Scans : ~Regressed(n, k) /\ ~Outlived(n, k)
    BY <2>4 DEF Regressed, Outlived
  <2>6. (\A n \in Scans : Has(n, k, {"MODI", "CORR", "ETRM"}) =>
             \E m \in 1..(n - 1) : Has(m, k, {"NEWT"}))
        <=> \A n \in Scans : ~(Has(n, k, {"MODI", "CORR", "ETRM"}) /\ ~Opened(n, k))
    BY DEF Opened
  <2> DEFINE A == \A n \in Scans : ~(Has(n, k, {"NEWT"}) /\ Opened(n, k))
             B == \A n \in Scans : ~(Has(n, k, {"MODI", "CORR", "ETRM"}) /\ ~Opened(n, k))
             C == \A n \in Scans : ~Regressed(n, k) /\ ~Outlived(n, k)
  <2>7. LegalLife(k) <=> A /\ B /\ (kind = "emir" => C)
    BY <2>3, <2>5, <2>6 DEF LegalLife
  <2>8. (\A n \in Scans : ~Flagged(k, n)) <=> A /\ B /\ (kind = "emir" => C)
    BY <2>2
  <2> QED BY <2>7, <2>8
<1> QED BY <1>1, InvAlways, PTL

----------------------------------------------------------------------------
(* Snapshots and margins: two batches compared *)

LEMMA RaisedAs ==
    \A c, ks : \A x \in Raise(c, ks) : x.check = c /\ x.key \in ks
<1> SUFFICES ASSUME NEW c, NEW ks, NEW x \in Raise(c, ks) PROVE x.check = c /\ x.key \in ks
  OBVIOUS
<1>1. PICK k \in ks : x = [check |-> c, key |-> k]
  BY RaiseWhat
<1> QED BY <1>1

LEMMA SnapshotIssueWhat ==
    ASSUME NEW b, NEW p
    PROVE  \A x : x \in SnapshotIssues(b, p)
                  <=> \/ x \in Raise("dropped", Dropped(b, p))
                      \/ x \in Raise("value_fell", NewKeys({m \in Falls(b, p) : ~AtFallLimit(m)}))
                      \/ x \in Raise("haircut_drift", NewKeys({m \in Drifts(b, p) : ~AtDriftLimit(m)}))
                      \/ \E l \in Labels : x \in Raise(l, Changed(b, p, l))
<1> DEFINE A == Raise("dropped", Dropped(b, p))
           B == Raise("value_fell", NewKeys({m \in Falls(b, p) : ~AtFallLimit(m)}))
           C == Raise("haircut_drift", NewKeys({m \in Drifts(b, p) : ~AtDriftLimit(m)}))
           L(l) == Raise(l, Changed(b, p, l))
           D == UNION {L(l) : l \in Labels}
<1>1. SnapshotIssues(b, p) = UNION {A, B, C, D}
  BY DEF SnapshotIssues
<1> HIDE DEF A, B, C, L
<1>2. \A x : x \in D <=> \E l \in Labels : x \in L(l)
  OBVIOUS
<1> HIDE DEF D
<1>3. \A x : x \in SnapshotIssues(b, p) <=> x \in A \/ x \in B \/ x \in C \/ \E l \in Labels : x \in L(l)
  BY <1>1, <1>2
<1> QED BY <1>3 DEF A, B, C, L

\* A scan that says of a key that it was dropped compared with a batch that has it.
LEMMA DroppedBy ==
    ASSUME LifecycleInv, NEW n \in Scans, NEW x \in raised[n], x.check = "dropped"
    PROVE  Filled(n) # {} /\ x.key \in Keys(PriorBatch(n))
<1> DEFINE b == batches[n]
           p == PriorBatch(n)
<1> HIDE DEF b, p
<1>0. TypeOK /\ kind \in AnyKind
  BY DEF LifecycleInv, TypeOK
<1>1. /\ kind \in RecordKind => raised[n] = RecordIssues(b, PriorRecords(n, b))
      /\ kind \notin RecordKind /\ p = <<>> => raised[n] = {}
      /\ kind \in SnapshotKind /\ p # <<>> => raised[n] \subseteq SnapshotIssues(b, p) \union Borderline(b, p)
      /\ kind = "margin_activity" /\ p # <<>> => raised[n] = MarginIssues(b, p)
  BY DEF LifecycleInv, AsChecked, b, p
<1>2. \A c, ks : x \in Raise(c, ks) => c = "dropped" /\ x.key \in ks
  BY RaisedAs
<1>3. kind \notin RecordKind
  <2>1. \A old : x \notin RecordIssues(b, old)
    BY <1>2 DEF RecordIssues
  <2> QED BY <1>1, <2>1
<1>4. kind # "margin_activity" \/ p = <<>>
  <2>1. x \notin MarginIssues(b, p)
    BY <1>2 DEF MarginIssues
  <2> QED BY <1>1, <2>1
<1>5. p # <<>> /\ kind \in SnapshotKind
  BY <1>0, <1>1, <1>3, <1>4, Kinds
<1>6. x \notin Borderline(b, p)
  BY <1>2 DEF Borderline
<1>7. x \in SnapshotIssues(b, p)
  BY <1>1, <1>5, <1>6
<1>8. "dropped" \notin Labels
  BY DEF Labels
<1>9. x.key \in Dropped(b, p)
  <2>1. \A ms : x \notin Raise("value_fell", ms) /\ x \notin Raise("haircut_drift", ms)
    BY <1>2
  <2>2. \A l \in Labels : x \notin Raise(l, Changed(b, p, l))
    BY <1>2, <1>8
  <2>3. x \in Raise("dropped", Dropped(b, p))
    BY <1>7, <2>1, <2>2, SnapshotIssueWhat
  <2> QED BY <1>2, <2>3
<1>10. x.key \in Keys(p)
  BY <1>9 DEF Dropped, Keys
<1>11. Filled(n) # {}
  BY <1>5 DEF PriorBatch, p
<1> QED BY <1>10, <1>11 DEF p

\* A trade that is gone is reported as dropped once: a later scan repeats it only
\* when every batch between them was empty.
THEOREM DropsReportedOnce == Spec => []DropRepeatsOnlyAfterEmpty
<1>1. LifecycleInv => DropRepeatsOnlyAfterEmpty
  <2> SUFFICES ASSUME LifecycleInv, NEW m \in Scans, NEW n \in Scans, NEW x \in raised[m] \intersect raised[n],
                      m < n, x.check = "dropped", \A i \in m..n : x.key \notin Keys(batches[i]),
                      NEW i \in m..(n - 1), batches[i] # <<>>
               PROVE  FALSE
    BY DEF DropRepeatsOnlyAfterEmpty
  <2>0. TypeOK /\ m \in Int /\ n \in Int /\ 1 <= m /\ n <= Len(batches) /\ Len(batches) \in Nat
    BY DEF LifecycleInv, TypeOK, Scans
  <2>1. Filled(n) # {} /\ x.key \in Keys(PriorBatch(n))
    BY DroppedBy
  <2>2. PICK q \in Filled(n) :
            /\ \A h \in Filled(n) : h <= q
            /\ PriorBatch(n) = [h \in 1..Len(batches[q]) |-> Stored(batches[q][h])]
    BY <2>0, <2>1, PriorIsLatest
  <2>3. q \in Scans /\ q \in 1..(n - 1)
    BY <2>0 DEF Filled, Scans
  <2>4. x.key \in Keys(batches[q])
    BY <2>0, <2>1, <2>2, <2>3, RowsReadBack
  <2>5. q < m
    BY <2>0, <2>3, <2>4
  <2>6. i \in Filled(n)
    BY <2>0 DEF Filled
  <2> QED BY <2>0, <2>2, <2>3, <2>5, <2>6
<1> QED BY <1>1, InvAlways, PTL

ReadBack(n) == [i \in 1..Len(batches[n]) |-> Stored(batches[n][i])]

\* The scans of a set mention a key and do not go up to scan n, which mentions it too:
\* then the next scan with rows outside the set was compared with one inside.
LEMMA LeavingCompared ==
    ASSUME TypeOK, NEW j \in Scans, NEW n \in Scans, NEW k, NEW S \in SUBSET (j..n), j \in S, n \notin S,
           \A i \in S : k \in Keys(batches[i]), k \in Keys(batches[n])
    PROVE  \E i \in S : \E h \in (i + 1)..n :
               h \in Scans /\ h \notin S /\ PriorBatch(h) = ReadBack(i)
<1>0. j \in Int /\ n \in Int /\ 1 <= j /\ n <= Len(batches) /\ Len(batches) \in Nat
  BY DEF Scans, TypeOK
<1>1. PICK i \in S : \A h \in S : h <= i
  BY <1>0, LatestScan
<1>2. i \in Int /\ j <= i /\ i < n /\ i + 1 \in Int
  BY <1>0, <1>1
<1>3. batches[i] # <<>>
  <2>1. Keys(<<>>) = {}
    BY DEF Keys, Rows
  <2> QED BY <2>1
<1> DEFINE T == {h \in (i + 1)..n : batches[h] # <<>>}
<1>4. n \in T
  <2>1. Keys(<<>>) = {}
    BY DEF Keys, Rows
  <2> QED BY <1>0, <1>2, <2>1
<1>5. T \in SUBSET ((i + 1)..n)
  OBVIOUS
<1>6. \A h \in (i + 1)..n : batches[h] # <<>> <=> h \in T
  OBVIOUS
<1> HIDE DEF T
<1>7. PICK h \in T : \A g \in T : h <= g
  BY <1>0, <1>2, <1>4, <1>5, FirstScan
<1>8. h \in (i + 1)..n /\ h \in Int /\ i < h /\ h <= n
  BY <1>0, <1>2, <1>5, <1>7
<1>9. \A g \in (i + 1)..(h - 1) : batches[g] = <<>>
  <2> SUFFICES ASSUME NEW g \in (i + 1)..(h - 1), batches[g] # <<>> PROVE FALSE
    OBVIOUS
  <2>1. g \in (i + 1)..n /\ g < h
    BY <1>0, <1>2, <1>8
  <2> QED BY <1>6, <1>7, <1>8, <2>1
<1>10. h \in Scans /\ i \in 1..(h - 1)
  BY <1>0, <1>2, <1>8 DEF Scans
<1>11. PriorBatch(h) = ReadBack(i)
  BY <1>3, <1>9, <1>10, ComparedWith DEF ReadBack
<1>12. h \notin S
  BY <1>1, <1>2, <1>8
<1> QED BY <1>1, <1>8, <1>10, <1>11, <1>12

\* What the snapshot checks raise, in the form the properties ask for it.
LEMMA SnapshotRaised ==
    ASSUME LifecycleInv, kind \in SnapshotKind, NEW n \in Scans, PriorBatch(n) # <<>>, NEW k
    PROVE  /\ k \in Dropped(batches[n], PriorBatch(n)) => [check |-> "dropped", key |-> k] \in raised[n]
           /\ \A l \in Labels : k \in Changed(batches[n], PriorBatch(n), l)
                                => [check |-> l, key |-> k] \in raised[n]
<1> DEFINE b == batches[n]
           p == PriorBatch(n)
<1>1. SnapshotIssues(b, p) \subseteq raised[n]
  BY DEF LifecycleInv, AsChecked
<1> HIDE DEF b, p
<1>2. \A c, ks : k \in ks => [check |-> c, key |-> k] \in Raise(c, ks)
  BY RaiseWhat
<1>3. k \in Dropped(b, p) => [check |-> "dropped", key |-> k] \in raised[n]
  BY <1>1, <1>2, SnapshotIssueWhat
<1>4. \A l \in Labels : k \in Changed(b, p, l) => [check |-> l, key |-> k] \in raised[n]
  BY <1>1, <1>2, SnapshotIssueWhat
<1> QED BY <1>3, <1>4 DEF b, p

\* A change of a field between two batches that were compared is found.
LEMMA ChangeFound ==
    ASSUME TypeOK, NEW i \in Scans, NEW h \in Scans, NEW k, NEW l, Once(i, k), Once(h, k),
           Stated(Final(i, k).labels[l], Final(h, k).labels[l]),
           Final(i, k).labels[l] # Final(h, k).labels[l]
    PROVE  k \in Changed(batches[h], batches[i], l)
<1>1. k \in Keys(batches[i]) /\ Final(i, k) = LastOf(batches[i], k)
  BY DEF Once, Final
<1>2. PICK r \in Rows(batches[h]) : r.key = k
  BY DEF Once, Keys
<1>3. r = Final(h, k)
  BY <1>2 DEF Once
<1> DEFINE m == [old |-> LastOf(batches[i], r.key), new |-> r]
<1>4. m \in Pairs(batches[h], batches[i])
  BY <1>1, <1>2 DEF Pairs
<1>5. m.old = Final(i, k) /\ m.new = Final(h, k) /\ m.new.key = k
  BY <1>1, <1>2, <1>3
<1> HIDE DEF m
<1> QED BY <1>4, <1>5 DEF Changed

\* A trade in the earlier of two compared batches, outstanding, is missed in the later.
LEMMA DropFound ==
    ASSUME TypeOK, NEW i \in Scans, NEW h \in Scans, NEW k, kind # "margin_state",
           Once(i, k), Final(i, k).outstanding, k \notin Keys(batches[h])
    PROVE  k \in Dropped(batches[h], batches[i])
<1>1. PICK r \in Rows(batches[i]) : r.key = k /\ k # None
  BY DEF Once, Keys
<1>2. r = Final(i, k)
  BY <1>1 DEF Once
<1> QED BY <1>1, <1>2 DEF Dropped

\* A field of a trade does not change in silence, however many scans, empty files and
\* absences lie between the two snapshots that state it.
THEOREM ChangesReported == Spec => []NoSilentChange
<1>1. LifecycleInv => NoSilentChange
  <2> SUFFICES ASSUME LifecycleInv, kind \in SnapshotKind, NEW j \in Scans, NEW n \in Scans,
                      NEW l \in Labels, NEW k \in Keys(batches[j]) \intersect Keys(batches[n]),
                      j < n, ((j + 1)..n) \intersect lost = {},
                      \A i \in j..n :
                          \/ Once(i, k) /\ Final(i, k).outstanding /\ Final(i, k).labels[l] # None
                          \/ kind # "margin_state" /\ k \notin Keys(batches[i]),
                      Final(j, k).labels[l] # Final(n, k).labels[l]
               PROVE  \E i \in (j + 1)..n : \E x \in Reported(i) : x.key = k /\ x.check \in {l, "dropped"}
    BY DEF NoSilentChange
  <2>0. TypeOK /\ j \in Int /\ n \in Int /\ 1 <= j /\ n <= Len(batches) /\ Len(batches) \in Nat
    BY DEF LifecycleInv, TypeOK, Scans
  <2> DEFINE S == {i \in j..n : k \in Keys(batches[i]) /\ Final(i, k).labels[l] = Final(j, k).labels[l]}
  <2>1. j \in S /\ n \notin S /\ S \in SUBSET (j..n)
    BY <2>0
  <2>2. \A i \in j..n : i \in S <=> k \in Keys(batches[i]) /\ Final(i, k).labels[l] = Final(j, k).labels[l]
    OBVIOUS
  <2> HIDE DEF S
  <2>3. PICK i \in S : \E h \in (i + 1)..n : h \in Scans /\ h \notin S /\ PriorBatch(h) = ReadBack(i)
    BY <2>0, <2>1, <2>2, LeavingCompared
  <2>4. PICK h \in (i + 1)..n : h \in Scans /\ h \notin S /\ PriorBatch(h) = ReadBack(i)
    BY <2>3
  <2>5. i \in j..n /\ i \in Scans /\ h \in (j + 1)..n /\ h \in j..n
    BY <2>0, <2>1, <2>3, <2>4 DEF Scans
  <2>6. k \in Keys(batches[i]) /\ Final(i, k).labels[l] = Final(j, k).labels[l]
    BY <2>2, <2>3, <2>5
  <2>7. Once(i, k) /\ Final(i, k).outstanding /\ Final(i, k).labels[l] # None
    BY <2>5, <2>6
  <2>8. PriorBatch(h) = batches[i] /\ batches[i] # <<>>
    <3>1. ReadBack(i) = batches[i]
      BY <2>0, <2>5, RowsReadBack DEF ReadBack
    <3>2. Keys(<<>>) = {}
      BY DEF Keys, Rows
    <3> QED BY <2>4, <2>6, <3>1, <3>2
  <2>9. Reported(h) = raised[h]
    BY <2>5 DEF Reported
  <2>10. CASE k \in Keys(batches[h])
    <3>1. Once(h, k) /\ Final(h, k).labels[l] # None
      BY <2>5, <2>10
    <3>2. Final(h, k).labels[l] # Final(i, k).labels[l]
      BY <2>2, <2>4, <2>5, <2>6, <2>10
    <3>3. k \in Changed(batches[h], batches[i], l)
      BY <2>0, <2>4, <2>5, <2>7, <3>1, <3>2, ChangeFound DEF Stated
    <3>4. [check |-> l, key |-> k] \in raised[h]
      BY <2>4, <2>8, <3>3, SnapshotRaised
    <3> QED BY <2>5, <2>9, <3>4
  <2>11. CASE k \notin Keys(batches[h])
    <3>1. kind # "margin_state"
      BY <2>5, <2>11 DEF Once
    <3>2. k \in Dropped(batches[h], batches[i])
      BY <2>0, <2>4, <2>5, <2>7, <2>11, <3>1, DropFound
    <3>3. [check |-> "dropped", key |-> k] \in raised[h]
      BY <2>4, <2>8, <3>2, SnapshotRaised
    <3> QED BY <2>5, <2>9, <3>3
  <2> QED BY <2>10, <2>11
<1> QED BY <1>1, InvAlways, PTL

\* The greatest margin of a portfolio is one of those posted.
LEMMA GreatestMargin ==
    ASSUME TypeOK, kind = "margin_activity", NEW n \in Scans, NEW k, Margins(batches[n], k) # {}
    PROVE  /\ Margins(batches[n], k) \subseteq Int
           /\ Greatest(n, k) \in Margins(batches[n], k)
           /\ \A y \in Margins(batches[n], k) : y <= Greatest(n, k)
<1> DEFINE b == batches[n]
<1>1. \A r \in Rows(b) : r.margin \in Int \union {None}
  <2>1. \A r \in Rows(b) : r \in [key : {r.key}, event : {r.event}, reported : {r.reported},
                                  margin : Int \union {None}]
    BY MarginRowFacts
  <2> QED BY <2>1
<1>2. Margins(b, k) \subseteq Int
  BY <1>1 DEF Margins
<1>3. Len(b) \in Nat
  BY BatchFacts
<1> HIDE DEF b
<1>4. IsFiniteSet(Margins(b, k))
  <2> DEFINE D == 1..Len(b)
             f == [i \in D |-> b[i].margin]
             I == {f[i] : i \in D}
  <2>1. IsFiniteSet(D)
    <3>1. 1 \in Int /\ Len(b) \in Int
      BY <1>3
    <3> QED BY <3>1, FS_Interval
  <2>2. Margins(b, k) \subseteq I
    BY DEF Margins, Rows
  <2> HIDE DEF D
  <2>3. IsFiniteSet(I)
    <3>1. f \in [D -> I]
      OBVIOUS
    <3>2. f \in Surjection(D, I)
      BY <3>1 DEF Surjection
    <3> HIDE DEF f, I
    <3> QED BY <2>1, <3>2, FS_Surjection
  <2> HIDE DEF I
  <2> QED BY <2>2, <2>3, FS_Subset
<1>5. PICK x \in Margins(b, k) : \A y \in Margins(b, k) : y <= x
  <2> DEFINE M == Margins(b, k)
  <2>1. M \in SUBSET Int /\ IsFiniteSet(M) /\ M # {}
    BY <1>2, <1>4 DEF b
  <2> HIDE DEF M
  <2>2. \E x \in M : \A y \in M : y <= x
    BY <2>1, GreatestOf
  <2> QED BY <2>2 DEF M
<1>6. Greatest(n, k) \in Margins(b, k) /\ \A y \in Margins(b, k) : y <= Greatest(n, k)
  BY <1>5 DEF Greatest, b
<1> QED BY <1>2, <1>6 DEF b

\* The margin checks of a scan that was compared, in the form the property asks.
LEMMA MarginRaised ==
    ASSUME LifecycleInv, kind = "margin_activity", NEW n \in Scans, PriorBatch(n) # <<>>, NEW k
    PROVE  /\ k \in PortfolioGap(batches[n], PriorBatch(n)) => [check |-> "gap", key |-> k] \in raised[n]
           /\ k \in NegativeTrend(batches[n], PriorBatch(n))
              => [check |-> "negative_trend", key |-> k] \in raised[n]
<1> DEFINE b == batches[n]
           p == PriorBatch(n)
<1>1. raised[n] = MarginIssues(b, p)
  BY DEF LifecycleInv, AsChecked
<1> HIDE DEF b, p
<1>2. \A c, ks : k \in ks => [check |-> c, key |-> k] \in Raise(c, ks)
  BY RaiseWhat
<1>3. k \in PortfolioGap(b, p) => [check |-> "gap", key |-> k] \in raised[n]
  BY <1>1, <1>2 DEF MarginIssues
<1>4. k \in NegativeTrend(b, p) => [check |-> "negative_trend", key |-> k] \in raised[n]
  BY <1>1, <1>2 DEF MarginIssues
<1> QED BY <1>3, <1>4 DEF b, p

\* The margin of a portfolio does not shrink in silence, however many batches leave
\* the portfolio out or are empty between the two that state it.
THEOREM DeclinesReported == Spec => []NoSilentDecline
<1>1. LifecycleInv => NoSilentDecline
  <2> SUFFICES ASSUME LifecycleInv, kind = "margin_activity", NEW j \in Scans, NEW n \in Scans,
                      NEW k \in Keys(batches[j]) \intersect Keys(batches[n]), j < n,
                      \A i \in j..n : k \in Keys(batches[i]) => Margins(batches[i], k) # {},
                      Greatest(n, k) < Greatest(j, k), ((j + 1)..n) \intersect lost = {}
               PROVE  \E i \in (j + 1)..n : \E x \in Reported(i) :
                          x.key = k /\ x.check \in {"gap", "negative_trend"}
    BY DEF NoSilentDecline
  <2>0. TypeOK /\ j \in Int /\ n \in Int /\ 1 <= j /\ n <= Len(batches) /\ Len(batches) \in Nat
    BY DEF LifecycleInv, TypeOK, Scans
  <2>1. \A i \in j..n : i \in Scans
    BY <2>0 DEF Scans
  <2>2. \A i \in j..n : k \in Keys(batches[i]) =>
            /\ Greatest(i, k) \in Margins(batches[i], k) /\ Greatest(i, k) \in Int
            /\ \A y \in Margins(batches[i], k) : y \in Int /\ y <= Greatest(i, k)
    <3> SUFFICES ASSUME NEW i \in j..n, k \in Keys(batches[i])
                 PROVE  /\ Greatest(i, k) \in Margins(batches[i], k) /\ Greatest(i, k) \in Int
                        /\ \A y \in Margins(batches[i], k) : y \in Int /\ y <= Greatest(i, k)
      OBVIOUS
    <3>1. i \in Scans /\ Margins(batches[i], k) # {}
      BY <2>1
    <3> QED BY <2>0, <3>1, GreatestMargin
  <2> DEFINE S == {i \in j..n : k \in Keys(batches[i]) /\ Greatest(j, k) <= Greatest(i, k)}
  <2>3. j \in S /\ n \notin S /\ S \in SUBSET (j..n)
    <3>1. j \in j..n /\ n \in j..n
      BY <2>0
    <3>2. Greatest(j, k) \in Int /\ Greatest(n, k) \in Int
      BY <2>2, <3>1
    <3> QED BY <3>1, <3>2
  <2>4. \A i \in j..n : i \in S <=> k \in Keys(batches[i]) /\ Greatest(j, k) <= Greatest(i, k)
    OBVIOUS
  <2> HIDE DEF S
  <2>5. PICK i \in S : \E h \in (i + 1)..n : h \in Scans /\ h \notin S /\ PriorBatch(h) = ReadBack(i)
    BY <2>0, <2>3, <2>4, LeavingCompared
  <2>6. PICK h \in (i + 1)..n : h \in Scans /\ h \notin S /\ PriorBatch(h) = ReadBack(i)
    BY <2>5
  <2>7. i \in j..n /\ i \in Scans /\ h \in (j + 1)..n /\ h \in j..n
    BY <2>0, <2>3, <2>5, <2>6 DEF Scans
  <2>8. k \in Keys(batches[i]) /\ Greatest(j, k) <= Greatest(i, k)
    BY <2>4, <2>5, <2>7
  <2> DEFINE p == PriorBatch(h)
  <2>9. Rows(p) = {Stored(r) : r \in Rows(batches[i])} /\ Keys(p) = Keys(batches[i]) /\ p # <<>>
    <3>1. batches[i] # <<>>
      <4>1. Keys(<<>>) = {}
        BY DEF Keys, Rows
      <4> QED BY <2>8, <4>1
    <3>2. PICK q : q = ReadBack(i)
      OBVIOUS
    <3>3. Rows(q) = {Stored(r) : r \in Rows(batches[i])} /\ Keys(q) = Keys(batches[i]) /\ q # <<>>
      BY <2>0, <2>7, <3>1, <3>2, RowsReadBack DEF ReadBack
    <3> QED BY <2>6, <3>2, <3>3
  <2>10. Reported(h) = raised[h]
    BY <2>7 DEF Reported
  <2> HIDE DEF p
  <2>11. CASE k \in Keys(batches[h])
    <3>1. /\ Greatest(h, k) \in Int /\ Greatest(i, k) \in Int /\ Greatest(j, k) \in Int
          /\ Greatest(i, k) \in Margins(batches[i], k)
          /\ \A y \in Margins(batches[h], k) : y \in Int /\ y <= Greatest(h, k)
      <4>1. j \in j..n /\ k \in Keys(batches[j])
        BY <2>0
      <4> QED BY <2>2, <2>7, <2>8, <2>11, <4>1
    <3>2. Greatest(h, k) < Greatest(i, k)
      <4>1. ~(Greatest(j, k) <= Greatest(h, k))
        BY <2>4, <2>6, <2>7, <2>11
      <4> QED BY <2>8, <3>1, <4>1
    <3>3. Greatest(i, k) \in Margins(p, k)
      <4>1. PICK r \in Rows(batches[i]) : r.key = k /\ r.margin = Greatest(i, k)
        BY <3>1 DEF Margins
      <4>2. Stored(r).key = k /\ Stored(r).margin = Greatest(i, k) /\ Stored(r) \in Rows(p)
        BY <2>0, <2>7, <2>9, <4>1, StoredFacts
      <4>3. Greatest(i, k) # None
        BY <3>1, RowsAssumption
      <4> QED BY <4>2, <4>3 DEF Margins
    <3>4. \A y \in Margins(batches[h], k) : y < Greatest(i, k)
      BY <3>1, <3>2
    <3>5. k \in NegativeTrend(batches[h], p)
      BY <2>7, <2>11, <3>3, <3>4 DEF NegativeTrend
    <3>6. [check |-> "negative_trend", key |-> k] \in raised[h]
      BY <2>6, <2>9, <3>5, MarginRaised DEF p
    <3> QED BY <2>7, <2>10, <3>6
  <2>12. CASE k \notin Keys(batches[h])
    <3>1. k \in PortfolioGap(batches[h], p)
      BY <2>8, <2>9, <2>12 DEF PortfolioGap
    <3>2. [check |-> "gap", key |-> k] \in raised[h]
      BY <2>6, <2>9, <3>1, MarginRaised DEF p
    <3> QED BY <2>7, <2>10, <3>2
  <2> QED BY <2>11, <2>12
<1> QED BY <1>1, InvAlways, PTL

----------------------------------------------------------------------------
(* Erosion *)

\* There are powers: finite tables of them agree where they overlap, and a table that
\* is missing first could be had from the one before.
LEMMA PowerExists ==
    ASSUME NEW b \in Nat
    PROVE  \E p : p = [n \in Nat |-> IF n = 0 THEN 1 ELSE b * p[n - 1]]
<1> DEFINE Table(n) == {g \in [0..n -> Nat] : g[0] = 1 /\ \A i \in 1..n : g[i] = b * g[i - 1]}
<1>1. \A n \in Nat : \A g : g \in Table(n)
          <=> g \in [0..n -> Nat] /\ g[0] = 1 /\ \A i \in 1..n : g[i] = b * g[i - 1]
  OBVIOUS
<1> HIDE DEF Table
<1>2. \A n \in Nat : Table(n) # {}
  <2> SUFFICES ASSUME NEW n \in Nat, Table(n) = {} PROVE FALSE
    OBVIOUS
  <2> DEFINE T == {m \in 0..n : Table(m) = {}}
  <2>1. n \in T /\ T \in SUBSET (0..n) /\ 0 \in Int /\ n \in Int
    OBVIOUS
  <2>2. \A m \in 0..n : m \in T <=> Table(m) = {}
    OBVIOUS
  <2> HIDE DEF T
  <2>3. PICK m \in T : \A h \in T : m <= h
    BY <2>1, FirstScan
  <2>4. m \in 0..n /\ m \in Nat /\ Table(m) = {}
    BY <2>1, <2>2, <2>3
  <2>5. m # 0
    <3>1. [i \in 0..0 |-> 1] \in Table(0)
      <4> DEFINE g == [i \in 0..0 |-> 1]
      <4>1. g \in [0..0 -> Nat] /\ g[0] = 1 /\ 1..0 = {} /\ 0 \in Nat
        OBVIOUS
      <4> HIDE DEF g
      <4> QED BY <1>1, <4>1 DEF g
    <3> QED BY <2>4, <3>1
  <2>6. m - 1 \in 0..n /\ m - 1 \in Nat /\ m - 1 < m
    BY <2>4, <2>5
  <2>7. PICK g : g \in Table(m - 1)
    BY <2>2, <2>3, <2>4, <2>6
  <2>8. g \in [0..(m - 1) -> Nat] /\ g[0] = 1 /\ \A i \in 1..(m - 1) : g[i] = b * g[i - 1]
    BY <1>1, <2>6, <2>7
  <2> DEFINE h == [i \in 0..m |-> IF i = m THEN b * g[m - 1] ELSE g[i]]
  <2>9. h \in Table(m)
    <3>1. h \in [0..m -> Nat]
      <4>1. g[m - 1] \in Nat /\ b * g[m - 1] \in Nat
        BY <2>6, <2>8
      <4>2. \A i \in 0..m : i # m => g[i] \in Nat
        BY <2>4, <2>8
      <4> QED BY <4>1, <4>2
    <3>2. h[0] = 1
      BY <2>4, <2>5, <2>8
    <3>3. \A i \in 1..m : h[i] = b * h[i - 1]
      <4> SUFFICES ASSUME NEW i \in 1..m PROVE h[i] = b * h[i - 1]
        OBVIOUS
      <4>1. i - 1 \in 0..m /\ i - 1 # m /\ h[i - 1] = g[i - 1]
        BY <2>4
      <4>2. CASE i = m
        BY <2>4, <4>1, <4>2
      <4>3. CASE i # m
        <5>1. i \in 1..(m - 1) /\ i \in 0..m
          BY <2>4, <4>3
        <5>2. h[i] = g[i]
          BY <4>3, <5>1
        <5> QED BY <2>8, <4>1, <5>1, <5>2
      <4> QED BY <4>2, <4>3
    <3> QED BY <1>1, <2>4, <3>1, <3>2, <3>3
  <2> QED BY <2>4, <2>9
<1>3. ASSUME NEW m \in Nat, NEW n \in Nat, m <= n, NEW g \in Table(m), NEW h \in Table(n)
      PROVE  \A i \in 0..m : g[i] = h[i]
  <2> SUFFICES ASSUME NEW x \in 0..m, g[x] # h[x] PROVE FALSE
    OBVIOUS
  <2> DEFINE T == {i \in 0..m : g[i] # h[i]}
  <2>1. x \in T /\ T \in SUBSET (0..m) /\ 0 \in Int /\ m \in Int
    OBVIOUS
  <2>2. \A i \in 0..m : i \in T <=> g[i] # h[i]
    OBVIOUS
  <2> HIDE DEF T
  <2>3. PICK i \in T : \A y \in T : i <= y
    BY <2>1, FirstScan
  <2>4. /\ g[0] = 1 /\ \A y \in 1..m : g[y] = b * g[y - 1]
        /\ h[0] = 1 /\ \A y \in 1..n : h[y] = b * h[y - 1]
    BY <1>1
  <2>5. i \in 1..m /\ i \in 1..n /\ i \in Nat
    <3>1. i \in 0..m /\ g[i] # h[i]
      BY <2>1, <2>2, <2>3
    <3> QED BY <1>3, <2>4, <3>1
  <2>6. i - 1 \in 0..m /\ i - 1 < i
    BY <2>5
  <2>7. g[i - 1] = h[i - 1]
    BY <2>1, <2>2, <2>3, <2>5, <2>6
  <2>8. g[i] = h[i]
    BY <2>4, <2>5, <2>7
  <2> QED BY <2>1, <2>2, <2>3, <2>8
<1> DEFINE t(n) == CHOOSE g : g \in Table(n)
           p == [n \in Nat |-> t(n)[n]]
<1>4. \A n \in Nat : t(n) \in Table(n)
  BY <1>2
<1>5. \A n \in Nat : p[n] = t(n)[n]
  OBVIOUS
<1>6. p = [n \in Nat |-> p[n]]
  OBVIOUS
<1> HIDE DEF t, p
<1>7. \A n \in Nat : p[n] = IF n = 0 THEN 1 ELSE b * p[n - 1]
  <2> SUFFICES ASSUME NEW n \in Nat PROVE p[n] = IF n = 0 THEN 1 ELSE b * p[n - 1]
    OBVIOUS
  <2>1. t(n)[0] = 1 /\ \A i \in 1..n : t(n)[i] = b * t(n)[i - 1]
    BY <1>1, <1>4
  <2>2. CASE n = 0
    BY <1>5, <2>1, <2>2
  <2>3. CASE n # 0
    <3>1. n - 1 \in Nat /\ n - 1 <= n /\ n \in 1..n /\ n - 1 \in 0..(n - 1)
      BY <2>3
    <3>2. t(n)[n - 1] = t(n - 1)[n - 1]
      <4>1. t(n) \in Table(n) /\ t(n - 1) \in Table(n - 1)
        BY <1>4, <3>1
      <4> QED BY <1>3, <3>1, <4>1
    <3> QED BY <1>5, <2>1, <2>3, <3>1, <3>2
  <2> QED BY <2>2, <2>3
<1>8. p = [n \in Nat |-> IF n = 0 THEN 1 ELSE b * p[n - 1]]
  BY <1>6, <1>7
<1> QED BY <1>8

LEMMA PowerFacts ==
    ASSUME NEW b \in Nat
    PROVE  /\ Power(b)[0] = 1
           /\ \A n \in Nat : Power(b)[n] \in Nat /\ Power(b)[n + 1] = b * Power(b)[n]
<1> DEFINE p == Power(b)
<1>1. p = [n \in Nat |-> IF n = 0 THEN 1 ELSE b * p[n - 1]]
  BY PowerExists, Zenon DEF Power
<1> HIDE DEF p
<1>2. \A n \in Nat : p[n] = IF n = 0 THEN 1 ELSE b * p[n - 1]
  BY <1>1
<1>3. \A n \in Nat : p[n] \in Nat
  <2> SUFFICES ASSUME NEW n \in Nat, p[n] \notin Nat PROVE FALSE
    OBVIOUS
  <2> DEFINE T == {i \in 0..n : p[i] \notin Nat}
  <2>1. n \in T /\ T \in SUBSET (0..n) /\ 0 \in Int /\ n \in Int
    OBVIOUS
  <2>2. \A i \in 0..n : i \in T <=> p[i] \notin Nat
    OBVIOUS
  <2> HIDE DEF T
  <2>3. PICK i \in T : \A y \in T : i <= y
    BY <2>1, FirstScan
  <2>4. i \in 0..n /\ i \in Nat /\ p[i] \notin Nat
    BY <2>1, <2>2, <2>3
  <2>5. i # 0
    BY <1>2, <2>4
  <2>6. i - 1 \in 0..n /\ i - 1 \in Nat /\ i - 1 < i
    BY <2>4, <2>5
  <2>7. p[i - 1] \in Nat
    BY <2>2, <2>3, <2>4, <2>6
  <2>8. p[i] = b * p[i - 1]
    BY <1>2, <2>4, <2>5
  <2> QED BY <2>4, <2>7, <2>8
<1>4. p[0] = 1
  BY <1>2
<1>5. \A n \in Nat : p[n + 1] = b * p[n]
  <2> SUFFICES ASSUME NEW n \in Nat PROVE p[n + 1] = b * p[n]
    OBVIOUS
  <2>1. n + 1 \in Nat /\ n + 1 # 0 /\ (n + 1) - 1 = n
    OBVIOUS
  <2> QED BY <1>2, <2>1
<1> QED BY <1>3, <1>4, <1>5 DEF p

\* A greater fall of a positive value than the check allows is reported.
LEMMA FallFound ==
    ASSUME LifecycleInv, kind \in SnapshotKind, NEW i \in Scans, NEW h \in Scans, h = i + 1, NEW k,
           Once(i, k), Once(h, k), Final(i, k).value # None, Final(h, k).value # None,
           Final(i, k).value > 0, [check |-> "value_fell", key |-> k] \notin raised[h]
    PROVE  /\ Final(i, k).value \in Int /\ Final(h, k).value \in Int
           /\ 100 * Final(h, k).value >= Retained * Final(i, k).value
<1>0. TypeOK /\ i \in Int /\ h \in Int
  BY DEF LifecycleInv, TypeOK, Scans
<1>1. PICK r \in Rows(batches[h]) : r.key = k
  BY DEF Once, Keys
<1>2. PICK q \in Rows(batches[i]) : q.key = k
  BY DEF Once, Keys
<1>3. r = Final(h, k) /\ q = Final(i, k) /\ k \in Keys(batches[i])
  BY <1>1, <1>2 DEF Once
<1>4. q.value \in Int /\ r.value \in Int
  <2>1. batches[i] \in Batches[kind] /\ batches[h] \in Batches[kind]
    BY <1>0, BatchFacts
  <2>2. q.value \in Int \union {None} /\ r.value \in Int \union {None}
    BY <2>1, RowsAssumption
  <2> QED BY <1>3, <2>2
<1>5. PriorBatch(h) = batches[i] /\ batches[i] # <<>>
  <2>1. batches[i] # <<>>
    <3>1. Keys(<<>>) = {}
      BY DEF Keys, Rows
    <3> QED BY <1>3, <3>1
  <2>2. i \in 1..(h - 1) /\ (i + 1)..(h - 1) = {}
    BY <1>0 DEF Scans
  <2>3. PriorBatch(h) = [x \in 1..Len(batches[i]) |-> Stored(batches[i][x])]
    BY <1>0, <2>1, <2>2, ComparedWith
  <2> QED BY <1>0, <2>1, <2>3, RowsReadBack
<1> SUFFICES ASSUME 100 * r.value < Retained * q.value PROVE FALSE
  <2>1. Retained \in Int
    BY DEF Retained
  <2> QED BY <1>3, <1>4, <2>1
<1>6. 0 < q.value /\ Retained = 100 - FallLimit /\ FallLimit \in {30, 50}
  BY <1>3 DEF Retained, FallLimit
<1>7. r.value < q.value /\ q.value # 0 /\ Abs(q.value) = q.value
  BY <1>4, <1>6 DEF Abs
<1>8. Excess(q.value - r.value, q.value, FallLimit) > 0
  <2>1. Excess(q.value - r.value, q.value, FallLimit) = 100 * (q.value - r.value) - FallLimit * q.value
    BY <1>7 DEF Excess
  <2>2. CASE FallLimit = 30
    BY <1>4, <1>6, <2>1, <2>2
  <2>3. CASE FallLimit = 50
    BY <1>4, <1>6, <2>1, <2>3
  <2> QED BY <1>6, <2>2, <2>3
<1> DEFINE m == [old |-> LastOf(batches[i], r.key), new |-> r]
<1>9. m \in Pairs(batches[h], batches[i]) /\ m.old = q /\ m.new = r
  <2>1. LastOf(batches[i], r.key) = q
    BY <1>1, <1>3 DEF Final
  <2> QED BY <1>1, <1>3, <2>1 DEF Pairs
<1> HIDE DEF m
<1>10. m \in Falls(batches[h], batches[i]) /\ ~AtFallLimit(m)
  <2>1. Excess(q.value - r.value, q.value, FallLimit) \in Int
    BY <1>4, <1>6, <1>7 DEF Excess
  <2>2. q.value # None /\ r.value # None
    BY <1>3
  <2> QED BY <1>7, <1>8, <1>9, <2>1, <2>2 DEF Falls, AtFallLimit, Stated
<1>11. k \in NewKeys({x \in Falls(batches[h], batches[i]) : ~AtFallLimit(x)})
  BY <1>1, <1>9, <1>10 DEF NewKeys
<1>12. [check |-> "value_fell", key |-> k] \in SnapshotIssues(batches[h], batches[i])
  <2> DEFINE ks == NewKeys({x \in Falls(batches[h], batches[i]) : ~AtFallLimit(x)})
  <2>1. [check |-> "value_fell", key |-> k] \in Raise("value_fell", ks)
    BY <1>11, RaiseWhat
  <2> QED BY <2>1, SnapshotIssueWhat
<1>13. SnapshotIssues(batches[h], batches[i]) \subseteq raised[h]
  BY <1>5 DEF LifecycleInv, AsChecked
<1> QED BY <1>12, <1>13

LEMMA Multiply ==
    ASSUME NEW v \in Int, NEW w \in Int, NEW u \in Int, NEW r \in {50, 70}, NEW P \in Nat, NEW Q \in Nat,
           100 * w >= r * v, v * P >= u * Q
    PROVE  w * (100 * P) >= u * (r * Q)
<1>1. \A x, y \in Int : x >= y => x * P >= y * P
  OBVIOUS
<1>2. (100 * w) * P >= (r * v) * P
  BY <1>1
<1>3. \A x, y, z \in Int : (x * y) * z = x * (y * z) /\ x * y = y * x
  OBVIOUS
<1>4. v * P \in Int /\ u * Q \in Int /\ w * P \in Int
  OBVIOUS
<1>5. r * (v * P) >= r * (u * Q)
  BY <1>4
<1>6. (100 * w) * P = w * (100 * P) /\ (r * v) * P = r * (v * P) /\ r * (u * Q) = u * (r * Q)
  BY <1>3
<1>7. w * (100 * P) \in Int /\ r * (v * P) \in Int /\ u * (r * Q) \in Int
  BY <1>4, <1>6
<1> QED BY <1>2, <1>5, <1>6, <1>7

\* A value that every snapshot states loses no more than the limit per snapshot in
\* silence, over any number of snapshots.
THEOREM ErosionHasAFloor == Spec => []ErosionBounded
<1>1. LifecycleInv => ErosionBounded
  <2> SUFFICES ASSUME LifecycleInv, kind \in SnapshotKind, NEW j \in Scans, NEW n \in Scans,
                      NEW k \in Keys(batches[j]), j < n, ((j + 1)..n) \intersect lost = {},
                      \A i \in j..n : Once(i, k) /\ Final(i, k).value # None,
                      Final(j, k).value > 0,
                      \A i \in (j + 1)..n : [check |-> "value_fell", key |-> k] \notin Reported(i)
               PROVE  Final(n, k).value * Power(100)[n - j] >= Final(j, k).value * Power(Retained)[n - j]
    BY DEF ErosionBounded
  <2>0. /\ j \in Int /\ n \in Int /\ 1 <= j /\ n <= Len(batches) /\ Len(batches) \in Nat
        /\ \A i \in j..n : i \in Scans /\ i \in Int
    BY DEF LifecycleInv, TypeOK, Scans
  <2> DEFINE v(i) == Final(i, k).value
             P == Power(100)
             Q == Power(Retained)
             Bound(i) == v(i) > 0 /\ v(i) * P[i - j] >= v(j) * Q[i - j]
             T == {i \in j..n : ~Bound(i)}
  <2>1. Retained \in {50, 70} /\ Retained \in Nat /\ 100 \in Nat
    BY DEF Retained
  <2>2. /\ P[0] = 1 /\ Q[0] = 1
        /\ \A d \in Nat : P[d] \in Nat /\ P[d + 1] = 100 * P[d] /\ Q[d] \in Nat /\ Q[d + 1] = Retained * Q[d]
    <3>1. P[0] = 1 /\ \A d \in Nat : P[d] \in Nat /\ P[d + 1] = 100 * P[d]
      BY <2>1, PowerFacts
    <3>2. PICK b \in Nat : b = Retained
      BY <2>1
    <3>3. Power(b)[0] = 1 /\ \A d \in Nat : Power(b)[d] \in Nat /\ Power(b)[d + 1] = b * Power(b)[d]
      BY PowerFacts
    <3> QED BY <3>1, <3>2, <3>3
  <2>3. ASSUME NEW i \in j..n, i + 1 \in j..n, v(i) > 0
        PROVE  v(i) \in Int /\ v(i + 1) \in Int /\ 100 * v(i + 1) >= Retained * v(i)
    <3>1. i + 1 \in (j + 1)..n /\ i \in Scans /\ i + 1 \in Scans
      BY <2>0, <2>3
    <3>2. [check |-> "value_fell", key |-> k] \notin raised[i + 1]
      BY <3>1 DEF Reported
    <3> QED BY <2>3, <3>1, <3>2, FallFound
  <2>4. T \in SUBSET (j..n) /\ \A i \in j..n : i \in T <=> ~Bound(i)
    OBVIOUS
  <2>5. T = {}
    <3> SUFFICES ASSUME T # {} PROVE FALSE
      OBVIOUS
    <3> HIDE DEF T
    <3>1. PICK h \in T : \A i \in T : h <= i
      BY <2>0, <2>4, FirstScan
    <3>2. h \in j..n /\ ~Bound(h) /\ h \in Int
      BY <2>0, <2>4, <3>1
    <3>3. v(j) \in Int
      <4>1. j \in j..n /\ j + 1 \in j..n /\ v(j) > 0
        BY <2>0
      <4> QED BY <2>3, <4>1
    <3> HIDE DEF v, P, Q
    <3>4. h # j
      <4>1. Bound(j)
        <5>1. j - j = 0 /\ v(j) * 1 = v(j) /\ v(j) > 0
          BY <2>0, <3>3 DEF v
        <5> QED BY <2>2, <3>3, <5>1
      <4> QED BY <3>2, <4>1
    <3>5. PICK i \in Int : h = i + 1
      <4>1. h = (h - 1) + 1 /\ h - 1 \in Int
        BY <3>2
      <4> QED BY <4>1
    <3>6. i \in j..n /\ i < h /\ i - j \in Nat /\ h - j = (i - j) + 1
      BY <2>0, <3>2, <3>4, <3>5
    <3>7. Bound(i)
      BY <2>4, <3>1, <3>2, <3>5, <3>6
    <3>8. v(i) \in Int /\ v(h) \in Int /\ 100 * v(h) >= Retained * v(i)
      BY <2>3, <3>2, <3>5, <3>6, <3>7
    <3>9. PICK d \in Nat : d = i - j
      BY <3>6
    <3>10. v(h) * (100 * P[d]) >= v(j) * (Retained * Q[d])
      <4>1. v(i) * P[d] >= v(j) * Q[d] /\ P[d] \in Nat /\ Q[d] \in Nat
        BY <2>2, <3>7, <3>9
      <4> QED BY <2>1, <3>3, <3>8, <4>1, Multiply
    <3>11. v(h) * P[h - j] >= v(j) * Q[h - j]
      BY <2>2, <3>6, <3>9, <3>10
    <3>12. v(h) > 0
      <4>1. v(i) > 0
        BY <3>7
      <4> QED BY <2>1, <3>8, <4>1
    <3> QED BY <3>2, <3>11, <3>12
  <2>6. n \in j..n
    BY <2>0
  <2> QED BY <2>4, <2>5, <2>6
<1> QED BY <1>1, InvAlways, PTL
================================================================================
