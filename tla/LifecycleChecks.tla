---------------------------- MODULE LifecycleChecks ----------------------------
(***************************************************************************)
(* The cross-batch checks: a scan with --store compares the batch it reads *)
(* with what earlier scans left in the store.  Record scans (EMIR, SFTR)   *)
(* compare with every earlier record of the same UTIs, snapshot scans (TSR,*)
(* MSR) and margin scans (MAR) with the latest earlier batch that has rows.*)
(*                                                                         *)
(* The scans of one store run here one after the other; HistoryStore shows *)
(* that concurrent ones get the prior view of such an order.  The key of a *)
(* row is its trimmed UTI or portfolio code, None when blank; letter case, *)
(* where the code ignores it, is ignored here.                             *)
(***************************************************************************)
EXTENDS Integers, Sequences, FiniteSets

CONSTANTS
    None,       \* a field that is absent
    Batches,    \* Batches[k]: the batches a scan of kind k may read
    Second,     \* units of time in a second
    Day,        \* units of time in a day
    MaxDelay,   \* max_reporting_delay_hours, in units of time
    MaxScans    \* bound on the scans of a store

RecordKind   == {"emir", "sftr"}
SnapshotKind == {"tr_state", "sftr_tr_state", "margin_state"}
AnyKind      == RecordKind \union SnapshotKind \union {"margin_activity"}

ASSUME LifecycleAssumption ==
    /\ DOMAIN Batches = AnyKind
    /\ Second \in Nat \ {0} /\ Day \in Nat \ {0}
    /\ MaxDelay \in Nat /\ MaxScans \in Nat

VARIABLES
    kind,       \* what the scans of this store read
    batches,    \* the batches they persisted, in order
    raised,     \* raised[n]: the cross-batch issues scan n found
    lost        \* the scans that failed before they reported them

vars == <<kind, batches, raised, lost>>

Rows(b) == {b[i] : i \in 1..Len(b)}

Keys(b) == {r.key : r \in Rows(b)} \ {None}

\* What the readers give: a row is a record; an amount or a time may be missing.
ASSUME RowsAssumption ==
    /\ None \notin Int
    /\ \A k \in AnyKind : \A b \in Batches[k] : b \in Seq(Rows(b))
    /\ \A k \in RecordKind : \A b \in Batches[k] : \A r \in Rows(b) :
           r \in [key : {r.key}, action : {r.action},
                 valuation : Int \union {None}, termination : Int \union {None}]
    /\ \A k \in SnapshotKind : \A b \in Batches[k] : \A r \in Rows(b) : r.value \in Int \union {None}
    /\ \A b \in Batches["margin_activity"] : \A r \in Rows(b) :
           r \in [key : {r.key}, event : {r.event}, reported : {r.reported}, margin : Int \union {None}]

Stated(x, y) == x # None /\ y # None

Abs(x) == IF x < 0 THEN -x ELSE x

CheckName ==
    {"modi_without_newt", "etrm_without_newt", "duplicate_newt", "valuation_regression",
     "valuation_after_termination", "dropped", "value_fell", "haircut_drift", "maturity",
     "portfolio", "haircut", "category", "gap", "recurring_late", "negative_trend"}

Issue == [check : CheckName, key : UNION {Keys(b) : b \in Batches[kind]}]

TypeOK ==
    /\ kind \in AnyKind
    /\ batches \in Seq(Batches[kind])
    /\ raised \in Seq(SUBSET Issue) /\ Len(raised) = Len(batches)
    /\ lost \subseteq 1..Len(batches)

Init == kind \in AnyKind /\ batches = <<>> /\ raised = <<>> /\ lost = {}

----------------------------------------------------------------------------
\* What a row is when it comes back from the store: timestamps are kept as whole
\* seconds.

Truncated(t) == IF t = None THEN None ELSE (t \div Second) * Second

Stored(r) ==
    CASE kind \in RecordKind      -> [r EXCEPT !.valuation = Truncated(@)]
      [] kind \in SnapshotKind    -> r
      [] kind = "margin_activity" -> [r EXCEPT !.event = Truncated(@), !.reported = Truncated(@)]

\* load_prior_emir and load_prior_sftr for batch b, below the scan's own id.
PriorRecords(id, b) ==
    {Stored(r) : r \in {q \in UNION {Rows(batches[n]) : n \in 1..(id - 1)} : q.key \in Keys(b)}}

Filled(id) == {n \in 1..(id - 1) : batches[n] # <<>>}

Latest(ids) == CHOOSE n \in ids : \A m \in ids : m <= n

\* Fault (a mutated form, as are the definitions marked Fault below): MIN(scan_id)
\* in place of MAX(scan_id).
PriorBatchFirst(id) ==
    IF Filled(id) = {} THEN <<>>
    ELSE LET b == batches[CHOOSE n \in Filled(id) : \A m \in Filled(id) : n <= m]
         IN [i \in 1..Len(b) |-> Stored(b[i])]

\* load_latest_prior_*: all rows of one scan, in the order they were inserted.
PriorBatch(id) ==
    IF Filled(id) = {} THEN <<>>
    ELSE LET b == batches[Latest(Filled(id))]
         IN [i \in 1..Len(b) |-> Stored(b[i])]

----------------------------------------------------------------------------
\* Checks on records: each is the set of keys it raises an issue for

WithAction(rows, actions) == {r \in rows : r.key # None /\ r.action \in actions}

KeysOf(rows) == {r.key : r \in rows}

Newts(prior) == KeysOf(WithAction(prior, {"NEWT"}))

\* Fault: a correction is not taken for a modification.
ModiOnlyWithoutNewt(b, prior) == KeysOf(WithAction(Rows(b), {"MODI"})) \ Newts(prior)

ModiWithoutNewt(b, prior) == KeysOf(WithAction(Rows(b), {"MODI", "CORR"})) \ Newts(prior)

EtrmWithoutNewt(b, prior) == KeysOf(WithAction(Rows(b), {"ETRM"})) \ Newts(prior)

DuplicateNewtForUti(b, prior) == KeysOf(WithAction(Rows(b), {"NEWT"})) \intersect Newts(prior)

Valuations(rows) == {r \in WithAction(rows, {"VALU"}) : r.valuation # None}

\* Before the greatest timestamp of the earlier valuations of the UTI.
ValuationRegression(b, prior) ==
    {r.key : r \in {v \in Valuations(Rows(b)) :
                        \E p \in Valuations(prior) : p.key = v.key /\ v.valuation < p.valuation}}

Terminations(rows) == {r \in WithAction(rows, {"ETRM"}) : r.termination # None}

\* On or after the day of the earliest termination of the UTI.
ValuationAfterTermination(b, prior) ==
    {r.key : r \in {v \in Valuations(Rows(b)) :
                        \E t \in Terminations(prior) :
                            t.key = v.key /\ t.termination <= v.valuation \div Day}}

Raise(check, keys) == {[check |-> check, key |-> k] : k \in keys}

RecordIssues(b, prior) ==
    UNION {Raise("modi_without_newt", ModiWithoutNewt(b, prior)),
           Raise("etrm_without_newt", EtrmWithoutNewt(b, prior)),
           Raise("duplicate_newt", DuplicateNewtForUti(b, prior)),
           IF kind = "sftr" THEN {}
           ELSE Raise("valuation_regression", ValuationRegression(b, prior))
                \union Raise("valuation_after_termination", ValuationAfterTermination(b, prior))}

----------------------------------------------------------------------------
\* Checks on snapshots

\* Fault: the status is read the other way round.
DroppedNotOutstanding(b, p) ==
    IF kind = "margin_state" THEN {} ELSE {r.key : r \in {q \in Rows(p) : ~q.outstanding}} \ (Keys(b) \union {None})

\* UtiDroppedWithoutTermination; the MSR has no such check.
Dropped(b, p) ==
    IF kind = "margin_state" THEN {} ELSE {r.key : r \in {q \in Rows(p) : q.outstanding}} \ (Keys(b) \union {None})

\* The prior row a current one is compared with: the last of its key.
LastOf(p, k) == p[CHOOSE i \in 1..Len(p) : p[i].key = k /\ \A j \in 1..Len(p) : p[j].key = k => j <= i]

Pairs(b, p) == {[old |-> LastOf(p, r.key), new |-> r] : r \in {q \in Rows(b) : q.key \in Keys(p) }}

\* How far a change of old exceeds pct per cent of it: 0 exactly at the limit.
Excess(change, old, pct) == 100 * change - pct * Abs(old)

\* Fault: the limit is what must remain, not what may be lost.
FallLimitRemaining == IF kind = "margin_state" THEN 70 ELSE 50

\* VALUATION_REGRESSION_PCT and its siblings.
FallLimit == IF kind = "margin_state" THEN 30 ELSE 50

Falls(b, p) ==
    {m \in Pairs(b, p) : /\ Stated(m.old.value, m.new.value)
                         /\ m.old.value # 0 /\ m.new.value < m.old.value
                         /\ Excess(m.old.value - m.new.value, m.old.value, FallLimit) >= 0}

AtFallLimit(m) == Excess(m.old.value - m.new.value, m.old.value, FallLimit) = 0

\* HaircutDrift, of the MSR.
Drifts(b, p) ==
    IF kind # "margin_state" THEN {}
    ELSE {m \in Pairs(b, p) : /\ Stated(m.old.rate, m.new.rate) /\ m.old.rate # 0
                              /\ Excess(Abs(m.new.rate - m.old.rate), m.old.rate, 50) >= 0}

AtDriftLimit(m) == Excess(Abs(m.new.rate - m.old.rate), m.old.rate, 50) = 0

\* The fields whose change is an issue of its own.
Labels == CASE kind = "tr_state"      -> {"maturity", "portfolio"}
            [] kind = "sftr_tr_state" -> {"haircut"}
            [] OTHER                  -> {"category"}

\* MaturityChanged and its siblings, on a field that both rows state.
Changed(b, p, l) ==
    {m.new.key : m \in {q \in Pairs(b, p) : /\ Stated(q.old.labels[l], q.new.labels[l])
                                            /\ q.old.labels[l] # q.new.labels[l]}}

NewKeys(pairs) == {m.new.key : m \in pairs}

SnapshotIssues(b, p) ==
    UNION {Raise("dropped", Dropped(b, p)),
           Raise("value_fell", NewKeys({m \in Falls(b, p) : ~AtFallLimit(m)})),
           Raise("haircut_drift", NewKeys({m \in Drifts(b, p) : ~AtDriftLimit(m)})),
           UNION {Raise(l, Changed(b, p, l)) : l \in Labels}}

\* The percentages are computed in f64 from decimals: exactly at 30 per cent, or 50
\* per cent upwards, the rounding decides.  A fall to exactly one half is exact.
Borderline(b, p) ==
    IF kind # "margin_state" THEN {}
    ELSE Raise("value_fell", NewKeys({m \in Falls(b, p) : AtFallLimit(m)}))
         \union Raise("haircut_drift", NewKeys({m \in Drifts(b, p) : AtDriftLimit(m)}))

----------------------------------------------------------------------------
\* Checks on margin activity

Late(r) == Stated(r.event, r.reported) /\ r.reported > r.event /\ r.reported - r.event > MaxDelay

PortfolioGap(b, p) == Keys(p) \ Keys(b)

RecurringLateMargin(b, p) ==
    (KeysOf({r \in Rows(b) : Late(r)}) \intersect KeysOf({r \in Rows(p) : Late(r)})) \ {None}

Margins(b, k) == {r.margin : r \in {q \in Rows(b) : q.key = k}} \ {None}

\* Fault: the least margin before is compared with the greatest one now.
NegativeTrendOfLeast(b, p) ==
    {k \in Keys(b) : /\ Margins(b, k) # {} /\ Margins(p, k) # {}
                     /\ \A m \in Margins(p, k), n \in Margins(b, k) : n < m}

\* NegativeTrend: the greatest margin posted is below the greatest one before.
NegativeTrend(b, p) ==
    {k \in Keys(b) : Margins(b, k) # {} /\ \E m \in Margins(p, k) : \A n \in Margins(b, k) : n < m}

MarginIssues(b, p) ==
    UNION {Raise("gap", PortfolioGap(b, p)), Raise("recurring_late", RecurringLateMargin(b, p)),
           Raise("negative_trend", NegativeTrend(b, p))}

----------------------------------------------------------------------------
\* A scan persists its batch, loads the prior rows and runs the checks; it may
\* still fail before its reports are written.
ScanId == Len(batches) + 1

Scan(b, issues) ==
    /\ batches' = Append(batches, b)
    /\ raised' = Append(raised, issues)
    /\ lost' \in {lost, lost \union {ScanId}}
    /\ UNCHANGED kind

ScanRecords(b) == kind \in RecordKind /\ Scan(b, RecordIssues(b, PriorRecords(ScanId, b)))

\* Without prior rows the layer does not run.
ScanSnapshot(b) ==
    /\ kind \in SnapshotKind
    /\ LET p == PriorBatch(ScanId) IN
       IF p = <<>> THEN Scan(b, {})
       ELSE \E rounding \in SUBSET Borderline(b, p) : Scan(b, SnapshotIssues(b, p) \union rounding)

ScanMargins(b) ==
    /\ kind = "margin_activity"
    /\ LET p == PriorBatch(ScanId) IN Scan(b, IF p = <<>> THEN {} ELSE MarginIssues(b, p))

\* The user scans no more.
Done == Len(batches) = MaxScans /\ UNCHANGED vars

Next ==
    \/ /\ Len(batches) < MaxScans
       /\ \E b \in Batches[kind] : ScanRecords(b) \/ ScanSnapshot(b) \/ ScanMargins(b)
    \/ Done

Spec == Init /\ [][Next]_vars

----------------------------------------------------------------------------
\* Properties

Scans == 1..Len(batches)

\* The issues the user got to see from scan n.
Reported(n) == IF n \in lost THEN {} ELSE raised[n]

Flagged(k, n) == \E i \in raised[n] : i.key = k

Has(n, k, actions) == \E r \in Rows(batches[n]) : r.key = k /\ r.action \in actions

ValuationsOf(n, k) == {r \in Valuations(Rows(batches[n])) : r.key = k}

\* The life of a trade the way the regulation has it, read off all batches at once:
\* opened by one scan, changed and terminated by later ones, valued in the order of
\* time (to the second) and not after a termination.
LegalLife(k) ==
    /\ \A m, n \in Scans : Has(m, k, {"NEWT"}) /\ Has(n, k, {"NEWT"}) => m = n
    /\ \A n \in Scans : Has(n, k, {"MODI", "CORR", "ETRM"}) =>
           \E m \in 1..(n - 1) : Has(m, k, {"NEWT"})
    /\ kind = "emir" =>
           \A n \in Scans : \A m \in 1..(n - 1) : \A v \in ValuationsOf(n, k) :
               /\ \A u \in ValuationsOf(m, k) : v.valuation >= Truncated(u.valuation)
               /\ \A t \in Terminations(Rows(batches[m])) :
                      t.key = k => v.valuation \div Day < t.termination

\* The checks of EMIR and SFTR scans are silent about a trade exactly when its whole
\* history is legal, however its reports are spread over the scans.
SilentExactlyWhenLegal ==
    kind \in RecordKind =>
        \A k \in UNION {Keys(batches[n]) : n \in Scans} :
            (\A n \in Scans : ~Flagged(k, n)) <=> LegalLife(k)

Final(n, k) == LastOf(batches[n], k)

\* Scan n mentions k in one row only.
Once(n, k) == k \in Keys(batches[n]) /\ \A r \in Rows(batches[n]) : r.key = k => r = Final(n, k)

\* Between two snapshots of a trade that state different maturities (portfolios,
\* haircuts, categories) some report said so: that the field changed or, where there
\* is such a check, that the trade was gone.  Provided no scan failed in between, and
\* every snapshot that has the trade has it once, outstanding, with the field.
NoSilentChange ==
    kind \in SnapshotKind =>
        \A j, n \in Scans, l \in Labels : \A k \in Keys(batches[j]) \intersect Keys(batches[n]) :
            LET between == (j + 1)..n IN
            /\ j < n /\ between \intersect lost = {}
            /\ \A i \in j..n :
                   \/ Once(i, k) /\ Final(i, k).outstanding /\ Final(i, k).labels[l] # None
                   \/ kind # "margin_state" /\ k \notin Keys(batches[i])
            /\ Final(j, k).labels[l] # Final(n, k).labels[l]
            => \E i \in between : \E x \in Reported(i) : x.key = k /\ x.check \in {l, "dropped"}

\* A trade that stays away is reported once.  It is reported again only if every
\* snapshot since the first report was empty, because those are passed over.
DropRepeatsOnlyAfterEmpty ==
    \A m, n \in Scans : \A x \in raised[m] \intersect raised[n] :
        m < n /\ x.check = "dropped" /\ (\A i \in m..n : x.key \notin Keys(batches[i]))
        => \A i \in m..(n - 1) : batches[i] = <<>>

\* b to the power of n is Power(b)[n].
Power(b) == LET p[n \in Nat] == IF n = 0 THEN 1 ELSE b * p[n - 1] IN p

\* What must be left of a value in the next snapshot, in per cent, or it is reported.
Retained == IF kind = "margin_state" THEN 70 ELSE 50

\* Erosion without a report has a floor: a part of the value is lost in each snapshot,
\* half of it or, in the MSR, 30 per cent, and never more.
ErosionBounded ==
    kind \in SnapshotKind =>
        \A j, n \in Scans : \A k \in Keys(batches[j]) :
            /\ j < n /\ (j + 1)..n \intersect lost = {}
            /\ \A i \in j..n : Once(i, k) /\ Final(i, k).value # None
            /\ Final(j, k).value > 0
            /\ \A i \in (j + 1)..n : [check |-> "value_fell", key |-> k] \notin Reported(i)
            => Final(n, k).value * Power(100)[n - j] >= Final(j, k).value * Power(Retained)[n - j]

Greatest(n, k) == CHOOSE x \in Margins(batches[n], k) : \A y \in Margins(batches[n], k) : y <= x

\* The margin posted for a portfolio never shrinks between two batches that state it
\* without a report of a decline or, if a batch in between left the portfolio out, of
\* the gap; unless a scan failed in between.
NoSilentDecline ==
    kind = "margin_activity" =>
        \A j, n \in Scans : \A k \in Keys(batches[j]) \intersect Keys(batches[n]) :
            /\ j < n
            /\ \A i \in j..n : k \in Keys(batches[i]) => Margins(batches[i], k) # {}
            /\ Greatest(n, k) < Greatest(j, k)
            /\ (j + 1)..n \intersect lost = {}
            => \E i \in (j + 1)..n : \E x \in Reported(i) : x.key = k /\ x.check \in {"gap", "negative_trend"}

----------------------------------------------------------------------------
(* What keeps the properties: their inductive invariant *)

\* What a scan raised is what its checks say of its batch and of the history below
\* its own id, which later scans do not change.
AsChecked ==
    \A n \in Scans :
        LET b == batches[n]
            p == PriorBatch(n)
        IN /\ kind \in RecordKind => raised[n] = RecordIssues(b, PriorRecords(n, b))
           /\ kind \notin RecordKind /\ p = <<>> => raised[n] = {}
           /\ kind \in SnapshotKind /\ p # <<>> =>
                  /\ SnapshotIssues(b, p) \subseteq raised[n]
                  /\ raised[n] \subseteq SnapshotIssues(b, p) \union Borderline(b, p)
           /\ kind = "margin_activity" /\ p # <<>> => raised[n] = MarginIssues(b, p)

LifecycleInv == TypeOK /\ AsChecked
================================================================================
