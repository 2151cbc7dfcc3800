---------------------------- MODULE QualityPack ----------------------------
(***************************************************************************)
(* The files a firm gets back from its trade repository, and what the      *)
(* commands say of them: the scans of single files, the comparisons of two *)
(* and the data quality pack, which each look at the same rows with code   *)
(* of their own.  All are functions of the files and the day, so these are *)
(* the state: each day may bring new files, and the next edition of a file *)
(* has another value in a row, has a row twice, or does not come.          *)
(***************************************************************************)
EXTENDS SftrQualityIndicators, AnswerRecords, SequencesExt

CONSTANTS
    Regimes,
    Editions,   \* regime -> layer -> the rows of the first edition
    Values,     \* regime -> layer -> field -> what a later edition may have there
    Profile,    \* the profile of past rejections, for the pre-submission checks
    Start,      \* the day of the first scan
    Changes,    \* bound: the differences from the first editions and the days
    Weight      \* bound: layer -> what a difference there counts

\* The rows of the first editions and the values of later ones are what a
\* reader of the code can yield, and the configured thresholds are no less than
\* zero (resolve_threshold relies on that: thresholds.rs).
ASSUME PackAssumption ==
    /\ Start \in Nat /\ MaxReportingDelay \in Int
    /\ MaxValuationAge \in Int /\ MaxCollateralAge \in Int
    /\ \A id \in DOMAIN Configured : Configured[id] \in Nat \X Nat
    /\ \A reg \in Regimes :
          /\ reg \in {"EMIR", "SFTR"}
          /\ AreFiles(Editions[reg], reg)
          /\ \A layer \in DOMAIN Editions[reg] :
                /\ Weight[layer] \in Nat
                /\ \A field \in DOMAIN Values[reg][layer] :
                      Values[reg][layer][field] \subseteq ValueType(layer, field)

VARIABLES regime, files, day, changes
vars == <<regime, files, day, changes>>

Emir == regime = "EMIR"
Now == 48 * day

----------------------------------------------------------------------------
(* What is said of them.  fs are files: those at hand, or those in another   *)
(* order.                                                                    *)

Companion(fs) == IF "tsr" \in DOMAIN fs THEN <<fs["tsr"]>> ELSE << >>

\* The run_all_* functions, each over its own registry, for row i of a layer.
RowIssues(fs, layer, i, now) ==
    LET f == fs[layer]
        r == f[i]
    IN  CASE layer = "tsr" /\ Emir -> TsrIssues(i, f, now)
          [] layer = "tsr" /\ ~Emir -> SftrTsrIssues(i, f, now) \union MgldIssues(r)
          [] layer = "tar" /\ Emir -> EmirIssues(r, f, now) \union TarIssues(i, f, Companion(fs))
          [] layer = "tar" /\ ~Emir ->
                SftrIssues(r, f, now) \union SftrTarIssues(i, f, Companion(fs))
          [] layer = "book" /\ Emir -> EmirPscRepeatedRejection(r, Profile)
                                         \union EmirPscLikelyRejectionPattern(r, Profile)
          [] layer = "book" /\ ~Emir -> SftrPscRepeatedRejection(r, Profile)
                                          \union SftrPscLikelyRejectionPattern(r, Profile)
          [] layer = "msr" /\ Emir -> MsrIssues(r, now)
          [] layer = "msr" /\ ~Emir -> SftrMsrIssues(r)
          [] layer = "mar" /\ Emir -> MarIssues(i, f)
          [] layer = "mar" /\ ~Emir -> SftrMarIssues(r, now)
          [] layer = "reconciliation" -> IF Emir THEN RecIssues(r) ELSE SftrRecIssues(r)
          [] layer = "recon_stats" -> RstIssues(r, << >>)
          [] layer = "feedback" -> FeedbackIssues(r, Layer(fs, "book"))
          [] layer = "positions" -> PosIssues(r)
          [] layer = "warnings" -> WarningsIssues(r)
          [] layer = "queries" -> EmirQueryEnvelopeWellformed(r)
          [] layer = "advice" -> EmirStatusAdviceEnvelopeWellformed(r)
          [] layer = "reuse_activity" -> ReuseIssues(r)
          [] layer = "reuse_state" -> ReuseStateIssues(r)
          [] layer = "mcr" -> McrIssues(r, Companion(fs))
          [] layer = "tr_status_advice" -> {}

\* The comparisons of two files or three, about one trade.
TradeIssues(fs, uti, now) ==
    LET Both2(a, b) == {a, b} \subseteq DOMAIN fs
        tsr == Layer(fs, "tsr")
        tar == Layer(fs, "tar")
        book == Layer(fs, "book")
        msr == Layer(fs, "msr")
    IN  IF Emir
        THEN (IF Both2("tar", "tsr")
              THEN compute_tr_audit_emir_issues(uti, tar, tsr, Layer(fs, "feedback")) ELSE {})
             \union (IF Both2("book", "tsr") THEN compute_book_reconcile_issues(uti, book, tsr) ELSE {})
             \union (IF Both2("tsr", "msr")
                     THEN compute_collateral_emir_issues(uti, tsr, msr, now) ELSE {})
        ELSE (IF Both2("tar", "tsr") THEN compute_tr_audit_sftr_issues(uti, tar, tsr) ELSE {})
             \union (IF Both2("book", "tsr")
                     THEN compute_sftr_book_reconcile_issues(uti, book, tsr) ELSE {})

TradeLayers == {"tsr", "tar", "book", "feedback"} \union (IF Emir THEN {"msr"} ELSE {})
Trades(fs) == UNION {Utis(fs[layer]) : layer \in TradeLayers \cap DOMAIN fs}

Pack(fs, d) == IF Emir THEN compute_emir_dqi_pack(fs, d) ELSE compute_sftr_dqi_pack(fs, d)

\* Everything that is said on a day: of rows (by their contents), of trades
\* and of whole files.
RowFindings(fs, d) ==
    UNION {UNION {{<<layer, fs[layer][i], issue>> : issue \in RowIssues(fs, layer, i, 48 * d)} :
                  i \in DOMAIN fs[layer]} : layer \in DOMAIN fs}
TradeFindings(fs, d) ==
    UNION {{<<uti, issue>> : issue \in TradeIssues(fs, uti, 48 * d)} : uti \in Trades(fs)}
BatchFindings(fs) ==
    IF "tar" \notin DOMAIN fs THEN {}
    ELSE IF Emir THEN TarBatchIssues(fs["tar"]) ELSE SftrTarBatchIssues(fs["tar"])

----------------------------------------------------------------------------

Init ==
    /\ regime \in Regimes
    /\ files = Editions[regime]
    /\ day = Start
    /\ changes = 0

Change(layer) ==
    /\ changes + Weight[layer] <= Changes
    /\ changes' = changes + Weight[layer]
    /\ UNCHANGED <<regime, day>>

Reread(layer, i, field, value) ==
    /\ Change(layer)
    /\ files[layer][i][field] # value
    /\ files' = [files EXCEPT ![layer][i][field] = value]

RepeatRow(layer, i) ==
    /\ Change(layer)
    /\ files' = [files EXCEPT ![layer] = Append(@, @[i])]

NotReceived(layer) ==
    /\ Change(layer)
    /\ files' = [l \in DOMAIN files \ {layer} |-> files[l]]

DayPasses ==
    /\ changes < Changes
    /\ changes' = changes + 1
    /\ day' = day + 1
    /\ UNCHANGED <<regime, files>>

Next ==
    \/ \E layer \in DOMAIN files : \E i \in DOMAIN files[layer] :
          \/ \E field \in DOMAIN Values[regime][layer] :
                \E value \in Values[regime][layer][field] : Reread(layer, i, field, value)
          \/ RepeatRow(layer, i)
    \/ \E layer \in DOMAIN files : NotReceived(layer)
    \/ DayPasses

Spec == Init /\ [][Next]_vars

----------------------------------------------------------------------------
(* Properties *)

\* The files at hand are of the first edition's layers, and well-formed.
TypeOK ==
    /\ regime \in Regimes
    /\ DOMAIN files \subseteq DOMAIN Editions[regime] /\ AreFiles(files, regime)
    /\ day \in Nat /\ changes \in Nat

RowsWith(layer, id) ==
    {i \in DOMAIN files[layer] : id \in Ids(RowIssues(files, layer, i, Now))}

\* What an indicator counts is what the check of the same name flags, but for
\* rows of the first kind, which only the indicator counts, and rows of the
\* second, which only the check flags.
Mirrors(layer, counted, check, OnlyCounted(_), OnlyFlagged(_)) ==
    layer \in DOMAIN files =>
        LET flagged == RowsWith(layer, check)
        IN  /\ \A i \in counted \ flagged : OnlyCounted(files[layer][i])
            /\ \A i \in flagged \ counted : OnlyFlagged(files[layer][i])
Never(r) == FALSE
NotListed(r) == ~is_outstanding(r)
NotOpen(r) == ~StillOpen(r)
ZeroOrNotListed(field, r) == IsZero(r[field]) \/ NotListed(r)
OtherCopy(r) == \E i \in DOMAIN files["tsr"] :
                   SameBytes(files["tsr"][i].uti, r.uti) /\ NotListed(files["tsr"][i])
\* The check measures from the event; and the indicator drops the part of an hour
\* and takes a limit below zero for none, so that a delay of less than an hour
\* more than its limit is late for the check alone (tim_reporting_late.rs:42,
\* although its lines 6-7 speak of the "same threshold semantics").
TwoTimes(r) == r.event_timestamp # r.execution_timestamp
TwoTimesOrPartOfAnHour(r) ==
    \/ TwoTimes(r)
    \/ r.reporting_timestamp - r.execution_timestamp < Hours(max_hours + 1)
OtherRegime(r) == r.regime # regime
NoStatus(r) == ~Given(r.pairing_status)
AnotherToken(r) == OtherRegime(r) \/ ~Untrimmed(r.pairing_status, {"UNPAIRED"})
NoMargin(r) == ~Given(r.uti) \/ \E field \in ImCurrent \union VmCurrent : IsZero(r[field])

ZeroValuation(r) == ZeroOrNotListed("valuation_amount", r)
OtherKind(r) == ~OfPositions(r)
ZeroCollateral(r) == ZeroOrNotListed("collateral_value", r)
NotAsked(r) == NotOpen(r) \/ ~(Given(r.collateral_portfolio_code) \/ Given(r.collateral_isin))
\* Less than the loan after no haircut at all; a haircut takes off a negative
\* value upwards.
NoHaircut(r) == ~Has(r.haircut) \/ Negative(r.collateral_value)
Unreconciled(r) == ~Given(r.reconciliation_status)

EmirRollUp(pack) ==
    /\ Mirrors("tsr", pack.DQI_VAL_MISSING.rows, "TST.MISSING_VALUATION", ZeroValuation, NotOpen)
    /\ Mirrors("tsr", pack.DQI_DUPLICATE_REPORTS.rows, "TST.DUPLICATE_ACTIVE_UTI", OtherCopy, Never)
    /\ Mirrors("tsr", pack.DQI_ANOMALY_RATE.rows, "TST.PLACEHOLDER_MATURITY", AnyRow, Never)
    /\ Mirrors("msr", pack.DQI_COL_ALL_ZERO.rows, "MSR.MARGIN_MISSING_FOR_OUTSTANDING", NoMargin, Never)
    /\ Mirrors("tar", pack.DQI_TIM_REPORTING_LATE.rows, "TIM.LATE_REPORTING",
               TwoTimes, TwoTimesOrPartOfAnHour)
    /\ Mirrors("tar", pack.DQI_NATURE_MISSING.rows, "COMP.NATURE_MISSING", Never, Never)
    /\ Mirrors("feedback", pack.DQI_REJ_RATE.rows, "FBK.TR_REJECTED_UTI", OtherRegime, Never)
    /\ Mirrors("reconciliation", pack.DQI_UNPAIRED_TRADES_RATE.rows, "REC.UNPAIRED_TRADE",
               AnotherToken, Never)
    /\ Mirrors("reconciliation", pack.DQI_FIELD_MISMATCH_RATE.rows, "REC.FIELD_MISMATCH",
               OtherRegime, NoStatus)
    /\ Mirrors("positions", pack.DQI_POSITION_NOTIONAL_NEGATIVE.rows, "POS.NOTIONAL_NEGATIVE",
               Never, OtherKind)
SftrRollUp(pack) ==
    /\ Mirrors("tsr", pack.DQI_COLLATERAL_VALUE_MISSING_SFTR.rows, "TST.MISSING_COLLATERAL",
               ZeroCollateral, NotAsked)
    /\ Mirrors("tsr", pack.DQI_HAIRCUT_ANOMALY_SFTR.rows, "TST.HAIRCUT_OUT_OF_RANGE_ON_OUTSTANDING",
               NotListed, Never)
    /\ Mirrors("tsr", pack.DQI_UNDER_COLLATERALIZATION_SFTR.rows, "MSR.MGLD_COLLATERAL_UNDER_LOAN",
               AnyRow, NoHaircut)
    /\ Mirrors("tar", pack.DQI_TIM_REPORTING_LATE_SFTR.rows, "TIM.LATE_REPORTING",
               TwoTimes, TwoTimesOrPartOfAnHour)
    /\ Mirrors("reconciliation", pack.DQI_UNPAIRED_TRADES_RATE_SFTR.rows, "REC.UNPAIRED_TRADE",
               AnotherToken, Never)
    /\ Mirrors("reconciliation", pack.DQI_FIELD_MISMATCH_RATE_SFTR.rows, "REC.FIELD_MISMATCH",
               Never, Unreconciled)
    /\ "tsr" \in DOMAIN files =>
          Mirrors("mcr", pack.DQI_MCR_OPEN_REQUESTS_SFTR.rows, "MCR.REQUESTED_UTI_NOT_IN_TSR",
                  Never, Never)

\* The committee's figures and the list of issues tell the same story: an
\* indicator counts the rows the check of the same name flags, though each has
\* its own predicate, and differs from it only in the ways named above.
IndicatorsMatchChecks ==
    LET pack == Pack(files, day) IN IF Emir THEN EmirRollUp(pack) ELSE SftrRollUp(pack)

\* An indicator that turns amber or red shows rows to look at.  The advice on
\* SFTR submissions may count rejections and name no error code; and over the
\* least number of pairs of counterparties it measures, four, no count is more
\* than two standard deviations above the mean, so that there the spike
\* indicator is never red (MIN_PAIRS_FOR_STATS, mar_event_spike_sftr.rs).  Over
\* five one count may lie exactly on the limit, where the rounding decides.
AlarmsShowRows ==
    LET pack == Pack(files, day) IN
    /\ \A id \in DOMAIN pack :
          compute_status(pack[id], resolve_threshold(id)) \in {"Amber", "Red"} =>
              (pack[id].rows # {} \/ id = "DQI_REJ_RATE_SFTR")
    /\ LET spike == pack["DQI_MAR_EVENT_SPIKE_SFTR"]
       IN  ~Emir /\ spike.of \in {0, 4} => spike.bad = 0

\* One command does not deny what another says of the same trade: the audits
\* of two files, the scans of one and the pack agree, though each matches UTIs
\* and reads statuses in its own way.  They differ where the status is LIVE,
\* which tr_audit does not know, where a trade has two rows (book_reconcile
\* takes the last), and where a UTI has blanks around it (the pack does not
\* trim).
UtisAt(layer, rows) == {Key(files[layer][i].uti) : i \in rows}
RowsOf(layer, uti) == {i \in DOMAIN files[layer] : Key(files[layer][i].uti) = uti}
Live(uti) == \A i \in RowsOf("tsr", uti) :
                is_outstanding(files["tsr"][i]) => In(files["tsr"][i].status, {"LIVE"})
AuditAgrees(uti, said, listed) ==
    /\ ("AUD.NEWT_IN_TAR_NOT_IN_TSR" \in said)
         <=> (uti \in UtisAt("tar", RowsWith("tar", "TRA.NEWT_NOT_IN_TSR")))
    /\ ("AUD.OUTSTANDING_IN_TSR_NOT_IN_TAR" \in said)
         <=> (uti \in listed \ Utis(files["tar"]) /\ ~Live(uti))
BookAgrees(uti, said, listed) ==
    LET booked == uti \in Utis(files["book"]) IN
    /\ "BREC.IN_TSR_NOT_IN_BOOK" \in said => uti \in listed
    /\ uti \in listed /\ ~booked /\ Cardinality(RowsOf("tsr", uti)) = 1 =>
         "BREC.IN_TSR_NOT_IN_BOOK" \in said
    /\ booked => (("BREC.IN_BOOK_NOT_IN_TSR" \in said) <=> (RowsOf("tsr", uti) = {}))
MarginAgrees(uti, said, listed, pack) ==
    LET padded == \E i \in RowsOf("tsr", uti), j \in RowsOf("msr", uti) :
                     files["tsr"][i].uti # files["msr"][j].uti
        uncovered == uti \in UtisAt("tsr", pack.DQI_COL_MISSING_STATE.rows)
    IN  /\ "COL.MISSING" \in said =>
              uti \in listed /\ RowsOf("msr", uti) \subseteq pack.DQI_COL_ALL_ZERO.rows
        /\ uti \in listed /\ uncovered /\ ~padded => "COL.MISSING" \in said
OneStory ==
    "tsr" \in DOMAIN files =>
      LET listed == UtisAt("tsr", RowsWith("tsr", "TST.OUTSTANDING_SUMMARY"))
          pack == Pack(files, day)
          SaidOf(uti) == Ids(TradeIssues(files, uti, Now))
      IN  \A uti \in Trades(files) :
            LET said == SaidOf(uti) IN
            /\ "tar" \in DOMAIN files => AuditAgrees(uti, said, listed)
            /\ "book" \in DOMAIN files => BookAgrees(uti, said, listed)
            /\ Emir /\ "msr" \in DOMAIN files => MarginAgrees(uti, said, listed, pack)

\* What the pre-submission check calls likely to be rejected for is what the
\* scan of the submitted record raises: its predicates are written again in
\* predicate_for.  They differ for a zero notional of a POSC, for a valuation
\* or collateral value missing on a report that ends in the future or has
\* ended, and on one without a UTI.
WarnedMeansFlagged ==
    "tar" \in DOMAIN files =>
        \A i \in DOMAIN files["tar"] :
            LET r == files["tar"][i]
                warned == IF Emir THEN EmirLikely(r) ELSE SftrLikely(r)
                flagged == Ids(RowIssues(files, "tar", i, Now))
                             \cap (IF Emir THEN EmirPredicates ELSE SftrPredicates)
                differing == (warned \ flagged) \union (flagged \ warned)
            IN  differing \subseteq
                  (IF r.termination_date # NoTime \/ Blank(r.uti)
                   THEN {"COMP.VALUATION_MISSING", "COMP.COLLATERAL_VALUE_MISSING"} ELSE {})
                  \union (IF In(r.action_type, {"POSC"}) THEN {"ACC.ZERO_NOTIONAL"} ELSE {})

\* The order of the rows of a file decides nothing, except where two rows
\* compete: of two rows of a trade book_reconcile and the cross-reference of
\* collateral requests take the last, and two margin calls of one portfolio
\* at one time are compared in the order of the file.  Sums are exact
\* here: the last digits of the code's f64 sums may follow the order.
Backwards(fs) == [layer \in DOMAIN fs |-> Reverse(fs[layer])]
Figures(pack) == [id \in DOMAIN pack |-> <<pack[id].of, pack[id].bad>>]
Competing(layer) ==
    layer \in DOMAIN files /\ \E i, j \in DOMAIN files[layer] :
        i # j /\ SameBytes(files[layer][i].uti, files[layer][j].uti)
SameMoment ==
    "mar" \in DOMAIN files /\ \E i, j \in DOMAIN files["mar"] :
        /\ i # j /\ SamePortfolio(files["mar"], i, j)
        /\ files["mar"][i].event_timestamp = files["mar"][j].event_timestamp
OrderIsIrrelevant ==
    LET back == Backwards(files)
        Differing(s, t) == (s \ t) \union (t \ s)
    IN  /\ Figures(Pack(back, day)) = Figures(Pack(files, day))
        /\ BatchFindings(back) = BatchFindings(files)
        /\ \A found \in Differing(RowFindings(back, day), RowFindings(files, day)) :
              \/ Emir /\ found[1] = "mar" /\ found[3].id = "MAR.LARGE_MARGIN_DELTA" /\ SameMoment
              \/ found[1] = "mcr" /\ Competing("tsr")
        /\ TradeFindings(back, day) # TradeFindings(files, day) =>
              Competing("tsr") \/ Competing("book")

\* Days only make things older.  Of files nobody touches, an indicator of age
\* can only have grown tomorrow and every other one stays; nothing changes on
\* a day that is no business day; and of the checks only those of age raise an
\* issue, while only an event dated in the future stops being one.
\* (RecordChecks says what a day changes in the records of the TAR.)
OfAge == {"DQI_VAL_STALE", "DQI_COL_STALE_STATE", "DQI_LOAN_VALUE_STALE_SFTR",
          "DQI_T3_MARGIN_STALE_SFTR", "DQI_REUSE_STATE_STALE_SFTR"}
RaisedByAge == {"TST.ACTIVE_PAST_MATURITY", "TST.STALE_VALUATION", "MSR.MARGIN_STALE"}
OtherThanTar(fs) == [layer \in DOMAIN fs \ {"tar"} |-> fs[layer]]
Raised(found) == found[Len(found)].id
DaysOnlyAge ==
    LET tomorrow == day + 1
        before == Pack(files, day)
        after == Pack(files, tomorrow)
        rows == RowFindings(OtherThanTar(files), day)
        rowsAfter == RowFindings(OtherThanTar(files), tomorrow)
        trades == TradeFindings(files, day)
        tradesAfter == TradeFindings(files, tomorrow)
    IN  /\ \A id \in DOMAIN before :
              /\ (id \notin OfAge \/ ~IsBusinessDay(tomorrow)) => after[id] = before[id]
              /\ after[id].of = before[id].of /\ before[id].rows \subseteq after[id].rows
        /\ \A found \in rowsAfter \ rows : Raised(found) \in RaisedByAge
        /\ \A found \in rows \ rowsAfter : Raised(found) = "MAR.EVENT_DATE_IN_FUTURE"
        /\ \A found \in tradesAfter \ trades : Raised(found) = "COL.STALE"
        /\ trades \subseteq tradesAfter
=============================================================================
