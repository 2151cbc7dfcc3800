---------------------------- MODULE AnswerChecks ----------------------------
(***************************************************************************)
(* The checks over what a trade repository sends back to an EMIR firm: the *)
(* state and activity reports (TSR, TAR, MSR, MAR), reconciliation rows    *)
(* and statistics, feedback, warnings, position sets and the envelopes of  *)
(* queries and acknowledgements.  One operator per check, which yields the *)
(* issues it raises for row r (or row i of file f); one registry per file. *)
(*                                                                         *)
(* Here an amount counts whole units, a rate or haircut percents, and      *)
(* NoText is a field the row does not have: Padded("") is one it has, of   *)
(* blanks only.                                                            *)
(***************************************************************************)
EXTENDS EmirRecordChecks

CONSTANTS
    MaxValuationAge,   \* timeliness.max_valuation_age_business_days
    MinPairing,        \* recon_stats.pairing_rate_min, recon_rate_min and
    MinReconciled,     \* outstanding_unpaired_max
    MaxUnpaired,
    MaxWarned          \* emir_warnings.*_rate_max, percents, by rate

Units(n) == Amount(IF n < 0 THEN -1 ELSE IF n = 0 THEN 0 ELSE 1, IF n < 0 THEN -n ELSE n, 2)
Net(a) == a.sgn * a.bn
Abs(n) == IF n < 0 THEN -n ELSE n
OutsideUnit(a) == Has(a) /\ (Net(a) < 0 \/ Net(a) > 100)

Given(t) == t # NoText
\* eq_ignore_ascii_case on the texts as they were read.
SameNocase(a, b) == SameText(a, b) /\ (a.form = "padded") = (b.form = "padded")
IsOneOf(t, allowed) == t \in {Plain(c) : c \in allowed}
Rows(f, P(_)) == {i \in DOMAIN f : P(f[i])}
Share(f, P(_)) == [of |-> Len(f), bad |-> Cardinality(Rows(f, P))]

----------------------------------------------------------------------------
(* TSR: the trades the repository holds as outstanding *)

is_outstanding(r) == Blank(r.status) \/ In(r.status, {"OUTSTANDING", "ACTIVE", "LIVE"})

AsOf(r, now) == IF r.state_as_of = NoTime THEN now ELSE r.state_as_of
\* business_days_to_calendar: 1.4 calendar days per business day, rounded up.
CalendarDays(d) == (14 * d + 9) \div 10

EmirActivePastMaturity(r, now) ==
    Issue(/\ is_outstanding(r) /\ r.termination_date = NoTime
          /\ r.maturity_date # NoTime /\ r.maturity_date <= Day(AsOf(r, now)),
          "TST.ACTIVE_PAST_MATURITY", "High", "maturity_date")
\* Fault (a mutated form, as are the definitions marked Fault below): a row is
\* compared with the row before it only.
DuplicateNeighbour(i, f) ==
    Issue(/\ i > 1 /\ is_outstanding(f[i]) /\ ~Blank(f[i].uti)
          /\ is_outstanding(f[i - 1]) /\ SameBytes(f[i].uti, f[i - 1].uti),
          "TST.DUPLICATE_ACTIVE_UTI", "Critical", "uti")
EmirDuplicateActiveUti(i, f) ==
    Issue(/\ is_outstanding(f[i]) /\ ~Blank(f[i].uti)
          /\ \E j \in DOMAIN f \ {i} : is_outstanding(f[j]) /\ SameBytes(f[i].uti, f[j].uti),
          "TST.DUPLICATE_ACTIVE_UTI", "Critical", "uti")
EmirMissingValuationOnTsr(r) ==
    Issue(is_outstanding(r) /\ ~Has(r.valuation_amount),
          "TST.MISSING_VALUATION", "High", "valuation_amount")
EmirOutstandingSummary(r) == Issue(is_outstanding(r), "TST.OUTSTANDING_SUMMARY", "Info", "")
EmirPlaceholderMaturity(r) ==
    Issue(r.maturity_date \in PlaceholderDates, "TST.PLACEHOLDER_MATURITY", "Warning", "maturity_date")
EmirStaleValuationOnTsr(r, now) ==
    Issue(/\ is_outstanding(r) /\ r.valuation_timestamp # NoTime
          /\ AsOf(r, now) - r.valuation_timestamp > 48 * CalendarDays(MaxValuationAge),
          "TST.STALE_VALUATION", "High", "valuation_timestamp")
EmirTsrValuationAfterTermination(r) ==
    Issue(/\ Both(r.termination_date, r.valuation_timestamp)
          /\ Day(r.valuation_timestamp) > r.termination_date,
          "TST.VALUATION_AFTER_TERMINATION", "High", "valuation_timestamp")

TsrIssues(i, f, now) ==
    EmirActivePastMaturity(f[i], now) \union EmirDuplicateActiveUti(i, f)
      \union EmirMissingValuationOnTsr(f[i]) \union EmirOutstandingSummary(f[i])
      \union EmirPlaceholderMaturity(f[i]) \union EmirStaleValuationOnTsr(f[i], now)
      \union EmirTsrValuationAfterTermination(f[i])

----------------------------------------------------------------------------
(* TAR: the actions the repository has registered *)

Acts(r, types) == Untrimmed(r.action_type, types)
\* The rows that do one of these actions to the same trade.
SameTrade(f, i, types) == {j \in DOMAIN f : Acts(f[j], types) /\ SameBytes(f[i].uti, f[j].uti)}
HasUti(f, uti) == \E i \in DOMAIN f : SameBytes(f[i].uti, uti)

EmirDuplicateNewtInBatch(i, f) ==
    Issue(Acts(f[i], {"NEWT"}) /\ ~Blank(f[i].uti) /\ Cardinality(SameTrade(f, i, {"NEWT"})) > 1,
          "TRA.DUPLICATE_NEWT_IN_BATCH", "Critical", "action_type")
\* tsr is << >> when no state report is at hand, else a file of one element.
EmirNewtNotInTsr(r, tsr) ==
    Issue(/\ tsr # << >> /\ Acts(r, {"NEWT"}) /\ ~Blank(r.uti)
          /\ ~HasUti(tsr[1], r.uti),
          "TRA.NEWT_NOT_IN_TSR", "High", "uti")
EmirRepeatedCorrection(i, f) ==
    Issue(/\ Acts(f[i], {"CORR", "MODI"}) /\ ~Blank(f[i].uti)
          /\ Cardinality(SameTrade(f, i, {"CORR", "MODI"})) >= 3,
          "TRA.REPEATED_CORRECTION", "Warning", "action_type")

ActionsShare(f, types) == LET Such(r) == Acts(r, types) IN Share(f, Such)
EmirSpikeModi(f) ==
    LET s == ActionsShare(f, {"MODI"}) IN
    Issue(100 * s.bad > 40 * s.of, "TRA.SPIKE_MODI", "Warning", "action_type")
EmirSpikeTerm(f) ==
    LET s == ActionsShare(f, {"ETRM", "TERM"}) IN
    Issue(100 * s.bad > 25 * s.of, "TRA.SPIKE_TERM", "High", "action_type")

TarIssues(i, f, tsr) ==
    EmirDuplicateNewtInBatch(i, f) \union EmirNewtNotInTsr(f[i], tsr)
      \union EmirRepeatedCorrection(i, f)
TarBatchIssues(f) == EmirSpikeModi(f) \union EmirSpikeTerm(f)

----------------------------------------------------------------------------
(* MSR: the collateral the repository holds *)

AllowedOrBlank(t, allowed) == Blank(t) \/ In(t, allowed)
Far(a, b, percent) == 100 * Abs(Net(a) - Net(b)) > percent * Abs(Net(a))
NegativeFields(r, fields, id, severity) ==
    UNION {Issue(Negative(r[field]), id, severity, field) : field \in fields}

ImCurrent == {"initial_margin_posted_current", "initial_margin_collected_current"}
VmCurrent == {"variation_margin_posted_current", "variation_margin_collected_current"}

EmirMsrCollateralMarketValueNegative(r) ==
    NegativeFields(r, {"collateral_market_value"}, "MSR.COLLATERAL_MARKET_VALUE_NEGATIVE", "Critical")
EmirMsrCollateralizationCategoryEnum(r) ==
    Issue(~AllowedOrBlank(r.collateralization_category, {"FCOL", "PCOL", "UCOL", "OCOL"}),
          "MSR.COLLATERALIZATION_CATEGORY_ENUM", "High", "collateralization_category")
EmirMsrHaircutOutOfRange(r) ==
    Issue(OutsideUnit(r.haircut_applied), "MSR.HAIRCUT_OUT_OF_RANGE", "Warning", "haircut_applied")
EmirMsrImImbalance(r) ==
    LET p == r.initial_margin_posted_current
        c == r.initial_margin_collected_current
    IN  Issue(Has(p) /\ Has(c) /\ (Far(p, c, 10) /\ Far(c, p, 10)),
              "MSR.IM_POSTED_VS_COLLECTED_IMBALANCE", "Warning", "initial_margin")
EmirMsrInitialMarginNegative(r) ==
    NegativeFields(r, ImCurrent, "MSR.INITIAL_MARGIN_NEGATIVE", "Critical")
EmirMsrVariationMarginNegative(r) ==
    NegativeFields(r, VmCurrent, "MSR.VARIATION_MARGIN_NEGATIVE", "Critical")
EmirMsrMarginMissingForOutstanding(r) ==
    Issue(Given(r.uti) /\ \A field \in ImCurrent \union VmCurrent : ~Has(r[field]),
          "MSR.MARGIN_MISSING_FOR_OUTSTANDING", "High", "margin")
EmirMsrMarginStale(r, now) ==
    Issue(r.state_as_of # NoTime /\ now - r.state_as_of > 48 * MaxValuationAge,
          "MSR.MARGIN_STALE", "High", "state_as_of")

MsrIssues(r, now) ==
    EmirMsrCollateralMarketValueNegative(r) \union EmirMsrCollateralizationCategoryEnum(r)
      \union EmirMsrHaircutOutOfRange(r) \union EmirMsrImImbalance(r)
      \union EmirMsrInitialMarginNegative(r) \union EmirMsrVariationMarginNegative(r)
      \union EmirMsrMarginMissingForOutstanding(r) \union EmirMsrMarginStale(r, now)

----------------------------------------------------------------------------
(* MAR: the margin calls the repository has registered *)

Posted    == {"initial_margin_posted", "variation_margin_posted"}
Collected == {"initial_margin_collected", "variation_margin_collected"}

EmirMarCollectedNegative(r) == NegativeFields(r, Collected, "MAR.COLLECTED_NEGATIVE", "High")
EmirMarPostedNegative(r)    == NegativeFields(r, Posted, "MAR.POSTED_NEGATIVE", "High")
\* A portfolio code here is compared as it was read.
SamePortfolio(f, i, j) ==
    /\ Given(f[i].collateral_portfolio_code)
    /\ f[i].collateral_portfolio_code = f[j].collateral_portfolio_code
EmirMarDuplicateMarginCall(i, f) ==
    Issue(/\ f[i].event_timestamp # NoTime
          /\ \E j \in DOMAIN f \ {i} :
                SamePortfolio(f, i, j) /\ f[i].event_timestamp = f[j].event_timestamp,
          "MAR.DUPLICATE_MARGIN_CALL", "High", "event_timestamp")

\* sort_by_key(event_timestamp) is stable: equal times keep their file order.
EarlierCall(f, i, j) ==
    \/ f[i].event_timestamp < f[j].event_timestamp
    \/ f[i].event_timestamp = f[j].event_timestamp /\ i < j
PreviousCalls(f, j) ==
    {i \in DOMAIN f : /\ SamePortfolio(f, i, j) /\ EarlierCall(f, i, j)
                      /\ ~\E k \in DOMAIN f : /\ SamePortfolio(f, k, j)
                                              /\ EarlierCall(f, i, k) /\ EarlierCall(f, k, j)}
EmirMarLargeMarginDelta(j, f) ==
    UNION {Issue(/\ Has(f[i][field]) /\ Has(f[j][field]) /\ ~IsZero(f[i][field])
                 /\ Far(f[i][field], f[j][field], 50),
                 "MAR.LARGE_MARGIN_DELTA", "Warning", field) :
           i \in PreviousCalls(f, j), field \in Posted}
EmirMarMarginNeedsCurrency(r) ==
    Issue(Blank(r.margin_currency) /\ \E field \in Posted \union Collected : Has(r[field]),
          "MAR.MARGIN_NEEDS_CURRENCY", "High", "margin_currency")
EmirMarMarginTypeEnum(r) ==
    Issue(~AllowedOrBlank(r.action_type, {"MARU", "MARV", "MARC", "MARN"}),
          "MAR.MARGIN_TYPE_ENUM", "High", "action_type")
EmirMarPortfolioCodeMissing(r) ==
    Issue(Blank(r.collateral_portfolio_code),
          "MAR.PORTFOLIO_CODE_MISSING", "High", "collateral_portfolio_code")
EmirMarTimeliness(r) ==
    Issue(/\ Both(r.event_timestamp, r.reporting_timestamp)
          /\ r.reporting_timestamp > r.event_timestamp
          /\ r.reporting_timestamp - r.event_timestamp > Hours(MaxReportingDelay),
          "MAR.TIMELINESS", "High", "reporting_timestamp")

MarIssues(i, f) ==
    EmirMarCollectedNegative(f[i]) \union EmirMarPostedNegative(f[i])
      \union EmirMarDuplicateMarginCall(i, f) \union EmirMarLargeMarginDelta(i, f)
      \union EmirMarMarginNeedsCurrency(f[i]) \union EmirMarMarginTypeEnum(f[i])
      \union EmirMarPortfolioCodeMissing(f[i]) \union EmirMarTimeliness(f[i])

----------------------------------------------------------------------------
(* Reconciliation rows and statistics *)

EmirFieldMismatch(r) ==
    UNION {Issue(r.regime = "EMIR", "REC.FIELD_MISMATCH", "High", field) :
           field \in r.mismatched_fields}
UnpairedTrade(r) ==
    Issue(r.regime = "EMIR" /\ Untrimmed(r.pairing_status, {"UNPAIRED"}),
          "REC.UNPAIRED_TRADE", "High", "")
UnreconciledTrade(r) ==
    Issue(r.regime = "EMIR" /\ Untrimmed(r.reconciliation_status, {"UNRECONCILED"}),
          "REC.UNRECONCILED_TRADE", "High", "")
RecIssues(r) == EmirFieldMismatch(r) \union UnpairedTrade(r) \union UnreconciledTrade(r)

EmirRstPairingRateLow(r) ==
    Issue(Has(r.pairing_rate) /\ Net(r.pairing_rate) < MinPairing,
          "RST.PAIRING_RATE_LOW", "High", "pairing_rate")
EmirRstReconRateLow(r) ==
    Issue(Has(r.recon_rate) /\ Net(r.recon_rate) < MinReconciled,
          "RST.RECON_RATE_LOW", "High", "recon_rate")
EmirRstOutstandingUnpairedHigh(r) ==
    Issue(Has(r.outstanding_unpaired) /\ Net(r.outstanding_unpaired) > MaxUnpaired,
          "RST.OUTSTANDING_UNPAIRED_HIGH", "Warning", "outstanding_unpaired")
\* Of the earlier rows of the counterparty, the last one counts.
EmirRstPairingRateTrendDown(r, prior) ==
    LET earlier == {k \in DOMAIN prior : /\ Given(prior[k].counterparty_lei)
                                         /\ prior[k].counterparty_lei = r.counterparty_lei
                                         /\ Has(prior[k].pairing_rate)}
        last == CHOOSE k \in earlier : \A j \in earlier : j <= k
    IN  Issue(/\ Has(r.pairing_rate) /\ earlier # {}
              /\ Net(prior[last].pairing_rate) - Net(r.pairing_rate) >= 5,
              "RST.PAIRING_RATE_TREND_DOWN", "Warning", "pairing_rate")
RstIssues(r, prior) ==
    EmirRstPairingRateLow(r) \union EmirRstReconRateLow(r)
      \union EmirRstOutstandingUnpairedHigh(r) \union EmirRstPairingRateTrendDown(r, prior)

----------------------------------------------------------------------------
(* Feedback; sent is the file of the records the firm has submitted *)

priors_with_newt(sent, uti) ==
    \E i \in DOMAIN sent : Acts(sent[i], {"NEWT"}) /\ SameBytes(sent[i].uti, uti)
Says(r, type) == r.regime = "EMIR" /\ r.feedback_type = type

TrInaccurateReported(r) ==
    Issue(Says(r, "Inaccurate"), "FBK.TR_INACCURATE_REPORTED", "High", r.reported_field)
TrRejectedUti(r) == Issue(Says(r, "Rejected"), "FBK.TR_REJECTED_UTI", "Critical", "")
TrMissingButNotSent(r, sent) ==
    Issue(Says(r, "Missing") /\ ~Blank(r.uti) /\ ~priors_with_newt(sent, r.uti),
          "FBK.TR_MISSING_BUT_NOT_SENT", "High", "")
TrMissingDespiteSubmission(r, sent) ==
    Issue(Says(r, "Missing") /\ ~Blank(r.uti) /\ priors_with_newt(sent, r.uti),
          "FBK.TR_MISSING_DESPITE_SUBMISSION", "Critical", "")
FeedbackIssues(r, sent) ==
    TrInaccurateReported(r) \union TrRejectedUti(r)
      \union TrMissingButNotSent(r, sent) \union TrMissingDespiteSubmission(r, sent)

----------------------------------------------------------------------------
(* The envelopes of queries (auth.029) and of acknowledgements (auth.031) *)

\* One issue names all the missing fields.
Envelope(r, fields, id) ==
    LET missing == {field \in fields : ~Given(r[field])}
    IN  Issue(missing # {}, id, "Critical", missing)
EmirQueryEnvelopeWellformed(r) ==
    Envelope(r, {"query_id", "requesting_lei"}, "QRY.ENVELOPE_WELLFORMED")
EmirStatusAdviceEnvelopeWellformed(r) ==
    Envelope(r, {"submission_id", "ack_status", "ack_timestamp"}, "ACK.ENVELOPE_WELLFORMED")

----------------------------------------------------------------------------
(* Position sets and warnings *)

OfPositions(r) == IsOneOf(r.position_set_kind, {"PosSet", "CcyPosSet"})

EmirPosAssetClassEnumInvalid(r) ==
    Issue(Given(r.asset_class)
            /\ ~IsOneOf(r.asset_class, {"CRDT", "CURR", "EQUI", "INTR", "COMM", "OTHR"}),
          "POS.ASSET_CLASS_ENUM_INVALID", "High", "asset_class")
EmirPosJurisdictionMissing(r) ==
    Issue(OfPositions(r) /\ Above(r.notional, 0) /\ ~Given(r.underlying_id),
          "POS.UNDERLYING_ID_MISSING", "High", "underlying_id")
EmirPosNotionalNegative(r) ==
    Issue(Negative(r.notional), "POS.NOTIONAL_NEGATIVE", "Critical", "notional")
EmirPosPositionSetKindInvalid(r) ==
    Issue(~IsOneOf(r.position_set_kind, {"PosSet", "CcyPosSet", "CollPosSet", "CcyCollPosSet"}),
          "POS.POSITION_SET_KIND_INVALID", "Critical", "position_set_kind")
PosIssues(r) ==
    EmirPosAssetClassEnumInvalid(r) \union EmirPosJurisdictionMissing(r)
      \union EmirPosNotionalNegative(r) \union EmirPosPositionSetKindInvalid(r)

\* flag_rate_high and flag_rate_high_cp: a rate of a report, or of one of its
\* counterparties, above its maximum.
flag_rate_high(r, rate, id) == Issue(Has(r[rate]) /\ Net(r[rate]) > MaxWarned[rate], id, "High", rate)
EmirWrnMissingValuationHigh(r) ==
    flag_rate_high(r, "missing_valuation_rate", "WRN.MISSING_VALUATION_HIGH")
EmirWrnOutdatedValuationHigh(r) ==
    flag_rate_high(r, "outdated_valuation_rate", "WRN.OUTDATED_VALUATION_HIGH")
EmirWrnMissingMarginInfoHigh(r) ==
    flag_rate_high(r, "missing_margin_rate", "WRN.MISSING_MARGIN_INFO_HIGH")
EmirWrnOutdatedMarginInfoHigh(r) ==
    flag_rate_high(r, "outdated_margin_rate", "WRN.OUTDATED_MARGIN_INFO_HIGH")
EmirWrnAbnormalValuesHigh(r) ==
    flag_rate_high(r, "abnormal_values_rate", "WRN.ABNORMAL_VALUES_HIGH")
EmirWrnCtrptyMissingValuationHigh(r) ==
    flag_rate_high(r, "missing_valuation_rate", "WRN.CTRPTY_MISSING_VALUATION_HIGH")
EmirWrnCtrptyOutdatedValuationHigh(r) ==
    flag_rate_high(r, "outdated_valuation_rate", "WRN.CTRPTY_OUTDATED_VALUATION_HIGH")
EmirWrnCtrptyMissingMarginInfoHigh(r) ==
    flag_rate_high(r, "missing_margin_rate", "WRN.CTRPTY_MISSING_MARGIN_INFO_HIGH")
EmirWrnCtrptyOutdatedMarginInfoHigh(r) ==
    flag_rate_high(r, "outdated_margin_rate", "WRN.CTRPTY_OUTDATED_MARGIN_INFO_HIGH")
EmirWrnCtrptyAbnormalValuesHigh(r) ==
    flag_rate_high(r, "abnormal_values_rate", "WRN.CTRPTY_ABNORMAL_VALUES_HIGH")

\* A report row has no counterparty, a counterparty row no category, and a
\* trade row is one the repository names under a category.
Category(r, c, id) == Issue(r.warning_category = Plain(c), id, "High", "")
EmirWrnTxMissingValuation(r) == Category(r, "MissingValuation", "WRN.TX_MISSING_VALUATION")
EmirWrnTxMissingMargin(r)    == Category(r, "MissingMargin", "WRN.TX_MISSING_MARGIN")
EmirWrnTxAbnormalValue(r)    == Category(r, "AbnormalValue", "WRN.TX_ABNORMAL_VALUE")

WarningsIssues(r) ==
    CASE r.level = "report" ->
            EmirWrnMissingValuationHigh(r) \union EmirWrnOutdatedValuationHigh(r)
              \union EmirWrnMissingMarginInfoHigh(r) \union EmirWrnOutdatedMarginInfoHigh(r)
              \union EmirWrnAbnormalValuesHigh(r)
      [] r.level = "counterparty" ->
            EmirWrnCtrptyMissingValuationHigh(r) \union EmirWrnCtrptyOutdatedValuationHigh(r)
              \union EmirWrnCtrptyMissingMarginInfoHigh(r)
              \union EmirWrnCtrptyOutdatedMarginInfoHigh(r)
              \union EmirWrnCtrptyAbnormalValuesHigh(r)
      [] r.level = "trade" ->
            EmirWrnTxMissingValuation(r) \union EmirWrnTxMissingMargin(r)
              \union EmirWrnTxAbnormalValue(r)
=============================================================================
