---------------------------- MODULE AnswerRecords ----------------------------
(***************************************************************************)
(* The rows of the files that come back from a trade repository: of each   *)
(* struct of model.rs the fields a check or an indicator reads, and what a *)
(* field may hold.  A field tells by its name what kind of value it has,   *)
(* the same in every answer; submitted records (FieldType) differ from     *)
(* them, for instance in the haircut.                                      *)
(***************************************************************************)
EXTENDS SftrAnswerChecks

TrStateRecord ==
    {"uti", "status", "termination_date", "maturity_date", "state_as_of", "valuation_amount",
     "valuation_timestamp", "reporting_counterparty", "other_counterparty", "notional_amount",
     "notional_currency", "collateral_portfolio_code"}
SftrTrStateRecord ==
    {"uti", "status", "sft_type", "termination_date", "maturity_date", "state_as_of",
     "reporting_counterparty", "other_counterparty", "loan_value", "loan_currency",
     "collateral_value", "collateral_currency", "haircut", "reuse_indicator",
     "collateral_portfolio_code", "collateral_isin"}
MarginStateRecord ==
    {"uti", "state_as_of", "collateral_market_value", "haircut_applied",
     "collateralization_category"} \union ImCurrent \union VmCurrent
MarginActivityRecord ==
    {"collateral_portfolio_code", "action_type", "event_timestamp", "reporting_timestamp",
     "margin_currency"} \union Posted \union Collected
\* The amounts of both sides, of the state and of an event.
MarginSides ==
    {"margin_currency", "collateral_portfolio_code"} \union PostedSide \union ReceivedSide
SftrMarginStateRecord == {"state_as_of"} \union MarginSides
SftrMarginActivityRecord ==
    {"action_type", "event_date", "reporting_counterparty", "other_counterparty"}
      \union MarginSides
SftrReuseActivityRecord ==
    {"action_type", "total_reuse_value", "reuse_currency", "cash_reinvestment_rate"}
SftrReuseStateRecord ==
    {"state_as_of", "total_reuse_value", "reuse_currency", "cash_reinvestment_rate"}
FeedbackRecord == {"regime", "feedback_type", "uti", "reported_field"}
ReconciliationRecord ==
    {"regime", "uti", "pairing_status", "reconciliation_status", "mismatched_fields"}
ReconStatsRecord == {"counterparty_lei", "pairing_rate", "recon_rate", "outstanding_unpaired"}
EmirPositionSetRecord ==
    {"position_set_kind", "asset_class", "notional", "underlying_id", "mark_to_market_value",
     "collateral_value"}
\* TradeWarningsRecord, WarningsCounterpartyRecord and WarningsTransactionRecord
\* in one, by level.
WarningsRecord ==
    {"level", "warning_category", "missing_valuation_rate", "outdated_valuation_rate",
     "missing_margin_rate", "outdated_margin_rate", "abnormal_values_rate"}
EmirQueryRecord == {"query_id", "requesting_lei"}
EmirStatusAdviceRecord == {"submission_id", "ack_status", "ack_timestamp"}
MissingCollateralRecord == {"uti"}
SftrTrStatusAdviceRecord ==
    {"total_reports", "total_reports_rejected", "rejected_reports_per_error"}

\* The layers of either regime, and the rows of each.  Two fields of an EMIR
\* TAR are read from its raw fields.
EmirLayers == [
    tsr |-> TrStateRecord, book |-> EmirFields,
    tar |-> EmirFields \union {"confirmation_timestamp", "reconciliation_status"},
    msr |-> MarginStateRecord, mar |-> MarginActivityRecord, feedback |-> FeedbackRecord,
    reconciliation |-> ReconciliationRecord, recon_stats |-> ReconStatsRecord,
    positions |-> EmirPositionSetRecord, warnings |-> WarningsRecord,
    queries |-> EmirQueryRecord, advice |-> EmirStatusAdviceRecord]
SftrLayers == [
    tsr |-> SftrTrStateRecord, book |-> SftrFields, tar |-> SftrFields,
    msr |-> SftrMarginStateRecord, mar |-> SftrMarginActivityRecord,
    reconciliation |-> ReconciliationRecord, reuse_activity |-> SftrReuseActivityRecord,
    reuse_state |-> SftrReuseStateRecord, mcr |-> MissingCollateralRecord,
    tr_status_advice |-> SftrTrStatusAdviceRecord]
LayersOf(regime) == IF regime = "EMIR" THEN EmirLayers ELSE SftrLayers

AnswerTimes ==
    {"termination_date", "maturity_date", "state_as_of", "valuation_timestamp",
     "event_timestamp", "reporting_timestamp", "event_date"}
AnswerAmounts ==
    {"valuation_amount", "notional_amount", "loan_value", "collateral_value", "haircut",
     "collateral_market_value", "haircut_applied", "total_reuse_value",
     "cash_reinvestment_rate", "pairing_rate", "recon_rate", "outstanding_unpaired",
     "notional", "mark_to_market_value", "missing_valuation_rate", "outdated_valuation_rate",
     "missing_margin_rate", "outdated_margin_rate", "abnormal_values_rate"}
      \union ImCurrent \union VmCurrent \union Posted \union Collected
      \union PostedSide \union ReceivedSide
AnswerType(f) ==
    CASE f \in AnswerTimes -> Nat \union {NoTime}
      [] f \in AnswerAmounts -> [sgn : {-1, 0, 1}, bn : Nat, scale : Int]
      [] f \in {"regime", "feedback_type", "reported_field", "level", "reuse_indicator"} -> STRING
      [] f \in {"mismatched_fields", "rejected_reports_per_error"} -> SUBSET STRING
      [] f \in {"total_reports", "total_reports_rejected"} -> Nat
      [] OTHER -> Texts
ValueType(layer, f) == IF layer \in {"tar", "book"} THEN FieldType(f) ELSE AnswerType(f)

IsRow(r, layer, fields) == DOMAIN r = fields /\ \A f \in fields : r[f] \in ValueType(layer, f)
IsFile(rows, layer, fields) ==
    /\ rows \in Seq({rows[i] : i \in DOMAIN rows})
    /\ \A i \in DOMAIN rows : IsRow(rows[i], layer, fields)
\* A firm does not get every file.
AreFiles(files, regime) ==
    /\ DOMAIN files \subseteq DOMAIN LayersOf(regime)
    /\ \A layer \in DOMAIN files : IsFile(files[layer], layer, LayersOf(regime)[layer])
=============================================================================
