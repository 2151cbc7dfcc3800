----------------------- MODULE SftrQualityIndicators -----------------------
(***************************************************************************)
(* The SFTR half of the data quality pack: its indicators and the pack     *)
(* that collects them (sftr_pack.rs).                                      *)
(***************************************************************************)
EXTENDS QualityIndicators

----------------------------------------------------------------------------
(* TSR and TAR *)

compute_dqi_loan_value_missing_sftr(tsr) ==
    LET Bad(r) == Absent(r.loan_value) IN Indicator(tsr, StillOpen, Bad)
StaleState(f, Counted(_), day) ==
    LET Dated(r) == r.state_as_of # NoTime /\ Counted(r)
        Bad(r) == OlderThan(r.state_as_of, day, MaxValuationAge)
    IN  Indicator(f, Dated, Bad)
compute_dqi_loan_value_stale_sftr(tsr, day) == StaleState(tsr, AnyRow, day)
compute_dqi_collateral_value_missing_sftr(tsr) ==
    LET Collateralised(r) ==
            StillOpen(r) /\ (Given(r.collateral_portfolio_code) \/ Given(r.collateral_isin))
        Bad(r) == Absent(r.collateral_value)
    IN  Indicator(tsr, Collateralised, Bad)
compute_dqi_haircut_anomaly_sftr(tsr) ==
    LET Discount(r) == Has(r.haircut)
        Bad(r) == OutsideUnit(r.haircut)
    IN  Indicator(tsr, Discount, Bad)
compute_dqi_lei_missing_sftr(tsr) == compute_dqi_lei_missing(tsr)
\* The haircut is taken off the collateral; the check on margin lending takes
\* it off the loan.
compute_dqi_under_collateralization_sftr(tsr) ==
    LET Valued(r) == Has(r.loan_value) /\ Has(r.collateral_value) /\ Has(r.haircut)
        Bad(r) == Discounted(r.collateral_value, r.haircut) < 100 * Net(r.loan_value)
    IN  Indicator(tsr, Valued, Bad)
compute_dqi_tim_reporting_late_sftr(tar) == compute_dqi_tim_reporting_late(tar)

----------------------------------------------------------------------------
(* Reconciliation (auth.080): the rows of SFTR only *)

OfSftr(r) == r.regime = "SFTR"
Unpaired(r) == In(r.pairing_status, {"UNPAIRED", "UNPAIR", "UNPR", "NOT_PAIRED"})

compute_dqi_pairing_rate_sftr(rec) ==
    LET Counted(r) == OfSftr(r) /\ WithStatus(r) IN Indicator(rec, Counted, Unpaired)
compute_dqi_reconciliation_rate_sftr(rec) ==
    LET Paired(r) == OfSftr(r) /\ In(r.pairing_status, {"PAIRED"})
        Bad(r) == In(r.reconciliation_status, {"UNRECONCILED", "UNREC", "NOT_RECONCILED"})
    IN  Indicator(rec, Paired, Bad)
compute_dqi_unpaired_trades_rate_sftr(rec) == Indicator(rec, OfSftr, Unpaired)
compute_dqi_field_mismatch_rate_sftr(rec) ==
    LET Counted(r) == OfSftr(r) /\ Given(r.reconciliation_status)
        Bad(r) == r.mismatched_fields # {}
    IN  Indicator(rec, Counted, Bad)

----------------------------------------------------------------------------
(* Requests for missing collateral and the advice on submissions *)

\* tsr is << >> or a file of one element.  Without it every request is open.
compute_dqi_mcr_open_requests_sftr(mcr, tsr) ==
    LET Named(r) == Given(r.uti)
        Bad(r) == tsr = << >> \/ StateRows(r.uti, tsr) = {}
    IN  Indicator(mcr, Named, Bad)

\* Totals over the files; the evidence is the error codes.
compute_dqi_rej_rate_sftr(advice) ==
    LET Total(field) == SumFunction([i \in DOMAIN advice |-> advice[i][field]])
    IN  [of |-> Total("total_reports"), bad |-> Total("total_reports_rejected"),
         rows |-> UNION {advice[i].rejected_reports_per_error : i \in DOMAIN advice}]

----------------------------------------------------------------------------
(* Margins of cleared transactions: state (auth.085) and activity (auth.070) *)

InPortfolio(r) == Given(r.collateral_portfolio_code)
HasPosted(r) == AnyOf(r, PostedSide)
HasReceived(r) == AnyOf(r, ReceivedSide)
HasMargin(r) == HasPosted(r) \/ HasReceived(r)

compute_dqi_t3_margin_posted_missing_sftr(msr) ==
    LET Bad(r) == ~HasPosted(r) IN Indicator(msr, InPortfolio, Bad)
compute_dqi_t3_margin_received_missing_sftr(msr) ==
    LET Bad(r) == ~HasReceived(r) IN Indicator(msr, InPortfolio, Bad)
compute_dqi_t3_excess_collateral_use_sftr(msr) ==
    LET Bad(r) == Above(r.excess_collateral_posted, 0) \/ Above(r.excess_collateral_received, 0)
    IN  Indicator(msr, HasMargin, Bad)
compute_dqi_t3_margin_stale_sftr(msr, day) == StaleState(msr, HasMargin, day)

compute_dqi_mar_partial_sides_sftr(mar) ==
    LET Bad(r) == HasPosted(r) # HasReceived(r) IN Indicator(mar, HasMargin, Bad)
compute_dqi_mar_excess_collateral_event_rate_sftr(mar) ==
    LET Bad(r) == Above(r.excess_collateral_posted, 0) IN Indicator(mar, HasPosted, Bad)
\* Pairs of counterparties with more events than mean + 2 sigma; for counts c
\* over n pairs of sum s and sum of squares q: (n c - s)^2 > 4 (n q - s^2).  The
\* code computes this in f64, and may count a pair exactly on the limit.
MinPairsForStats == 4
compute_dqi_mar_event_spike_sftr(mar) ==
    LET Named(r) == Given(r.reporting_counterparty) /\ Given(r.other_counterparty)
        Pair(i) == <<mar[i].reporting_counterparty, mar[i].other_counterparty>>
        pairs == {Pair(i) : i \in Rows(mar, Named)}
        events == [p \in pairs |-> Cardinality({i \in Rows(mar, Named) : Pair(i) = p})]
        n == Cardinality(pairs)
        s == SumFunction(events)
        q == SumFunction([p \in pairs |-> events[p] * events[p]])
        Excess(p) == n * events[p] - s
        spikes == {p \in pairs : Excess(p) > 0 /\ Excess(p) * Excess(p) > 4 * (n * q - s * s)}
    IN  IF n < MinPairsForStats THEN NotMeasured
        ELSE [of |-> n, bad |-> Cardinality(spikes), rows |-> spikes]

----------------------------------------------------------------------------
(* Reuse *)

HasReuse(r) == Has(r.total_reuse_value) \/ Has(r.cash_reinvestment_rate)
Retraction(r) == Exactly(r.action_type, "ERRT")
compute_dqi_reuse_volume_missing_sftr(reuse) ==
    LET Report(r) == ~Retraction(r)
        Bad(r) == ~HasReuse(r)
    IN  Indicator(reuse, Report, Bad)
compute_dqi_reuse_err_retraction_rate_sftr(reuse) == Indicator(reuse, AnyRow, Retraction)
compute_dqi_reuse_state_volume_missing_sftr(state) ==
    LET Bad(r) == ~HasReuse(r) IN Indicator(state, AnyRow, Bad)
compute_dqi_reuse_state_stale_sftr(state, day) == StaleState(state, HasReuse, day)

----------------------------------------------------------------------------
(* The pack *)

compute_sftr_dqi_pack(files, day) ==
    LET tsr == Layer(files, "tsr")
        tar == Layer(files, "tar")
        rec == Layer(files, "reconciliation")
        msr == Layer(files, "msr")
        mar == Layer(files, "mar")
        reuse == Layer(files, "reuse_activity")
        state == Layer(files, "reuse_state")
        companion == IF "tsr" \in DOMAIN files THEN <<tsr>> ELSE << >>
    IN  [DQI_LOAN_VALUE_MISSING_SFTR |-> compute_dqi_loan_value_missing_sftr(tsr),
         DQI_LOAN_VALUE_STALE_SFTR |-> compute_dqi_loan_value_stale_sftr(tsr, day),
         DQI_COLLATERAL_VALUE_MISSING_SFTR |-> compute_dqi_collateral_value_missing_sftr(tsr),
         DQI_HAIRCUT_ANOMALY_SFTR |-> compute_dqi_haircut_anomaly_sftr(tsr),
         DQI_LEI_MISSING_SFTR |-> compute_dqi_lei_missing_sftr(tsr),
         DQI_UNDER_COLLATERALIZATION_SFTR |-> compute_dqi_under_collateralization_sftr(tsr),
         DQI_TIM_REPORTING_LATE_SFTR |-> compute_dqi_tim_reporting_late_sftr(tar),
         DQI_PAIRING_RATE_SFTR |-> compute_dqi_pairing_rate_sftr(rec),
         DQI_RECONCILIATION_RATE_SFTR |-> compute_dqi_reconciliation_rate_sftr(rec),
         DQI_UNPAIRED_TRADES_RATE_SFTR |-> compute_dqi_unpaired_trades_rate_sftr(rec),
         DQI_FIELD_MISMATCH_RATE_SFTR |-> compute_dqi_field_mismatch_rate_sftr(rec),
         DQI_MCR_OPEN_REQUESTS_SFTR |->
            compute_dqi_mcr_open_requests_sftr(Layer(files, "mcr"), companion),
         DQI_REJ_RATE_SFTR |-> compute_dqi_rej_rate_sftr(Layer(files, "tr_status_advice")),
         DQI_T3_MARGIN_POSTED_MISSING_SFTR |-> compute_dqi_t3_margin_posted_missing_sftr(msr),
         DQI_T3_MARGIN_RECEIVED_MISSING_SFTR |-> compute_dqi_t3_margin_received_missing_sftr(msr),
         DQI_T3_EXCESS_COLLATERAL_USE_SFTR |-> compute_dqi_t3_excess_collateral_use_sftr(msr),
         DQI_T3_MARGIN_STALE_SFTR |-> compute_dqi_t3_margin_stale_sftr(msr, day),
         DQI_MAR_PARTIAL_SIDES_SFTR |-> compute_dqi_mar_partial_sides_sftr(mar),
         DQI_MAR_EXCESS_COLLATERAL_EVENT_RATE_SFTR |->
            compute_dqi_mar_excess_collateral_event_rate_sftr(mar),
         DQI_MAR_EVENT_SPIKE_SFTR |-> compute_dqi_mar_event_spike_sftr(mar),
         DQI_REUSE_VOLUME_MISSING_SFTR |-> compute_dqi_reuse_volume_missing_sftr(reuse),
         DQI_REUSE_ERR_RETRACTION_RATE_SFTR |-> compute_dqi_reuse_err_retraction_rate_sftr(reuse),
         DQI_REUSE_STATE_VOLUME_MISSING_SFTR |-> compute_dqi_reuse_state_volume_missing_sftr(state),
         DQI_REUSE_STATE_STALE_SFTR |-> compute_dqi_reuse_state_stale_sftr(state, day)]
=============================================================================
