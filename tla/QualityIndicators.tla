------------------------- MODULE QualityIndicators -------------------------
(***************************************************************************)
(* The EMIR half of the data quality pack: one operator per indicator      *)
(* (dq/dqi/compute), the traffic light put on its rate (thresholds.rs) and *)
(* the pack that collects them (emir_pack.rs).  An indicator is the number *)
(* of rows it is about, the number of them that are bad, and the rows      *)
(* given as evidence; its rate is bad over of.                             *)
(***************************************************************************)
EXTENDS CrossFileChecks

CONSTANTS
    Holidays,    \* TARGET2 closing days
    Configured   \* the dqi block of the configuration: indicator -> <<amber, red>>

Indicator(f, Counted(_), Bad(_)) ==
    LET rows == {i \in Rows(f, Counted) : Bad(f[i])}
    IN  [of |-> Cardinality(Rows(f, Counted)), bad |-> Cardinality(rows), rows |-> rows]
NotMeasured == [of |-> 0, bad |-> 0, rows |-> {}]

\* In units of 10^-4 of the rate.
DefaultPairs == [
    DQI_VAL_MISSING |-> <<50, 200>>, DQI_REJ_REPEAT_UTI |-> <<50, 200>>,
    DQI_HAIRCUT_ANOMALY_SFTR |-> <<50, 200>>, DQI_UNDER_COLLATERALIZATION_SFTR |-> <<50, 200>>,
    DQI_POSITION_NOTIONAL_NEGATIVE |-> <<50, 200>>, DQI_VAL_STALE |-> <<100, 500>>,
    DQI_COL_MISSING_STATE |-> <<100, 500>>, DQI_REJ_RATE |-> <<100, 500>>,
    DQI_LEI_MISSING_SFTR |-> <<100, 500>>, DQI_COL_ALL_ZERO |-> <<200, 1000>>,
    DQI_T3_EXCESS_COLLATERAL_USE_SFTR |-> <<2000, 5000>>,
    DQI_MAR_EXCESS_COLLATERAL_EVENT_RATE_SFTR |-> <<2000, 5000>>]
\* Every other indicator has 5 and 20 percent, listed or not.
resolve_threshold(id) ==
    IF id \in DOMAIN Configured THEN Configured[id]
    ELSE IF id \in DOMAIN DefaultPairs THEN DefaultPairs[id] ELSE <<500, 2000>>
compute_status(ind, pair) ==
    CASE ind.of = 0 -> "NotApplicable"
      [] ind.of > 0 /\ 10000 * ind.bad <= pair[1] * ind.of -> "Green"
      [] ind.of > 0 /\ 10000 * ind.bad > pair[1] * ind.of
           /\ 10000 * ind.bad <= pair[2] * ind.of -> "Amber"
      [] OTHER -> "Red"

IsBusinessDay(d) == d % 7 \notin {5, 6} /\ d \notin Holidays
\* Fault (a mutated form, as are the definitions marked Fault below): the day
\* of the report counts instead of the day of the snapshot.
BusinessDaysFrom(from, to) == Cardinality({d \in from .. to - 1 : IsBusinessDay(d)})
BusinessDays(from, to) == Cardinality({d \in from + 1 .. to : IsBusinessDay(d)})
business_day_diff(from, to) ==
    IF to >= from THEN BusinessDays(from, to) ELSE -BusinessDays(to, from)
OlderThan(time, day, age) == business_day_diff(Day(time), day) > age

Absent(a) == ~Has(a) \/ IsZero(a)

----------------------------------------------------------------------------
(* TSR *)

\* The indicators have a third is_outstanding: any status but those that begin
\* with MATUR or TERMIN.
StillOpen(r) == r.termination_date = NoTime /\ ~In(r.status, {"MATURED", "TERMINATED"})

compute_dqi_val_missing(tsr) ==
    LET Bad(r) == Absent(r.valuation_amount) IN Indicator(tsr, StillOpen, Bad)
compute_dqi_val_stale(tsr, day) ==
    LET Valued(r) == r.valuation_timestamp # NoTime
        Bad(r) == OlderThan(r.valuation_timestamp, day, MaxValuationAge)
    IN  Indicator(tsr, Valued, Bad)
compute_dqi_lei_missing(tsr) ==
    LET Bad(r) == Blank(r.reporting_counterparty) \/ Blank(r.other_counterparty)
    IN  Indicator(tsr, AnyRow, Bad)
\* The placeholder dates are those of the default configuration, whatever is
\* configured.
compute_dqi_anomaly_rate(tsr) ==
    LET Bad(r) == \/ Negative(r.notional_amount) \/ IsZero(r.notional_amount)
                  \/ Negative(r.valuation_amount) \/ r.maturity_date \in PlaceholderDates
    IN  Indicator(tsr, AnyRow, Bad)
compute_dqi_duplicate_reports(tsr) ==
    LET Named(r) == ~Blank(r.uti)
        Bad(r) == Cardinality({j \in DOMAIN tsr : SameBytes(r.uti, tsr[j].uti)}) >= 2
    IN  Indicator(tsr, Named, Bad)

----------------------------------------------------------------------------
(* MSR *)

AllAbsent(r, fields) == \A field \in fields : Absent(r[field])
compute_dqi_col_all_zero(msr) ==
    LET Bad(r) == AllAbsent(r, ImCurrent \union VmCurrent) IN Indicator(msr, AnyRow, Bad)
compute_dqi_col_stale_state(msr, day) ==
    LET Dated(r) == r.state_as_of # NoTime
        Bad(r) == OlderThan(r.state_as_of, day, MaxCollateralAge)
    IN  Indicator(msr, Dated, Bad)
compute_dqi_vm_missing_for_cleared(msr) ==
    LET Cleared(r) == Untrimmed(r.collateralization_category, {"FCOL"})
        Bad(r) == AllAbsent(r, VmCurrent)
    IN  Indicator(msr, Cleared, Bad)
\* UTIs are compared as they were read.
compute_dqi_col_missing_state(tsr, msr) ==
    LET Collateralised(r) == StillOpen(r) /\ Given(r.collateral_portfolio_code)
        Bad(r) == ~Given(r.uti) \/ \A j \in DOMAIN msr : msr[j].uti # r.uti
    IN  Indicator(tsr, Collateralised, Bad)

----------------------------------------------------------------------------
(* Feedback: every row counts, of either regime *)

compute_dqi_rej_rate(feedback) == Indicator(feedback, AnyRow, IsRejected)
compute_dqi_rej_repeat_uti(feedback) ==
    LET rejected == {i \in Rows(feedback, IsRejected) : Given(feedback[i].uti)}
        repeated == {i \in rejected : \E j \in rejected \ {i} : feedback[j].uti = feedback[i].uti}
        UtisAt(rows) == {feedback[i].uti : i \in rows}
    IN  [of |-> Cardinality(UtisAt(rejected)), bad |-> Cardinality(UtisAt(repeated)),
         rows |-> repeated]

----------------------------------------------------------------------------
(* TAR; mapping_presence: two fields count only where some row has them *)

Present(tar, field) == \E i \in DOMAIN tar : ~Blank(tar[i][field])

\* A limit below zero counts as none.
max_hours == IF MaxReportingDelay < 0 THEN 0 ELSE MaxReportingDelay
\* Fault: the limit itself is late.
LateAtTheLimit(tar) ==
    LET Timed(r) == Both(r.execution_timestamp, r.reporting_timestamp)
        Bad(r) == NumHours(r.reporting_timestamp - r.execution_timestamp) >= max_hours
    IN  Indicator(tar, Timed, Bad)
\* The gap in whole hours is compared; the check of the name compares the gap.
compute_dqi_tim_reporting_late(tar) ==
    LET Timed(r) == Both(r.execution_timestamp, r.reporting_timestamp)
        Bad(r) == NumHours(r.reporting_timestamp - r.execution_timestamp) > max_hours
    IN  Indicator(tar, Timed, Bad)
compute_dqi_conf_missing(tar) ==
    LET Bad(r) == Blank(r.confirmation_timestamp)
    IN  IF Present(tar, "confirmation_timestamp") THEN Indicator(tar, AnyRow, Bad) ELSE NotMeasured
compute_dqi_rec_status_unpaired(tar) ==
    LET Known(r) == ~Blank(r.reconciliation_status)
        Bad(r) == In(r.reconciliation_status,
                     {"UNPAIRED", "NOT_PAIRED", "UNREC", "UNRECONCILED", "UNMATCHED"})
    IN  IF Present(tar, "reconciliation_status") THEN Indicator(tar, Known, Bad) ELSE NotMeasured
compute_dqi_err_missing(tar) ==
    LET Bad(r) == Blank(r.entity_responsible_for_reporting) IN Indicator(tar, AnyRow, Bad)
compute_dqi_nature_missing(tar) == LET Bad(r) == Blank(r.nature) IN Indicator(tar, AnyRow, Bad)
compute_dqi_sector_missing(tar) ==
    LET Bad(r) == Blank(r.corporate_sector) IN Indicator(tar, AnyRow, Bad)

----------------------------------------------------------------------------
(* Reconciliation (auth.091): rates by counterparty, then rows by trade *)

\* Fault: the evidence is the counterparties above red.
ShortfallAboveRed(stats, rate, id) ==
    LET Rated(r) == Has(r[rate])
        missing == [i \in Rows(stats, Rated) |-> 100 - Net(stats[i][rate])]
    IN  [of |-> 100 * Cardinality(DOMAIN missing), bad |-> SumFunction(missing),
         rows |-> {i \in DOMAIN missing : 100 * missing[i] > resolve_threshold(id)[2]}]
\* The mean of what is missing to 1; the evidence is the counterparties above
\* amber.
MeanShortfall(stats, rate, id) ==
    LET Rated(r) == Has(r[rate])
        missing == [i \in Rows(stats, Rated) |-> 100 - Net(stats[i][rate])]
    IN  [of |-> 100 * Cardinality(DOMAIN missing), bad |-> SumFunction(missing),
         rows |-> {i \in DOMAIN missing : 100 * missing[i] > resolve_threshold(id)[1]}]
compute_dqi_pairing_rate(stats) == MeanShortfall(stats, "pairing_rate", "DQI_PAIRING_RATE")
compute_dqi_reconciliation_rate(stats) == MeanShortfall(stats, "recon_rate", "DQI_RECONCILIATION_RATE")

WithStatus(r) == Given(r.pairing_status)
compute_dqi_unpaired_trades_rate(rec) ==
    LET Bad(r) == In(r.pairing_status, {"UNPAIRED", "UNPAIR", "UNPR"})
    IN  Indicator(rec, WithStatus, Bad)
compute_dqi_field_mismatch_rate(rec) ==
    LET Bad(r) == r.mismatched_fields # {} IN Indicator(rec, WithStatus, Bad)
\* criterion_mismatch_rate::compute.
CriterionMismatch(rec, tokens) ==
    LET Bad(r) == r.mismatched_fields \intersect tokens # {} IN Indicator(rec, WithStatus, Bad)
compute_dqi_notional_inconsistent(rec) ==
    CriterionMismatch(rec, {"NtnlAmt", "NtnlAmtFstLeg", "NtnlAmtScndLeg"})
compute_dqi_margin_inconsistent_pre_haircut(rec) ==
    CriterionMismatch(rec, {"InitlMrgnPstdPreHrcut", "InitlMrgnRcvdPreHrcut",
                            "VartnMrgnPstdPreHrcut", "VartnMrgnRcvdPreHrcut"})
compute_dqi_margin_inconsistent_post_haircut(rec) ==
    CriterionMismatch(rec, {"InitlMrgnPstdPstHrcut", "InitlMrgnRcvdPstHrcut",
                            "VartnMrgnPstdPstHrcut", "VartnMrgnRcvdPstHrcut"})

----------------------------------------------------------------------------
(* Position sets *)

OfCollateral(r) == IsOneOf(r.position_set_kind, {"CollPosSet", "CcyCollPosSet"})
compute_dqi_position_notional_missing(positions) ==
    LET Bad(r) == ~Has(r.notional) IN Indicator(positions, OfPositions, Bad)
compute_dqi_position_mark_to_market_missing(positions) ==
    LET Bad(r) == ~Has(r.mark_to_market_value) IN Indicator(positions, OfPositions, Bad)
compute_dqi_position_notional_negative(positions) ==
    LET Counted(r) == OfPositions(r) /\ Has(r.notional)
        Bad(r) == Negative(r.notional)
    IN  Indicator(positions, Counted, Bad)
compute_dqi_position_collateral_missing(positions) ==
    LET Bad(r) == ~Has(r.collateral_value) IN Indicator(positions, OfCollateral, Bad)

----------------------------------------------------------------------------
(* The pack.  An indicator of a layer that is not provided is not applicable *)
(* just as over an empty one, where there is nothing to count; only the      *)
(* cross-table indicator needs both its layers.                              *)

Layer(files, name) == IF name \in DOMAIN files THEN files[name] ELSE << >>

compute_emir_dqi_pack(files, day) ==
    LET tsr == Layer(files, "tsr")
        tar == Layer(files, "tar")
        msr == Layer(files, "msr")
        feedback == Layer(files, "feedback")
        stats == Layer(files, "recon_stats")
        rec == Layer(files, "reconciliation")
        positions == Layer(files, "positions")
    IN  [DQI_VAL_MISSING |-> compute_dqi_val_missing(tsr),
         DQI_VAL_STALE |-> compute_dqi_val_stale(tsr, day),
         DQI_LEI_MISSING |-> compute_dqi_lei_missing(tsr),
         DQI_ANOMALY_RATE |-> compute_dqi_anomaly_rate(tsr),
         DQI_DUPLICATE_REPORTS |-> compute_dqi_duplicate_reports(tsr),
         DQI_COL_ALL_ZERO |-> compute_dqi_col_all_zero(msr),
         DQI_COL_STALE_STATE |-> compute_dqi_col_stale_state(msr, day),
         DQI_VM_MISSING_FOR_CLEARED |-> compute_dqi_vm_missing_for_cleared(msr),
         DQI_COL_MISSING_STATE |->
            IF "msr" \in DOMAIN files THEN compute_dqi_col_missing_state(tsr, msr) ELSE NotMeasured,
         DQI_REJ_RATE |-> compute_dqi_rej_rate(feedback),
         DQI_REJ_REPEAT_UTI |-> compute_dqi_rej_repeat_uti(feedback),
         DQI_TIM_REPORTING_LATE |-> compute_dqi_tim_reporting_late(tar),
         DQI_CONF_MISSING |-> compute_dqi_conf_missing(tar),
         DQI_REC_STATUS_UNPAIRED |-> compute_dqi_rec_status_unpaired(tar),
         DQI_ERR_MISSING |-> compute_dqi_err_missing(tar),
         DQI_NATURE_MISSING |-> compute_dqi_nature_missing(tar),
         DQI_SECTOR_MISSING |-> compute_dqi_sector_missing(tar),
         DQI_PAIRING_RATE |-> compute_dqi_pairing_rate(stats),
         DQI_RECONCILIATION_RATE |-> compute_dqi_reconciliation_rate(stats),
         DQI_UNPAIRED_TRADES_RATE |-> compute_dqi_unpaired_trades_rate(rec),
         DQI_FIELD_MISMATCH_RATE |-> compute_dqi_field_mismatch_rate(rec),
         DQI_NOTIONAL_INCONSISTENT |-> compute_dqi_notional_inconsistent(rec),
         DQI_MARGIN_INCONSISTENT_PRE_HAIRCUT |-> compute_dqi_margin_inconsistent_pre_haircut(rec),
         DQI_MARGIN_INCONSISTENT_POST_HAIRCUT |-> compute_dqi_margin_inconsistent_post_haircut(rec),
         DQI_POSITION_NOTIONAL_MISSING |-> compute_dqi_position_notional_missing(positions),
         DQI_POSITION_MARK_TO_MARKET_MISSING |->
            compute_dqi_position_mark_to_market_missing(positions),
         DQI_POSITION_NOTIONAL_NEGATIVE |-> compute_dqi_position_notional_negative(positions),
         DQI_POSITION_COLLATERAL_MISSING |-> compute_dqi_position_collateral_missing(positions)]
=============================================================================
