-------------------------- MODULE SftrAnswerChecks --------------------------
(***************************************************************************)
(* The checks over what a trade repository sends back to an SFTR firm: the *)
(* state and activity reports, the margin lending checks on the former,    *)
(* reconciliation, margin state and activity (auth.085, auth.070), reuse   *)
(* state and activity, and requests for missing collateral (auth.083).     *)
(***************************************************************************)
EXTENDS AnswerChecks, SftrRecordChecks

----------------------------------------------------------------------------
(* TSR *)

SftrActivePastMaturity(r, now) == EmirActivePastMaturity(r, now)
SftrDuplicateActiveUti(i, f) == EmirDuplicateActiveUti(i, f)
SftrHaircutOutOfRangeOnTsr(r) ==
    Issue(is_outstanding(r) /\ OutsideUnit(r.haircut),
          "TST.HAIRCUT_OUT_OF_RANGE_ON_OUTSTANDING", "Warning", "haircut")
SftrMissingCollateralOnTsr(r) ==
    Issue(is_outstanding(r) /\ ~Has(r.collateral_value),
          "TST.MISSING_COLLATERAL", "High", "collateral_value")
SftrOutstandingSummary(r) == EmirOutstandingSummary(r)
\* The age is that of the snapshot, measured from the time of the scan.
SftrStaleValuationOnTsr(r, now) ==
    Issue(/\ is_outstanding(r) /\ r.state_as_of # NoTime
          /\ now - r.state_as_of > 48 * CalendarDays(MaxValuationAge),
          "TST.STALE_VALUATION", "High", "state_as_of")

SftrTsrIssues(i, f, now) ==
    SftrActivePastMaturity(f[i], now) \union SftrDuplicateActiveUti(i, f)
      \union SftrHaircutOutOfRangeOnTsr(f[i]) \union SftrMissingCollateralOnTsr(f[i])
      \union SftrOutstandingSummary(f[i]) \union SftrStaleValuationOnTsr(f[i], now)

----------------------------------------------------------------------------
(* Margin lending in the TSR *)

is_mgld(r) == In(r.sft_type, {"MGLD"})
\* The loan the collateral has to cover, in percents of a unit.
Discounted(amount, haircut) == Net(amount) * (100 - Net(haircut))

SftrMsrMgldOutstandingNeedsLoan(r) ==
    Issue(is_mgld(r) /\ is_outstanding(r) /\ ~Has(r.loan_value),
          "MSR.MGLD_OUTSTANDING_NEEDS_LOAN", "High", "loan_value")
SftrMsrMgldHaircutOutOfRange(r) ==
    Issue(is_mgld(r) /\ OutsideUnit(r.haircut),
          "MSR.MGLD_HAIRCUT_OUT_OF_RANGE", "Warning", "haircut")
\* NoAmount counts as a haircut of zero.
SftrMsrMgldCollateralUnderLoan(r) ==
    Issue(/\ is_mgld(r) /\ is_outstanding(r) /\ Has(r.loan_value) /\ Has(r.collateral_value)
          /\ ~OutsideUnit(r.haircut)
          /\ 100 * Net(r.collateral_value) < Discounted(r.loan_value, r.haircut),
          "MSR.MGLD_COLLATERAL_UNDER_LOAN", "Warning", "collateral_value")
SftrMsrMgldReuseRequiresPortfolio(r) ==
    Issue(is_mgld(r) /\ r.reuse_indicator = "true" /\ Blank(r.collateral_portfolio_code),
          "MSR.MGLD_REUSE_REQUIRES_PORTFOLIO", "Warning", "collateral_portfolio_code")
SftrMsrMgldLoanCollCurrencyMismatch(r) ==
    Issue(/\ is_mgld(r) /\ Given(r.loan_currency) /\ Given(r.collateral_currency)
          /\ ~SameNocase(r.loan_currency, r.collateral_currency),
          "MSR.MGLD_LOAN_COLL_CURRENCY_MISMATCH", "Warning", "collateral_currency")
SftrMsrMgldMissingIsin(r) ==
    Issue(/\ is_mgld(r) /\ is_outstanding(r)
          /\ Has(r.collateral_value) /\ Blank(r.collateral_isin),
          "MSR.MGLD_MISSING_ISIN", "Warning", "collateral_isin")

MgldIssues(r) ==
    SftrMsrMgldOutstandingNeedsLoan(r) \union SftrMsrMgldHaircutOutOfRange(r)
      \union SftrMsrMgldCollateralUnderLoan(r) \union SftrMsrMgldReuseRequiresPortfolio(r)
      \union SftrMsrMgldLoanCollCurrencyMismatch(r) \union SftrMsrMgldMissingIsin(r)

----------------------------------------------------------------------------
(* TAR and reconciliation: the EMIR checks, over SFTR rows *)

SftrDuplicateNewtInBatch(i, f) == EmirDuplicateNewtInBatch(i, f)
SftrNewtNotInTsr(r, tsr)       == EmirNewtNotInTsr(r, tsr)
SftrRepeatedCorrection(i, f)   == EmirRepeatedCorrection(i, f)
SftrSpikeModi(f)               == EmirSpikeModi(f)
SftrSpikeTerm(f)               == EmirSpikeTerm(f)
SftrTarIssues(i, f, tsr) ==
    SftrDuplicateNewtInBatch(i, f) \union SftrNewtNotInTsr(f[i], tsr)
      \union SftrRepeatedCorrection(i, f)
SftrTarBatchIssues(f) == SftrSpikeModi(f) \union SftrSpikeTerm(f)

SftrFieldMismatch(r) ==
    UNION {Issue(r.regime = "SFTR", "REC.FIELD_MISMATCH", "High", field) :
           field \in r.mismatched_fields}
SftrUnpairedTrade(r) ==
    Issue(r.regime = "SFTR" /\ Untrimmed(r.pairing_status, {"UNPAIRED"}),
          "REC.UNPAIRED_TRADE", "High", "")
SftrUnreconciledTrade(r) ==
    Issue(r.regime = "SFTR" /\ Untrimmed(r.reconciliation_status, {"UNRECONCILED"}),
          "REC.UNRECONCILED_TRADE", "High", "")
SftrRecIssues(r) == SftrFieldMismatch(r) \union SftrUnpairedTrade(r) \union SftrUnreconciledTrade(r)

----------------------------------------------------------------------------
(* Margin state and activity of cleared transactions *)

PostedSide   == {"initial_margin_posted", "variation_margin_posted", "excess_collateral_posted"}
ReceivedSide == {"initial_margin_received", "variation_margin_received", "excess_collateral_received"}
AnyOf(r, fields) == \E field \in fields : Has(r[field])
\* One amount of a side is missing while another of it is there.
SideLacks(r, side, field, id) == Issue(~Has(r[field]) /\ AnyOf(r, side), id, "High", field)
NoCurrencyFor(r, fields, currency, id) == Issue(AnyOf(r, fields) /\ ~Given(r[currency]), id, "High", currency)

SftrT3ImPostedMissing(r) ==
    SideLacks(r, PostedSide, "initial_margin_posted", "T3.IM_POSTED_MISSING")
SftrT3VmPostedMissing(r) ==
    SideLacks(r, PostedSide, "variation_margin_posted", "T3.VM_POSTED_MISSING")
SftrT3ImReceivedMissing(r) ==
    SideLacks(r, ReceivedSide, "initial_margin_received", "T3.IM_RECEIVED_MISSING")
SftrT3VmReceivedMissing(r) ==
    SideLacks(r, ReceivedSide, "variation_margin_received", "T3.VM_RECEIVED_MISSING")
SftrT3MarginCurrencyMissing(r) ==
    NoCurrencyFor(r, PostedSide \union ReceivedSide, "margin_currency", "T3.MARGIN_CURRENCY_MISSING")
SftrT3MarginNegative(r) ==
    NegativeFields(r, PostedSide \union ReceivedSide, "T3.MARGIN_NEGATIVE", "Critical")
SftrMsrIssues(r) ==
    SftrT3ImPostedMissing(r) \union SftrT3VmPostedMissing(r) \union SftrT3ImReceivedMissing(r)
      \union SftrT3VmReceivedMissing(r) \union SftrT3MarginCurrencyMissing(r)
      \union SftrT3MarginNegative(r)

SftrMarActionTypeEnumInvalid(r) ==
    Issue(~IsOneOf(r.action_type, {"NEWT", "ERRT", "CORR", "TRDU"}),
          "MAR.ACTION_TYPE_ENUM_INVALID", "Critical", "action_type")
SftrMarAmountCurrencyMissing(r) ==
    NoCurrencyFor(r, PostedSide \union ReceivedSide, "margin_currency", "MAR.AMOUNT_CURRENCY_MISSING")
SftrMarEventDateInFuture(r, now) ==
    Issue(r.event_date > Day(now), "MAR.EVENT_DATE_IN_FUTURE", "High", "event_date")
SftrMarEventWithoutPortfolio(r) ==
    Issue(~Given(r.collateral_portfolio_code),
          "MAR.EVENT_WITHOUT_PORTFOLIO", "High", "collateral_portfolio_code")
SftrMarIssues(r, now) ==
    SftrMarActionTypeEnumInvalid(r) \union SftrMarAmountCurrencyMissing(r)
      \union SftrMarEventDateInFuture(r, now) \union SftrMarEventWithoutPortfolio(r)

----------------------------------------------------------------------------
(* Reuse *)

OutsideBand(a) == Has(a) /\ (Net(a) < -5 \/ Net(a) > 50)

SftrReuMissingReuseCurrency(r) ==
    NoCurrencyFor(r, {"total_reuse_value"}, "reuse_currency", "REU.MISSING_REUSE_CURRENCY")
SftrReuRateOutsidePlausibleBand(r) ==
    Issue(OutsideBand(r.cash_reinvestment_rate),
          "REU.RATE_OUTSIDE_PLAUSIBLE_BAND", "Warning", "cash_reinvestment_rate")
SftrReuStateMissingReuseCurrency(r) ==
    NoCurrencyFor(r, {"total_reuse_value"}, "reuse_currency", "REU.STATE.MISSING_REUSE_CURRENCY")
SftrReuStateRateOutsidePlausibleBand(r) ==
    Issue(OutsideBand(r.cash_reinvestment_rate),
          "REU.STATE.RATE_OUTSIDE_PLAUSIBLE_BAND", "Warning", "cash_reinvestment_rate")
ReuseIssues(r) == SftrReuMissingReuseCurrency(r) \union SftrReuRateOutsidePlausibleBand(r)
ReuseStateIssues(r) ==
    SftrReuStateMissingReuseCurrency(r) \union SftrReuStateRateOutsidePlausibleBand(r)

----------------------------------------------------------------------------
(* Requests for missing collateral; tsr is << >> or a file of one element *)

has_collateral(s) == Above(s.collateral_value, 0) \/ Given(s.collateral_isin)
\* UTIs are compared as they were read; of several rows the last one counts.
StateRows(uti, tsr) == {k \in DOMAIN tsr[1] : tsr[1][k].uti = uti}
StateOf(uti, tsr) ==
    tsr[1][CHOOSE k \in StateRows(uti, tsr) : \A j \in StateRows(uti, tsr) : j <= k]

SftrMcrMissingCollateralRequested(r) == Issue(TRUE, "MCR.MISSING_COLLATERAL_REQUESTED", "High", "")
SftrMcrMissingUtiOnRequest(r) ==
    Issue(~Given(r.uti), "MCR.MISSING_UTI_ON_REQUEST", "High", "UnqTradIdr")
SftrMcrCollateralStateCrossRef(r, tsr) ==
    IF tsr = << >> \/ ~Given(r.uti) THEN {}
    ELSE IF StateRows(r.uti, tsr) = {}
    THEN Issue(TRUE, "MCR.REQUESTED_UTI_NOT_IN_TSR", "High", "")
    ELSE IF has_collateral(StateOf(r.uti, tsr))
    THEN Issue(TRUE, "MCR.COLLATERAL_PRESENT_IN_TSR", "Info", "")
    ELSE Issue(TRUE, "MCR.STILL_MISSING_IN_TSR", "High", "")
McrIssues(r, tsr) ==
    SftrMcrMissingCollateralRequested(r) \union SftrMcrMissingUtiOnRequest(r)
      \union SftrMcrCollateralStateCrossRef(r, tsr)
=============================================================================
