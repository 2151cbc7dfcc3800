------------------------- MODULE SftrRecordChecks --------------------------
(***************************************************************************)
(* The checks default_sftr_checks() runs over submitted SFTR records, in   *)
(* the form of EmirRecordChecks; the check ids are without their SFTR.     *)
(* prefix.  A haircut is "none", "inRange" (of [0, 1]), "outOfRange" or    *)
(* "tooFine"; a rate "none", "positive", "negative" or "tooFine".          *)
(***************************************************************************)
EXTENDS RecordValues, Sequences

\* The fields of an SFTR record, as EmirFields.
SftrFields ==
    {"uti", "prior_uti", "action_type", "event_type", "entity_responsible_for_reporting",
     "counterparty_1", "counterparty_2", "sft_type", "master_agreement_type",
     "master_agreement_version", "loan_value", "loan_currency", "collateral_value",
     "collateral_currency", "haircut", "reuse_indicator", "rebate_rate", "lending_fee",
     "execution_timestamp", "event_timestamp", "reporting_timestamp", "effective_date",
     "maturity_date", "termination_date", "settlement_date", "collateral_portfolio_code",
     "collateral_isin", "security_identifier"}

----------------------------------------------------------------------------
(* Completeness *)

SftrMissingUti(r) == Issue(Blank(r.uti), "COMP.UTI_MISSING", "High", "uti")
SftrCollateralValueMissing(r, now) ==
    Issue(Outstanding(r, now) /\ ~Has(r.collateral_value),
          "COMP.COLLATERAL_VALUE_MISSING", "High", "collateral_value")
SftrHaircutMissing(r) ==
    Issue(Has(r.collateral_value) /\ r.haircut = "none",
          "COMP.HAIRCUT_MISSING", "Warning", "haircut")
SftrCounterparty1Missing(r) ==
    Issue(Blank(r.counterparty_1), "COMP.COUNTERPARTY_1_MISSING", "High", "counterparty_1")
SftrCounterparty2Missing(r) ==
    Issue(Blank(r.counterparty_2), "COMP.COUNTERPARTY_2_MISSING", "High", "counterparty_2")
\* Two checks of each pair find the same thing and both report it.
SftrLoanCurrencyMissing(r) ==
    Issue(Has(r.loan_value) /\ Blank(r.loan_currency),
          "COMP.LOAN_CURRENCY_MISSING", "High", "loan_currency")
SftrLoanNeedsCurrency(r) ==
    Issue(Has(r.loan_value) /\ Blank(r.loan_currency),
          "CON.LOAN_NEEDS_CURRENCY", "High", "loan_currency")
SftrCollateralCurrencyMissing(r) ==
    Issue(Has(r.collateral_value) /\ Blank(r.collateral_currency),
          "COMP.COLLATERAL_CURRENCY_MISSING", "High", "collateral_currency")
SftrCollNeedsCurrency(r) ==
    Issue(Has(r.collateral_value) /\ Blank(r.collateral_currency),
          "CON.COLL_NEEDS_CURRENCY", "High", "collateral_currency")
SftrSftTypeMissing(r) ==
    Issue(Blank(r.sft_type), "COMP.SFT_TYPE_MISSING", "High", "sft_type")
SftrSecurityIdentifierMissing(r) ==
    Issue(In(r.sft_type, {"SLEB", "BSB"}) /\ Blank(r.security_identifier),
          "COMP.SECURITY_ID_MISSING", "High", "security_identifier")

----------------------------------------------------------------------------
(* Validity *)

SftrLeiFormatRc(r) ==
    Issue(BadLei(r.counterparty_1), "VLD.LEI_FORMAT_RC", "High", "counterparty_1")
SftrLeiFormatOc(r) ==
    Issue(BadLei(r.counterparty_2), "VLD.LEI_FORMAT_OC", "High", "counterparty_2")
SftrLeiFormatErr(r) ==
    Issue(BadLei(r.entity_responsible_for_reporting),
          "VLD.LEI_FORMAT_ERR", "High", "entity_responsible_for_reporting")
SftrCurrencyLoan(r) ==
    Issue(BadCurrency(r.loan_currency), "VLD.CURRENCY_LOAN", "Warning", "loan_currency")
SftrCurrencyCollateral(r) ==
    Issue(BadCurrency(r.collateral_currency),
          "VLD.CURRENCY_COLLATERAL", "Warning", "collateral_currency")
SftrIsinCollateral(r) ==
    Issue(~Blank(r.collateral_isin) /\ ~ValidIsin(r.collateral_isin),
          "VLD.ISIN_COLLATERAL", "Warning", "collateral_isin")
SftrSftTypeEnum(r) ==
    Issue(NotIn(r.sft_type, {"REPO", "BSB", "SLEB", "MGLD"}),
          "VLD.SFT_TYPE_ENUM", "High", "sft_type")
SftrActionTypeEnum(r) ==
    Issue(NotIn(r.action_type, {"NEWT", "MODI", "CORR", "ETRM", "VALU", "COLU", "MARU", "REUU",
                                "POSC", "OTHR"}),
          "VLD.ACTION_TYPE_ENUM", "High", "action_type")
SftrEventTypeEnum(r) ==
    Issue(NotIn(r.event_type, {"TRAD", "MODI", "CORR", "ETRM", "VALU", "COLU", "REUU", "MARU",
                               "EROR", "POSC"}),
          "VLD.EVENT_TYPE_ENUM", "High", "event_type")
SftrMasterAgreementTypeEnum(r) ==
    Issue(NotIn(r.master_agreement_type,
                {"GMRA", "GMSLA", "ISDA", "CDEA", "EFET", "ICOM", "ISMA", "OTHR"}),
          "VLD.MASTER_AGREEMENT_TYPE_ENUM", "Warning", "master_agreement_type")
SftrMasterAgreementVersionFormat(r) ==
    Issue(NotIn(r.master_agreement_version, FourDigits),
          "VLD.MASTER_AGREEMENT_VERSION_FORMAT", "Warning", "master_agreement_version")
VersionsOf == [GMRA |-> {"1995", "2000", "2011"}, GMSLA |-> {"2000", "2010", "2018"}]
SftrGmraGmslaVersionPlausible(r) ==
    LET type == r.master_agreement_type.code IN
    Issue(/\ type \in DOMAIN VersionsOf
          /\ NotIn(r.master_agreement_version, VersionsOf[type]),
          "VLD.GMRA_GMSLA_VERSION_PLAUSIBLE", "Warning", "master_agreement_version")
SftrLoanPrecision(r) ==
    Issue(~WithinBounds(r.loan_value), "VLD.LOAN_PRECISION", "Warning", "loan_value")
SftrCollateralPrecision(r) ==
    Issue(~WithinBounds(r.collateral_value),
          "VLD.COLLATERAL_PRECISION", "Warning", "collateral_value")
SftrHaircutPrecision(r) ==
    Issue(r.haircut = "tooFine", "VLD.HAIRCUT_PRECISION", "Warning", "haircut")
SftrRatePrecision(r) ==
    UNION {Issue(r[f] = "tooFine", "VLD.RATE_PRECISION", "Warning", f) :
           f \in {"rebate_rate", "lending_fee"}}

----------------------------------------------------------------------------
(* Accuracy *)

SftrNegativeLoan(r) ==
    Issue(Negative(r.loan_value), "ACC.NEGATIVE_LOAN", "High", "loan_value")
SftrNegativeCollateral(r) ==
    Issue(Negative(r.collateral_value), "ACC.NEGATIVE_COLLATERAL", "High", "collateral_value")
SftrHaircutOutOfRange(r) ==
    Issue(r.haircut = "outOfRange", "ACC.HAIRCUT_OUT_OF_RANGE", "Warning", "haircut")
SftrLendingFeeNegative(r) ==
    Issue(r.lending_fee = "negative", "ACC.LENDING_FEE_NEGATIVE", "Warning", "lending_fee")
SftrAbnormalMaturity(r, now) ==
    Issue(/\ r.maturity_date # NoTime
          /\ \/ r.maturity_date \in PlaceholderDates
             \/ r.maturity_date > LastNormalDay(Day(now)),
          "ACC.ABNORMAL_MATURITY", "Warning", "maturity_date")
SftrLoanAbnormalMagnitude(r) ==
    Issue(r.loan_value.bn > 1000000,   \* |loan| > 10^15
          "ACC.LOAN_ABNORMAL_MAGNITUDE", "Warning", "loan_value")

----------------------------------------------------------------------------
(* Uniqueness and timeliness *)

SftrDuplicateUti(r, batch) ==
    Issue(~Blank(r.uti) /\ Repeated(r.uti, batch), "UNI.DUPLICATE_UTI", "Critical", "uti")
SftrLateReporting(r) ==
    Issue(/\ Both(r.event_timestamp, r.reporting_timestamp)
          /\ r.reporting_timestamp - r.event_timestamp > Hours(MaxReportingDelay),
          "TIM.LATE_REPORTING", "High", "reporting_timestamp")
SftrLateReportingSettlement(r) ==
    Issue(/\ Both(r.settlement_date, r.reporting_timestamp)
          /\ r.settlement_date - Day(r.reporting_timestamp) > 7,
          "TIM.LATE_REPORTING_SETTLEMENT", "Warning", "settlement_date")

----------------------------------------------------------------------------
(* Consistency *)

SftrSettlementBeforeExecution(r) ==
    Issue(/\ Both(r.settlement_date, r.execution_timestamp)
          /\ r.settlement_date < Day(r.execution_timestamp),
          "CON.SETTLEMENT_BEFORE_EXECUTION", "High", "settlement_date")
SftrMaturityBeforeEffective(r) ==
    Issue(Both(r.maturity_date, r.effective_date) /\ r.maturity_date < r.effective_date,
          "CON.MATURITY_BEFORE_EFFECTIVE", "High", "maturity_date")
SftrEventBeforeExecution(r) ==
    Issue(/\ Both(r.event_timestamp, r.execution_timestamp)
          /\ r.event_timestamp < r.execution_timestamp,
          "CON.EVENT_BEFORE_EXECUTION", "High", "event_timestamp")
SftrReportingBeforeExecution(r) ==
    Issue(/\ Both(r.reporting_timestamp, r.execution_timestamp)
          /\ r.reporting_timestamp < r.execution_timestamp,
          "CON.REPORTING_BEFORE_EXECUTION", "High", "reporting_timestamp")
\* Any termination date, even one to come, silences this one.
SftrMaturityInPast(r, now) ==
    Issue(/\ r.termination_date = NoTime
          /\ r.maturity_date # NoTime /\ r.maturity_date < Day(now),
          "CON.MATURITY_IN_PAST", "Warning", "maturity_date")
SftrTerminationAfterMaturity(r) ==
    Issue(Both(r.termination_date, r.maturity_date) /\ r.termination_date > r.maturity_date,
          "CON.TERMINATION_AFTER_MATURITY", "Warning", "termination_date")
SftrSelfDealing(r) ==
    Issue(~Blank(r.counterparty_1) /\ SameText(r.counterparty_1, r.counterparty_2),
          "CON.SELF_DEALING", "High", "counterparty_2")
SftrLoanCollCurrencyMismatch(r) ==
    Issue(Differ(r.loan_currency, r.collateral_currency),
          "CON.LOAN_COLL_CURRENCY_MISMATCH", "Warning", "collateral_currency")
SftrRebateRequiresRepoOrBsb(r) ==
    Issue(r.rebate_rate # "none" /\ ~In(r.sft_type, {"REPO", "BSB"}),
          "CON.REBATE_REQUIRES_REPO_OR_BSB", "Warning", "rebate_rate")
SftrLendingFeeRequiresSleb(r) ==
    Issue(r.lending_fee # "none" /\ ~In(r.sft_type, {"SLEB"}),
          "CON.LENDING_FEE_REQUIRES_SLEB", "Warning", "lending_fee")
SftrNewtForbidsPriorUti(r) ==
    Issue(Untrimmed(r.action_type, {"NEWT"}) /\ ~Blank(r.prior_uti),
          "CON.NEWT_FORBIDS_PRIOR_UTI", "Warning", "prior_uti")
SftrNewtForbidsTerminationDate(r) ==
    Issue(Untrimmed(r.action_type, {"NEWT"}) /\ r.termination_date # NoTime,
          "CON.NEWT_FORBIDS_TERMINATION_DATE", "Warning", "termination_date")
\* Fault (a mutated form): the code is trimmed here, and not in the EMIR rule.
SftrEtrmTrimmed(r) ==
    Issue(In(r.action_type, {"ETRM"}) /\ r.termination_date = NoTime,
          "CON.ETRM_REQUIRES_TERMINATION_DATE", "High", "termination_date")
SftrEtrmRequiresTerminationDate(r) ==
    Issue(Untrimmed(r.action_type, {"ETRM"}) /\ r.termination_date = NoTime,
          "CON.ETRM_REQUIRES_TERMINATION_DATE", "High", "termination_date")
SftrColuRequiresPortfolio(r) ==
    Issue(Untrimmed(r.action_type, {"COLU"}) /\ Blank(r.collateral_portfolio_code),
          "CON.COLU_REQUIRES_PORTFOLIO", "High", "collateral_portfolio_code")
SftrReuuRequiresReuseIndicator(r) ==
    Issue(Untrimmed(r.action_type, {"REUU"}) /\ r.reuse_indicator = "none",
          "CON.REUU_REQUIRES_REUSE_INDICATOR", "High", "reuse_indicator")
SftrReuseIndicatorRequiresPortfolio(r) ==
    Issue(r.reuse_indicator = "true" /\ Blank(r.collateral_portfolio_code),
          "CON.REUSE_INDICATOR_REQUIRES_PORTFOLIO", "Warning", "collateral_portfolio_code")
\* A MODI keeps its UTI here; ModiPreservesUti of the EMIR book asks for a new one.
SftrModiPreservesUti(r) ==
    Issue(/\ In(r.action_type, {"MODI"})
          /\ ~Blank(r.prior_uti) /\ ~SameText(r.prior_uti, r.uti),
          "CON.MODI_PRESERVES_UTI", "High", "prior_uti")
EventOf ==
    [NEWT |-> "TRAD", MODI |-> "MODI", ETRM |-> "ETRM", COLU |-> "COLU", REUU |-> "REUU",
     CORR |-> "CORR", MARU |-> "MARU"]
SftrActionEventCompatibility(r) ==
    Issue(/\ r.action_type.code \in DOMAIN EventOf
          /\ NotIn(r.event_type, {EventOf[r.action_type.code]}),
          "CON.ACTION_EVENT_COMPATIBILITY", "Warning", "event_type")

----------------------------------------------------------------------------
(* Margin lending *)

Mgld(r) == In(r.sft_type, {"MGLD"})
Maru(r) == In(r.action_type, {"MARU"})
SftrMarMgldNeedsLoanValue(r) ==
    Issue(Mgld(r) /\ r.termination_date = NoTime /\ ~Has(r.loan_value),
          "MAR.MGLD_NEEDS_LOAN_VALUE", "High", "loan_value")
SftrMarMgldNeedsCollateral(r) ==
    Issue(Mgld(r) /\ Has(r.loan_value) /\ ~Has(r.collateral_value),
          "MAR.MGLD_NEEDS_COLLATERAL", "High", "collateral_value")
SftrMarMaruRequiresValueOrHaircut(r) ==
    Issue(Maru(r) /\ ~Has(r.loan_value) /\ ~Has(r.collateral_value) /\ r.haircut = "none",
          "MAR.MARU_REQUIRES_VALUE_OR_HAIRCUT", "High", "action_type")
SftrMarMaruRequiresPortfolio(r) ==
    Issue(Maru(r) /\ Blank(r.collateral_portfolio_code),
          "MAR.MARU_REQUIRES_PORTFOLIO", "High", "collateral_portfolio_code")
SftrMarMgldHaircutOutOfRange(r) ==
    Issue(Mgld(r) /\ r.haircut = "outOfRange",
          "MAR.MGLD_HAIRCUT_OUT_OF_RANGE", "Warning", "haircut")

----------------------------------------------------------------------------
(* default_sftr_checks(): every check, over record r of a file with these records. *)

SftrIssues(r, batch, now) == UNION {
    SftrMissingUti(r), SftrCollateralValueMissing(r, now), SftrHaircutMissing(r),
    SftrCounterparty1Missing(r), SftrCounterparty2Missing(r), SftrLoanCurrencyMissing(r),
    SftrCollateralCurrencyMissing(r), SftrLeiFormatRc(r), SftrLeiFormatOc(r),
    SftrLeiFormatErr(r), SftrCurrencyLoan(r), SftrCurrencyCollateral(r), SftrIsinCollateral(r),
    SftrNegativeLoan(r), SftrNegativeCollateral(r), SftrHaircutOutOfRange(r),
    SftrDuplicateUti(r, batch), SftrLateReporting(r), SftrSettlementBeforeExecution(r),
    SftrMaturityBeforeEffective(r), SftrSftTypeMissing(r), SftrSftTypeEnum(r),
    SftrActionTypeEnum(r), SftrLoanPrecision(r), SftrCollateralPrecision(r),
    SftrHaircutPrecision(r), SftrRatePrecision(r), SftrMasterAgreementVersionFormat(r),
    SftrGmraGmslaVersionPlausible(r), SftrSelfDealing(r), SftrLoanNeedsCurrency(r),
    SftrCollNeedsCurrency(r), SftrLoanCollCurrencyMismatch(r), SftrRebateRequiresRepoOrBsb(r),
    SftrLendingFeeRequiresSleb(r), SftrNewtForbidsPriorUti(r), SftrNewtForbidsTerminationDate(r),
    SftrEtrmRequiresTerminationDate(r), SftrColuRequiresPortfolio(r),
    SftrReuuRequiresReuseIndicator(r), SftrReuseIndicatorRequiresPortfolio(r),
    SftrEventTypeEnum(r), SftrMasterAgreementTypeEnum(r), SftrLendingFeeNegative(r),
    SftrSecurityIdentifierMissing(r), SftrMarMgldNeedsLoanValue(r), SftrMarMgldNeedsCollateral(r),
    SftrMarMaruRequiresValueOrHaircut(r), SftrMarMaruRequiresPortfolio(r),
    SftrMarMgldHaircutOutOfRange(r), SftrAbnormalMaturity(r, now), SftrLoanAbnormalMagnitude(r),
    SftrEventBeforeExecution(r), SftrReportingBeforeExecution(r), SftrMaturityInPast(r, now),
    SftrTerminationAfterMaturity(r), SftrModiPreservesUti(r), SftrActionEventCompatibility(r),
    SftrLateReportingSettlement(r)}
============================================================================
