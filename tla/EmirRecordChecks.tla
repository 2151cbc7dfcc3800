------------------------- MODULE EmirRecordChecks --------------------------
(***************************************************************************)
(* The checks default_checks() runs over submitted EMIR records: one       *)
(* operator per check, which yields the issues the check raises for record *)
(* r, and EmirIssues, the whole registry.  The check ids are without their *)
(* EMIR. prefix.  Only DuplicateUti looks at more than one record.         *)
(***************************************************************************)
EXTENDS RecordValues, Sequences

CONSTANTS
    NfcThreshold,   \* emir_rmt.nfc_clearing_thresholds_eur, in 10^9 EUR
    ImThreshold     \* emir_rmt.aana_im_threshold_eur, in 10^9 EUR

\* The fields of an EMIR record, of which every one that a check reads is here.
EmirFields ==
    {"uti", "prior_uti", "action_type", "event_type", "entity_responsible_for_reporting",
     "counterparty_1", "counterparty_2", "asset_class", "product_id", "underlying_id",
     "notional_amount", "notional_currency", "price", "price_currency", "execution_timestamp",
     "event_timestamp", "reporting_timestamp", "effective_date", "maturity_date",
     "termination_date", "valuation_amount", "valuation_currency", "valuation_timestamp",
     "initial_margin_posted", "initial_margin_collected", "variation_margin_posted",
     "variation_margin_collected", "collateral_portfolio_code", "clearing_status",
     "collateralisation_category", "leg2_notional_amount", "leg2_notional_currency",
     "leg1_payment_frequency", "clearing_ccp_lei", "intragroup_indicator", "hedging_indicator",
     "valuation_type", "trading_capacity", "commercial_or_treasury_financing",
     "reporting_obligation_indicator", "corporate_sector", "nature", "master_agreement_type",
     "master_agreement_version", "confirmation_method", "mtm_value_change", "delta", "gamma"}

----------------------------------------------------------------------------
(* Completeness *)

MissingUti(r) == Issue(Blank(r.uti), "COMP.UTI_MISSING", "High", "uti")
MissingValuation(r, now) ==
    Issue(Outstanding(r, now) /\ ~Has(r.valuation_amount),
          "COMP.VALUATION_MISSING", "High", "valuation_amount")
Counterparty1Missing(r) ==
    Issue(Blank(r.counterparty_1), "COMP.COUNTERPARTY_1_MISSING", "High", "counterparty_1")
Counterparty2Missing(r) ==
    Issue(Blank(r.counterparty_2), "COMP.COUNTERPARTY_2_MISSING", "High", "counterparty_2")
NotionalCurrencyMissing(r) ==
    Issue(Has(r.notional_amount) /\ Blank(r.notional_currency),
          "COMP.NOTIONAL_CURRENCY_MISSING", "High", "notional_currency")
ValuationCurrencyMissing(r) ==
    Issue(Has(r.valuation_amount) /\ Blank(r.valuation_currency),
          "COMP.VALUATION_CURRENCY_MISSING", "High", "valuation_currency")
ValuationTimestampMissing(r) ==
    Issue(Has(r.valuation_amount) /\ r.valuation_timestamp = NoTime,
          "COMP.VALUATION_TIMESTAMP_MISSING", "High", "valuation_timestamp")
ClearingStatusMissing(r) ==
    Issue(Blank(r.clearing_status), "COMP.CLEARING_STATUS_MISSING", "High", "clearing_status")
IntragroupIndicatorMissing(r) ==
    Issue(r.intragroup_indicator = "none",
          "COMP.INTRAGROUP_INDICATOR_MISSING", "Warning", "intragroup_indicator")
NatureMissing(r) == Issue(Blank(r.nature), "COMP.NATURE_MISSING", "Warning", "nature")
TradingCapacityMissing(r) ==
    Issue(Blank(r.trading_capacity), "COMP.TRADING_CAPACITY_MISSING", "Warning", "trading_capacity")
MasterAgreementTypeMissing(r) ==
    Issue(Blank(r.master_agreement_type),
          "COMP.MASTER_AGREEMENT_TYPE_MISSING", "Warning", "master_agreement_type")
MasterAgreementVersionMissing(r) ==
    Issue(~Blank(r.master_agreement_type) /\ Blank(r.master_agreement_version),
          "COMP.MASTER_AGREEMENT_VERSION_MISSING", "Warning", "master_agreement_version")
AssetClassMissing(r) ==
    Issue(Blank(r.asset_class), "COMP.ASSET_CLASS_MISSING", "High", "asset_class")
ProductIdMissing(r) ==
    Issue(~Blank(r.asset_class) /\ Blank(r.product_id),
          "COMP.PRODUCT_ID_MISSING", "Warning", "product_id")

FullyCollateralised(r) == Untrimmed(r.collateralisation_category, {"FLCL"})
InitialMarginMissingForFull(r) ==
    Issue(FullyCollateralised(r) /\ ~Has(r.initial_margin_posted),
          "COMP.INITIAL_MARGIN_MISSING_FOR_FULL", "Warning", "initial_margin_posted")
VariationMarginMissingForFull(r) ==
    Issue(FullyCollateralised(r) /\ ~Has(r.variation_margin_posted),
          "COMP.VARIATION_MARGIN_MISSING_FOR_FULL", "Warning", "variation_margin_posted")
CollateralPortfolioRequiredForFull(r) ==
    Issue(FullyCollateralised(r) /\ Blank(r.collateral_portfolio_code),
          "COMP.COLLATERAL_PORTFOLIO_REQUIRED_FOR_FULL", "High", "collateral_portfolio_code")

----------------------------------------------------------------------------
(* Validity *)

LeiFormatRc(r) == Issue(BadLei(r.counterparty_1), "VLD.LEI_FORMAT_RC", "High", "counterparty_1")
LeiFormatOc(r) == Issue(BadLei(r.counterparty_2), "VLD.LEI_FORMAT_OC", "High", "counterparty_2")
LeiFormatErr(r) ==
    Issue(BadLei(r.entity_responsible_for_reporting),
          "VLD.LEI_FORMAT_ERR", "High", "entity_responsible_for_reporting")
LeiFormatCcp(r) ==
    Issue(BadLei(r.clearing_ccp_lei), "VLD.LEI_FORMAT_CCP", "High", "clearing_ccp_lei")
CurrencyNotional(r) ==
    Issue(BadCurrency(r.notional_currency), "VLD.CURRENCY_NOTIONAL", "Warning", "notional_currency")
CurrencyValuation(r) ==
    Issue(BadCurrency(r.valuation_currency), "VLD.CURRENCY_VALUATION", "Warning", "valuation_currency")

ActionTypes == {"NEWT", "MODI", "CORR", "ETRM", "POSC", "VALU", "MARU", "OTHR", "EROR", "REVI"}
ActionTypeEnum(r) ==
    Issue(NotIn(r.action_type, ActionTypes), "VLD.ACTION_TYPE_ENUM", "High", "action_type")
EventTypeEnum(r) ==
    Issue(NotIn(r.event_type, {"TRAD", "NOVA", "INCP", "COMP", "ETRM", "EXER", "ALOC", "CLRG",
                               "CORP", "EXPI", "REVI", "UPDT", "INCR", "PTNG", "CREA"}),
          "VLD.EVENT_TYPE_ENUM", "Warning", "event_type")
ValuationTypeEnum(r) ==
    Issue(NotIn(r.valuation_type, {"MTMA", "MTMO"}),
          "VLD.VALUATION_TYPE_ENUM", "Warning", "valuation_type")
TradingCapacityEnum(r) ==
    Issue(NotIn(r.trading_capacity, {"AGEN", "PRIN"}),
          "VLD.TRADING_CAPACITY_ENUM", "Warning", "trading_capacity")
AssetClassEnum(r) ==
    Issue(NotIn(r.asset_class, {"CR", "CU", "EQ", "FX", "IR", "CO", "RATE", "COMM", "EQTY", "CRDT"}),
          "VLD.ASSET_CLASS_ENUM", "High", "asset_class")
NatureEnum(r) == Issue(NotIn(r.nature, {"F", "N", "C"}), "VLD.NATURE_ENUM", "Warning", "nature")
MasterAgreementTypeEnum(r) ==
    Issue(NotIn(r.master_agreement_type,
                {"ISDA", "FBF", "FMA", "EFET", "IETA", "IFEMA", "ICOM", "RPA", "EMA", "AFB",
                 "EFMA", "GMRA", "GMSLA", "OTHR"}),
          "VLD.MASTER_AGREEMENT_TYPE_ENUM", "Warning", "master_agreement_type")
CollateralisationCategoryEnum(r) ==
    Issue(NotIn(r.collateralisation_category, {"FLCL", "OWCL", "PRCL", "UNCL"}),
          "VLD.COLLATERALISATION_CATEGORY_ENUM", "Warning", "collateralisation_category")
ClearingStatusEnum(r) ==
    Issue(NotIn(r.clearing_status, {"CLRD", "NCLR", "ICLR", "INCL"}),
          "VLD.CLEARING_STATUS_ENUM", "High", "clearing_status")
EmirCorporateSectorEnum(r) ==
    Issue(NotIn(r.corporate_sector, {"ASMC", "BLA", "CDTI", "CRDT", "ESA", "ETI", "ICCD", "INHV",
                                     "INRE", "OTHR"}),
          "VLD.CORPORATE_SECTOR_ENUM", "Warning", "corporate_sector")
EmirReportingObligationIndicatorEnum(r) ==
    Issue(NotIn(r.reporting_obligation_indicator, {"TRUE", "FALSE", "Y", "N", "1", "0"}),
          "VLD.REPORTING_OBLIGATION_INDICATOR_ENUM", "Warning", "reporting_obligation_indicator")

NotionalPrecision(r) ==
    Issue(~WithinBounds(r.notional_amount), "VLD.NOTIONAL_PRECISION", "Warning", "notional_amount")
ValuationPrecision(r) ==
    Issue(~WithinBounds(r.valuation_amount), "VLD.VALUATION_PRECISION", "Warning", "valuation_amount")
PricePrecision(r) == Issue(~WithinBounds(r.price), "VLD.PRICE_PRECISION", "Warning", "price")
\* Only the first margin out of bounds is reported.
MarginFields == <<"initial_margin_posted", "initial_margin_collected",
                  "variation_margin_posted", "variation_margin_collected">>
MarginPrecision(r) ==
    LET bad == {i \in 1..4 : ~WithinBounds(r[MarginFields[i]])}
    IN  UNION {Issue(\A j \in bad : i <= j, "VLD.MARGIN_PRECISION", "Warning", MarginFields[i]) :
               i \in bad}
NotionalPrecisionByCurrency(r) ==
    Issue(TooFineFor(r.notional_amount, r.notional_currency),
          "VLD.NOTIONAL_PRECISION_BY_CURRENCY", "Warning", "notional_amount")
ValuationPrecisionByCurrency(r) ==
    Issue(TooFineFor(r.valuation_amount, r.valuation_currency),
          "VLD.VALUATION_PRECISION_BY_CURRENCY", "Warning", "valuation_amount")
PricePrecisionByCurrency(r) ==
    Issue(TooFineFor(r.price, r.price_currency),
          "VLD.PRICE_PRECISION_BY_CURRENCY", "Warning", "price")

MasterAgreementVersionFormat(r) ==
    Issue(NotIn(r.master_agreement_version, FourDigits),
          "VLD.MASTER_AGREEMENT_VERSION_FORMAT", "Warning", "master_agreement_version")
IsdaVersionPlausible(r) ==
    Issue(/\ Untrimmed(r.master_agreement_type, {"ISDA"})
          /\ NotIn(r.master_agreement_version, {"1992", "2002", "2017"}),
          "VLD.ISDA_VERSION_PLAUSIBLE", "Warning", "master_agreement_version")
\* A product id of one character has no base code to look at.
CommodityBaseEnum(r) ==
    Issue(/\ In(r.asset_class, {"CO", "COMM"})
          /\ NotIn(r.product_id, {"A", "AG01", "EN01"}),
          "VLD.COMMODITY_BASE_ENUM", "Warning", "product_id")
CreditSectorEnum(r) ==
    Issue(/\ In(r.asset_class, {"CR", "CRDT"})
          /\ ~Blank(r.underlying_id)
          /\ ~ValidIsin(r.underlying_id)
          /\ ~In(r.underlying_id, {"ITRAXX", "CDX-IG"}),
          "VLD.CREDIT_SECTOR_ENUM", "Warning", "underlying_id")

----------------------------------------------------------------------------
(* Accuracy *)

\* The first reason that holds; a placeholder or a far date hides that the
\* maturity may also precede the effective date.
AbnormalMaturity(r, now) ==
    Issue(/\ r.maturity_date # NoTime
          /\ \/ r.maturity_date \in PlaceholderDates
             \/ r.maturity_date > LastNormalDay(Day(now))
             \/ r.effective_date # NoTime /\ r.maturity_date < r.effective_date,
          "ACC.ABNORMAL_MATURITY", "Warning", "maturity_date")
ZeroNotional(r) ==
    Issue(~Exactly(r.action_type, "POSC") /\ IsZero(r.notional_amount),
          "ACC.ZERO_NOTIONAL", "Warning", "notional_amount")
NegativeNotional(r) ==
    Issue(Negative(r.notional_amount), "ACC.NEGATIVE_NOTIONAL", "High", "notional_amount")
NegativeInitialMarginPosted(r) ==
    Issue(Negative(r.initial_margin_posted),
          "ACC.NEGATIVE_INITIAL_MARGIN_POSTED", "High", "initial_margin_posted")
NegativeInitialMarginCollected(r) ==
    Issue(Negative(r.initial_margin_collected),
          "ACC.NEGATIVE_INITIAL_MARGIN_COLLECTED", "High", "initial_margin_collected")
NegativeVariationMarginPosted(r) ==
    Issue(Negative(r.variation_margin_posted),
          "ACC.NEGATIVE_VARIATION_MARGIN_POSTED", "High", "variation_margin_posted")
NegativeVariationMarginCollected(r) ==
    Issue(Negative(r.variation_margin_collected),
          "ACC.NEGATIVE_VARIATION_MARGIN_COLLECTED", "High", "variation_margin_collected")
NotionalAbnormalMagnitude(r) ==
    Issue(r.notional_amount.bn > 1000000,   \* |notional| > 10^15
          "ACC.NOTIONAL_ABNORMAL_MAGNITUDE", "Warning", "notional_amount")

\* What an asset class needs.  Unlike canonical_asset_class these lists do
\* not know the spellings INTR and CURR.
IrRequiresNotional(r) ==
    Issue(Untrimmed(r.asset_class, {"IR", "RATE"}) /\ ~Has(r.notional_amount),
          "ACC.IR_REQUIRES_NOTIONAL", "High", "notional_amount")
IrRequiresLeg1Freq(r) ==
    Issue(Untrimmed(r.asset_class, {"IR", "RATE"}) /\ Blank(r.leg1_payment_frequency),
          "ACC.IR_REQUIRES_LEG1_FREQ", "Warning", "leg1_payment_frequency")
FxRequiresLeg2Currency(r) ==
    Issue(Untrimmed(r.asset_class, {"FX"}) /\ Blank(r.leg2_notional_currency),
          "ACC.FX_REQUIRES_LEG2_CURRENCY", "High", "leg2_notional_currency")
EqRequiresUnderlying(r) ==
    Issue(Untrimmed(r.asset_class, {"EQ", "EQTY"}) /\ Blank(r.underlying_id),
          "ACC.EQ_REQUIRES_UNDERLYING", "High", "underlying_id")
CrRequiresUnderlying(r) ==
    Issue(Untrimmed(r.asset_class, {"CR", "CRDT"}) /\ Blank(r.underlying_id),
          "ACC.CR_REQUIRES_UNDERLYING", "High", "underlying_id")
CommodityRequiresProductId(r) ==
    Issue(Untrimmed(r.asset_class, {"CO", "COMM"}) /\ Blank(r.product_id),
          "ACC.COMMODITY_REQUIRES_PRODUCT_ID", "Warning", "product_id")
EmirPriceNegative(r) ==
    Issue(Negative(r.price) /\ In(r.asset_class, {"FX", "CURR", "EQ", "EQUI", "CO", "COMM"}),
          "ACC.PRICE_NEGATIVE", "Warning", "price")
EmirDeltaOutOfRange(r) ==
    Issue(r.delta = "outOfRange", "ACC.DELTA_OUT_OF_RANGE", "Warning", "delta")
EmirGammaNegative(r) == Issue(r.gamma = "negative", "ACC.GAMMA_NEGATIVE", "Warning", "gamma")

----------------------------------------------------------------------------
(* Uniqueness and timeliness *)

\* Over the whole file, the records of batch.
DuplicateUti(r, batch) ==
    Issue(/\ ~Blank(r.uti)
          /\ Repeated(r.uti, batch),
          "UNI.DUPLICATE_UTI", "Critical", "uti")

LateReporting(r) ==
    Issue(/\ Both(r.event_timestamp, r.reporting_timestamp)
          /\ r.reporting_timestamp - r.event_timestamp > Hours(MaxReportingDelay),
          "TIM.LATE_REPORTING", "High", "reporting_timestamp")
ValuationAfterReporting(r) ==
    Issue(/\ Both(r.valuation_timestamp, r.reporting_timestamp)
          /\ r.valuation_timestamp > r.reporting_timestamp,
          "TIM.VALUATION_AFTER_REPORTING", "Warning", "valuation_timestamp")

----------------------------------------------------------------------------
(* Consistency *)

ReportingBeforeExecution(r) ==
    Issue(/\ Both(r.execution_timestamp, r.reporting_timestamp)
          /\ r.reporting_timestamp < r.execution_timestamp,
          "CON.REPORTING_BEFORE_EXECUTION", "High", "reporting_timestamp")
EventBeforeExecution(r) ==
    Issue(/\ Both(r.execution_timestamp, r.event_timestamp)
          /\ r.event_timestamp < r.execution_timestamp,
          "CON.EVENT_BEFORE_EXECUTION", "High", "event_timestamp")
ValuationAfterTermination(r) ==
    Issue(/\ Both(r.termination_date, r.valuation_timestamp)
          /\ Day(r.valuation_timestamp) > r.termination_date,
          "CON.VALUATION_AFTER_TERMINATION", "High", "valuation_timestamp")
MaturityInPast(r, now) ==
    Issue(/\ Outstanding(r, now)
          /\ r.maturity_date # NoTime /\ r.maturity_date < Day(now),
          "CON.MATURITY_IN_PAST", "Warning", "maturity_date")
TerminationAfterMaturity(r) ==
    Issue(/\ Both(r.maturity_date, r.termination_date)
          /\ r.termination_date > r.maturity_date,
          "CON.TERMINATION_AFTER_MATURITY", "High", "termination_date")
EffectiveAfterMaturity(r) ==
    Issue(/\ Both(r.maturity_date, r.effective_date)
          /\ r.effective_date > r.maturity_date,
          "CON.EFFECTIVE_AFTER_MATURITY", "High", "effective_date")

ClearedRequiresCcp(r) ==
    Issue(/\ In(r.clearing_status, {"CLRD", "Y", "YES", "TRUE", "CLEARED", "T"})
          /\ Blank(r.clearing_ccp_lei),
          "CON.CLEARED_REQUIRES_CCP", "High", "clearing_ccp_lei")
\* Fault (a mutated form, as are the definitions marked Fault below): the
\* clearing status is not looked at.
AnyForbidsCcp(r) ==
    Issue(~Blank(r.clearing_ccp_lei), "CON.NCLR_FORBIDS_CCP", "Warning", "clearing_ccp_lei")
NclrForbidsCcp(r) ==
    Issue(Untrimmed(r.clearing_status, {"NCLR"}) /\ ~Blank(r.clearing_ccp_lei),
          "CON.NCLR_FORBIDS_CCP", "Warning", "clearing_ccp_lei")

NotionalValCurrencyMismatch(r) ==
    Issue(Differ(r.notional_currency, r.valuation_currency),
          "CON.NOTIONAL_VAL_CURRENCY_MISMATCH", "Warning", "valuation_currency")
PriceValCurrencyMismatch(r) ==
    Issue(Differ(r.price_currency, r.valuation_currency),
          "CON.PRICE_VAL_CURRENCY_MISMATCH", "Warning", "valuation_currency")
Leg1Leg2SameCurrency(r) ==
    Issue(~Blank(r.notional_currency) /\ SameText(r.notional_currency, r.leg2_notional_currency),
          "CON.LEG1_LEG2_SAME_CURRENCY", "Warning", "leg2_notional_currency")
SelfDealing(r) ==
    Issue(~Blank(r.counterparty_1) /\ SameText(r.counterparty_1, r.counterparty_2),
          "CON.SELF_DEALING", "High", "counterparty_2")
PriceRequiresCurrency(r) ==
    Issue(Has(r.price) /\ Blank(r.price_currency),
          "CON.PRICE_REQUIRES_CURRENCY", "High", "price_currency")
ImNeedsCollateralPortfolio(r) ==
    Issue(Has(r.initial_margin_posted) /\ Blank(r.collateral_portfolio_code),
          "CON.IM_NEEDS_COLLATERAL_PORTFOLIO", "Warning", "collateral_portfolio_code")
VmNeedsCollateralPortfolio(r) ==
    Issue(Has(r.variation_margin_posted) /\ Blank(r.collateral_portfolio_code),
          "CON.VM_NEEDS_COLLATERAL_PORTFOLIO", "Warning", "collateral_portfolio_code")
Leg2NotionalNeedsCurrency(r) ==
    Issue(Has(r.leg2_notional_amount) /\ Blank(r.leg2_notional_currency),
          "CON.LEG2_NOTIONAL_NEEDS_CURRENCY", "High", "leg2_notional_currency")
HedgingRequiresNfc(r) ==
    Issue(r.hedging_indicator = "true" /\ ~Untrimmed(r.nature, {"N"}),
          "CON.HEDGING_REQUIRES_NFC", "Warning", "hedging_indicator")
\* nature.starts_with("NFC"), of the texts of this model.
NfcPrefixed(t) == In(t, {"NFC"})
EmirCommercialOrTreasuryRequiresNfc(r) ==
    Issue(r.commercial_or_treasury_financing = "true" /\ ~NfcPrefixed(r.nature),
          "CON.COMMERCIAL_OR_TREASURY_REQUIRES_NFC", "Warning", "commercial_or_treasury_financing")
MtmChangeRequiresValuation(r) ==
    Issue(Has(r.mtm_value_change) /\ ~Has(r.valuation_amount),
          "CON.MTM_CHANGE_REQUIRES_VALUATION", "Warning", "valuation_amount")

\* What an action needs.  One of these rules wants the code to be exactly
\* MARU; the others compare without case, and none of them trims.
MaruRequiresMargin(r) ==
    Issue(/\ Exactly(r.action_type, "MARU")
          /\ \A i \in 1..4 : ~Has(r[MarginFields[i]]),
          "CON.MARU_REQUIRES_MARGIN", "High", "action_type")
MaruRequiresPortfolio(r) ==
    Issue(Untrimmed(r.action_type, {"MARU"}) /\ Blank(r.collateral_portfolio_code),
          "CON.MARU_REQUIRES_PORTFOLIO", "Warning", "collateral_portfolio_code")
PoscRequiresPortfolio(r) ==
    Issue(Untrimmed(r.action_type, {"POSC"}) /\ Blank(r.collateral_portfolio_code),
          "CON.POSC_REQUIRES_PORTFOLIO", "High", "collateral_portfolio_code")
ValuRequiresValuation(r) ==
    Issue(Untrimmed(r.action_type, {"VALU"}) /\ ~Has(r.valuation_amount),
          "CON.VALU_REQUIRES_VALUATION", "High", "valuation_amount")
EtrmRequiresTerminationDate(r) ==
    Issue(Untrimmed(r.action_type, {"ETRM"}) /\ r.termination_date = NoTime,
          "CON.ETRM_REQUIRES_TERMINATION_DATE", "High", "termination_date")
\* Fault: the code has to be in capitals.
EtrmExactlyRequiresValuation(r) ==
    Issue(Exactly(r.action_type, "ETRM") /\ ~Has(r.valuation_amount),
          "CON.ETRM_REQUIRES_VALUATION", "Warning", "valuation_amount")
EtrmRequiresValuation(r) ==
    Issue(Untrimmed(r.action_type, {"ETRM"}) /\ ~Has(r.valuation_amount),
          "CON.ETRM_REQUIRES_VALUATION", "Warning", "valuation_amount")
NewtForbidsPriorUti(r) ==
    Issue(Untrimmed(r.action_type, {"NEWT"}) /\ ~Blank(r.prior_uti),
          "CON.NEWT_FORBIDS_PRIOR_UTI", "Warning", "prior_uti")
NewtForbidsTerminationDate(r) ==
    Issue(Untrimmed(r.action_type, {"NEWT"}) /\ r.termination_date # NoTime,
          "CON.NEWT_FORBIDS_TERMINATION_DATE", "Warning", "termination_date")
ModiPreservesUti(r) ==
    Issue(/\ In(r.action_type, {"MODI", "CORR"})
          /\ ~Blank(r.uti) /\ SameText(r.uti, r.prior_uti),
          "CON.MODI_PRESERVES_UTI", "Warning", "prior_uti")

\* ALLOWED_PAIRS; an action outside its domain, and one with an empty list
\* (CORR, OTHR), takes any event.
EventsOf ==
    [NEWT |-> {"TRAD", "NOVA", "INCP"},
     MODI |-> {"TRAD", "NOVA", "COMP", "PTNG", "CLRG", "UPDT", "CREV"},
     ETRM |-> {"ETRM", "UPDT"}, VALU |-> {"UPDT", "MODI"},
     MARU |-> {"UPDT"}, POSC |-> {"COMP", "UPDT"}]
ActionEventCompatibility(r) ==
    Issue(/\ r.action_type.code \in DOMAIN EventsOf
          /\ NotIn(r.event_type, EventsOf[r.action_type.code]),
          "CON.ACTION_EVENT_COMPATIBILITY", "High", "event_type")

----------------------------------------------------------------------------
(* Risk mitigation, EMIR Article 11: only for records that are not cleared. *)

IsUncleared(t) == In(t, {"NCLR", "NCMP", "NON-CLEARED", "UNCLEARED", "FALSE", "N", "NO"})
Uncleared(r)    == IsUncleared(r.clearing_status)
NotTerminated(r) == r.termination_date = NoTime   \* this file's own is_outstanding
AnyMargin(r) == \E i \in 1..4 : Has(r[MarginFields[i]])

EmirRmtUnclearedNeedsConfirmation(r) ==
    Issue(Uncleared(r) /\ Blank(r.confirmation_method),
          "RMT.UNCLEARED_NEEDS_CONFIRMATION", "High", "confirmation_method")
EmirRmtLateConfirmation(r) ==
    Issue(/\ Uncleared(r)
          /\ Both(r.execution_timestamp, r.reporting_timestamp)
          /\ r.reporting_timestamp - r.execution_timestamp
                > 48 * (IF NfcPrefixed(r.nature) THEN 2 ELSE 1),
          "RMT.LATE_CONFIRMATION", "High", "reporting_timestamp")
EmirRmtPortfolioReconciliationMissing(r) ==
    Issue(Uncleared(r) /\ AnyMargin(r) /\ Blank(r.collateral_portfolio_code),
          "RMT.PORTFOLIO_RECONCILIATION_MISSING", "Warning", "collateral_portfolio_code")
EmirRmtDailyValuationMissing(r, now) ==
    Issue(/\ Uncleared(r) /\ NotTerminated(r)
          /\ r.valuation_timestamp = NoTime \/ now - r.valuation_timestamp > 48,
          "RMT.DAILY_VALUATION_MISSING", "High", "valuation_timestamp")
EmirRmtVariationMarginMissing(r) ==
    Issue(/\ Uncleared(r) /\ NotTerminated(r)
          /\ ~Has(r.variation_margin_posted) /\ ~Has(r.variation_margin_collected),
          "RMT.VARIATION_MARGIN_MISSING", "High", "variation_margin")
EmirRmtInitialMarginThreshold(r) ==
    Issue(/\ Uncleared(r) /\ Above(r.notional_amount, ImThreshold)
          /\ ~Has(r.initial_margin_posted) /\ ~Has(r.initial_margin_collected),
          "RMT.INITIAL_MARGIN_THRESHOLD", "Warning", "initial_margin")
EmirRmtCollateralCategoryRequired(r) ==
    Issue(Uncleared(r) /\ AnyMargin(r) /\ Blank(r.collateralisation_category),
          "RMT.COLLATERAL_CATEGORY_REQUIRED", "Warning", "collateralisation_category")
EmirRmtNfcAboveClearingThreshold(r) ==
    LET class == CanonicalAssetClass(r.asset_class) IN
    Issue(/\ Uncleared(r) /\ In(r.nature, {"NFC"})
          /\ class \in DOMAIN NfcThreshold
          /\ Above(r.notional_amount, NfcThreshold[class]),
          "RMT.NFC_ABOVE_CLEARING_THRESHOLD", "Warning", "nature")
EmirRmtIntragroupNeedsIndicator(r) ==
    LET entity == r.entity_responsible_for_reporting IN
    Issue(/\ Uncleared(r)
          /\ ~Blank(entity)
          /\ SameBytes(entity, r.counterparty_1) \/ SameBytes(entity, r.counterparty_2)
          /\ r.intragroup_indicator = "none",
          "RMT.INTRAGROUP_NEEDS_INDICATOR", "Warning", "intragroup_indicator")
EmirRmtMasterAgreementRequired(r) ==
    Issue(Uncleared(r) /\ Blank(r.master_agreement_type),
          "RMT.MASTER_AGREEMENT_REQUIRED", "Warning", "master_agreement_type")
\* One issue for each of the two fields that is missing.
EmirRmtCompressionEventIncomplete(r) ==
    LET compression == Uncleared(r) /\ In(r.event_type, {"COMP", "NOVA"}) IN
    UNION {Issue(compression /\ Blank(r[f]), "RMT.COMPRESSION_EVENT_INCOMPLETE", "Warning", f) :
           f \in {"prior_uti", "collateral_portfolio_code"}}

----------------------------------------------------------------------------
(* default_checks(): every check, over record r of a file with these records. *)

CompletenessIssues(r, now) == UNION {
    MissingUti(r), MissingValuation(r, now), Counterparty1Missing(r), Counterparty2Missing(r),
    NotionalCurrencyMissing(r), ValuationCurrencyMissing(r), ValuationTimestampMissing(r),
    ClearingStatusMissing(r), IntragroupIndicatorMissing(r), NatureMissing(r),
    TradingCapacityMissing(r), MasterAgreementTypeMissing(r), MasterAgreementVersionMissing(r),
    AssetClassMissing(r), ProductIdMissing(r), InitialMarginMissingForFull(r),
    VariationMarginMissingForFull(r), CollateralPortfolioRequiredForFull(r)}
ValidityIssues(r) == UNION {
    LeiFormatRc(r), LeiFormatOc(r), LeiFormatErr(r), LeiFormatCcp(r), CurrencyNotional(r),
    CurrencyValuation(r), ActionTypeEnum(r), EventTypeEnum(r), ValuationTypeEnum(r),
    TradingCapacityEnum(r), AssetClassEnum(r), NatureEnum(r), MasterAgreementTypeEnum(r),
    CollateralisationCategoryEnum(r), ClearingStatusEnum(r), EmirCorporateSectorEnum(r),
    EmirReportingObligationIndicatorEnum(r), NotionalPrecision(r), ValuationPrecision(r),
    PricePrecision(r), MarginPrecision(r), NotionalPrecisionByCurrency(r),
    ValuationPrecisionByCurrency(r), PricePrecisionByCurrency(r),
    MasterAgreementVersionFormat(r), IsdaVersionPlausible(r), CommodityBaseEnum(r),
    CreditSectorEnum(r)}
AccuracyIssues(r, now) == UNION {
    AbnormalMaturity(r, now), ZeroNotional(r), NegativeNotional(r), NegativeInitialMarginPosted(r),
    NegativeInitialMarginCollected(r), NegativeVariationMarginPosted(r),
    NegativeVariationMarginCollected(r), NotionalAbnormalMagnitude(r), IrRequiresNotional(r),
    IrRequiresLeg1Freq(r), FxRequiresLeg2Currency(r), EqRequiresUnderlying(r),
    CrRequiresUnderlying(r), CommodityRequiresProductId(r), EmirPriceNegative(r),
    EmirDeltaOutOfRange(r), EmirGammaNegative(r)}
ConsistencyIssues(r, now) == UNION {
    ReportingBeforeExecution(r), EventBeforeExecution(r), ValuationAfterTermination(r),
    MaturityInPast(r, now), TerminationAfterMaturity(r), EffectiveAfterMaturity(r),
    ClearedRequiresCcp(r), NclrForbidsCcp(r), NotionalValCurrencyMismatch(r),
    PriceValCurrencyMismatch(r), Leg1Leg2SameCurrency(r), SelfDealing(r),
    PriceRequiresCurrency(r), ImNeedsCollateralPortfolio(r), VmNeedsCollateralPortfolio(r),
    Leg2NotionalNeedsCurrency(r), HedgingRequiresNfc(r), EmirCommercialOrTreasuryRequiresNfc(r),
    MtmChangeRequiresValuation(r), MaruRequiresMargin(r), MaruRequiresPortfolio(r),
    PoscRequiresPortfolio(r), ValuRequiresValuation(r), EtrmRequiresTerminationDate(r),
    EtrmRequiresValuation(r), NewtForbidsPriorUti(r), NewtForbidsTerminationDate(r),
    ModiPreservesUti(r), ActionEventCompatibility(r)}
RiskMitigationIssues(r, now) == UNION {
    EmirRmtUnclearedNeedsConfirmation(r), EmirRmtLateConfirmation(r),
    EmirRmtPortfolioReconciliationMissing(r), EmirRmtDailyValuationMissing(r, now),
    EmirRmtVariationMarginMissing(r), EmirRmtInitialMarginThreshold(r),
    EmirRmtCollateralCategoryRequired(r), EmirRmtNfcAboveClearingThreshold(r),
    EmirRmtIntragroupNeedsIndicator(r), EmirRmtMasterAgreementRequired(r),
    EmirRmtCompressionEventIncomplete(r)}
EmirIssues(r, batch, now) == UNION {
    CompletenessIssues(r, now), ValidityIssues(r), AccuracyIssues(r, now),
    DuplicateUti(r, batch), LateReporting(r), ValuationAfterReporting(r),
    ConsistencyIssues(r, now), RiskMitigationIssues(r, now)}
============================================================================
