------------------------- MODULE RecordChecks_proofs -------------------------
(***************************************************************************)
(* Theorems about RecordChecks for any records, corrections and           *)
(* thresholds: what a day changes in what is said of a report, what the    *)
(* two rule books have in common, what spelling can change, and that the   *)
(* field of an issue can be corrected.                                     *)
(***************************************************************************)
EXTENDS RecordChecks, TLAPS, FiniteSetTheorems

----------------------------------------------------------------------------
(* The report is a record *)

\* Every reachable report is a record of its regime.
THEOREM RecordsTypeOK == Spec => []TypeOK
<1>1. Init => TypeOK
  BY RecordsAssumption DEF Init, TypeOK, EmirReport
<1>2. TypeOK /\ [Next]_vars => TypeOK'
  <2> SUFFICES ASSUME TypeOK, [Next]_vars PROVE TypeOK'
    OBVIOUS
  <2>1. ASSUME NEW field \in DOMAIN Values, NEW value \in Values[field], Correct(field, value)
        PROVE  TypeOK'
    <3> DEFINE fields == IF EmirReport THEN EmirFields ELSE SftrFields
    <3>1. value \in FieldType(field)
      BY <2>1, RecordsAssumption DEF Values
    <3>2. DOMAIN report' = fields /\ \A f \in fields : report'[f] \in FieldType(f)
      <4>1. DOMAIN report = fields /\ \A f \in fields : report[f] \in FieldType(f)
        BY DEF TypeOK, IsRecord
      <4>2. report' = [report EXCEPT ![field] = value]
        BY <2>1 DEF Correct
      <4> HIDE DEF fields
      <4> QED BY <3>1, <4>1, <4>2
    <3> QED BY <2>1, <3>2 DEF TypeOK, IsRecord, Correct, EmirReport
  <2>2. CASE DayPasses
    BY <2>2 DEF DayPasses, TypeOK, IsRecord, EmirReport
  <2>3. CASE UNCHANGED vars
    BY <2>3 DEF vars, TypeOK, IsRecord, EmirReport
  <2> QED BY <2>1, <2>2, <2>3 DEF Next
<1> QED BY <1>1, <1>2, PTL DEF Spec

----------------------------------------------------------------------------
(* A day passes *)

\* 48 half hours on, it is the next day.
LEMMA NextDay == ASSUME NEW t \in Nat PROVE Day(t) \in Nat /\ Day(t + 48) = Day(t) + 1
  BY DEF Day

\* The times that are compared with the day of the scan are numbers.
LEMMA TimesOf ==
    ASSUME TypeOK
    PROVE  /\ report.maturity_date \in Int /\ report.termination_date \in Int
           /\ EmirReport => report.valuation_timestamp \in Int
<1>1. /\ FieldType("maturity_date") = Nat \union {NoTime}
      /\ FieldType("termination_date") = Nat \union {NoTime}
      /\ FieldType("valuation_timestamp") = Nat \union {NoTime}
  BY DEF FieldType, TimeFields, SumFields, NamedFields
<1>2. NoTime \in Int
  BY DEF NoTime
<1> QED BY <1>1, <1>2 DEF TypeOK, IsRecord, EmirFields, SftrFields

\* Four EMIR checks and three SFTR ones look at the day of the scan.
LEMMA EmirTimedChecks ==
    ASSUME NEW r, NEW batch, NEW s, NEW t,
           NEW i \in EmirIssues(r, batch, s), i \notin EmirIssues(r, batch, t)
    PROVE  \/ i \in MissingValuation(r, s) \ MissingValuation(r, t)
           \/ i \in AbnormalMaturity(r, s) \ AbnormalMaturity(r, t)
           \/ i \in MaturityInPast(r, s) \ MaturityInPast(r, t)
           \/ i \in EmirRmtDailyValuationMissing(r, s) \ EmirRmtDailyValuationMissing(r, t)
<1>1. CASE i \in CompletenessIssues(r, s)
  <2>1. i \notin CompletenessIssues(r, t)
    BY DEF EmirIssues
  <2> QED BY <1>1, <2>1 DEF CompletenessIssues
<1>2. CASE i \in AccuracyIssues(r, s)
  <2>1. i \notin AccuracyIssues(r, t)
    BY DEF EmirIssues
  <2> QED BY <1>2, <2>1 DEF AccuracyIssues
<1>3. CASE i \in ConsistencyIssues(r, s)
  <2>1. i \notin ConsistencyIssues(r, t)
    BY DEF EmirIssues
  <2> QED BY <1>3, <2>1 DEF ConsistencyIssues
<1>4. CASE i \in RiskMitigationIssues(r, s)
  <2>1. i \notin RiskMitigationIssues(r, t)
    BY DEF EmirIssues
  <2> QED BY <1>4, <2>1 DEF RiskMitigationIssues
<1> QED BY <1>1, <1>2, <1>3, <1>4 DEF EmirIssues

LEMMA SftrTimedChecks ==
    ASSUME NEW r, NEW batch, NEW s, NEW t,
           NEW i \in SftrIssues(r, batch, s), i \notin SftrIssues(r, batch, t)
    PROVE  \/ i \in SftrCollateralValueMissing(r, s) \ SftrCollateralValueMissing(r, t)
           \/ i \in SftrAbnormalMaturity(r, s) \ SftrAbnormalMaturity(r, t)
           \/ i \in SftrMaturityInPast(r, s) \ SftrMaturityInPast(r, t)
  BY DEF SftrIssues

\* A far maturity: the limit moves on with the days, but on a leap day it is
\* the day itself.
LEMMA LimitMoves ==
    ASSUME NEW d \in Nat, d + 1 \notin LeapDays
    PROVE  /\ LastNormalDay(d) \in Nat /\ LastNormalDay(d + 1) \in Nat
           /\ LastNormalDay(d) <= LastNormalDay(d + 1)
  BY RecordsAssumption DEF LastNormalDay

\* What may be new in a scan at t.
MayAppear(t) ==
    AppearsWithTime \union (IF Day(t) \in LeapDays THEN {"ACC.ABNORMAL_MATURITY"} ELSE {})

\* A day on, of an EMIR record.
LEMMA EmirDay ==
    ASSUME NEW r, NEW batch, NEW t \in Nat, r.maturity_date \in Int, r.termination_date \in Int,
           r.valuation_timestamp \in Int
    PROVE  /\ \A i \in EmirIssues(r, batch, t + 48) \ EmirIssues(r, batch, t) :
                 i.id \in MayAppear(t + 48)
           /\ \A i \in EmirIssues(r, batch, t) \ EmirIssues(r, batch, t + 48) :
                 /\ i.id \in EndsWithTime
                 /\ i.id = "CON.MATURITY_IN_PAST" => r.termination_date # NoTime
<1>1. Day(t) \in Nat /\ Day(t + 48) = Day(t) + 1
  BY NextDay
<1>2. ASSUME NEW i \in EmirIssues(r, batch, t + 48), i \notin EmirIssues(r, batch, t)
      PROVE  i.id \in MayAppear(t + 48)
  <2>1. i \notin MissingValuation(r, t + 48) \ MissingValuation(r, t)
    BY <1>1 DEF MissingValuation, Issue, Outstanding
  <2>2. i \in AbnormalMaturity(r, t + 48) \ AbnormalMaturity(r, t) =>
          Day(t + 48) \in LeapDays /\ i.id = "ACC.ABNORMAL_MATURITY"
    BY <1>1, LimitMoves DEF AbnormalMaturity, Issue
  <2>3. i \in MaturityInPast(r, t + 48) => i.id = "CON.MATURITY_IN_PAST"
    BY DEF MaturityInPast, Issue
  <2>4. i \in EmirRmtDailyValuationMissing(r, t + 48) => i.id = "RMT.DAILY_VALUATION_MISSING"
    BY DEF EmirRmtDailyValuationMissing, Issue
  <2> QED BY <1>2, <2>1, <2>2, <2>3, <2>4, EmirTimedChecks DEF MayAppear, AppearsWithTime
<1>3. ASSUME NEW i \in EmirIssues(r, batch, t), i \notin EmirIssues(r, batch, t + 48)
      PROVE  /\ i.id \in EndsWithTime
             /\ i.id = "CON.MATURITY_IN_PAST" => r.termination_date # NoTime
  <2>1. i \in MissingValuation(r, t) => i.id = "COMP.VALUATION_MISSING"
    BY DEF MissingValuation, Issue
  <2>2. i \in AbnormalMaturity(r, t) => i.id = "ACC.ABNORMAL_MATURITY"
    BY DEF AbnormalMaturity, Issue
  <2>3. i \in MaturityInPast(r, t) \ MaturityInPast(r, t + 48) =>
          i.id = "CON.MATURITY_IN_PAST" /\ r.termination_date # NoTime
    BY <1>1 DEF MaturityInPast, Issue, Outstanding
  <2>4. i \notin EmirRmtDailyValuationMissing(r, t) \ EmirRmtDailyValuationMissing(r, t + 48)
    BY DEF EmirRmtDailyValuationMissing, Issue
  <2> QED BY <1>3, <2>1, <2>2, <2>3, <2>4, EmirTimedChecks DEF EndsWithTime
<1> QED BY <1>2, <1>3

\* And of an SFTR one, which a MATURITY_IN_PAST stays with.
LEMMA SftrDay ==
    ASSUME NEW r, NEW batch, NEW t \in Nat, r.maturity_date \in Int, r.termination_date \in Int
    PROVE  /\ \A i \in SftrIssues(r, batch, t + 48) \ SftrIssues(r, batch, t) :
                 i.id \in MayAppear(t + 48)
           /\ \A i \in SftrIssues(r, batch, t) \ SftrIssues(r, batch, t + 48) :
                 i.id \in EndsWithTime /\ i.id # "CON.MATURITY_IN_PAST"
<1>1. Day(t) \in Nat /\ Day(t + 48) = Day(t) + 1
  BY NextDay
<1>2. ASSUME NEW i \in SftrIssues(r, batch, t + 48), i \notin SftrIssues(r, batch, t)
      PROVE  i.id \in MayAppear(t + 48)
  <2>1. i \notin SftrCollateralValueMissing(r, t + 48) \ SftrCollateralValueMissing(r, t)
    BY <1>1 DEF SftrCollateralValueMissing, Issue, Outstanding
  <2>2. i \in SftrAbnormalMaturity(r, t + 48) \ SftrAbnormalMaturity(r, t) =>
          Day(t + 48) \in LeapDays /\ i.id = "ACC.ABNORMAL_MATURITY"
    BY <1>1, LimitMoves DEF SftrAbnormalMaturity, Issue
  <2>3. i \in SftrMaturityInPast(r, t + 48) => i.id = "CON.MATURITY_IN_PAST"
    BY DEF SftrMaturityInPast, Issue
  <2> QED BY <1>2, <2>1, <2>2, <2>3, SftrTimedChecks DEF MayAppear, AppearsWithTime
<1>3. ASSUME NEW i \in SftrIssues(r, batch, t), i \notin SftrIssues(r, batch, t + 48)
      PROVE  i.id \in EndsWithTime /\ i.id # "CON.MATURITY_IN_PAST"
  <2>1. i \in SftrCollateralValueMissing(r, t) => i.id = "COMP.COLLATERAL_VALUE_MISSING"
    BY DEF SftrCollateralValueMissing, Issue
  <2>2. i \in SftrAbnormalMaturity(r, t) => i.id = "ACC.ABNORMAL_MATURITY"
    BY DEF SftrAbnormalMaturity, Issue
  <2>3. i \notin SftrMaturityInPast(r, t) \ SftrMaturityInPast(r, t + 48)
    BY <1>1 DEF SftrMaturityInPast, Issue
  <2> QED BY <1>3, <2>1, <2>2, <2>3, SftrTimedChecks DEF EndsWithTime
<1> QED BY <1>2, <1>3

\* What a day changes in what is said of an untouched report (TimeAlone): only
\* maturity and the age of a valuation raise issues, only the end of a report
\* and a far maturity that came closer end them.
THEOREM OnlyAgeingChangesAVerdict == Spec => TimeAlone
<1> DEFINE Alone ==
             now' # now =>
               /\ Ids(Issues') \ Ids(Issues) \subseteq MayAppear(now')
               /\ Ids(Issues) \ Ids(Issues') \subseteq EndsWithTime
               /\ "CON.MATURITY_IN_PAST" \in Ids(Issues) \ Ids(Issues') =>
                    EmirReport /\ report.termination_date # NoTime
<1>1. TypeOK /\ [Next]_vars => Alone
  <2> SUFFICES ASSUME TypeOK, [Next]_vars, now' # now PROVE Alone
    OBVIOUS
  <2>1. DayPasses
    BY DEF Next, Correct, vars
  <2>2. now \in Nat /\ now' = now + 48 /\ report' = report /\ regime' = regime
    BY <2>1 DEF DayPasses, TypeOK
  <2>3. Issues' = IssuesOf(report, now + 48)
    BY <2>2 DEF Issues, IssuesOf, EmirReport
  <2> DEFINE file == <<report>> \o RestOfFile
             new  == Issues' \ Issues
             gone == Issues \ Issues'
  <2>4. /\ \A i \in new : i.id \in MayAppear(now + 48)
        /\ \A i \in gone : /\ i.id \in EndsWithTime
                           /\ i.id = "CON.MATURITY_IN_PAST" =>
                                EmirReport /\ report.termination_date # NoTime
    <3>1. CASE EmirReport
      <4>1. Issues = EmirIssues(report, file, now) /\ Issues' = EmirIssues(report, file, now + 48)
        BY <2>3, <3>1 DEF Issues, IssuesOf
      <4> HIDE DEF file
      <4> QED BY <2>2, <3>1, <4>1, TimesOf, EmirDay
    <3>2. CASE ~EmirReport
      <4>1. Issues = SftrIssues(report, file, now) /\ Issues' = SftrIssues(report, file, now + 48)
        BY <2>3, <3>2 DEF Issues, IssuesOf
      <4> HIDE DEF file
      <4> QED BY <2>2, <3>2, <4>1, TimesOf, SftrDay
    <3> QED BY <3>1, <3>2
  <2>5. /\ \A id \in Ids(Issues') \ Ids(Issues) : \E i \in new : i.id = id
        /\ \A id \in Ids(Issues) \ Ids(Issues') : \E i \in gone : i.id = id
    BY DEF Ids
  <2> HIDE DEF new, gone
  <2> QED BY <2>2, <2>4, <2>5
<1>2. TypeOK /\ [Next]_vars => [Alone]_vars
  BY <1>1
<1>3. [][Alone]_vars <=> TimeAlone
  BY DEF TimeAlone, MayAppear
<1> HIDE DEF Alone
<1> QED BY <1>2, <1>3, RecordsTypeOK, PTL DEF Spec

----------------------------------------------------------------------------
(* What both rule books have *)

BothBooks == SharedRules \union {"CON.MATURITY_IN_PAST", "CON.MODI_PRESERVES_UTI"}

\* The checks of each group that have the id of a rule of both books.
LEMMA CompletenessIssuesOfBoth ==
    ASSUME NEW r, NEW time, NEW i \in CompletenessIssues(r, time), i.id \in BothBooks
    PROVE  i \in UNION {MissingUti(r), Counterparty1Missing(r), Counterparty2Missing(r)}
<1>1. \A j \in UNION {
        MissingValuation(r, time), NotionalCurrencyMissing(r), ValuationCurrencyMissing(r),
        ValuationTimestampMissing(r), ClearingStatusMissing(r), IntragroupIndicatorMissing(r),
        NatureMissing(r)} :
        j.id \notin BothBooks
  BY DEF MissingValuation, NotionalCurrencyMissing, ValuationCurrencyMissing,
         ValuationTimestampMissing, ClearingStatusMissing, IntragroupIndicatorMissing,
         NatureMissing, Issue, BothBooks, SharedRules
<1>2. \A j \in UNION {
        TradingCapacityMissing(r), MasterAgreementTypeMissing(r),
        MasterAgreementVersionMissing(r), AssetClassMissing(r), ProductIdMissing(r),
        InitialMarginMissingForFull(r), VariationMarginMissingForFull(r)} :
        j.id \notin BothBooks
  BY DEF TradingCapacityMissing, MasterAgreementTypeMissing, MasterAgreementVersionMissing,
         AssetClassMissing, ProductIdMissing, InitialMarginMissingForFull,
         VariationMarginMissingForFull, Issue, BothBooks, SharedRules
<1>3. \A j \in CollateralPortfolioRequiredForFull(r) : j.id \notin BothBooks
  BY DEF CollateralPortfolioRequiredForFull, Issue, BothBooks, SharedRules
<1> QED BY <1>1, <1>2, <1>3 DEF CompletenessIssues

LEMMA ValidityIssuesOfBoth ==
    ASSUME NEW r, NEW i \in ValidityIssues(r), i.id \in BothBooks
    PROVE  i \in UNION {
                LeiFormatRc(r), LeiFormatOc(r), LeiFormatErr(r), ActionTypeEnum(r)}
<1>1. \A j \in UNION {
        LeiFormatCcp(r), CurrencyNotional(r), CurrencyValuation(r), EventTypeEnum(r),
        ValuationTypeEnum(r), TradingCapacityEnum(r), AssetClassEnum(r)} :
        j.id \notin BothBooks
  BY DEF LeiFormatCcp, CurrencyNotional, CurrencyValuation, EventTypeEnum, ValuationTypeEnum,
         TradingCapacityEnum, AssetClassEnum, Issue, BothBooks, SharedRules
<1>2. \A j \in UNION {
        NatureEnum(r), MasterAgreementTypeEnum(r), CollateralisationCategoryEnum(r),
        ClearingStatusEnum(r), EmirCorporateSectorEnum(r),
        EmirReportingObligationIndicatorEnum(r), NotionalPrecision(r)} :
        j.id \notin BothBooks
  BY DEF NatureEnum, MasterAgreementTypeEnum, CollateralisationCategoryEnum,
         ClearingStatusEnum, EmirCorporateSectorEnum, EmirReportingObligationIndicatorEnum,
         NotionalPrecision, Issue, BothBooks, SharedRules
<1>3. \A j \in UNION {
        ValuationPrecision(r), PricePrecision(r), MarginPrecision(r),
        NotionalPrecisionByCurrency(r), ValuationPrecisionByCurrency(r),
        PricePrecisionByCurrency(r), MasterAgreementVersionFormat(r)} :
        j.id \notin BothBooks
  BY DEF ValuationPrecision, PricePrecision, MarginPrecision, NotionalPrecisionByCurrency,
         ValuationPrecisionByCurrency, PricePrecisionByCurrency, MasterAgreementVersionFormat,
         Issue, BothBooks, SharedRules, MarginFields
<1>4. \A j \in UNION {
        IsdaVersionPlausible(r), CommodityBaseEnum(r), CreditSectorEnum(r)} :
        j.id \notin BothBooks
  BY DEF IsdaVersionPlausible, CommodityBaseEnum, CreditSectorEnum, Issue, BothBooks, SharedRules
<1> QED BY <1>1, <1>2, <1>3, <1>4 DEF ValidityIssues

LEMMA AccuracyIssuesOfBoth ==
    ASSUME NEW r, NEW time, NEW i \in AccuracyIssues(r, time)
    PROVE  i.id \notin BothBooks
<1>1. \A j \in UNION {
        AbnormalMaturity(r, time), ZeroNotional(r), NegativeNotional(r),
        NegativeInitialMarginPosted(r), NegativeInitialMarginCollected(r),
        NegativeVariationMarginPosted(r), NegativeVariationMarginCollected(r)} :
        j.id \notin BothBooks
  BY DEF AbnormalMaturity, ZeroNotional, NegativeNotional, NegativeInitialMarginPosted,
         NegativeInitialMarginCollected, NegativeVariationMarginPosted,
         NegativeVariationMarginCollected, Issue, BothBooks, SharedRules
<1>2. \A j \in UNION {
        NotionalAbnormalMagnitude(r), IrRequiresNotional(r), IrRequiresLeg1Freq(r),
        FxRequiresLeg2Currency(r), EqRequiresUnderlying(r), CrRequiresUnderlying(r),
        CommodityRequiresProductId(r)} :
        j.id \notin BothBooks
  BY DEF NotionalAbnormalMagnitude, IrRequiresNotional, IrRequiresLeg1Freq,
         FxRequiresLeg2Currency, EqRequiresUnderlying, CrRequiresUnderlying,
         CommodityRequiresProductId, Issue, BothBooks, SharedRules
<1>3. \A j \in UNION {
        EmirPriceNegative(r), EmirDeltaOutOfRange(r), EmirGammaNegative(r)} :
        j.id \notin BothBooks
  BY DEF EmirPriceNegative, EmirDeltaOutOfRange, EmirGammaNegative, Issue, BothBooks, SharedRules
<1> QED BY <1>1, <1>2, <1>3 DEF AccuracyIssues

LEMMA ConsistencyIssuesOfBoth ==
    ASSUME NEW r, NEW time, NEW i \in ConsistencyIssues(r, time), i.id \in BothBooks
    PROVE  i \in UNION {
                ReportingBeforeExecution(r), EventBeforeExecution(r), MaturityInPast(r, time),
                TerminationAfterMaturity(r), SelfDealing(r), EtrmRequiresTerminationDate(r),
                NewtForbidsPriorUti(r), NewtForbidsTerminationDate(r), ModiPreservesUti(r)}
<1>1. \A j \in UNION {
        ValuationAfterTermination(r), EffectiveAfterMaturity(r), ClearedRequiresCcp(r),
        NclrForbidsCcp(r), NotionalValCurrencyMismatch(r), PriceValCurrencyMismatch(r),
        Leg1Leg2SameCurrency(r)} :
        j.id \notin BothBooks
  BY DEF ValuationAfterTermination, EffectiveAfterMaturity, ClearedRequiresCcp, NclrForbidsCcp,
         NotionalValCurrencyMismatch, PriceValCurrencyMismatch, Leg1Leg2SameCurrency, Issue,
         BothBooks, SharedRules
<1>2. \A j \in UNION {
        PriceRequiresCurrency(r), ImNeedsCollateralPortfolio(r), VmNeedsCollateralPortfolio(r),
        Leg2NotionalNeedsCurrency(r), HedgingRequiresNfc(r),
        EmirCommercialOrTreasuryRequiresNfc(r), MtmChangeRequiresValuation(r)} :
        j.id \notin BothBooks
  BY DEF PriceRequiresCurrency, ImNeedsCollateralPortfolio, VmNeedsCollateralPortfolio,
         Leg2NotionalNeedsCurrency, HedgingRequiresNfc, EmirCommercialOrTreasuryRequiresNfc,
         MtmChangeRequiresValuation, Issue, BothBooks, SharedRules
<1>3. \A j \in UNION {
        MaruRequiresMargin(r), MaruRequiresPortfolio(r), PoscRequiresPortfolio(r),
        ValuRequiresValuation(r), EtrmRequiresValuation(r), ActionEventCompatibility(r)} :
        j.id \notin BothBooks
  BY DEF MaruRequiresMargin, MaruRequiresPortfolio, PoscRequiresPortfolio,
         ValuRequiresValuation, EtrmRequiresValuation, ActionEventCompatibility, Issue,
         BothBooks, SharedRules
<1> QED BY <1>1, <1>2, <1>3 DEF ConsistencyIssues

LEMMA RiskMitigationIssuesOfBoth ==
    ASSUME NEW r, NEW time, NEW i \in RiskMitigationIssues(r, time)
    PROVE  i.id \notin BothBooks
<1>1. \A j \in UNION {
        EmirRmtUnclearedNeedsConfirmation(r), EmirRmtLateConfirmation(r),
        EmirRmtPortfolioReconciliationMissing(r), EmirRmtDailyValuationMissing(r, time),
        EmirRmtVariationMarginMissing(r), EmirRmtInitialMarginThreshold(r),
        EmirRmtCollateralCategoryRequired(r)} :
        j.id \notin BothBooks
  BY DEF EmirRmtUnclearedNeedsConfirmation, EmirRmtLateConfirmation,
         EmirRmtPortfolioReconciliationMissing, EmirRmtDailyValuationMissing,
         EmirRmtVariationMarginMissing, EmirRmtInitialMarginThreshold,
         EmirRmtCollateralCategoryRequired, Issue, BothBooks, SharedRules
<1>2. \A j \in UNION {
        EmirRmtNfcAboveClearingThreshold(r), EmirRmtIntragroupNeedsIndicator(r),
        EmirRmtMasterAgreementRequired(r), EmirRmtCompressionEventIncomplete(r)} :
        j.id \notin BothBooks
  BY DEF EmirRmtNfcAboveClearingThreshold, EmirRmtIntragroupNeedsIndicator,
         EmirRmtMasterAgreementRequired, EmirRmtCompressionEventIncomplete,
         Issue, BothBooks, SharedRules
<1> QED BY <1>1, <1>2 DEF RiskMitigationIssues

LEMMA SftrIssuesOfBoth ==
    ASSUME NEW r, NEW batch, NEW time, NEW i \in SftrIssues(r, batch, time), i.id \in BothBooks
    PROVE  i \in UNION {
                SftrMissingUti(r), SftrCounterparty1Missing(r), SftrCounterparty2Missing(r),
                SftrLeiFormatRc(r), SftrLeiFormatOc(r), SftrLeiFormatErr(r),
                SftrDuplicateUti(r, batch), SftrLateReporting(r), SftrActionTypeEnum(r),
                SftrSelfDealing(r), SftrNewtForbidsPriorUti(r),
                SftrNewtForbidsTerminationDate(r), SftrEtrmRequiresTerminationDate(r),
                SftrEventBeforeExecution(r), SftrReportingBeforeExecution(r),
                SftrMaturityInPast(r, time), SftrTerminationAfterMaturity(r),
                SftrModiPreservesUti(r)}
<1>1. \A j \in UNION {
        SftrCollateralValueMissing(r, time), SftrHaircutMissing(r), SftrLoanCurrencyMissing(r),
        SftrCollateralCurrencyMissing(r), SftrCurrencyLoan(r), SftrCurrencyCollateral(r),
        SftrIsinCollateral(r)} :
        j.id \notin BothBooks
  BY DEF SftrCollateralValueMissing, SftrHaircutMissing, SftrLoanCurrencyMissing,
         SftrCollateralCurrencyMissing, SftrCurrencyLoan, SftrCurrencyCollateral,
         SftrIsinCollateral, Issue, BothBooks, SharedRules
<1>2. \A j \in UNION {
        SftrNegativeLoan(r), SftrNegativeCollateral(r), SftrHaircutOutOfRange(r),
        SftrSettlementBeforeExecution(r), SftrMaturityBeforeEffective(r),
        SftrSftTypeMissing(r), SftrSftTypeEnum(r)} :
        j.id \notin BothBooks
  BY DEF SftrNegativeLoan, SftrNegativeCollateral, SftrHaircutOutOfRange,
         SftrSettlementBeforeExecution, SftrMaturityBeforeEffective, SftrSftTypeMissing,
         SftrSftTypeEnum, Issue, BothBooks, SharedRules
<1>3. \A j \in UNION {
        SftrLoanPrecision(r), SftrCollateralPrecision(r), SftrHaircutPrecision(r),
        SftrRatePrecision(r), SftrMasterAgreementVersionFormat(r),
        SftrGmraGmslaVersionPlausible(r), SftrLoanNeedsCurrency(r)} :
        j.id \notin BothBooks
  BY DEF SftrLoanPrecision, SftrCollateralPrecision, SftrHaircutPrecision, SftrRatePrecision,
         SftrMasterAgreementVersionFormat, SftrGmraGmslaVersionPlausible,
         SftrLoanNeedsCurrency, Issue, BothBooks, SharedRules
<1>4. \A j \in UNION {
        SftrCollNeedsCurrency(r), SftrLoanCollCurrencyMismatch(r),
        SftrRebateRequiresRepoOrBsb(r), SftrLendingFeeRequiresSleb(r),
        SftrColuRequiresPortfolio(r), SftrReuuRequiresReuseIndicator(r),
        SftrReuseIndicatorRequiresPortfolio(r)} :
        j.id \notin BothBooks
  BY DEF SftrCollNeedsCurrency, SftrLoanCollCurrencyMismatch, SftrRebateRequiresRepoOrBsb,
         SftrLendingFeeRequiresSleb, SftrColuRequiresPortfolio, SftrReuuRequiresReuseIndicator,
         SftrReuseIndicatorRequiresPortfolio, Issue, BothBooks, SharedRules
<1>5. \A j \in UNION {
        SftrEventTypeEnum(r), SftrMasterAgreementTypeEnum(r), SftrLendingFeeNegative(r),
        SftrSecurityIdentifierMissing(r), SftrMarMgldNeedsLoanValue(r),
        SftrMarMgldNeedsCollateral(r), SftrMarMaruRequiresValueOrHaircut(r)} :
        j.id \notin BothBooks
  BY DEF SftrEventTypeEnum, SftrMasterAgreementTypeEnum, SftrLendingFeeNegative,
         SftrSecurityIdentifierMissing, SftrMarMgldNeedsLoanValue, SftrMarMgldNeedsCollateral,
         SftrMarMaruRequiresValueOrHaircut, Issue, BothBooks, SharedRules
<1>6. \A j \in UNION {
        SftrMarMaruRequiresPortfolio(r), SftrMarMgldHaircutOutOfRange(r),
        SftrAbnormalMaturity(r, time)} :
        j.id \notin BothBooks
  BY DEF SftrMarMaruRequiresPortfolio, SftrMarMgldHaircutOutOfRange, SftrAbnormalMaturity,
         Issue, BothBooks, SharedRules
<1>7. \A j \in UNION {
        SftrLoanAbnormalMagnitude(r), SftrActionEventCompatibility(r),
        SftrLateReportingSettlement(r)} :
        j.id \notin BothBooks
  BY DEF SftrLoanAbnormalMagnitude, SftrActionEventCompatibility, SftrLateReportingSettlement,
         Issue, BothBooks, SharedRules
<1> QED BY <1>1, <1>2, <1>3, <1>4, <1>5, <1>6, <1>7 DEF SftrIssues

\* The EMIR checks with the id of a rule of both books; SftrIssuesOfBoth names
\* their SFTR counterparts.
LEMMA EmirIssuesOfBoth ==
    ASSUME NEW r, NEW batch, NEW time, NEW i \in EmirIssues(r, batch, time), i.id \in BothBooks
    PROVE  i \in UNION {
                MissingUti(r), Counterparty1Missing(r), Counterparty2Missing(r),
                LeiFormatRc(r), LeiFormatOc(r), LeiFormatErr(r), DuplicateUti(r, batch),
                LateReporting(r), ReportingBeforeExecution(r), EventBeforeExecution(r),
                SelfDealing(r), NewtForbidsPriorUti(r), NewtForbidsTerminationDate(r),
                EtrmRequiresTerminationDate(r), TerminationAfterMaturity(r), ActionTypeEnum(r),
                MaturityInPast(r, time), ModiPreservesUti(r)}
<1>1. \A j \in ValuationAfterReporting(r) : j.id \notin BothBooks
  BY DEF ValuationAfterReporting, Issue, BothBooks, SharedRules
<1>2. CASE i \in CompletenessIssues(r, time)
  BY <1>2, CompletenessIssuesOfBoth
<1>3. CASE i \in ValidityIssues(r)
  BY <1>3, ValidityIssuesOfBoth
<1>4. CASE i \in ConsistencyIssues(r, time)
  BY <1>4, ConsistencyIssuesOfBoth
<1> QED BY <1>1, <1>2, <1>3, <1>4, AccuracyIssuesOfBoth, RiskMitigationIssuesOfBoth DEF EmirIssues

\* Fourteen of these pairs find the same in records with the same shared fields.
LEMMA SharedChecksAgree ==
    ASSUME NEW r, NEW s, NEW batch, \A f \in SharedFields : s[f] = r[f]
    PROVE  /\ MissingUti(r) = SftrMissingUti(s)
           /\ Counterparty1Missing(r) = SftrCounterparty1Missing(s)
           /\ Counterparty2Missing(r) = SftrCounterparty2Missing(s)
           /\ LeiFormatRc(r) = SftrLeiFormatRc(s)
           /\ LeiFormatOc(r) = SftrLeiFormatOc(s)
           /\ LeiFormatErr(r) = SftrLeiFormatErr(s)
           /\ DuplicateUti(r, batch) = SftrDuplicateUti(s, batch)
           /\ LateReporting(r) = SftrLateReporting(s)
           /\ ReportingBeforeExecution(r) = SftrReportingBeforeExecution(s)
           /\ EventBeforeExecution(r) = SftrEventBeforeExecution(s)
           /\ SelfDealing(r) = SftrSelfDealing(s)
           /\ NewtForbidsPriorUti(r) = SftrNewtForbidsPriorUti(s)
           /\ NewtForbidsTerminationDate(r) = SftrNewtForbidsTerminationDate(s)
           /\ EtrmRequiresTerminationDate(r) = SftrEtrmRequiresTerminationDate(s)
<1>1. /\ s.uti = r.uti /\ s.prior_uti = r.prior_uti /\ s.action_type = r.action_type
      /\ s.counterparty_1 = r.counterparty_1 /\ s.counterparty_2 = r.counterparty_2
      /\ s.entity_responsible_for_reporting = r.entity_responsible_for_reporting
      /\ s.execution_timestamp = r.execution_timestamp /\ s.event_timestamp = r.event_timestamp
      /\ s.reporting_timestamp = r.reporting_timestamp /\ s.termination_date = r.termination_date
  BY DEF SharedFields
<1>2. /\ MissingUti(r) = SftrMissingUti(s)
      /\ Counterparty1Missing(r) = SftrCounterparty1Missing(s)
      /\ Counterparty2Missing(r) = SftrCounterparty2Missing(s)
      /\ LeiFormatRc(r) = SftrLeiFormatRc(s)
      /\ LeiFormatOc(r) = SftrLeiFormatOc(s)
      /\ LeiFormatErr(r) = SftrLeiFormatErr(s)
      /\ DuplicateUti(r, batch) = SftrDuplicateUti(s, batch)
  BY <1>1 DEF MissingUti, SftrMissingUti, Counterparty1Missing, SftrCounterparty1Missing,
              Counterparty2Missing, SftrCounterparty2Missing, LeiFormatRc, SftrLeiFormatRc,
              LeiFormatOc, SftrLeiFormatOc, LeiFormatErr, SftrLeiFormatErr, DuplicateUti,
              SftrDuplicateUti
<1>3. /\ LateReporting(r) = SftrLateReporting(s)
      /\ SelfDealing(r) = SftrSelfDealing(s)
      /\ NewtForbidsPriorUti(r) = SftrNewtForbidsPriorUti(s)
      /\ NewtForbidsTerminationDate(r) = SftrNewtForbidsTerminationDate(s)
      /\ EtrmRequiresTerminationDate(r) = SftrEtrmRequiresTerminationDate(s)
  BY <1>1 DEF LateReporting, SftrLateReporting, SelfDealing, SftrSelfDealing, NewtForbidsPriorUti,
              SftrNewtForbidsPriorUti, NewtForbidsTerminationDate, SftrNewtForbidsTerminationDate,
              EtrmRequiresTerminationDate, SftrEtrmRequiresTerminationDate
<1>4. ReportingBeforeExecution(r) = SftrReportingBeforeExecution(s)
  BY <1>1 DEF ReportingBeforeExecution, SftrReportingBeforeExecution, Both, Issue
<1>5. EventBeforeExecution(r) = SftrEventBeforeExecution(s)
  BY <1>1 DEF EventBeforeExecution, SftrEventBeforeExecution, Both, Issue
<1> QED BY <1>2, <1>3, <1>4, <1>5

\* TERMINATION_AFTER_MATURITY differs in its severity only, and an action both
\* books know is wrong in neither.
LEMMA OtherChecksAgree ==
    ASSUME NEW r, NEW s, \A f \in SharedFields : s[f] = r[f], r.action_type.code \in SharedActions
    PROVE  /\ TerminationAfterMaturity(r) # {} <=> SftrTerminationAfterMaturity(s) # {}
           /\ ActionTypeEnum(r) = {} /\ SftrActionTypeEnum(s) = {}
<1>1. /\ s.maturity_date = r.maturity_date /\ s.termination_date = r.termination_date
      /\ s.action_type = r.action_type
  BY DEF SharedFields
<1>2. TerminationAfterMaturity(r) # {} <=> SftrTerminationAfterMaturity(s) # {}
  BY <1>1 DEF TerminationAfterMaturity, SftrTerminationAfterMaturity, Both, Issue
<1>3. ActionTypeEnum(r) = {} /\ SftrActionTypeEnum(s) = {}
  BY <1>1 DEF ActionTypeEnum, SftrActionTypeEnum, ActionTypes, NotIn, In, Blank,
              Issue, SharedActions
<1> QED BY <1>2, <1>3

\* The ids the three pairs raise that are not equal.
LEMMA PairIds ==
    ASSUME NEW r, NEW s, NEW time
    PROVE  /\ \A i \in TerminationAfterMaturity(r) \union SftrTerminationAfterMaturity(s) :
                 i.id = "CON.TERMINATION_AFTER_MATURITY"
           /\ \A i \in MaturityInPast(r, time) \union SftrMaturityInPast(s, time) :
                 i.id = "CON.MATURITY_IN_PAST"
           /\ \A i \in ModiPreservesUti(r) \union SftrModiPreservesUti(s) :
                 i.id = "CON.MODI_PRESERVES_UTI"
  BY DEF TerminationAfterMaturity, SftrTerminationAfterMaturity, MaturityInPast, SftrMaturityInPast,
         ModiPreservesUti, SftrModiPreservesUti, Issue

\* The books run all of them.
LEMMA SharedChecksRun ==
    ASSUME NEW r, NEW batch, NEW time
    PROVE  /\ UNION {
                MissingUti(r), Counterparty1Missing(r), Counterparty2Missing(r), LeiFormatRc(r),
                LeiFormatOc(r), LeiFormatErr(r), DuplicateUti(r, batch), LateReporting(r),
                ReportingBeforeExecution(r), EventBeforeExecution(r), SelfDealing(r),
                NewtForbidsPriorUti(r), NewtForbidsTerminationDate(r),
                EtrmRequiresTerminationDate(r), TerminationAfterMaturity(r),
                MaturityInPast(r, time), ModiPreservesUti(r)} \subseteq EmirIssues(r, batch, time)
           /\ UNION {
                SftrMissingUti(r), SftrCounterparty1Missing(r), SftrCounterparty2Missing(r),
                SftrLeiFormatRc(r), SftrLeiFormatOc(r), SftrLeiFormatErr(r),
                SftrDuplicateUti(r, batch), SftrLateReporting(r),
                SftrReportingBeforeExecution(r), SftrEventBeforeExecution(r),
                SftrSelfDealing(r), SftrNewtForbidsPriorUti(r),
                SftrNewtForbidsTerminationDate(r), SftrEtrmRequiresTerminationDate(r),
                SftrTerminationAfterMaturity(r), SftrMaturityInPast(r, time),
                SftrModiPreservesUti(r)} \subseteq SftrIssues(r, batch, time)
<1>1. UNION {MissingUti(r), Counterparty1Missing(r), Counterparty2Missing(r)}
        \subseteq CompletenessIssues(r, time)
  BY DEF CompletenessIssues
<1>2. UNION {LeiFormatRc(r), LeiFormatOc(r), LeiFormatErr(r)} \subseteq ValidityIssues(r)
  BY DEF ValidityIssues
<1>3. UNION {ReportingBeforeExecution(r), EventBeforeExecution(r), SelfDealing(r),
             NewtForbidsPriorUti(r), NewtForbidsTerminationDate(r), EtrmRequiresTerminationDate(r),
             TerminationAfterMaturity(r), MaturityInPast(r, time), ModiPreservesUti(r)}
        \subseteq ConsistencyIssues(r, time)
  BY DEF ConsistencyIssues
<1> QED BY <1>1, <1>2, <1>3 DEF EmirIssues, SftrIssues

\* Every rule of both books finds the same in a record and in its SFTR twin.
LEMMA SharedRulesAgree ==
    ASSUME NEW r, NEW s, NEW batch, NEW time, \A f \in SharedFields : s[f] = r[f],
           r.action_type.code \in SharedActions
    PROVE  Ids(EmirIssues(r, batch, time)) \cap SharedRules
             = Ids(SftrIssues(s, batch, time)) \cap SharedRules
<1>1. ASSUME NEW i \in EmirIssues(r, batch, time), i.id \in SharedRules
      PROVE  \E j \in SftrIssues(s, batch, time) : j.id = i.id
  <2>1. i.id \in BothBooks /\ i.id # "CON.MATURITY_IN_PAST" /\ i.id # "CON.MODI_PRESERVES_UTI"
    BY <1>1 DEF BothBooks, SharedRules
  <2>2. i \notin MaturityInPast(r, time) \union ModiPreservesUti(r) \union ActionTypeEnum(r)
    BY <2>1, PairIds, OtherChecksAgree
  <2>3. CASE i \in TerminationAfterMaturity(r)
    BY <2>3, PairIds, OtherChecksAgree, SharedChecksRun
  <2>4. CASE i \notin TerminationAfterMaturity(r)
    <3>1. i \in SftrIssues(s, batch, time)
      BY <1>1, <2>1, <2>2, <2>4, EmirIssuesOfBoth, SharedChecksAgree, SharedChecksRun
    <3> QED BY <3>1
  <2> QED BY <2>3, <2>4
<1>2. ASSUME NEW i \in SftrIssues(s, batch, time), i.id \in SharedRules
      PROVE  \E j \in EmirIssues(r, batch, time) : j.id = i.id
  <2>1. i.id \in BothBooks /\ i.id # "CON.MATURITY_IN_PAST" /\ i.id # "CON.MODI_PRESERVES_UTI"
    BY <1>2 DEF BothBooks, SharedRules
  <2>2. i \notin SftrMaturityInPast(s, time) \union SftrModiPreservesUti(s) \union SftrActionTypeEnum(s)
    BY <2>1, PairIds, OtherChecksAgree
  <2>3. CASE i \in SftrTerminationAfterMaturity(s)
    BY <2>3, PairIds, OtherChecksAgree, SharedChecksRun
  <2>4. CASE i \notin SftrTerminationAfterMaturity(s)
    <3>1. i \in EmirIssues(r, batch, time)
      BY <1>2, <2>1, <2>2, <2>4, SftrIssuesOfBoth, SharedChecksAgree, SharedChecksRun
    <3> QED BY <3>1
  <2> QED BY <2>3, <2>4
<1> QED BY <1>1, <1>2 DEF Ids

\* The rules that differ: their ids are raised by one check of each book.
LEMMA DifferingRules ==
    ASSUME NEW r, NEW batch, NEW time
    PROVE  /\ "CON.MATURITY_IN_PAST" \in Ids(EmirIssues(r, batch, time)) <=> MaturityInPast(r, time) # {}
           /\ "CON.MATURITY_IN_PAST" \in Ids(SftrIssues(r, batch, time)) <=> SftrMaturityInPast(r, time) # {}
           /\ "CON.MODI_PRESERVES_UTI" \in Ids(EmirIssues(r, batch, time)) <=> ModiPreservesUti(r) # {}
           /\ "CON.MODI_PRESERVES_UTI" \in Ids(SftrIssues(r, batch, time)) <=> SftrModiPreservesUti(r) # {}
<1> DEFINE emir == EmirIssues(r, batch, time)
           sftr == SftrIssues(r, batch, time)
           ids  == {"CON.MATURITY_IN_PAST", "CON.MODI_PRESERVES_UTI"}
<1>1. \A i \in emir : i.id \in ids => i \in MaturityInPast(r, time) \union ModiPreservesUti(r)
  <2> SUFFICES ASSUME NEW i \in emir, i.id \in ids
               PROVE  i \in MaturityInPast(r, time) \union ModiPreservesUti(r)
    OBVIOUS
  <2>1. i.id \in BothBooks /\ i.id \notin SharedRules
    BY DEF BothBooks, SharedRules
  <2>2. \A j \in UNION {
          MissingUti(r), Counterparty1Missing(r), Counterparty2Missing(r), LeiFormatRc(r),
          LeiFormatOc(r), LeiFormatErr(r), ActionTypeEnum(r), DuplicateUti(r, batch)} :
          j.id \in SharedRules
    BY DEF MissingUti, Counterparty1Missing, Counterparty2Missing, LeiFormatRc, LeiFormatOc,
           LeiFormatErr, ActionTypeEnum, DuplicateUti, Issue, SharedRules
  <2>3. \A j \in UNION {
          LateReporting(r), ReportingBeforeExecution(r), EventBeforeExecution(r), SelfDealing(r),
          NewtForbidsPriorUti(r), NewtForbidsTerminationDate(r), EtrmRequiresTerminationDate(r),
          TerminationAfterMaturity(r)} :
          j.id \in SharedRules
    BY DEF LateReporting, ReportingBeforeExecution, EventBeforeExecution, SelfDealing,
           NewtForbidsPriorUti, NewtForbidsTerminationDate, EtrmRequiresTerminationDate,
           TerminationAfterMaturity, Issue, SharedRules
  <2> HIDE DEF ids
  <2> QED BY <2>1, <2>2, <2>3, EmirIssuesOfBoth
<1>2. \A i \in sftr : i.id \in ids => i \in SftrMaturityInPast(r, time) \union SftrModiPreservesUti(r)
  <2> SUFFICES ASSUME NEW i \in sftr, i.id \in ids
               PROVE  i \in SftrMaturityInPast(r, time) \union SftrModiPreservesUti(r)
    OBVIOUS
  <2>1. i.id \in BothBooks /\ i.id \notin SharedRules
    BY DEF BothBooks, SharedRules
  <2>2. \A j \in UNION {
          SftrMissingUti(r), SftrCounterparty1Missing(r), SftrCounterparty2Missing(r),
          SftrLeiFormatRc(r), SftrLeiFormatOc(r), SftrLeiFormatErr(r), SftrActionTypeEnum(r),
          SftrDuplicateUti(r, batch)} :
          j.id \in SharedRules
    BY DEF SftrMissingUti, SftrCounterparty1Missing, SftrCounterparty2Missing, SftrLeiFormatRc,
           SftrLeiFormatOc, SftrLeiFormatErr, SftrActionTypeEnum, SftrDuplicateUti,
           Issue, SharedRules
  <2>3. \A j \in UNION {
          SftrLateReporting(r), SftrReportingBeforeExecution(r), SftrEventBeforeExecution(r),
          SftrSelfDealing(r), SftrNewtForbidsPriorUti(r), SftrNewtForbidsTerminationDate(r),
          SftrEtrmRequiresTerminationDate(r), SftrTerminationAfterMaturity(r)} :
          j.id \in SharedRules
    BY DEF SftrLateReporting, SftrReportingBeforeExecution, SftrEventBeforeExecution,
           SftrSelfDealing, SftrNewtForbidsPriorUti, SftrNewtForbidsTerminationDate,
           SftrEtrmRequiresTerminationDate, SftrTerminationAfterMaturity, Issue, SharedRules
  <2> HIDE DEF ids
  <2> QED BY <2>1, <2>2, <2>3, SftrIssuesOfBoth
<1>3. MaturityInPast(r, time) \union ModiPreservesUti(r) \subseteq emir
  BY SharedChecksRun
<1>4. SftrMaturityInPast(r, time) \union SftrModiPreservesUti(r) \subseteq sftr
  BY SharedChecksRun
<1>5. /\ \A i \in MaturityInPast(r, time) \union SftrMaturityInPast(r, time) : i.id = "CON.MATURITY_IN_PAST"
      /\ \A i \in ModiPreservesUti(r) \union SftrModiPreservesUti(r) : i.id = "CON.MODI_PRESERVES_UTI"
  BY PairIds
<1> HIDE DEF emir, sftr
<1>6. /\ "CON.MATURITY_IN_PAST" \in Ids(emir) <=> MaturityInPast(r, time) # {}
      /\ "CON.MODI_PRESERVES_UTI" \in Ids(emir) <=> ModiPreservesUti(r) # {}
  BY <1>1, <1>3, <1>5 DEF Ids
<1>7. /\ "CON.MATURITY_IN_PAST" \in Ids(sftr) <=> SftrMaturityInPast(r, time) # {}
      /\ "CON.MODI_PRESERVES_UTI" \in Ids(sftr) <=> SftrModiPreservesUti(r) # {}
  BY <1>2, <1>4, <1>5 DEF Ids
<1> QED BY <1>6, <1>7 DEF emir, sftr

\* A twin has the report's values in the fields both records have.
LEMMA Twin ==
    ASSUME NEW r
    PROVE  \A f \in SharedFields : AsSftr(r)[f] = r[f]
<1> DEFINE model == CHOOSE s \in SftrReports : TRUE
<1>1. model \in SftrReports
  BY RecordsAssumption
<1>2. DOMAIN model = SftrFields
  BY <1>1, RecordsAssumption DEF IsRecord
<1>3. SharedFields \subseteq SftrFields
  BY DEF SharedFields, SftrFields
<1>4. AsSftr(r) = [f \in DOMAIN model |-> IF f \in SharedFields THEN r[f] ELSE model[f]]
  BY DEF AsSftr
<1> HIDE DEF model
<1> QED BY <1>2, <1>3, <1>4

\* The two rule books agree on the fields both records have (RegimesAgree).
THEOREM TheBooksAgree == Spec => []RegimesAgree
<1>1. RegimesAgree
  <2> SUFFICES ASSUME EmirReport, report.action_type.code \in SharedActions PROVE RegimesAgree
    BY DEF RegimesAgree
  <2> DEFINE file == <<report>> \o RestOfFile
             twin == AsSftr(report)
             emir == Ids(EmirIssues(report, file, now))
             sftr == Ids(SftrIssues(twin, file, now))
  <2>1. \A f \in SharedFields : twin[f] = report[f]
    BY Twin
  <2>2. /\ twin.maturity_date = report.maturity_date /\ twin.termination_date = report.termination_date
        /\ twin.uti = report.uti /\ twin.prior_uti = report.prior_uti
    BY <2>1 DEF SharedFields
  <2> HIDE DEF twin, file
  <2>3. emir \cap SharedRules = sftr \cap SharedRules
    BY <2>1, SharedRulesAgree
  <2>4. "CON.MATURITY_IN_PAST" \in emir /\ report.termination_date = NoTime
          <=> "CON.MATURITY_IN_PAST" \in sftr
    <3>1. MaturityInPast(report, now) # {} /\ report.termination_date = NoTime
            <=> SftrMaturityInPast(twin, now) # {}
      BY <2>2 DEF MaturityInPast, SftrMaturityInPast, Outstanding, Issue
    <3> QED BY <3>1, DifferingRules
  <2>5. "CON.MODI_PRESERVES_UTI" \in emir => "CON.MODI_PRESERVES_UTI" \notin sftr
    <3>1. ModiPreservesUti(report) = {} \/ SftrModiPreservesUti(twin) = {}
      BY <2>2 DEF ModiPreservesUti, SftrModiPreservesUti, SameText, Issue
    <3> QED BY <3>1, DifferingRules
  <2> QED BY <2>3, <2>4, <2>5 DEF RegimesAgree, file, twin
<1> QED BY <1>1, PTL

----------------------------------------------------------------------------
(* The spelling of codes *)

\* Records that differ in nothing but the spelling of codes, and those of them
\* of which the same codes have blanks around them.
Alike(r, s, fields) ==
    /\ \A f \in fields \ AllCodes : s[f] = r[f]
    /\ \A f \in fields \cap AllCodes : s[f].code = r[f].code
SameBlanks(r, s, fields) ==
    \A f \in fields \cap AllCodes : s[f].form = "padded" <=> r[f].form = "padded"

\* Alike and SameBlanks, field by field.
EmirAlike(r, s) ==
    /\ s.uti = r.uti /\ s.prior_uti = r.prior_uti /\ s.event_type = r.event_type
    /\ s.entity_responsible_for_reporting = r.entity_responsible_for_reporting
    /\ s.counterparty_1 = r.counterparty_1 /\ s.counterparty_2 = r.counterparty_2
    /\ s.product_id = r.product_id /\ s.underlying_id = r.underlying_id
    /\ s.notional_amount = r.notional_amount /\ s.notional_currency = r.notional_currency
    /\ s.price = r.price /\ s.price_currency = r.price_currency
    /\ s.execution_timestamp = r.execution_timestamp /\ s.event_timestamp = r.event_timestamp
    /\ s.reporting_timestamp = r.reporting_timestamp /\ s.effective_date = r.effective_date
    /\ s.maturity_date = r.maturity_date /\ s.termination_date = r.termination_date
    /\ s.valuation_amount = r.valuation_amount /\ s.valuation_currency = r.valuation_currency
    /\ s.valuation_timestamp = r.valuation_timestamp
    /\ s.initial_margin_posted = r.initial_margin_posted
    /\ s.initial_margin_collected = r.initial_margin_collected
    /\ s.variation_margin_posted = r.variation_margin_posted
    /\ s.variation_margin_collected = r.variation_margin_collected
    /\ s.collateral_portfolio_code = r.collateral_portfolio_code
    /\ s.leg2_notional_amount = r.leg2_notional_amount
    /\ s.leg2_notional_currency = r.leg2_notional_currency
    /\ s.leg1_payment_frequency = r.leg1_payment_frequency
    /\ s.clearing_ccp_lei = r.clearing_ccp_lei
    /\ s.intragroup_indicator = r.intragroup_indicator
    /\ s.hedging_indicator = r.hedging_indicator /\ s.valuation_type = r.valuation_type
    /\ s.trading_capacity = r.trading_capacity
    /\ s.commercial_or_treasury_financing = r.commercial_or_treasury_financing
    /\ s.reporting_obligation_indicator = r.reporting_obligation_indicator
    /\ s.corporate_sector = r.corporate_sector
    /\ s.master_agreement_version = r.master_agreement_version
    /\ s.confirmation_method = r.confirmation_method
    /\ s.mtm_value_change = r.mtm_value_change /\ s.delta = r.delta /\ s.gamma = r.gamma
    /\ s.action_type.code = r.action_type.code /\ s.asset_class.code = r.asset_class.code
    /\ s.clearing_status.code = r.clearing_status.code
    /\ s.collateralisation_category.code = r.collateralisation_category.code
    /\ s.nature.code = r.nature.code
    /\ s.master_agreement_type.code = r.master_agreement_type.code

LEMMA EmirAlikeFields ==
    ASSUME NEW r, NEW s, Alike(r, s, EmirFields) PROVE EmirAlike(r, s)
  BY DEF Alike, EmirAlike, EmirFields, AllCodes

EmirSameBlanks(r, s) ==
    /\ (s.action_type.form = "padded" <=> r.action_type.form = "padded")
    /\ (s.asset_class.form = "padded" <=> r.asset_class.form = "padded")
    /\ (s.clearing_status.form = "padded" <=> r.clearing_status.form = "padded")
    /\ (s.collateralisation_category.form = "padded" <=> r.collateralisation_category.form = "padded")
    /\ (s.nature.form = "padded" <=> r.nature.form = "padded")
    /\ (s.master_agreement_type.form = "padded" <=> r.master_agreement_type.form = "padded")

LEMMA EmirSameBlanksFields ==
    ASSUME NEW r, NEW s, SameBlanks(r, s, EmirFields) PROVE EmirSameBlanks(r, s)
  BY DEF SameBlanks, EmirSameBlanks, EmirFields, AllCodes

SftrAlike(r, s) ==
    /\ s.uti = r.uti /\ s.prior_uti = r.prior_uti /\ s.event_type = r.event_type
    /\ s.entity_responsible_for_reporting = r.entity_responsible_for_reporting
    /\ s.counterparty_1 = r.counterparty_1 /\ s.counterparty_2 = r.counterparty_2
    /\ s.sft_type = r.sft_type /\ s.master_agreement_version = r.master_agreement_version
    /\ s.loan_value = r.loan_value /\ s.loan_currency = r.loan_currency
    /\ s.collateral_value = r.collateral_value
    /\ s.collateral_currency = r.collateral_currency /\ s.haircut = r.haircut
    /\ s.reuse_indicator = r.reuse_indicator /\ s.rebate_rate = r.rebate_rate
    /\ s.lending_fee = r.lending_fee /\ s.execution_timestamp = r.execution_timestamp
    /\ s.event_timestamp = r.event_timestamp /\ s.reporting_timestamp = r.reporting_timestamp
    /\ s.effective_date = r.effective_date /\ s.maturity_date = r.maturity_date
    /\ s.termination_date = r.termination_date /\ s.settlement_date = r.settlement_date
    /\ s.collateral_portfolio_code = r.collateral_portfolio_code
    /\ s.collateral_isin = r.collateral_isin /\ s.security_identifier = r.security_identifier
    /\ s.action_type.code = r.action_type.code
    /\ s.master_agreement_type.code = r.master_agreement_type.code

LEMMA SftrAlikeFields ==
    ASSUME NEW r, NEW s, Alike(r, s, SftrFields) PROVE SftrAlike(r, s)
  BY DEF Alike, SftrAlike, SftrFields, AllCodes

SftrSameBlanks(r, s) ==
    /\ (s.action_type.form = "padded" <=> r.action_type.form = "padded")
    /\ (s.master_agreement_type.form = "padded" <=> r.master_agreement_type.form = "padded")

LEMMA SftrSameBlanksFields ==
    ASSUME NEW r, NEW s, SameBlanks(r, s, SftrFields) PROVE SftrSameBlanks(r, s)
  BY DEF SameBlanks, SftrSameBlanks, SftrFields, AllCodes

\* Group by group: what the other spelling adds is raised by a rule that compares
\* an untrimmed text, and if the same codes are padded by one that compares letters.
LEMMA CompletenessIssuesSpelling ==
    ASSUME NEW r, NEW s, EmirAlike(r, s), NEW time
    PROVE  /\ \A i \in CompletenessIssues(s, time) \ CompletenessIssues(r, time) :
                 i.id \in UntrimmedRules
           /\ EmirSameBlanks(r, s) =>
                \A i \in CompletenessIssues(s, time) \ CompletenessIssues(r, time) : i.id \in ExactRules
<1>1. /\ MissingUti(s) = MissingUti(r) /\ MissingValuation(s, time) = MissingValuation(r, time)
      /\ Counterparty1Missing(s) = Counterparty1Missing(r)
      /\ Counterparty2Missing(s) = Counterparty2Missing(r)
      /\ NotionalCurrencyMissing(s) = NotionalCurrencyMissing(r)
      /\ ValuationCurrencyMissing(s) = ValuationCurrencyMissing(r)
  BY DEF EmirAlike, MissingUti, MissingValuation, Counterparty1Missing, Counterparty2Missing,
         NotionalCurrencyMissing, ValuationCurrencyMissing, Outstanding
<1>2. /\ ValuationTimestampMissing(s) = ValuationTimestampMissing(r)
      /\ IntragroupIndicatorMissing(s) = IntragroupIndicatorMissing(r)
      /\ TradingCapacityMissing(s) = TradingCapacityMissing(r)
  BY DEF EmirAlike, ValuationTimestampMissing, IntragroupIndicatorMissing,
         TradingCapacityMissing
<1>3. /\ ClearingStatusMissing(s) = ClearingStatusMissing(r) /\ NatureMissing(s) = NatureMissing(r)
      /\ MasterAgreementTypeMissing(s) = MasterAgreementTypeMissing(r)
      /\ MasterAgreementVersionMissing(s) = MasterAgreementVersionMissing(r)
      /\ AssetClassMissing(s) = AssetClassMissing(r) /\ ProductIdMissing(s) = ProductIdMissing(r)
  BY DEF EmirAlike, ClearingStatusMissing, NatureMissing, MasterAgreementTypeMissing,
         MasterAgreementVersionMissing, AssetClassMissing, ProductIdMissing, Blank
<1>4. \A j \in UNION {
        InitialMarginMissingForFull(s), VariationMarginMissingForFull(s),
        CollateralPortfolioRequiredForFull(s)} :
        j.id \in UntrimmedRules
  BY DEF InitialMarginMissingForFull, VariationMarginMissingForFull,
         CollateralPortfolioRequiredForFull, Issue, UntrimmedRules
<1>5. EmirSameBlanks(r, s) =>
        /\ InitialMarginMissingForFull(s) = InitialMarginMissingForFull(r)
        /\ VariationMarginMissingForFull(s) = VariationMarginMissingForFull(r)
        /\ CollateralPortfolioRequiredForFull(s) = CollateralPortfolioRequiredForFull(r)
  BY DEF EmirAlike, EmirSameBlanks, InitialMarginMissingForFull, VariationMarginMissingForFull,
         CollateralPortfolioRequiredForFull, Untrimmed, Blank, FullyCollateralised
<1>6. ExactRules \subseteq UntrimmedRules
  BY DEF UntrimmedRules
<1> QED BY <1>1, <1>2, <1>3, <1>4, <1>5, <1>6 DEF CompletenessIssues

LEMMA ValidityIssuesSpelling ==
    ASSUME NEW r, NEW s, EmirAlike(r, s)
    PROVE  /\ \A i \in ValidityIssues(s) \ ValidityIssues(r) : i.id \in UntrimmedRules
           /\ EmirSameBlanks(r, s) =>
                \A i \in ValidityIssues(s) \ ValidityIssues(r) : i.id \in ExactRules
<1>1. /\ LeiFormatRc(s) = LeiFormatRc(r) /\ LeiFormatOc(s) = LeiFormatOc(r)
      /\ LeiFormatErr(s) = LeiFormatErr(r) /\ LeiFormatCcp(s) = LeiFormatCcp(r)
      /\ CurrencyNotional(s) = CurrencyNotional(r) /\ CurrencyValuation(s) = CurrencyValuation(r)
  BY DEF EmirAlike, LeiFormatRc, LeiFormatOc, LeiFormatErr, LeiFormatCcp, CurrencyNotional,
         CurrencyValuation
<1>2. /\ EventTypeEnum(s) = EventTypeEnum(r) /\ ValuationTypeEnum(s) = ValuationTypeEnum(r)
      /\ TradingCapacityEnum(s) = TradingCapacityEnum(r)
      /\ EmirCorporateSectorEnum(s) = EmirCorporateSectorEnum(r)
      /\ EmirReportingObligationIndicatorEnum(s) = EmirReportingObligationIndicatorEnum(r)
      /\ NotionalPrecision(s) = NotionalPrecision(r)
  BY DEF EmirAlike, EventTypeEnum, ValuationTypeEnum, TradingCapacityEnum,
         EmirCorporateSectorEnum, EmirReportingObligationIndicatorEnum, NotionalPrecision
<1>3. /\ ValuationPrecision(s) = ValuationPrecision(r) /\ PricePrecision(s) = PricePrecision(r)
      /\ NotionalPrecisionByCurrency(s) = NotionalPrecisionByCurrency(r)
      /\ ValuationPrecisionByCurrency(s) = ValuationPrecisionByCurrency(r)
      /\ PricePrecisionByCurrency(s) = PricePrecisionByCurrency(r)
      /\ MasterAgreementVersionFormat(s) = MasterAgreementVersionFormat(r)
  BY DEF EmirAlike, ValuationPrecision, PricePrecision, NotionalPrecisionByCurrency,
         ValuationPrecisionByCurrency, PricePrecisionByCurrency, MasterAgreementVersionFormat
<1>4. /\ ActionTypeEnum(s) = ActionTypeEnum(r) /\ AssetClassEnum(s) = AssetClassEnum(r)
      /\ NatureEnum(s) = NatureEnum(r) /\ MasterAgreementTypeEnum(s) = MasterAgreementTypeEnum(r)
      /\ CollateralisationCategoryEnum(s) = CollateralisationCategoryEnum(r)
      /\ ClearingStatusEnum(s) = ClearingStatusEnum(r)
  BY DEF EmirAlike, ActionTypeEnum, AssetClassEnum, NatureEnum, MasterAgreementTypeEnum,
         CollateralisationCategoryEnum, ClearingStatusEnum, In, NotIn, Blank
<1>5. /\ CommodityBaseEnum(s) = CommodityBaseEnum(r) /\ CreditSectorEnum(s) = CreditSectorEnum(r)
  BY DEF EmirAlike, CommodityBaseEnum, CreditSectorEnum, In, NotIn, Blank
<1>6. MarginPrecision(s) = MarginPrecision(r)
  <2>1. \A i \in 1..4 : s[MarginFields[i]] = r[MarginFields[i]]
    BY DEF EmirAlike, MarginFields
  <2> QED BY <2>1 DEF MarginPrecision
<1>7. \A j \in IsdaVersionPlausible(s) : j.id \in UntrimmedRules
  BY DEF IsdaVersionPlausible, Issue, UntrimmedRules
<1>8. EmirSameBlanks(r, s) => IsdaVersionPlausible(s) = IsdaVersionPlausible(r)
  BY DEF EmirAlike, EmirSameBlanks, IsdaVersionPlausible, Untrimmed, In, NotIn, Blank
<1>9. ExactRules \subseteq UntrimmedRules
  BY DEF UntrimmedRules
<1> QED BY <1>1, <1>2, <1>3, <1>4, <1>5, <1>6, <1>7, <1>8, <1>9 DEF ValidityIssues

LEMMA AccuracyIssuesSpelling ==
    ASSUME NEW r, NEW s, EmirAlike(r, s), NEW time
    PROVE  /\ \A i \in AccuracyIssues(s, time) \ AccuracyIssues(r, time) :
                 i.id \in UntrimmedRules
           /\ EmirSameBlanks(r, s) =>
                \A i \in AccuracyIssues(s, time) \ AccuracyIssues(r, time) : i.id \in ExactRules
<1>1. /\ AbnormalMaturity(s, time) = AbnormalMaturity(r, time)
      /\ NegativeNotional(s) = NegativeNotional(r)
      /\ NegativeInitialMarginPosted(s) = NegativeInitialMarginPosted(r)
      /\ NegativeInitialMarginCollected(s) = NegativeInitialMarginCollected(r)
      /\ NegativeVariationMarginPosted(s) = NegativeVariationMarginPosted(r)
      /\ NegativeVariationMarginCollected(s) = NegativeVariationMarginCollected(r)
  BY DEF EmirAlike, AbnormalMaturity, NegativeNotional, NegativeInitialMarginPosted,
         NegativeInitialMarginCollected, NegativeVariationMarginPosted,
         NegativeVariationMarginCollected
<1>2. /\ NotionalAbnormalMagnitude(s) = NotionalAbnormalMagnitude(r)
      /\ EmirDeltaOutOfRange(s) = EmirDeltaOutOfRange(r)
      /\ EmirGammaNegative(s) = EmirGammaNegative(r)
  BY DEF EmirAlike, NotionalAbnormalMagnitude, EmirDeltaOutOfRange, EmirGammaNegative
<1>3. EmirPriceNegative(s) = EmirPriceNegative(r)
  BY DEF EmirAlike, EmirPriceNegative, In
<1>4. \A j \in UNION {
        IrRequiresNotional(s), IrRequiresLeg1Freq(s), FxRequiresLeg2Currency(s),
        EqRequiresUnderlying(s), CrRequiresUnderlying(s), CommodityRequiresProductId(s)} :
        j.id \in UntrimmedRules
  BY DEF IrRequiresNotional, IrRequiresLeg1Freq, FxRequiresLeg2Currency, EqRequiresUnderlying,
         CrRequiresUnderlying, CommodityRequiresProductId, Issue, UntrimmedRules
<1>5. EmirSameBlanks(r, s) =>
        /\ IrRequiresNotional(s) = IrRequiresNotional(r)
        /\ IrRequiresLeg1Freq(s) = IrRequiresLeg1Freq(r)
        /\ FxRequiresLeg2Currency(s) = FxRequiresLeg2Currency(r)
        /\ EqRequiresUnderlying(s) = EqRequiresUnderlying(r)
        /\ CrRequiresUnderlying(s) = CrRequiresUnderlying(r)
        /\ CommodityRequiresProductId(s) = CommodityRequiresProductId(r)
  BY DEF EmirAlike, EmirSameBlanks, IrRequiresNotional, IrRequiresLeg1Freq,
         FxRequiresLeg2Currency, EqRequiresUnderlying, CrRequiresUnderlying,
         CommodityRequiresProductId, Untrimmed, Blank
<1>6. \A j \in ZeroNotional(s) : j.id \in ExactRules
  BY DEF ZeroNotional, Issue, ExactRules
<1>7. ExactRules \subseteq UntrimmedRules
  BY DEF UntrimmedRules
<1> QED BY <1>1, <1>2, <1>3, <1>4, <1>5, <1>6, <1>7 DEF AccuracyIssues

LEMMA ConsistencyIssuesSpelling ==
    ASSUME NEW r, NEW s, EmirAlike(r, s), NEW time
    PROVE  /\ \A i \in ConsistencyIssues(s, time) \ ConsistencyIssues(r, time) :
                 i.id \in UntrimmedRules
           /\ EmirSameBlanks(r, s) =>
                \A i \in ConsistencyIssues(s, time) \ ConsistencyIssues(r, time) : i.id \in ExactRules
<1>1. /\ ReportingBeforeExecution(s) = ReportingBeforeExecution(r)
      /\ EventBeforeExecution(s) = EventBeforeExecution(r)
      /\ ValuationAfterTermination(s) = ValuationAfterTermination(r)
      /\ MaturityInPast(s, time) = MaturityInPast(r, time)
      /\ TerminationAfterMaturity(s) = TerminationAfterMaturity(r)
      /\ EffectiveAfterMaturity(s) = EffectiveAfterMaturity(r)
  BY DEF EmirAlike, ReportingBeforeExecution, EventBeforeExecution, ValuationAfterTermination,
         MaturityInPast, TerminationAfterMaturity, EffectiveAfterMaturity, Outstanding
<1>2. /\ NotionalValCurrencyMismatch(s) = NotionalValCurrencyMismatch(r)
      /\ PriceValCurrencyMismatch(s) = PriceValCurrencyMismatch(r)
      /\ Leg1Leg2SameCurrency(s) = Leg1Leg2SameCurrency(r) /\ SelfDealing(s) = SelfDealing(r)
      /\ PriceRequiresCurrency(s) = PriceRequiresCurrency(r)
      /\ ImNeedsCollateralPortfolio(s) = ImNeedsCollateralPortfolio(r)
  BY DEF EmirAlike, NotionalValCurrencyMismatch, PriceValCurrencyMismatch,
         Leg1Leg2SameCurrency, SelfDealing, PriceRequiresCurrency, ImNeedsCollateralPortfolio
<1>3. /\ VmNeedsCollateralPortfolio(s) = VmNeedsCollateralPortfolio(r)
      /\ Leg2NotionalNeedsCurrency(s) = Leg2NotionalNeedsCurrency(r)
      /\ MtmChangeRequiresValuation(s) = MtmChangeRequiresValuation(r)
  BY DEF EmirAlike, VmNeedsCollateralPortfolio, Leg2NotionalNeedsCurrency,
         MtmChangeRequiresValuation
<1>4. /\ ClearedRequiresCcp(s) = ClearedRequiresCcp(r)
      /\ EmirCommercialOrTreasuryRequiresNfc(s) = EmirCommercialOrTreasuryRequiresNfc(r)
      /\ ModiPreservesUti(s) = ModiPreservesUti(r)
      /\ ActionEventCompatibility(s) = ActionEventCompatibility(r)
  BY DEF EmirAlike, ClearedRequiresCcp, EmirCommercialOrTreasuryRequiresNfc, ModiPreservesUti,
         ActionEventCompatibility, In, NotIn, Blank, SameText, NfcPrefixed
<1>5. \A j \in UNION {
        NclrForbidsCcp(s), HedgingRequiresNfc(s), MaruRequiresPortfolio(s),
        PoscRequiresPortfolio(s), ValuRequiresValuation(s), EtrmRequiresTerminationDate(s)} :
        j.id \in UntrimmedRules
  BY DEF NclrForbidsCcp, HedgingRequiresNfc, MaruRequiresPortfolio, PoscRequiresPortfolio,
         ValuRequiresValuation, EtrmRequiresTerminationDate, Issue, UntrimmedRules
<1>6. EmirSameBlanks(r, s) =>
        /\ NclrForbidsCcp(s) = NclrForbidsCcp(r) /\ HedgingRequiresNfc(s) = HedgingRequiresNfc(r)
        /\ MaruRequiresPortfolio(s) = MaruRequiresPortfolio(r)
        /\ PoscRequiresPortfolio(s) = PoscRequiresPortfolio(r)
        /\ ValuRequiresValuation(s) = ValuRequiresValuation(r)
        /\ EtrmRequiresTerminationDate(s) = EtrmRequiresTerminationDate(r)
  BY DEF EmirAlike, EmirSameBlanks, NclrForbidsCcp, HedgingRequiresNfc, MaruRequiresPortfolio,
         PoscRequiresPortfolio, ValuRequiresValuation, EtrmRequiresTerminationDate, Untrimmed,
         Blank
<1>7. \A j \in UNION {
        EtrmRequiresValuation(s), NewtForbidsPriorUti(s), NewtForbidsTerminationDate(s)} :
        j.id \in UntrimmedRules
  BY DEF EtrmRequiresValuation, NewtForbidsPriorUti, NewtForbidsTerminationDate, Issue,
         UntrimmedRules
<1>8. EmirSameBlanks(r, s) =>
        /\ EtrmRequiresValuation(s) = EtrmRequiresValuation(r)
        /\ NewtForbidsPriorUti(s) = NewtForbidsPriorUti(r)
        /\ NewtForbidsTerminationDate(s) = NewtForbidsTerminationDate(r)
  BY DEF EmirAlike, EmirSameBlanks, EtrmRequiresValuation, NewtForbidsPriorUti,
         NewtForbidsTerminationDate, Untrimmed, Blank
<1>9. \A j \in MaruRequiresMargin(s) : j.id \in ExactRules
  BY DEF MaruRequiresMargin, Issue, ExactRules
<1>10. ExactRules \subseteq UntrimmedRules
  BY DEF UntrimmedRules
<1> QED BY <1>1, <1>2, <1>3, <1>4, <1>5, <1>7, <1>6, <1>8, <1>9, <1>10 DEF ConsistencyIssues

\* The risk mitigation checks trim what they compare.
LEMMA RiskMitigationIssuesSpelling ==
    ASSUME NEW r, NEW s, EmirAlike(r, s), NEW time
    PROVE  RiskMitigationIssues(s, time) = RiskMitigationIssues(r, time)
<1>1. Uncleared(s) = Uncleared(r) /\ NotTerminated(s) = NotTerminated(r)
  BY DEF EmirAlike, Uncleared, IsUncleared, In, NotTerminated
<1>2. AnyMargin(s) = AnyMargin(r)
  <2>1. \A i \in 1..4 : s[MarginFields[i]] = r[MarginFields[i]]
    BY DEF EmirAlike, MarginFields
  <2> QED BY <2>1 DEF AnyMargin
<1>3. /\ EmirRmtUnclearedNeedsConfirmation(s) = EmirRmtUnclearedNeedsConfirmation(r)
      /\ EmirRmtPortfolioReconciliationMissing(s) = EmirRmtPortfolioReconciliationMissing(r)
      /\ EmirRmtDailyValuationMissing(s, time) = EmirRmtDailyValuationMissing(r, time)
      /\ EmirRmtVariationMarginMissing(s) = EmirRmtVariationMarginMissing(r)
      /\ EmirRmtInitialMarginThreshold(s) = EmirRmtInitialMarginThreshold(r)
      /\ EmirRmtIntragroupNeedsIndicator(s) = EmirRmtIntragroupNeedsIndicator(r)
  BY <1>1, <1>2 DEF EmirAlike, EmirRmtUnclearedNeedsConfirmation,
         EmirRmtPortfolioReconciliationMissing, EmirRmtDailyValuationMissing,
         EmirRmtVariationMarginMissing, EmirRmtInitialMarginThreshold,
         EmirRmtIntragroupNeedsIndicator
<1>4. /\ EmirRmtCollateralCategoryRequired(s) = EmirRmtCollateralCategoryRequired(r)
      /\ EmirRmtMasterAgreementRequired(s) = EmirRmtMasterAgreementRequired(r)
  BY <1>1, <1>2 DEF EmirAlike, EmirRmtCollateralCategoryRequired, EmirRmtMasterAgreementRequired,
         Blank
<1>5. EmirRmtLateConfirmation(s) = EmirRmtLateConfirmation(r)
  BY <1>1 DEF EmirAlike, EmirRmtLateConfirmation, NfcPrefixed, In
<1>6. EmirRmtNfcAboveClearingThreshold(s) = EmirRmtNfcAboveClearingThreshold(r)
  <2>1. CanonicalAssetClass(s.asset_class) = CanonicalAssetClass(r.asset_class)
    BY DEF EmirAlike, CanonicalAssetClass, In
  <2> QED BY <1>1, <2>1 DEF EmirAlike, EmirRmtNfcAboveClearingThreshold, In
<1>7. EmirRmtCompressionEventIncomplete(s) = EmirRmtCompressionEventIncomplete(r)
  <2>1. \A f \in {"prior_uti", "collateral_portfolio_code"} : s[f] = r[f]
    BY DEF EmirAlike
  <2>2. s.event_type = r.event_type
    BY DEF EmirAlike
  <2> QED BY <1>1, <2>1, <2>2 DEF EmirRmtCompressionEventIncomplete
<1> QED BY <1>1, <1>2, <1>3, <1>4, <1>5, <1>6, <1>7 DEF RiskMitigationIssues

\* All EMIR checks, over a file in which the record is replaced by the other one.
LEMMA EmirIssuesSpelling ==
    ASSUME NEW r, NEW s, EmirAlike(r, s), NEW batch, NEW copy,
           Repeated(r.uti, copy) = Repeated(r.uti, batch), NEW time
    PROVE  /\ \A i \in EmirIssues(s, copy, time) \ EmirIssues(r, batch, time) :
                 i.id \in UntrimmedRules
           /\ EmirSameBlanks(r, s) =>
                \A i \in EmirIssues(s, copy, time) \ EmirIssues(r, batch, time) : i.id \in ExactRules
<1>1. DuplicateUti(s, copy) = DuplicateUti(r, batch)
  BY DEF EmirAlike, DuplicateUti
<1>2. LateReporting(s) = LateReporting(r) /\ ValuationAfterReporting(s) = ValuationAfterReporting(r)
  BY DEF EmirAlike, LateReporting, ValuationAfterReporting
<1> QED BY <1>1, <1>2, CompletenessIssuesSpelling, ValidityIssuesSpelling, AccuracyIssuesSpelling,
           ConsistencyIssuesSpelling, RiskMitigationIssuesSpelling DEF EmirIssues

\* And all SFTR checks.
LEMMA SftrIssuesSpelling ==
    ASSUME NEW r, NEW s, SftrAlike(r, s), NEW batch, NEW copy,
           Repeated(r.uti, copy) = Repeated(r.uti, batch), NEW time
    PROVE  /\ \A i \in SftrIssues(s, copy, time) \ SftrIssues(r, batch, time) :
                 i.id \in UntrimmedRules
           /\ SftrSameBlanks(r, s) =>
                \A i \in SftrIssues(s, copy, time) \ SftrIssues(r, batch, time) : i.id \in ExactRules
<1>1. /\ SftrMissingUti(s) = SftrMissingUti(r)
      /\ SftrCollateralValueMissing(s, time) = SftrCollateralValueMissing(r, time)
      /\ SftrHaircutMissing(s) = SftrHaircutMissing(r)
      /\ SftrCounterparty1Missing(s) = SftrCounterparty1Missing(r)
      /\ SftrCounterparty2Missing(s) = SftrCounterparty2Missing(r)
      /\ SftrLoanCurrencyMissing(s) = SftrLoanCurrencyMissing(r)
  BY DEF SftrAlike, SftrMissingUti, SftrCollateralValueMissing, SftrHaircutMissing,
         SftrCounterparty1Missing, SftrCounterparty2Missing, SftrLoanCurrencyMissing,
         Outstanding
<1>2. /\ SftrCollateralCurrencyMissing(s) = SftrCollateralCurrencyMissing(r)
      /\ SftrLeiFormatRc(s) = SftrLeiFormatRc(r) /\ SftrLeiFormatOc(s) = SftrLeiFormatOc(r)
      /\ SftrLeiFormatErr(s) = SftrLeiFormatErr(r) /\ SftrCurrencyLoan(s) = SftrCurrencyLoan(r)
      /\ SftrCurrencyCollateral(s) = SftrCurrencyCollateral(r)
  BY DEF SftrAlike, SftrCollateralCurrencyMissing, SftrLeiFormatRc, SftrLeiFormatOc,
         SftrLeiFormatErr, SftrCurrencyLoan, SftrCurrencyCollateral
<1>3. /\ SftrIsinCollateral(s) = SftrIsinCollateral(r) /\ SftrNegativeLoan(s) = SftrNegativeLoan(r)
      /\ SftrNegativeCollateral(s) = SftrNegativeCollateral(r)
      /\ SftrHaircutOutOfRange(s) = SftrHaircutOutOfRange(r)
      /\ SftrLateReporting(s) = SftrLateReporting(r)
      /\ SftrSettlementBeforeExecution(s) = SftrSettlementBeforeExecution(r)
  BY DEF SftrAlike, SftrIsinCollateral, SftrNegativeLoan, SftrNegativeCollateral,
         SftrHaircutOutOfRange, SftrLateReporting, SftrSettlementBeforeExecution
<1>4. /\ SftrMaturityBeforeEffective(s) = SftrMaturityBeforeEffective(r)
      /\ SftrSftTypeMissing(s) = SftrSftTypeMissing(r) /\ SftrSftTypeEnum(s) = SftrSftTypeEnum(r)
      /\ SftrLoanPrecision(s) = SftrLoanPrecision(r)
      /\ SftrCollateralPrecision(s) = SftrCollateralPrecision(r)
      /\ SftrHaircutPrecision(s) = SftrHaircutPrecision(r)
  BY DEF SftrAlike, SftrMaturityBeforeEffective, SftrSftTypeMissing, SftrSftTypeEnum,
         SftrLoanPrecision, SftrCollateralPrecision, SftrHaircutPrecision
<1>5. /\ SftrMasterAgreementVersionFormat(s) = SftrMasterAgreementVersionFormat(r)
      /\ SftrSelfDealing(s) = SftrSelfDealing(r)
      /\ SftrLoanNeedsCurrency(s) = SftrLoanNeedsCurrency(r)
      /\ SftrCollNeedsCurrency(s) = SftrCollNeedsCurrency(r)
      /\ SftrLoanCollCurrencyMismatch(s) = SftrLoanCollCurrencyMismatch(r)
      /\ SftrRebateRequiresRepoOrBsb(s) = SftrRebateRequiresRepoOrBsb(r)
  BY DEF SftrAlike, SftrMasterAgreementVersionFormat, SftrSelfDealing, SftrLoanNeedsCurrency,
         SftrCollNeedsCurrency, SftrLoanCollCurrencyMismatch, SftrRebateRequiresRepoOrBsb
<1>6. /\ SftrLendingFeeRequiresSleb(s) = SftrLendingFeeRequiresSleb(r)
      /\ SftrReuseIndicatorRequiresPortfolio(s) = SftrReuseIndicatorRequiresPortfolio(r)
      /\ SftrEventTypeEnum(s) = SftrEventTypeEnum(r)
      /\ SftrLendingFeeNegative(s) = SftrLendingFeeNegative(r)
      /\ SftrSecurityIdentifierMissing(s) = SftrSecurityIdentifierMissing(r)
      /\ SftrMarMgldNeedsLoanValue(s) = SftrMarMgldNeedsLoanValue(r)
  BY DEF SftrAlike, SftrLendingFeeRequiresSleb, SftrReuseIndicatorRequiresPortfolio,
         SftrEventTypeEnum, SftrLendingFeeNegative, SftrSecurityIdentifierMissing,
         SftrMarMgldNeedsLoanValue, Mgld
<1>7. /\ SftrMarMgldNeedsCollateral(s) = SftrMarMgldNeedsCollateral(r)
      /\ SftrMarMgldHaircutOutOfRange(s) = SftrMarMgldHaircutOutOfRange(r)
      /\ SftrAbnormalMaturity(s, time) = SftrAbnormalMaturity(r, time)
      /\ SftrLoanAbnormalMagnitude(s) = SftrLoanAbnormalMagnitude(r)
      /\ SftrEventBeforeExecution(s) = SftrEventBeforeExecution(r)
      /\ SftrReportingBeforeExecution(s) = SftrReportingBeforeExecution(r)
  BY DEF SftrAlike, SftrMarMgldNeedsCollateral, SftrMarMgldHaircutOutOfRange,
         SftrAbnormalMaturity, SftrLoanAbnormalMagnitude, SftrEventBeforeExecution,
         SftrReportingBeforeExecution, Mgld
<1>8. /\ SftrMaturityInPast(s, time) = SftrMaturityInPast(r, time)
      /\ SftrTerminationAfterMaturity(s) = SftrTerminationAfterMaturity(r)
      /\ SftrLateReportingSettlement(s) = SftrLateReportingSettlement(r)
  BY DEF SftrAlike, SftrMaturityInPast, SftrTerminationAfterMaturity,
         SftrLateReportingSettlement
<1>9. /\ SftrActionTypeEnum(s) = SftrActionTypeEnum(r)
      /\ SftrGmraGmslaVersionPlausible(s) = SftrGmraGmslaVersionPlausible(r)
      /\ SftrMasterAgreementTypeEnum(s) = SftrMasterAgreementTypeEnum(r)
      /\ SftrMarMaruRequiresValueOrHaircut(s) = SftrMarMaruRequiresValueOrHaircut(r)
      /\ SftrMarMaruRequiresPortfolio(s) = SftrMarMaruRequiresPortfolio(r)
      /\ SftrModiPreservesUti(s) = SftrModiPreservesUti(r)
  BY DEF SftrAlike, SftrActionTypeEnum, SftrGmraGmslaVersionPlausible,
         SftrMasterAgreementTypeEnum, SftrMarMaruRequiresValueOrHaircut,
         SftrMarMaruRequiresPortfolio, SftrModiPreservesUti, In, NotIn, Blank, SameText, Maru
<1>10. SftrActionEventCompatibility(s) = SftrActionEventCompatibility(r)
  BY DEF SftrAlike, SftrActionEventCompatibility, In, NotIn, Blank
<1>11. SftrRatePrecision(s) = SftrRatePrecision(r)
  <2>1. \A f \in {"rebate_rate", "lending_fee"} : s[f] = r[f]
    BY DEF SftrAlike
  <2> QED BY <2>1 DEF SftrRatePrecision
<1>12. SftrDuplicateUti(s, copy) = SftrDuplicateUti(r, batch)
  BY DEF SftrAlike, SftrDuplicateUti
<1>13. \A j \in UNION {
        SftrNewtForbidsPriorUti(s), SftrNewtForbidsTerminationDate(s),
        SftrEtrmRequiresTerminationDate(s), SftrColuRequiresPortfolio(s),
        SftrReuuRequiresReuseIndicator(s)} :
        j.id \in UntrimmedRules
  BY DEF SftrNewtForbidsPriorUti, SftrNewtForbidsTerminationDate,
         SftrEtrmRequiresTerminationDate, SftrColuRequiresPortfolio,
         SftrReuuRequiresReuseIndicator, Issue, UntrimmedRules
<1>14. SftrSameBlanks(r, s) =>
        /\ SftrNewtForbidsPriorUti(s) = SftrNewtForbidsPriorUti(r)
        /\ SftrNewtForbidsTerminationDate(s) = SftrNewtForbidsTerminationDate(r)
        /\ SftrEtrmRequiresTerminationDate(s) = SftrEtrmRequiresTerminationDate(r)
        /\ SftrColuRequiresPortfolio(s) = SftrColuRequiresPortfolio(r)
        /\ SftrReuuRequiresReuseIndicator(s) = SftrReuuRequiresReuseIndicator(r)
  BY DEF SftrAlike, SftrSameBlanks, SftrNewtForbidsPriorUti, SftrNewtForbidsTerminationDate,
         SftrEtrmRequiresTerminationDate, SftrColuRequiresPortfolio,
         SftrReuuRequiresReuseIndicator, Untrimmed, Blank
<1>15. ExactRules \subseteq UntrimmedRules
  BY DEF UntrimmedRules
<1> QED BY <1>1, <1>2, <1>3, <1>4, <1>5, <1>6, <1>7, <1>8, <1>9, <1>10, <1>11,
           <1>12, <1>13, <1>14, <1>15 DEF SftrIssues

\* The rest of the file is the same, and so is what it says of the UTI.
LEMMA SameRepetition ==
    ASSUME NEW r, NEW s, s.uti = r.uti
    PROVE  Repeated(r.uti, <<s>> \o RestOfFile) = Repeated(r.uti, <<r>> \o RestOfFile)
<1> DEFINE copy  == <<s>> \o RestOfFile
           batch == <<r>> \o RestOfFile
<1>1. RestOfFile \in Seq([uti : Texts])
  BY RecordsAssumption
<1>2. /\ DOMAIN copy = 1..(1 + Len(RestOfFile)) /\ DOMAIN batch = 1..(1 + Len(RestOfFile))
      /\ Len(RestOfFile) \in Nat
      /\ copy[1] = s /\ batch[1] = r
      /\ \A i \in 1..(1 + Len(RestOfFile)) : i # 1 => copy[i] = batch[i]
  BY <1>1
<1> HIDE DEF copy, batch
<1>3. {i \in DOMAIN copy : SameBytes(copy[i].uti, r.uti)}
        = {i \in DOMAIN batch : SameBytes(batch[i].uti, r.uti)}
  BY <1>2
<1> QED BY <1>3 DEF Repeated, copy, batch

\* Respelling a report changes the form of codes and nothing else.
LEMMA RespelledFields ==
    ASSUME TypeOK, NEW form
    PROVE  /\ \A f \in DOMAIN report \ CodeFields : Respelled(form)[f] = report[f]
           /\ \A f \in DOMAIN report \cap CodeFields :
                 Respelled(form)[f].code = report[f].code /\ Respelled(form)[f].form = form
           /\ CodeFields \subseteq AllCodes
<1>1. CodeFields \subseteq AllCodes
  BY DEF CodeFields
<1>2. \A f \in AllCodes : FieldType(f) = Texts
  BY DEF AllCodes, FieldType, TimeFields, SumFields, NamedFields
<1>3. \A f \in DOMAIN report \cap CodeFields : report[f] \in Texts
  BY <1>1, <1>2 DEF TypeOK, IsRecord
<1>4. \A f \in DOMAIN report :
        Respelled(form)[f] =
          IF f \in CodeFields THEN [report[f] EXCEPT !.form = form] ELSE report[f]
  BY DEF Respelled
<1>5. ASSUME NEW t \in Texts
      PROVE  [t EXCEPT !.form = form].code = t.code /\ [t EXCEPT !.form = form].form = form
  BY <1>5 DEF Texts
<1> QED BY <1>1, <1>3, <1>4, <1>5

LEMMA RespelledAlike ==
    ASSUME TypeOK, NEW a, NEW b
    PROVE  /\ Alike(Respelled(a), Respelled(b), DOMAIN report)
           /\ a # "padded" /\ b # "padded" =>
                SameBlanks(Respelled(a), Respelled(b), DOMAIN report)
  BY RespelledFields DEF Alike, SameBlanks

\* What a spelling can add to the issues of another.
LEMMA SpellingAdds ==
    ASSUME TypeOK, NEW a, NEW b
    PROVE  LET found == IssuesOf(Respelled(b), now) \ IssuesOf(Respelled(a), now) IN
           /\ \A i \in found : i.id \in UntrimmedRules
           /\ a # "padded" /\ b # "padded" => \A i \in found : i.id \in ExactRules
<1> DEFINE r == Respelled(a)
           s == Respelled(b)
           batch == <<r>> \o RestOfFile
           copy  == <<s>> \o RestOfFile
<1>1. /\ Alike(r, s, DOMAIN report)
      /\ a # "padded" /\ b # "padded" => SameBlanks(r, s, DOMAIN report)
  BY RespelledAlike
<1>2. CASE EmirReport
  <2>1. DOMAIN report = EmirFields
    BY <1>2 DEF TypeOK, IsRecord
  <2>2. /\ EmirAlike(r, s)
        /\ a # "padded" /\ b # "padded" => EmirSameBlanks(r, s)
    BY <1>1, <2>1, EmirAlikeFields, EmirSameBlanksFields
  <2>3. Repeated(r.uti, copy) = Repeated(r.uti, batch)
    <3>1. s.uti = r.uti
      BY <2>2 DEF EmirAlike
    <3> HIDE DEF r, s
    <3> QED BY <3>1, SameRepetition
  <2>4. IssuesOf(r, now) = EmirIssues(r, batch, now) /\ IssuesOf(s, now) = EmirIssues(s, copy, now)
    BY <1>2 DEF IssuesOf
  <2> HIDE DEF r, s, batch, copy
  <2>5. /\ \A i \in IssuesOf(s, now) \ IssuesOf(r, now) : i.id \in UntrimmedRules
        /\ a # "padded" /\ b # "padded" =>
             \A i \in IssuesOf(s, now) \ IssuesOf(r, now) : i.id \in ExactRules
    BY <2>2, <2>3, <2>4, EmirIssuesSpelling
  <2> QED BY <2>5 DEF r, s
<1>3. CASE ~EmirReport
  <2>1. DOMAIN report = SftrFields
    BY <1>3 DEF TypeOK, IsRecord
  <2>2. /\ SftrAlike(r, s)
        /\ a # "padded" /\ b # "padded" => SftrSameBlanks(r, s)
    BY <1>1, <2>1, SftrAlikeFields, SftrSameBlanksFields
  <2>3. Repeated(r.uti, copy) = Repeated(r.uti, batch)
    <3>1. s.uti = r.uti
      BY <2>2 DEF SftrAlike
    <3> HIDE DEF r, s
    <3> QED BY <3>1, SameRepetition
  <2>4. IssuesOf(r, now) = SftrIssues(r, batch, now) /\ IssuesOf(s, now) = SftrIssues(s, copy, now)
    BY <1>3 DEF IssuesOf
  <2> HIDE DEF r, s, batch, copy
  <2>5. /\ \A i \in IssuesOf(s, now) \ IssuesOf(r, now) : i.id \in UntrimmedRules
        /\ a # "padded" /\ b # "padded" =>
             \A i \in IssuesOf(s, now) \ IssuesOf(r, now) : i.id \in ExactRules
    BY <2>2, <2>3, <2>4, SftrIssuesSpelling
  <2> QED BY <2>5 DEF r, s
<1> QED BY <1>2, <1>3

\* Writing an accepted code in lower case, or with blanks around it, changes
\* what is found by the rules named in ExactRules and in UntrimmedRules only
\* (SpellingMatters).
THEOREM SpellingIsSeenByFewRules == Spec => []SpellingMatters
<1>1. TypeOK => SpellingMatters
  <2> SUFFICES ASSUME TypeOK PROVE SpellingMatters
    OBVIOUS
  <2> DEFINE As(form) == IssuesOf(Respelled(form), now)
  <2>1. /\ \A i \in As("lower") \ As("plain") : i.id \in ExactRules
        /\ \A i \in As("plain") \ As("lower") : i.id \in ExactRules
    BY SpellingAdds
  <2>2. /\ \A i \in As("padded") \ As("plain") : i.id \in UntrimmedRules
        /\ \A i \in As("plain") \ As("padded") : i.id \in UntrimmedRules
    BY SpellingAdds
  <2> HIDE DEF As
  <2>3. /\ \A id \in Ids(As("lower")) \ Ids(As("plain")) : id \in ExactRules
        /\ \A id \in Ids(As("plain")) \ Ids(As("lower")) : id \in ExactRules
        /\ \A id \in Ids(As("padded")) \ Ids(As("plain")) : id \in UntrimmedRules
        /\ \A id \in Ids(As("plain")) \ Ids(As("padded")) : id \in UntrimmedRules
    BY <2>1, <2>2 DEF Ids
  <2> QED BY <2>3 DEF SpellingMatters, As
<1> QED BY <1>1, RecordsTypeOK, PTL

----------------------------------------------------------------------------
(* A cure for every issue *)

\* An issue is raised by a check that names its field.
EmirRaised(k, r, batch, time) ==
    /\ k.field = "uti" => k \in UNION {MissingUti(r), DuplicateUti(r, batch)}
    /\ k.field = "valuation_amount" =>
         k \in UNION {MissingValuation(r, time), ValuationPrecision(r),
                      ValuationPrecisionByCurrency(r), MtmChangeRequiresValuation(r),
                      ValuRequiresValuation(r), EtrmRequiresValuation(r)}
    /\ k.field = "counterparty_1" => k \in UNION {Counterparty1Missing(r), LeiFormatRc(r)}
    /\ k.field = "counterparty_2" =>
         k \in UNION {Counterparty2Missing(r), LeiFormatOc(r), SelfDealing(r)}
    /\ k.field = "notional_currency" =>
         k \in UNION {NotionalCurrencyMissing(r), CurrencyNotional(r)}
    /\ k.field = "valuation_currency" =>
         k \in UNION {ValuationCurrencyMissing(r), CurrencyValuation(r),
                      NotionalValCurrencyMismatch(r), PriceValCurrencyMismatch(r)}
    /\ k.field = "valuation_timestamp" =>
         k \in UNION {ValuationTimestampMissing(r), ValuationAfterReporting(r),
                      ValuationAfterTermination(r), EmirRmtDailyValuationMissing(r, time)}
    /\ k.field = "clearing_status" =>
         k \in UNION {ClearingStatusMissing(r), ClearingStatusEnum(r)}
    /\ k.field = "intragroup_indicator" =>
         k \in UNION {IntragroupIndicatorMissing(r), EmirRmtIntragroupNeedsIndicator(r)}
    /\ k.field = "nature" =>
         k \in UNION {NatureMissing(r), NatureEnum(r), EmirRmtNfcAboveClearingThreshold(r)}
    /\ k.field = "trading_capacity" =>
         k \in UNION {TradingCapacityMissing(r), TradingCapacityEnum(r)}
    /\ k.field = "master_agreement_type" =>
         k \in UNION {MasterAgreementTypeMissing(r), MasterAgreementTypeEnum(r),
                      EmirRmtMasterAgreementRequired(r)}
    /\ k.field = "master_agreement_version" =>
         k \in UNION {MasterAgreementVersionMissing(r), MasterAgreementVersionFormat(r),
                      IsdaVersionPlausible(r)}
    /\ k.field = "asset_class" => k \in UNION {AssetClassMissing(r), AssetClassEnum(r)}
    /\ k.field = "product_id" =>
         k \in UNION {ProductIdMissing(r), CommodityBaseEnum(r), CommodityRequiresProductId(r)}
    /\ k.field = "initial_margin_posted" =>
         k \in UNION {InitialMarginMissingForFull(r), MarginPrecision(r),
                      NegativeInitialMarginPosted(r)}
    /\ k.field = "variation_margin_posted" =>
         k \in UNION {VariationMarginMissingForFull(r), MarginPrecision(r),
                      NegativeVariationMarginPosted(r)}
    /\ k.field = "collateral_portfolio_code" =>
         k \in UNION {CollateralPortfolioRequiredForFull(r), ImNeedsCollateralPortfolio(r),
                      VmNeedsCollateralPortfolio(r), MaruRequiresPortfolio(r),
                      PoscRequiresPortfolio(r), EmirRmtPortfolioReconciliationMissing(r),
                      EmirRmtCompressionEventIncomplete(r)}
    /\ k.field = "entity_responsible_for_reporting" => k \in UNION {LeiFormatErr(r)}
    /\ k.field = "clearing_ccp_lei" =>
         k \in UNION {LeiFormatCcp(r), ClearedRequiresCcp(r), NclrForbidsCcp(r)}
    /\ k.field = "action_type" => k \in UNION {ActionTypeEnum(r), MaruRequiresMargin(r)}
    /\ k.field = "event_type" => k \in UNION {EventTypeEnum(r), ActionEventCompatibility(r)}
    /\ k.field = "valuation_type" => k \in UNION {ValuationTypeEnum(r)}
    /\ k.field = "collateralisation_category" =>
         k \in UNION {CollateralisationCategoryEnum(r), EmirRmtCollateralCategoryRequired(r)}
    /\ k.field = "corporate_sector" => k \in UNION {EmirCorporateSectorEnum(r)}
    /\ k.field = "reporting_obligation_indicator" =>
         k \in UNION {EmirReportingObligationIndicatorEnum(r)}
    /\ k.field = "notional_amount" =>
         k \in UNION {NotionalPrecision(r), NotionalPrecisionByCurrency(r), ZeroNotional(r),
                      NegativeNotional(r), NotionalAbnormalMagnitude(r), IrRequiresNotional(r)}
    /\ k.field = "price" =>
         k \in UNION {PricePrecision(r), PricePrecisionByCurrency(r), EmirPriceNegative(r)}
    /\ k.field = "initial_margin_collected" =>
         k \in UNION {MarginPrecision(r), NegativeInitialMarginCollected(r)}
    /\ k.field = "variation_margin_collected" =>
         k \in UNION {MarginPrecision(r), NegativeVariationMarginCollected(r)}
    /\ k.field = "underlying_id" =>
         k \in UNION {CreditSectorEnum(r), EqRequiresUnderlying(r), CrRequiresUnderlying(r)}
    /\ k.field = "maturity_date" =>
         k \in UNION {AbnormalMaturity(r, time), MaturityInPast(r, time)}
    /\ k.field = "leg1_payment_frequency" => k \in UNION {IrRequiresLeg1Freq(r)}
    /\ k.field = "leg2_notional_currency" =>
         k \in UNION {FxRequiresLeg2Currency(r), Leg1Leg2SameCurrency(r),
                      Leg2NotionalNeedsCurrency(r)}
    /\ k.field = "delta" => k \in UNION {EmirDeltaOutOfRange(r)}
    /\ k.field = "gamma" => k \in UNION {EmirGammaNegative(r)}
    /\ k.field = "reporting_timestamp" =>
         k \in UNION {LateReporting(r), ReportingBeforeExecution(r), EmirRmtLateConfirmation(r)}
    /\ k.field = "event_timestamp" => k \in UNION {EventBeforeExecution(r)}
    /\ k.field = "termination_date" =>
         k \in UNION {TerminationAfterMaturity(r), EtrmRequiresTerminationDate(r),
                      NewtForbidsTerminationDate(r)}
    /\ k.field = "effective_date" => k \in UNION {EffectiveAfterMaturity(r)}
    /\ k.field = "price_currency" => k \in UNION {PriceRequiresCurrency(r)}
    /\ k.field = "hedging_indicator" => k \in UNION {HedgingRequiresNfc(r)}
    /\ k.field = "commercial_or_treasury_financing" =>
         k \in UNION {EmirCommercialOrTreasuryRequiresNfc(r)}
    /\ k.field = "prior_uti" =>
         k \in UNION {NewtForbidsPriorUti(r), ModiPreservesUti(r),
                      EmirRmtCompressionEventIncomplete(r)}
    /\ k.field = "confirmation_method" => k \in UNION {EmirRmtUnclearedNeedsConfirmation(r)}
    /\ k.field = "variation_margin" => k \in UNION {EmirRmtVariationMarginMissing(r)}
    /\ k.field = "initial_margin" => k \in UNION {EmirRmtInitialMarginThreshold(r)}
    /\ k.field \in {"uti", "valuation_amount", "counterparty_1", "counterparty_2",
                    "notional_currency", "valuation_currency", "valuation_timestamp",
                    "clearing_status", "intragroup_indicator", "nature", "trading_capacity",
                    "master_agreement_type", "master_agreement_version", "asset_class",
                    "product_id", "initial_margin_posted", "variation_margin_posted",
                    "collateral_portfolio_code", "entity_responsible_for_reporting",
                    "clearing_ccp_lei", "action_type", "event_type", "valuation_type",
                    "collateralisation_category", "corporate_sector",
                    "reporting_obligation_indicator", "notional_amount", "price",
                    "initial_margin_collected", "variation_margin_collected", "underlying_id",
                    "maturity_date", "leg1_payment_frequency", "leg2_notional_currency", "delta",
                    "gamma", "reporting_timestamp", "event_timestamp", "termination_date",
                    "effective_date", "price_currency", "hedging_indicator",
                    "commercial_or_treasury_financing", "prior_uti", "confirmation_method",
                    "variation_margin", "initial_margin"}

LEMMA CompletenessIssuesRaised ==
    ASSUME NEW r, NEW batch, NEW time, NEW k \in CompletenessIssues(r, time)
    PROVE  EmirRaised(k, r, batch, time)
<1>1. CASE k \in UNION {MissingUti(r), MissingValuation(r, time), Counterparty1Missing(r),
          Counterparty2Missing(r), NotionalCurrencyMissing(r), ValuationCurrencyMissing(r)}
  <2>1. /\ \A j \in MissingUti(r) : j.field = "uti"
        /\ \A j \in MissingValuation(r, time) : j.field = "valuation_amount"
        /\ \A j \in Counterparty1Missing(r) : j.field = "counterparty_1"
        /\ \A j \in Counterparty2Missing(r) : j.field = "counterparty_2"
        /\ \A j \in NotionalCurrencyMissing(r) : j.field = "notional_currency"
        /\ \A j \in ValuationCurrencyMissing(r) : j.field = "valuation_currency"
    BY DEF MissingUti, MissingValuation, Counterparty1Missing, Counterparty2Missing,
           NotionalCurrencyMissing, ValuationCurrencyMissing, Issue
  <2> QED BY <1>1, <2>1 DEF EmirRaised
<1>2. CASE k \in UNION {ValuationTimestampMissing(r), ClearingStatusMissing(r),
          IntragroupIndicatorMissing(r), NatureMissing(r), TradingCapacityMissing(r),
          MasterAgreementTypeMissing(r)}
  <2>1. /\ \A j \in ValuationTimestampMissing(r) : j.field = "valuation_timestamp"
        /\ \A j \in ClearingStatusMissing(r) : j.field = "clearing_status"
        /\ \A j \in IntragroupIndicatorMissing(r) : j.field = "intragroup_indicator"
        /\ \A j \in NatureMissing(r) : j.field = "nature"
        /\ \A j \in TradingCapacityMissing(r) : j.field = "trading_capacity"
        /\ \A j \in MasterAgreementTypeMissing(r) : j.field = "master_agreement_type"
    BY DEF ValuationTimestampMissing, ClearingStatusMissing, IntragroupIndicatorMissing,
           NatureMissing, TradingCapacityMissing, MasterAgreementTypeMissing, Issue
  <2> QED BY <1>2, <2>1 DEF EmirRaised
<1>3. CASE k \in UNION {MasterAgreementVersionMissing(r), AssetClassMissing(r),
          ProductIdMissing(r), InitialMarginMissingForFull(r), VariationMarginMissingForFull(r),
          CollateralPortfolioRequiredForFull(r)}
  <2>1. /\ \A j \in MasterAgreementVersionMissing(r) : j.field = "master_agreement_version"
        /\ \A j \in AssetClassMissing(r) : j.field = "asset_class"
        /\ \A j \in ProductIdMissing(r) : j.field = "product_id"
        /\ \A j \in InitialMarginMissingForFull(r) : j.field = "initial_margin_posted"
        /\ \A j \in VariationMarginMissingForFull(r) : j.field = "variation_margin_posted"
        /\ \A j \in CollateralPortfolioRequiredForFull(r) : j.field = "collateral_portfolio_code"
    BY DEF MasterAgreementVersionMissing, AssetClassMissing, ProductIdMissing,
           InitialMarginMissingForFull, VariationMarginMissingForFull,
           CollateralPortfolioRequiredForFull, Issue
  <2> QED BY <1>3, <2>1 DEF EmirRaised
<1> QED BY <1>1, <1>2, <1>3 DEF CompletenessIssues

LEMMA ValidityIssuesRaised ==
    ASSUME NEW r, NEW batch, NEW time, NEW k \in ValidityIssues(r)
    PROVE  EmirRaised(k, r, batch, time)
<1>1. CASE k \in UNION {LeiFormatRc(r), LeiFormatOc(r), LeiFormatErr(r), LeiFormatCcp(r),
          CurrencyNotional(r), CurrencyValuation(r)}
  <2>1. /\ \A j \in LeiFormatRc(r) : j.field = "counterparty_1"
        /\ \A j \in LeiFormatOc(r) : j.field = "counterparty_2"
        /\ \A j \in LeiFormatErr(r) : j.field = "entity_responsible_for_reporting"
        /\ \A j \in LeiFormatCcp(r) : j.field = "clearing_ccp_lei"
        /\ \A j \in CurrencyNotional(r) : j.field = "notional_currency"
        /\ \A j \in CurrencyValuation(r) : j.field = "valuation_currency"
    BY DEF LeiFormatRc, LeiFormatOc, LeiFormatErr, LeiFormatCcp, CurrencyNotional,
           CurrencyValuation, Issue
  <2> QED BY <1>1, <2>1 DEF EmirRaised
<1>2. CASE k \in UNION {ActionTypeEnum(r), EventTypeEnum(r), ValuationTypeEnum(r),
          TradingCapacityEnum(r), AssetClassEnum(r), NatureEnum(r)}
  <2>1. /\ \A j \in ActionTypeEnum(r) : j.field = "action_type"
        /\ \A j \in EventTypeEnum(r) : j.field = "event_type"
        /\ \A j \in ValuationTypeEnum(r) : j.field = "valuation_type"
        /\ \A j \in TradingCapacityEnum(r) : j.field = "trading_capacity"
        /\ \A j \in AssetClassEnum(r) : j.field = "asset_class"
        /\ \A j \in NatureEnum(r) : j.field = "nature"
    BY DEF ActionTypeEnum, EventTypeEnum, ValuationTypeEnum, TradingCapacityEnum, AssetClassEnum,
           NatureEnum, Issue
  <2> QED BY <1>2, <2>1 DEF EmirRaised
<1>3. CASE k \in UNION {MasterAgreementTypeEnum(r), CollateralisationCategoryEnum(r),
          ClearingStatusEnum(r), EmirCorporateSectorEnum(r),
          EmirReportingObligationIndicatorEnum(r), NotionalPrecision(r)}
  <2>1. /\ \A j \in MasterAgreementTypeEnum(r) : j.field = "master_agreement_type"
        /\ \A j \in CollateralisationCategoryEnum(r) : j.field = "collateralisation_category"
        /\ \A j \in ClearingStatusEnum(r) : j.field = "clearing_status"
        /\ \A j \in EmirCorporateSectorEnum(r) : j.field = "corporate_sector"
        /\ \A j \in EmirReportingObligationIndicatorEnum(r) :
                 j.field = "reporting_obligation_indicator"
        /\ \A j \in NotionalPrecision(r) : j.field = "notional_amount"
    BY DEF MasterAgreementTypeEnum, CollateralisationCategoryEnum, ClearingStatusEnum,
           EmirCorporateSectorEnum, EmirReportingObligationIndicatorEnum, NotionalPrecision,
           Issue
  <2> QED BY <1>3, <2>1 DEF EmirRaised
<1>4. CASE k \in UNION {ValuationPrecision(r), PricePrecision(r), MarginPrecision(r),
          NotionalPrecisionByCurrency(r), ValuationPrecisionByCurrency(r),
          PricePrecisionByCurrency(r)}
  <2>1. /\ \A j \in ValuationPrecision(r) : j.field = "valuation_amount"
        /\ \A j \in PricePrecision(r) : j.field = "price"
        /\ \A j \in MarginPrecision(r) :
                 j.field \in {"initial_margin_posted", "initial_margin_collected", "variation_margin_posted", "variation_margin_collected"}
        /\ \A j \in NotionalPrecisionByCurrency(r) : j.field = "notional_amount"
        /\ \A j \in ValuationPrecisionByCurrency(r) : j.field = "valuation_amount"
        /\ \A j \in PricePrecisionByCurrency(r) : j.field = "price"
    BY DEF ValuationPrecision, PricePrecision, MarginPrecision, NotionalPrecisionByCurrency,
           ValuationPrecisionByCurrency, PricePrecisionByCurrency, Issue, MarginFields
  <2> QED BY <1>4, <2>1 DEF EmirRaised
<1>5. CASE k \in UNION {MasterAgreementVersionFormat(r), IsdaVersionPlausible(r),
          CommodityBaseEnum(r), CreditSectorEnum(r)}
  <2>1. /\ \A j \in MasterAgreementVersionFormat(r) : j.field = "master_agreement_version"
        /\ \A j \in IsdaVersionPlausible(r) : j.field = "master_agreement_version"
        /\ \A j \in CommodityBaseEnum(r) : j.field = "product_id"
        /\ \A j \in CreditSectorEnum(r) : j.field = "underlying_id"
    BY DEF MasterAgreementVersionFormat, IsdaVersionPlausible, CommodityBaseEnum,
           CreditSectorEnum, Issue
  <2> QED BY <1>5, <2>1 DEF EmirRaised
<1> QED BY <1>1, <1>2, <1>3, <1>4, <1>5 DEF ValidityIssues

LEMMA AccuracyIssuesRaised ==
    ASSUME NEW r, NEW batch, NEW time, NEW k \in AccuracyIssues(r, time)
    PROVE  EmirRaised(k, r, batch, time)
<1>1. CASE k \in UNION {AbnormalMaturity(r, time), ZeroNotional(r), NegativeNotional(r),
          NegativeInitialMarginPosted(r), NegativeInitialMarginCollected(r),
          NegativeVariationMarginPosted(r)}
  <2>1. /\ \A j \in AbnormalMaturity(r, time) : j.field = "maturity_date"
        /\ \A j \in ZeroNotional(r) : j.field = "notional_amount"
        /\ \A j \in NegativeNotional(r) : j.field = "notional_amount"
        /\ \A j \in NegativeInitialMarginPosted(r) : j.field = "initial_margin_posted"
        /\ \A j \in NegativeInitialMarginCollected(r) : j.field = "initial_margin_collected"
        /\ \A j \in NegativeVariationMarginPosted(r) : j.field = "variation_margin_posted"
    BY DEF AbnormalMaturity, ZeroNotional, NegativeNotional, NegativeInitialMarginPosted,
           NegativeInitialMarginCollected, NegativeVariationMarginPosted, Issue
  <2> QED BY <1>1, <2>1 DEF EmirRaised
<1>2. CASE k \in UNION {NegativeVariationMarginCollected(r), NotionalAbnormalMagnitude(r),
          IrRequiresNotional(r), IrRequiresLeg1Freq(r), FxRequiresLeg2Currency(r),
          EqRequiresUnderlying(r)}
  <2>1. /\ \A j \in NegativeVariationMarginCollected(r) : j.field = "variation_margin_collected"
        /\ \A j \in NotionalAbnormalMagnitude(r) : j.field = "notional_amount"
        /\ \A j \in IrRequiresNotional(r) : j.field = "notional_amount"
        /\ \A j \in IrRequiresLeg1Freq(r) : j.field = "leg1_payment_frequency"
        /\ \A j \in FxRequiresLeg2Currency(r) : j.field = "leg2_notional_currency"
        /\ \A j \in EqRequiresUnderlying(r) : j.field = "underlying_id"
    BY DEF NegativeVariationMarginCollected, NotionalAbnormalMagnitude, IrRequiresNotional,
           IrRequiresLeg1Freq, FxRequiresLeg2Currency, EqRequiresUnderlying, Issue
  <2> QED BY <1>2, <2>1 DEF EmirRaised
<1>3. CASE k \in UNION {CrRequiresUnderlying(r), CommodityRequiresProductId(r),
          EmirPriceNegative(r), EmirDeltaOutOfRange(r), EmirGammaNegative(r)}
  <2>1. /\ \A j \in CrRequiresUnderlying(r) : j.field = "underlying_id"
        /\ \A j \in CommodityRequiresProductId(r) : j.field = "product_id"
        /\ \A j \in EmirPriceNegative(r) : j.field = "price"
        /\ \A j \in EmirDeltaOutOfRange(r) : j.field = "delta"
        /\ \A j \in EmirGammaNegative(r) : j.field = "gamma"
    BY DEF CrRequiresUnderlying, CommodityRequiresProductId, EmirPriceNegative,
           EmirDeltaOutOfRange, EmirGammaNegative, Issue
  <2> QED BY <1>3, <2>1 DEF EmirRaised
<1> QED BY <1>1, <1>2, <1>3 DEF AccuracyIssues

LEMMA ConsistencyIssuesRaised ==
    ASSUME NEW r, NEW batch, NEW time, NEW k \in ConsistencyIssues(r, time)
    PROVE  EmirRaised(k, r, batch, time)
<1>1. CASE k \in UNION {ReportingBeforeExecution(r), EventBeforeExecution(r),
          ValuationAfterTermination(r), MaturityInPast(r, time), TerminationAfterMaturity(r),
          EffectiveAfterMaturity(r)}
  <2>1. /\ \A j \in ReportingBeforeExecution(r) : j.field = "reporting_timestamp"
        /\ \A j \in EventBeforeExecution(r) : j.field = "event_timestamp"
        /\ \A j \in ValuationAfterTermination(r) : j.field = "valuation_timestamp"
        /\ \A j \in MaturityInPast(r, time) : j.field = "maturity_date"
        /\ \A j \in TerminationAfterMaturity(r) : j.field = "termination_date"
        /\ \A j \in EffectiveAfterMaturity(r) : j.field = "effective_date"
    BY DEF ReportingBeforeExecution, EventBeforeExecution, ValuationAfterTermination,
           MaturityInPast, TerminationAfterMaturity, EffectiveAfterMaturity, Issue
  <2> QED BY <1>1, <2>1 DEF EmirRaised
<1>2. CASE k \in UNION {ClearedRequiresCcp(r), NclrForbidsCcp(r), NotionalValCurrencyMismatch(r),
          PriceValCurrencyMismatch(r), Leg1Leg2SameCurrency(r), SelfDealing(r)}
  <2>1. /\ \A j \in ClearedRequiresCcp(r) : j.field = "clearing_ccp_lei"
        /\ \A j \in NclrForbidsCcp(r) : j.field = "clearing_ccp_lei"
        /\ \A j \in NotionalValCurrencyMismatch(r) : j.field = "valuation_currency"
        /\ \A j \in PriceValCurrencyMismatch(r) : j.field = "valuation_currency"
        /\ \A j \in Leg1Leg2SameCurrency(r) : j.field = "leg2_notional_currency"
        /\ \A j \in SelfDealing(r) : j.field = "counterparty_2"
    BY DEF ClearedRequiresCcp, NclrForbidsCcp, NotionalValCurrencyMismatch,
           PriceValCurrencyMismatch, Leg1Leg2SameCurrency, SelfDealing, Issue
  <2> QED BY <1>2, <2>1 DEF EmirRaised
<1>3. CASE k \in UNION {PriceRequiresCurrency(r), ImNeedsCollateralPortfolio(r),
          VmNeedsCollateralPortfolio(r), Leg2NotionalNeedsCurrency(r), HedgingRequiresNfc(r),
          EmirCommercialOrTreasuryRequiresNfc(r)}
  <2>1. /\ \A j \in PriceRequiresCurrency(r) : j.field = "price_currency"
        /\ \A j \in ImNeedsCollateralPortfolio(r) : j.field = "collateral_portfolio_code"
        /\ \A j \in VmNeedsCollateralPortfolio(r) : j.field = "collateral_portfolio_code"
        /\ \A j \in Leg2NotionalNeedsCurrency(r) : j.field = "leg2_notional_currency"
        /\ \A j \in HedgingRequiresNfc(r) : j.field = "hedging_indicator"
        /\ \A j \in EmirCommercialOrTreasuryRequiresNfc(r) :
                 j.field = "commercial_or_treasury_financing"
    BY DEF PriceRequiresCurrency, ImNeedsCollateralPortfolio, VmNeedsCollateralPortfolio,
           Leg2NotionalNeedsCurrency, HedgingRequiresNfc, EmirCommercialOrTreasuryRequiresNfc,
           Issue
  <2> QED BY <1>3, <2>1 DEF EmirRaised
<1>4. CASE k \in UNION {MtmChangeRequiresValuation(r), MaruRequiresMargin(r),
          MaruRequiresPortfolio(r), PoscRequiresPortfolio(r), ValuRequiresValuation(r),
          EtrmRequiresTerminationDate(r)}
  <2>1. /\ \A j \in MtmChangeRequiresValuation(r) : j.field = "valuation_amount"
        /\ \A j \in MaruRequiresMargin(r) : j.field = "action_type"
        /\ \A j \in MaruRequiresPortfolio(r) : j.field = "collateral_portfolio_code"
        /\ \A j \in PoscRequiresPortfolio(r) : j.field = "collateral_portfolio_code"
        /\ \A j \in ValuRequiresValuation(r) : j.field = "valuation_amount"
        /\ \A j \in EtrmRequiresTerminationDate(r) : j.field = "termination_date"
    BY DEF MtmChangeRequiresValuation, MaruRequiresMargin, MaruRequiresPortfolio,
           PoscRequiresPortfolio, ValuRequiresValuation, EtrmRequiresTerminationDate, Issue
  <2> QED BY <1>4, <2>1 DEF EmirRaised
<1>5. CASE k \in UNION {EtrmRequiresValuation(r), NewtForbidsPriorUti(r),
          NewtForbidsTerminationDate(r), ModiPreservesUti(r), ActionEventCompatibility(r)}
  <2>1. /\ \A j \in EtrmRequiresValuation(r) : j.field = "valuation_amount"
        /\ \A j \in NewtForbidsPriorUti(r) : j.field = "prior_uti"
        /\ \A j \in NewtForbidsTerminationDate(r) : j.field = "termination_date"
        /\ \A j \in ModiPreservesUti(r) : j.field = "prior_uti"
        /\ \A j \in ActionEventCompatibility(r) : j.field = "event_type"
    BY DEF EtrmRequiresValuation, NewtForbidsPriorUti, NewtForbidsTerminationDate,
           ModiPreservesUti, ActionEventCompatibility, Issue
  <2> QED BY <1>5, <2>1 DEF EmirRaised
<1> QED BY <1>1, <1>2, <1>3, <1>4, <1>5 DEF ConsistencyIssues

LEMMA RiskMitigationIssuesRaised ==
    ASSUME NEW r, NEW batch, NEW time, NEW k \in RiskMitigationIssues(r, time)
    PROVE  EmirRaised(k, r, batch, time)
<1>1. CASE k \in UNION {EmirRmtUnclearedNeedsConfirmation(r), EmirRmtLateConfirmation(r),
          EmirRmtPortfolioReconciliationMissing(r), EmirRmtDailyValuationMissing(r, time),
          EmirRmtVariationMarginMissing(r), EmirRmtInitialMarginThreshold(r)}
  <2>1. /\ \A j \in EmirRmtUnclearedNeedsConfirmation(r) : j.field = "confirmation_method"
        /\ \A j \in EmirRmtLateConfirmation(r) : j.field = "reporting_timestamp"
        /\ \A j \in EmirRmtPortfolioReconciliationMissing(r) :
                 j.field = "collateral_portfolio_code"
        /\ \A j \in EmirRmtDailyValuationMissing(r, time) : j.field = "valuation_timestamp"
        /\ \A j \in EmirRmtVariationMarginMissing(r) : j.field = "variation_margin"
        /\ \A j \in EmirRmtInitialMarginThreshold(r) : j.field = "initial_margin"
    BY DEF EmirRmtUnclearedNeedsConfirmation, EmirRmtLateConfirmation,
           EmirRmtPortfolioReconciliationMissing, EmirRmtDailyValuationMissing,
           EmirRmtVariationMarginMissing, EmirRmtInitialMarginThreshold, Issue
  <2> QED BY <1>1, <2>1 DEF EmirRaised
<1>2. CASE k \in UNION {EmirRmtCollateralCategoryRequired(r),
          EmirRmtNfcAboveClearingThreshold(r), EmirRmtIntragroupNeedsIndicator(r),
          EmirRmtMasterAgreementRequired(r), EmirRmtCompressionEventIncomplete(r)}
  <2>1. /\ \A j \in EmirRmtCollateralCategoryRequired(r) : j.field = "collateralisation_category"
        /\ \A j \in EmirRmtNfcAboveClearingThreshold(r) : j.field = "nature"
        /\ \A j \in EmirRmtIntragroupNeedsIndicator(r) : j.field = "intragroup_indicator"
        /\ \A j \in EmirRmtMasterAgreementRequired(r) : j.field = "master_agreement_type"
        /\ \A j \in EmirRmtCompressionEventIncomplete(r) :
                 j.field \in {"prior_uti", "collateral_portfolio_code"}
    BY DEF EmirRmtCollateralCategoryRequired, EmirRmtNfcAboveClearingThreshold,
           EmirRmtIntragroupNeedsIndicator, EmirRmtMasterAgreementRequired,
           EmirRmtCompressionEventIncomplete, Issue
  <2> QED BY <1>2, <2>1 DEF EmirRaised
<1> QED BY <1>1, <1>2 DEF RiskMitigationIssues

LEMMA EmirIssuesRaised ==
    ASSUME NEW r, NEW batch, NEW time, NEW k \in EmirIssues(r, batch, time)
    PROVE  EmirRaised(k, r, batch, time)
<1>1. CASE k \in UNION {DuplicateUti(r, batch), LateReporting(r), ValuationAfterReporting(r)}
  <2>1. /\ \A j \in DuplicateUti(r, batch) : j.field = "uti"
        /\ \A j \in LateReporting(r) : j.field = "reporting_timestamp"
        /\ \A j \in ValuationAfterReporting(r) : j.field = "valuation_timestamp"
    BY DEF DuplicateUti, LateReporting, ValuationAfterReporting, Issue
  <2> QED BY <1>1, <2>1 DEF EmirRaised
<1> QED BY <1>1, CompletenessIssuesRaised, ValidityIssuesRaised, AccuracyIssuesRaised,
           ConsistencyIssuesRaised, RiskMitigationIssuesRaised DEF EmirIssues

\* The same of the SFTR checks.
SftrRaised(k, r, batch, time) ==
    /\ k.field = "uti" => k \in UNION {SftrMissingUti(r), SftrDuplicateUti(r, batch)}
    /\ k.field = "collateral_value" =>
         k \in UNION {SftrCollateralValueMissing(r, time), SftrCollateralPrecision(r),
                      SftrNegativeCollateral(r), SftrMarMgldNeedsCollateral(r)}
    /\ k.field = "haircut" =>
         k \in UNION {SftrHaircutMissing(r), SftrHaircutPrecision(r), SftrHaircutOutOfRange(r),
                      SftrMarMgldHaircutOutOfRange(r)}
    /\ k.field = "counterparty_1" =>
         k \in UNION {SftrCounterparty1Missing(r), SftrLeiFormatRc(r)}
    /\ k.field = "counterparty_2" =>
         k \in UNION {SftrCounterparty2Missing(r), SftrLeiFormatOc(r), SftrSelfDealing(r)}
    /\ k.field = "loan_currency" =>
         k \in UNION {SftrLoanCurrencyMissing(r), SftrLoanNeedsCurrency(r), SftrCurrencyLoan(r)}
    /\ k.field = "collateral_currency" =>
         k \in UNION {SftrCollateralCurrencyMissing(r), SftrCollNeedsCurrency(r),
                      SftrCurrencyCollateral(r), SftrLoanCollCurrencyMismatch(r)}
    /\ k.field = "sft_type" => k \in UNION {SftrSftTypeMissing(r), SftrSftTypeEnum(r)}
    /\ k.field = "security_identifier" => k \in UNION {SftrSecurityIdentifierMissing(r)}
    /\ k.field = "entity_responsible_for_reporting" => k \in UNION {SftrLeiFormatErr(r)}
    /\ k.field = "collateral_isin" => k \in UNION {SftrIsinCollateral(r)}
    /\ k.field = "action_type" =>
         k \in UNION {SftrActionTypeEnum(r), SftrMarMaruRequiresValueOrHaircut(r)}
    /\ k.field = "event_type" =>
         k \in UNION {SftrEventTypeEnum(r), SftrActionEventCompatibility(r)}
    /\ k.field = "master_agreement_type" => k \in UNION {SftrMasterAgreementTypeEnum(r)}
    /\ k.field = "master_agreement_version" =>
         k \in UNION {SftrMasterAgreementVersionFormat(r), SftrGmraGmslaVersionPlausible(r)}
    /\ k.field = "loan_value" =>
         k \in UNION {SftrLoanPrecision(r), SftrNegativeLoan(r), SftrLoanAbnormalMagnitude(r),
                      SftrMarMgldNeedsLoanValue(r)}
    /\ k.field = "rebate_rate" =>
         k \in UNION {SftrRatePrecision(r), SftrRebateRequiresRepoOrBsb(r)}
    /\ k.field = "lending_fee" =>
         k \in UNION {SftrRatePrecision(r), SftrLendingFeeNegative(r),
                      SftrLendingFeeRequiresSleb(r)}
    /\ k.field = "maturity_date" =>
         k \in UNION {SftrAbnormalMaturity(r, time), SftrMaturityBeforeEffective(r),
                      SftrMaturityInPast(r, time)}
    /\ k.field = "reporting_timestamp" =>
         k \in UNION {SftrLateReporting(r), SftrReportingBeforeExecution(r)}
    /\ k.field = "settlement_date" =>
         k \in UNION {SftrLateReportingSettlement(r), SftrSettlementBeforeExecution(r)}
    /\ k.field = "event_timestamp" => k \in UNION {SftrEventBeforeExecution(r)}
    /\ k.field = "termination_date" =>
         k \in UNION {SftrTerminationAfterMaturity(r), SftrNewtForbidsTerminationDate(r),
                      SftrEtrmRequiresTerminationDate(r)}
    /\ k.field = "prior_uti" => k \in UNION {SftrNewtForbidsPriorUti(r), SftrModiPreservesUti(r)}
    /\ k.field = "collateral_portfolio_code" =>
         k \in UNION {SftrColuRequiresPortfolio(r), SftrReuseIndicatorRequiresPortfolio(r),
                      SftrMarMaruRequiresPortfolio(r)}
    /\ k.field = "reuse_indicator" => k \in UNION {SftrReuuRequiresReuseIndicator(r)}
    /\ k.field \in {"uti", "collateral_value", "haircut", "counterparty_1", "counterparty_2",
                    "loan_currency", "collateral_currency", "sft_type", "security_identifier",
                    "entity_responsible_for_reporting", "collateral_isin", "action_type",
                    "event_type", "master_agreement_type", "master_agreement_version",
                    "loan_value", "rebate_rate", "lending_fee", "maturity_date",
                    "reporting_timestamp", "settlement_date", "event_timestamp",
                    "termination_date", "prior_uti", "collateral_portfolio_code",
                    "reuse_indicator"}

LEMMA SftrIssuesRaised ==
    ASSUME NEW r, NEW batch, NEW time, NEW k \in SftrIssues(r, batch, time)
    PROVE  SftrRaised(k, r, batch, time)
<1>1. CASE k \in UNION {SftrMissingUti(r), SftrCollateralValueMissing(r, time),
          SftrHaircutMissing(r), SftrCounterparty1Missing(r), SftrCounterparty2Missing(r),
          SftrLoanCurrencyMissing(r)}
  <2>1. /\ \A j \in SftrMissingUti(r) : j.field = "uti"
        /\ \A j \in SftrCollateralValueMissing(r, time) : j.field = "collateral_value"
        /\ \A j \in SftrHaircutMissing(r) : j.field = "haircut"
        /\ \A j \in SftrCounterparty1Missing(r) : j.field = "counterparty_1"
        /\ \A j \in SftrCounterparty2Missing(r) : j.field = "counterparty_2"
        /\ \A j \in SftrLoanCurrencyMissing(r) : j.field = "loan_currency"
    BY DEF SftrMissingUti, SftrCollateralValueMissing, SftrHaircutMissing,
           SftrCounterparty1Missing, SftrCounterparty2Missing, SftrLoanCurrencyMissing, Issue
  <2> QED BY <1>1, <2>1 DEF SftrRaised
<1>2. CASE k \in UNION {SftrCollateralCurrencyMissing(r), SftrLeiFormatRc(r), SftrLeiFormatOc(r),
          SftrLeiFormatErr(r), SftrCurrencyLoan(r), SftrCurrencyCollateral(r)}
  <2>1. /\ \A j \in SftrCollateralCurrencyMissing(r) : j.field = "collateral_currency"
        /\ \A j \in SftrLeiFormatRc(r) : j.field = "counterparty_1"
        /\ \A j \in SftrLeiFormatOc(r) : j.field = "counterparty_2"
        /\ \A j \in SftrLeiFormatErr(r) : j.field = "entity_responsible_for_reporting"
        /\ \A j \in SftrCurrencyLoan(r) : j.field = "loan_currency"
        /\ \A j \in SftrCurrencyCollateral(r) : j.field = "collateral_currency"
    BY DEF SftrCollateralCurrencyMissing, SftrLeiFormatRc, SftrLeiFormatOc, SftrLeiFormatErr,
           SftrCurrencyLoan, SftrCurrencyCollateral, Issue
  <2> QED BY <1>2, <2>1 DEF SftrRaised
<1>3. CASE k \in UNION {SftrIsinCollateral(r), SftrNegativeLoan(r), SftrNegativeCollateral(r),
          SftrHaircutOutOfRange(r), SftrDuplicateUti(r, batch), SftrLateReporting(r)}
  <2>1. /\ \A j \in SftrIsinCollateral(r) : j.field = "collateral_isin"
        /\ \A j \in SftrNegativeLoan(r) : j.field = "loan_value"
        /\ \A j \in SftrNegativeCollateral(r) : j.field = "collateral_value"
        /\ \A j \in SftrHaircutOutOfRange(r) : j.field = "haircut"
        /\ \A j \in SftrDuplicateUti(r, batch) : j.field = "uti"
        /\ \A j \in SftrLateReporting(r) : j.field = "reporting_timestamp"
    BY DEF SftrIsinCollateral, SftrNegativeLoan, SftrNegativeCollateral, SftrHaircutOutOfRange,
           SftrDuplicateUti, SftrLateReporting, Issue
  <2> QED BY <1>3, <2>1 DEF SftrRaised
<1>4. CASE k \in UNION {SftrSettlementBeforeExecution(r), SftrMaturityBeforeEffective(r),
          SftrSftTypeMissing(r), SftrSftTypeEnum(r), SftrActionTypeEnum(r), SftrLoanPrecision(r)}
  <2>1. /\ \A j \in SftrSettlementBeforeExecution(r) : j.field = "settlement_date"
        /\ \A j \in SftrMaturityBeforeEffective(r) : j.field = "maturity_date"
        /\ \A j \in SftrSftTypeMissing(r) : j.field = "sft_type"
        /\ \A j \in SftrSftTypeEnum(r) : j.field = "sft_type"
        /\ \A j \in SftrActionTypeEnum(r) : j.field = "action_type"
        /\ \A j \in SftrLoanPrecision(r) : j.field = "loan_value"
    BY DEF SftrSettlementBeforeExecution, SftrMaturityBeforeEffective, SftrSftTypeMissing,
           SftrSftTypeEnum, SftrActionTypeEnum, SftrLoanPrecision, Issue
  <2> QED BY <1>4, <2>1 DEF SftrRaised
<1>5. CASE k \in UNION {SftrCollateralPrecision(r), SftrHaircutPrecision(r),
          SftrRatePrecision(r), SftrMasterAgreementVersionFormat(r),
          SftrGmraGmslaVersionPlausible(r), SftrSelfDealing(r)}
  <2>1. /\ \A j \in SftrCollateralPrecision(r) : j.field = "collateral_value"
        /\ \A j \in SftrHaircutPrecision(r) : j.field = "haircut"
        /\ \A j \in SftrRatePrecision(r) : j.field \in {"rebate_rate", "lending_fee"}
        /\ \A j \in SftrMasterAgreementVersionFormat(r) : j.field = "master_agreement_version"
        /\ \A j \in SftrGmraGmslaVersionPlausible(r) : j.field = "master_agreement_version"
        /\ \A j \in SftrSelfDealing(r) : j.field = "counterparty_2"
    BY DEF SftrCollateralPrecision, SftrHaircutPrecision, SftrRatePrecision,
           SftrMasterAgreementVersionFormat, SftrGmraGmslaVersionPlausible, SftrSelfDealing,
           Issue
  <2> QED BY <1>5, <2>1 DEF SftrRaised
<1>6. CASE k \in UNION {SftrLoanNeedsCurrency(r), SftrCollNeedsCurrency(r),
          SftrLoanCollCurrencyMismatch(r), SftrRebateRequiresRepoOrBsb(r),
          SftrLendingFeeRequiresSleb(r), SftrNewtForbidsPriorUti(r)}
  <2>1. /\ \A j \in SftrLoanNeedsCurrency(r) : j.field = "loan_currency"
        /\ \A j \in SftrCollNeedsCurrency(r) : j.field = "collateral_currency"
        /\ \A j \in SftrLoanCollCurrencyMismatch(r) : j.field = "collateral_currency"
        /\ \A j \in SftrRebateRequiresRepoOrBsb(r) : j.field = "rebate_rate"
        /\ \A j \in SftrLendingFeeRequiresSleb(r) : j.field = "lending_fee"
        /\ \A j \in SftrNewtForbidsPriorUti(r) : j.field = "prior_uti"
    BY DEF SftrLoanNeedsCurrency, SftrCollNeedsCurrency, SftrLoanCollCurrencyMismatch,
           SftrRebateRequiresRepoOrBsb, SftrLendingFeeRequiresSleb, SftrNewtForbidsPriorUti,
           Issue
  <2> QED BY <1>6, <2>1 DEF SftrRaised
<1>7. CASE k \in UNION {SftrNewtForbidsTerminationDate(r), SftrEtrmRequiresTerminationDate(r),
          SftrColuRequiresPortfolio(r), SftrReuuRequiresReuseIndicator(r),
          SftrReuseIndicatorRequiresPortfolio(r), SftrEventTypeEnum(r)}
  <2>1. /\ \A j \in SftrNewtForbidsTerminationDate(r) : j.field = "termination_date"
        /\ \A j \in SftrEtrmRequiresTerminationDate(r) : j.field = "termination_date"
        /\ \A j \in SftrColuRequiresPortfolio(r) : j.field = "collateral_portfolio_code"
        /\ \A j \in SftrReuuRequiresReuseIndicator(r) : j.field = "reuse_indicator"
        /\ \A j \in SftrReuseIndicatorRequiresPortfolio(r) :
                 j.field = "collateral_portfolio_code"
        /\ \A j \in SftrEventTypeEnum(r) : j.field = "event_type"
    BY DEF SftrNewtForbidsTerminationDate, SftrEtrmRequiresTerminationDate,
           SftrColuRequiresPortfolio, SftrReuuRequiresReuseIndicator,
           SftrReuseIndicatorRequiresPortfolio, SftrEventTypeEnum, Issue
  <2> QED BY <1>7, <2>1 DEF SftrRaised
<1>8. CASE k \in UNION {SftrMasterAgreementTypeEnum(r), SftrLendingFeeNegative(r),
          SftrSecurityIdentifierMissing(r), SftrMarMgldNeedsLoanValue(r),
          SftrMarMgldNeedsCollateral(r), SftrMarMaruRequiresValueOrHaircut(r)}
  <2>1. /\ \A j \in SftrMasterAgreementTypeEnum(r) : j.field = "master_agreement_type"
        /\ \A j \in SftrLendingFeeNegative(r) : j.field = "lending_fee"
        /\ \A j \in SftrSecurityIdentifierMissing(r) : j.field = "security_identifier"
        /\ \A j \in SftrMarMgldNeedsLoanValue(r) : j.field = "loan_value"
        /\ \A j \in SftrMarMgldNeedsCollateral(r) : j.field = "collateral_value"
        /\ \A j \in SftrMarMaruRequiresValueOrHaircut(r) : j.field = "action_type"
    BY DEF SftrMasterAgreementTypeEnum, SftrLendingFeeNegative, SftrSecurityIdentifierMissing,
           SftrMarMgldNeedsLoanValue, SftrMarMgldNeedsCollateral,
           SftrMarMaruRequiresValueOrHaircut, Issue
  <2> QED BY <1>8, <2>1 DEF SftrRaised
<1>9. CASE k \in UNION {SftrMarMaruRequiresPortfolio(r), SftrMarMgldHaircutOutOfRange(r),
          SftrAbnormalMaturity(r, time), SftrLoanAbnormalMagnitude(r),
          SftrEventBeforeExecution(r), SftrReportingBeforeExecution(r)}
  <2>1. /\ \A j \in SftrMarMaruRequiresPortfolio(r) : j.field = "collateral_portfolio_code"
        /\ \A j \in SftrMarMgldHaircutOutOfRange(r) : j.field = "haircut"
        /\ \A j \in SftrAbnormalMaturity(r, time) : j.field = "maturity_date"
        /\ \A j \in SftrLoanAbnormalMagnitude(r) : j.field = "loan_value"
        /\ \A j \in SftrEventBeforeExecution(r) : j.field = "event_timestamp"
        /\ \A j \in SftrReportingBeforeExecution(r) : j.field = "reporting_timestamp"
    BY DEF SftrMarMaruRequiresPortfolio, SftrMarMgldHaircutOutOfRange, SftrAbnormalMaturity,
           SftrLoanAbnormalMagnitude, SftrEventBeforeExecution, SftrReportingBeforeExecution,
           Issue
  <2> QED BY <1>9, <2>1 DEF SftrRaised
<1>10. CASE k \in UNION {SftrMaturityInPast(r, time), SftrTerminationAfterMaturity(r),
          SftrModiPreservesUti(r), SftrActionEventCompatibility(r),
          SftrLateReportingSettlement(r)}
  <2>1. /\ \A j \in SftrMaturityInPast(r, time) : j.field = "maturity_date"
        /\ \A j \in SftrTerminationAfterMaturity(r) : j.field = "termination_date"
        /\ \A j \in SftrModiPreservesUti(r) : j.field = "prior_uti"
        /\ \A j \in SftrActionEventCompatibility(r) : j.field = "event_type"
        /\ \A j \in SftrLateReportingSettlement(r) : j.field = "settlement_date"
    BY DEF SftrMaturityInPast, SftrTerminationAfterMaturity, SftrModiPreservesUti,
           SftrActionEventCompatibility, SftrLateReportingSettlement, Issue
  <2> QED BY <1>10, <2>1 DEF SftrRaised
<1> QED BY <1>1, <1>2, <1>3, <1>4, <1>5, <1>6, <1>7, <1>8, <1>9, <1>10 DEF SftrIssues

\* The texts of the cures, blank and not.  A blank text and another one differ.
LEMMA TextsOfCures ==
    /\ Blank(NoText) /\ NoText.code # "MARU"
    /\ \A c \in {"LEI1", "LEI2", "LEI3", "PF1", "UTI0", "UTI1", "EQ", "A", "ISIN1", "EUR", "USD",
                 "JPY", "CLRD", "FLCL", "MNTH", "AGEN", "F", "OTHR", "2002", "ELEC", "REPO"} :
          ~Blank(Plain(c)) /\ Plain(c).code = c /\ Plain(c).form = "plain"
  BY Zenon DEF Blank, NoText, Plain
LEMMA BlankDiffers ==
    ASSUME NEW a, NEW b, Blank(a), ~Blank(b) PROVE ~SameText(a, b) /\ ~SameText(b, a)
  BY Zenon DEF Blank, SameText

\* No check that names the field finds anything in the report.
EmirClear(field, r, batch, time) == \A k \in EmirIssues(r, batch, time) : k.field # field

LEMMA EmirPartyCures ==
    ASSUME NEW r, NEW batch, NEW time
    PROVE  /\ r.counterparty_1 = Plain("LEI1") => EmirClear("counterparty_1", r, batch, time)
           /\ r.entity_responsible_for_reporting = NoText =>
                EmirClear("entity_responsible_for_reporting", r, batch, time)
           /\ r.trading_capacity = Plain("AGEN") => EmirClear("trading_capacity", r, batch, time)
           /\ r.corporate_sector = NoText => EmirClear("corporate_sector", r, batch, time)
           /\ r.reporting_obligation_indicator = NoText =>
                EmirClear("reporting_obligation_indicator", r, batch, time)
           /\ r.nature = Plain("F") => EmirClear("nature", r, batch, time)
           /\ r.hedging_indicator = "none" => EmirClear("hedging_indicator", r, batch, time)
           /\ r.commercial_or_treasury_financing = "none" =>
                EmirClear("commercial_or_treasury_financing", r, batch, time)
           /\ r.intragroup_indicator = "true" =>
                EmirClear("intragroup_indicator", r, batch, time)
<1>1. ASSUME r.counterparty_1 = Plain("LEI1") PROVE EmirClear("counterparty_1", r, batch, time)
  <2>1. ASSUME NEW k \in EmirIssues(r, batch, time), k.field = "counterparty_1"
        PROVE  k \in UNION {Counterparty1Missing(r), LeiFormatRc(r)}
    BY <2>1, EmirIssuesRaised DEF EmirRaised
  <2> QED BY <1>1, <2>1, TextsOfCures
         DEF Counterparty1Missing, LeiFormatRc, Issue, EmirClear, BadLei, ValidLei, In
<1>2. ASSUME r.entity_responsible_for_reporting = NoText
      PROVE  EmirClear("entity_responsible_for_reporting", r, batch, time)
  <2>1. ASSUME NEW k \in EmirIssues(r, batch, time), k.field = "entity_responsible_for_reporting"
        PROVE  k \in UNION {LeiFormatErr(r)}
    BY <2>1, EmirIssuesRaised DEF EmirRaised
  <2> QED BY <1>2, <2>1, TextsOfCures DEF LeiFormatErr, Issue, EmirClear, BadLei
<1>3. ASSUME r.trading_capacity = Plain("AGEN")
      PROVE  EmirClear("trading_capacity", r, batch, time)
  <2>1. ASSUME NEW k \in EmirIssues(r, batch, time), k.field = "trading_capacity"
        PROVE  k \in UNION {TradingCapacityMissing(r), TradingCapacityEnum(r)}
    BY <2>1, EmirIssuesRaised DEF EmirRaised
  <2> QED BY <1>3, <2>1, TextsOfCures
         DEF TradingCapacityMissing, TradingCapacityEnum, Issue, EmirClear, NotIn, In
<1>4. ASSUME r.corporate_sector = NoText PROVE EmirClear("corporate_sector", r, batch, time)
  <2>1. ASSUME NEW k \in EmirIssues(r, batch, time), k.field = "corporate_sector"
        PROVE  k \in UNION {EmirCorporateSectorEnum(r)}
    BY <2>1, EmirIssuesRaised DEF EmirRaised
  <2> QED BY <1>4, <2>1, TextsOfCures DEF EmirCorporateSectorEnum, Issue, EmirClear, NotIn
<1>5. ASSUME r.reporting_obligation_indicator = NoText
      PROVE  EmirClear("reporting_obligation_indicator", r, batch, time)
  <2>1. ASSUME NEW k \in EmirIssues(r, batch, time), k.field = "reporting_obligation_indicator"
        PROVE  k \in UNION {EmirReportingObligationIndicatorEnum(r)}
    BY <2>1, EmirIssuesRaised DEF EmirRaised
  <2> QED BY <1>5, <2>1, TextsOfCures
         DEF EmirReportingObligationIndicatorEnum, Issue, EmirClear, NotIn
<1>6. ASSUME r.nature = Plain("F") PROVE EmirClear("nature", r, batch, time)
  <2>1. ASSUME NEW k \in EmirIssues(r, batch, time), k.field = "nature"
        PROVE  k \in UNION {NatureMissing(r), NatureEnum(r), EmirRmtNfcAboveClearingThreshold(r)}
    BY <2>1, EmirIssuesRaised DEF EmirRaised
  <2> QED BY <1>6, <2>1, TextsOfCures
         DEF NatureMissing, NatureEnum, EmirRmtNfcAboveClearingThreshold, Issue, EmirClear,
             NotIn, In
<1>7. ASSUME r.hedging_indicator = "none" PROVE EmirClear("hedging_indicator", r, batch, time)
  <2>1. ASSUME NEW k \in EmirIssues(r, batch, time), k.field = "hedging_indicator"
        PROVE  k \in UNION {HedgingRequiresNfc(r)}
    BY <2>1, EmirIssuesRaised DEF EmirRaised
  <2> QED BY <1>7, <2>1 DEF HedgingRequiresNfc, Issue, EmirClear
<1>8. ASSUME r.commercial_or_treasury_financing = "none"
      PROVE  EmirClear("commercial_or_treasury_financing", r, batch, time)
  <2>1. ASSUME NEW k \in EmirIssues(r, batch, time), k.field = "commercial_or_treasury_financing"
        PROVE  k \in UNION {EmirCommercialOrTreasuryRequiresNfc(r)}
    BY <2>1, EmirIssuesRaised DEF EmirRaised
  <2> QED BY <1>8, <2>1 DEF EmirCommercialOrTreasuryRequiresNfc, Issue, EmirClear
<1>9. ASSUME r.intragroup_indicator = "true"
      PROVE  EmirClear("intragroup_indicator", r, batch, time)
  <2>1. ASSUME NEW k \in EmirIssues(r, batch, time), k.field = "intragroup_indicator"
        PROVE  k \in UNION {IntragroupIndicatorMissing(r), EmirRmtIntragroupNeedsIndicator(r)}
    BY <2>1, EmirIssuesRaised DEF EmirRaised
  <2> QED BY <1>9, <2>1
         DEF IntragroupIndicatorMissing, EmirRmtIntragroupNeedsIndicator, Issue, EmirClear
<1> QED BY <1>1, <1>2, <1>3, <1>4, <1>5, <1>6, <1>7, <1>8, <1>9

LEMMA EmirContractCures ==
    ASSUME NEW r, NEW batch, NEW time
    PROVE  /\ r.action_type = NoText => EmirClear("action_type", r, batch, time)
           /\ r.event_type = NoText => EmirClear("event_type", r, batch, time)
           /\ r.asset_class = Plain("EQ") => EmirClear("asset_class", r, batch, time)
           /\ r.product_id = Plain("A") => EmirClear("product_id", r, batch, time)
           /\ r.underlying_id = Plain("ISIN1") => EmirClear("underlying_id", r, batch, time)
           /\ r.leg1_payment_frequency = Plain("MNTH") =>
                EmirClear("leg1_payment_frequency", r, batch, time)
           /\ r.master_agreement_type = Plain("OTHR") =>
                EmirClear("master_agreement_type", r, batch, time)
           /\ r.master_agreement_version = Plain("2002") =>
                EmirClear("master_agreement_version", r, batch, time)
           /\ r.clearing_status = Plain("CLRD") => EmirClear("clearing_status", r, batch, time)
           /\ r.confirmation_method = Plain("ELEC") =>
                EmirClear("confirmation_method", r, batch, time)
           /\ r.valuation_type = NoText => EmirClear("valuation_type", r, batch, time)
           /\ r.delta = "none" => EmirClear("delta", r, batch, time)
           /\ r.gamma = "none" => EmirClear("gamma", r, batch, time)
<1>1. ASSUME r.action_type = NoText PROVE EmirClear("action_type", r, batch, time)
  <2>1. ASSUME NEW k \in EmirIssues(r, batch, time), k.field = "action_type"
        PROVE  k \in UNION {ActionTypeEnum(r), MaruRequiresMargin(r)}
    BY <2>1, EmirIssuesRaised DEF EmirRaised
  <2> QED BY <1>1, <2>1, TextsOfCures
         DEF ActionTypeEnum, MaruRequiresMargin, Issue, EmirClear, NotIn, Exactly, Plain
<1>2. ASSUME r.event_type = NoText PROVE EmirClear("event_type", r, batch, time)
  <2>1. ASSUME NEW k \in EmirIssues(r, batch, time), k.field = "event_type"
        PROVE  k \in UNION {EventTypeEnum(r), ActionEventCompatibility(r)}
    BY <2>1, EmirIssuesRaised DEF EmirRaised
  <2> QED BY <1>2, <2>1, TextsOfCures
         DEF EventTypeEnum, ActionEventCompatibility, Issue, EmirClear, NotIn
<1>3. ASSUME r.asset_class = Plain("EQ") PROVE EmirClear("asset_class", r, batch, time)
  <2>1. ASSUME NEW k \in EmirIssues(r, batch, time), k.field = "asset_class"
        PROVE  k \in UNION {AssetClassMissing(r), AssetClassEnum(r)}
    BY <2>1, EmirIssuesRaised DEF EmirRaised
  <2> QED BY <1>3, <2>1, TextsOfCures
         DEF AssetClassMissing, AssetClassEnum, Issue, EmirClear, NotIn, In
<1>4. ASSUME r.product_id = Plain("A") PROVE EmirClear("product_id", r, batch, time)
  <2>1. ASSUME NEW k \in EmirIssues(r, batch, time), k.field = "product_id"
        PROVE  k \in UNION {ProductIdMissing(r), CommodityBaseEnum(r),
                            CommodityRequiresProductId(r)}
    BY <2>1, EmirIssuesRaised DEF EmirRaised
  <2> QED BY <1>4, <2>1, TextsOfCures
         DEF ProductIdMissing, CommodityBaseEnum, CommodityRequiresProductId, Issue, EmirClear,
             NotIn, In
<1>5. ASSUME r.underlying_id = Plain("ISIN1") PROVE EmirClear("underlying_id", r, batch, time)
  <2>1. ASSUME NEW k \in EmirIssues(r, batch, time), k.field = "underlying_id"
        PROVE  k \in UNION {CreditSectorEnum(r), EqRequiresUnderlying(r),
                            CrRequiresUnderlying(r)}
    BY <2>1, EmirIssuesRaised DEF EmirRaised
  <2> QED BY <1>5, <2>1, TextsOfCures
         DEF CreditSectorEnum, EqRequiresUnderlying, CrRequiresUnderlying, Issue, EmirClear,
             ValidIsin, In
<1>6. ASSUME r.leg1_payment_frequency = Plain("MNTH")
      PROVE  EmirClear("leg1_payment_frequency", r, batch, time)
  <2>1. ASSUME NEW k \in EmirIssues(r, batch, time), k.field = "leg1_payment_frequency"
        PROVE  k \in UNION {IrRequiresLeg1Freq(r)}
    BY <2>1, EmirIssuesRaised DEF EmirRaised
  <2> QED BY <1>6, <2>1, TextsOfCures DEF IrRequiresLeg1Freq, Issue, EmirClear
<1>7. ASSUME r.master_agreement_type = Plain("OTHR")
      PROVE  EmirClear("master_agreement_type", r, batch, time)
  <2>1. ASSUME NEW k \in EmirIssues(r, batch, time), k.field = "master_agreement_type"
        PROVE  k \in UNION {MasterAgreementTypeMissing(r), MasterAgreementTypeEnum(r),
                            EmirRmtMasterAgreementRequired(r)}
    BY <2>1, EmirIssuesRaised DEF EmirRaised
  <2> QED BY <1>7, <2>1, TextsOfCures
         DEF MasterAgreementTypeMissing, MasterAgreementTypeEnum, EmirRmtMasterAgreementRequired,
             Issue, EmirClear, NotIn, In
<1>8. ASSUME r.master_agreement_version = Plain("2002")
      PROVE  EmirClear("master_agreement_version", r, batch, time)
  <2>1. ASSUME NEW k \in EmirIssues(r, batch, time), k.field = "master_agreement_version"
        PROVE  k \in UNION {MasterAgreementVersionMissing(r), MasterAgreementVersionFormat(r),
                            IsdaVersionPlausible(r)}
    BY <2>1, EmirIssuesRaised DEF EmirRaised
  <2> QED BY <1>8, <2>1, TextsOfCures
         DEF MasterAgreementVersionMissing, MasterAgreementVersionFormat, IsdaVersionPlausible,
             Issue, EmirClear, NotIn, In, FourDigits
<1>9. ASSUME r.clearing_status = Plain("CLRD") PROVE EmirClear("clearing_status", r, batch, time)
  <2>1. ASSUME NEW k \in EmirIssues(r, batch, time), k.field = "clearing_status"
        PROVE  k \in UNION {ClearingStatusMissing(r), ClearingStatusEnum(r)}
    BY <2>1, EmirIssuesRaised DEF EmirRaised
  <2> QED BY <1>9, <2>1, TextsOfCures
         DEF ClearingStatusMissing, ClearingStatusEnum, Issue, EmirClear, NotIn, In
<1>10. ASSUME r.confirmation_method = Plain("ELEC")
      PROVE  EmirClear("confirmation_method", r, batch, time)
  <2>1. ASSUME NEW k \in EmirIssues(r, batch, time), k.field = "confirmation_method"
        PROVE  k \in UNION {EmirRmtUnclearedNeedsConfirmation(r)}
    BY <2>1, EmirIssuesRaised DEF EmirRaised
  <2> QED BY <1>10, <2>1, TextsOfCures
         DEF EmirRmtUnclearedNeedsConfirmation, Issue, EmirClear
<1>11. ASSUME r.valuation_type = NoText PROVE EmirClear("valuation_type", r, batch, time)
  <2>1. ASSUME NEW k \in EmirIssues(r, batch, time), k.field = "valuation_type"
        PROVE  k \in UNION {ValuationTypeEnum(r)}
    BY <2>1, EmirIssuesRaised DEF EmirRaised
  <2> QED BY <1>11, <2>1, TextsOfCures DEF ValuationTypeEnum, Issue, EmirClear, NotIn
<1>12. ASSUME r.delta = "none" PROVE EmirClear("delta", r, batch, time)
  <2>1. ASSUME NEW k \in EmirIssues(r, batch, time), k.field = "delta"
        PROVE  k \in UNION {EmirDeltaOutOfRange(r)}
    BY <2>1, EmirIssuesRaised DEF EmirRaised
  <2> QED BY <1>12, <2>1 DEF EmirDeltaOutOfRange, Issue, EmirClear
<1>13. ASSUME r.gamma = "none" PROVE EmirClear("gamma", r, batch, time)
  <2>1. ASSUME NEW k \in EmirIssues(r, batch, time), k.field = "gamma"
        PROVE  k \in UNION {EmirGammaNegative(r)}
    BY <2>1, EmirIssuesRaised DEF EmirRaised
  <2> QED BY <1>13, <2>1 DEF EmirGammaNegative, Issue, EmirClear
<1> QED BY <1>1, <1>2, <1>3, <1>4, <1>5, <1>6, <1>7, <1>8, <1>9, <1>10, <1>11, <1>12, <1>13

LEMMA EmirAmountCures ==
    ASSUME NEW r, NEW batch, NEW time
    PROVE  /\ r.notional_amount = Amount(1, 1, 0) => EmirClear("notional_amount", r, batch, time)
           /\ r.valuation_amount = Amount(1, 1, 0) =>
                EmirClear("valuation_amount", r, batch, time)
           /\ r.initial_margin_posted = Amount(1, 1, 0) =>
                EmirClear("initial_margin_posted", r, batch, time)
           /\ r.initial_margin_collected = Amount(1, 1, 0) =>
                EmirClear("initial_margin_collected", r, batch, time)
           /\ r.variation_margin_posted = Amount(1, 1, 0) =>
                EmirClear("variation_margin_posted", r, batch, time)
           /\ r.variation_margin_collected = Amount(1, 1, 0) =>
                EmirClear("variation_margin_collected", r, batch, time)
           /\ r.price = NoAmount => EmirClear("price", r, batch, time)
           /\ r.notional_currency = Plain("EUR") =>
                EmirClear("notional_currency", r, batch, time)
           /\ r.price_currency = Plain("EUR") => EmirClear("price_currency", r, batch, time)
           /\ r.collateralisation_category = Plain("FLCL") =>
                EmirClear("collateralisation_category", r, batch, time)
           /\ r.collateral_portfolio_code = Plain("PF1") =>
                EmirClear("collateral_portfolio_code", r, batch, time)
<1>0. /\ Has(Amount(1, 1, 0)) /\ ~Negative(Amount(1, 1, 0)) /\ ~IsZero(Amount(1, 1, 0))
      /\ WithinBounds(Amount(1, 1, 0)) /\ Amount(1, 1, 0).bn = 1
      /\ \A currency : ~TooFineFor(Amount(1, 1, 0), currency)
      /\ ~Has(NoAmount) /\ WithinBounds(NoAmount) /\ \A currency : ~TooFineFor(NoAmount, currency)
  BY DEF Has, Negative, IsZero, WithinBounds, TooFineFor, CurrencyMaxScale, Amount, NoAmount
<1>1. ASSUME r.notional_amount = Amount(1, 1, 0)
      PROVE  EmirClear("notional_amount", r, batch, time)
  <2>1. ASSUME NEW k \in EmirIssues(r, batch, time), k.field = "notional_amount"
        PROVE  k \in UNION {NotionalPrecision(r), NotionalPrecisionByCurrency(r),
                            ZeroNotional(r), NegativeNotional(r), NotionalAbnormalMagnitude(r),
                            IrRequiresNotional(r)}
    BY <2>1, EmirIssuesRaised DEF EmirRaised
  <2> QED BY <1>1, <1>0, <2>1
         DEF NotionalPrecision, NotionalPrecisionByCurrency, ZeroNotional, NegativeNotional,
             NotionalAbnormalMagnitude, IrRequiresNotional, Issue, EmirClear
<1>2. ASSUME r.valuation_amount = Amount(1, 1, 0)
      PROVE  EmirClear("valuation_amount", r, batch, time)
  <2>1. ASSUME NEW k \in EmirIssues(r, batch, time), k.field = "valuation_amount"
        PROVE  k \in UNION {MissingValuation(r, time), ValuationPrecision(r),
                            ValuationPrecisionByCurrency(r), MtmChangeRequiresValuation(r),
                            ValuRequiresValuation(r), EtrmRequiresValuation(r)}
    BY <2>1, EmirIssuesRaised DEF EmirRaised
  <2> QED BY <1>2, <1>0, <2>1
         DEF MissingValuation, ValuationPrecision, ValuationPrecisionByCurrency,
             MtmChangeRequiresValuation, ValuRequiresValuation, EtrmRequiresValuation, Issue,
             EmirClear
<1>3. ASSUME r.initial_margin_posted = Amount(1, 1, 0)
      PROVE  EmirClear("initial_margin_posted", r, batch, time)
  <2>1. ASSUME NEW k \in EmirIssues(r, batch, time), k.field = "initial_margin_posted"
        PROVE  k \in UNION {InitialMarginMissingForFull(r), MarginPrecision(r),
                            NegativeInitialMarginPosted(r)}
    BY <2>1, EmirIssuesRaised DEF EmirRaised
  <2> QED BY <1>3, <1>0, <2>1
         DEF InitialMarginMissingForFull, MarginPrecision, NegativeInitialMarginPosted, Issue,
             EmirClear, MarginFields
<1>4. ASSUME r.initial_margin_collected = Amount(1, 1, 0)
      PROVE  EmirClear("initial_margin_collected", r, batch, time)
  <2>1. ASSUME NEW k \in EmirIssues(r, batch, time), k.field = "initial_margin_collected"
        PROVE  k \in UNION {MarginPrecision(r), NegativeInitialMarginCollected(r)}
    BY <2>1, EmirIssuesRaised DEF EmirRaised
  <2> QED BY <1>4, <1>0, <2>1
         DEF MarginPrecision, NegativeInitialMarginCollected, Issue, EmirClear, MarginFields
<1>5. ASSUME r.variation_margin_posted = Amount(1, 1, 0)
      PROVE  EmirClear("variation_margin_posted", r, batch, time)
  <2>1. ASSUME NEW k \in EmirIssues(r, batch, time), k.field = "variation_margin_posted"
        PROVE  k \in UNION {VariationMarginMissingForFull(r), MarginPrecision(r),
                            NegativeVariationMarginPosted(r)}
    BY <2>1, EmirIssuesRaised DEF EmirRaised
  <2> QED BY <1>5, <1>0, <2>1
         DEF VariationMarginMissingForFull, MarginPrecision, NegativeVariationMarginPosted,
             Issue, EmirClear, MarginFields
<1>6. ASSUME r.variation_margin_collected = Amount(1, 1, 0)
      PROVE  EmirClear("variation_margin_collected", r, batch, time)
  <2>1. ASSUME NEW k \in EmirIssues(r, batch, time), k.field = "variation_margin_collected"
        PROVE  k \in UNION {MarginPrecision(r), NegativeVariationMarginCollected(r)}
    BY <2>1, EmirIssuesRaised DEF EmirRaised
  <2> QED BY <1>6, <1>0, <2>1
         DEF MarginPrecision, NegativeVariationMarginCollected, Issue, EmirClear, MarginFields
<1>7. ASSUME r.price = NoAmount PROVE EmirClear("price", r, batch, time)
  <2>1. ASSUME NEW k \in EmirIssues(r, batch, time), k.field = "price"
        PROVE  k \in UNION {PricePrecision(r), PricePrecisionByCurrency(r), EmirPriceNegative(r)}
    BY <2>1, EmirIssuesRaised DEF EmirRaised
  <2> QED BY <1>7, <1>0, <2>1
         DEF PricePrecision, PricePrecisionByCurrency, EmirPriceNegative, Issue, EmirClear,
             Negative
<1>8. ASSUME r.notional_currency = Plain("EUR")
      PROVE  EmirClear("notional_currency", r, batch, time)
  <2>1. ASSUME NEW k \in EmirIssues(r, batch, time), k.field = "notional_currency"
        PROVE  k \in UNION {NotionalCurrencyMissing(r), CurrencyNotional(r)}
    BY <2>1, EmirIssuesRaised DEF EmirRaised
  <2> QED BY <1>8, <2>1, TextsOfCures
         DEF NotionalCurrencyMissing, CurrencyNotional, Issue, EmirClear, BadCurrency,
             ValidCurrency, In
<1>9. ASSUME r.price_currency = Plain("EUR") PROVE EmirClear("price_currency", r, batch, time)
  <2>1. ASSUME NEW k \in EmirIssues(r, batch, time), k.field = "price_currency"
        PROVE  k \in UNION {PriceRequiresCurrency(r)}
    BY <2>1, EmirIssuesRaised DEF EmirRaised
  <2> QED BY <1>9, <2>1, TextsOfCures DEF PriceRequiresCurrency, Issue, EmirClear
<1>10. ASSUME r.collateralisation_category = Plain("FLCL")
      PROVE  EmirClear("collateralisation_category", r, batch, time)
  <2>1. ASSUME NEW k \in EmirIssues(r, batch, time), k.field = "collateralisation_category"
        PROVE  k \in UNION {CollateralisationCategoryEnum(r),
                            EmirRmtCollateralCategoryRequired(r)}
    BY <2>1, EmirIssuesRaised DEF EmirRaised
  <2> QED BY <1>10, <2>1, TextsOfCures
         DEF CollateralisationCategoryEnum, EmirRmtCollateralCategoryRequired, Issue, EmirClear,
             NotIn, In
<1>11. ASSUME r.collateral_portfolio_code = Plain("PF1")
      PROVE  EmirClear("collateral_portfolio_code", r, batch, time)
  <2>1. ASSUME NEW k \in EmirIssues(r, batch, time), k.field = "collateral_portfolio_code"
        PROVE  k \in UNION {CollateralPortfolioRequiredForFull(r), ImNeedsCollateralPortfolio(r),
                            VmNeedsCollateralPortfolio(r), MaruRequiresPortfolio(r),
                            PoscRequiresPortfolio(r), EmirRmtPortfolioReconciliationMissing(r),
                            EmirRmtCompressionEventIncomplete(r)}
    BY <2>1, EmirIssuesRaised DEF EmirRaised
  <2> QED BY <1>11, <2>1, TextsOfCures
         DEF CollateralPortfolioRequiredForFull, ImNeedsCollateralPortfolio,
             VmNeedsCollateralPortfolio, MaruRequiresPortfolio, PoscRequiresPortfolio,
             EmirRmtPortfolioReconciliationMissing, EmirRmtCompressionEventIncomplete, Issue,
             EmirClear
<1> QED BY <1>1, <1>2, <1>3, <1>4, <1>5, <1>6, <1>7, <1>8, <1>9, <1>10, <1>11

LEMMA EmirTimeCures ==
    ASSUME NEW r, NEW batch, NEW time
    PROVE  /\ r.maturity_date = NoTime => EmirClear("maturity_date", r, batch, time)
           /\ r.reporting_timestamp = NoTime => EmirClear("reporting_timestamp", r, batch, time)
           /\ r.event_timestamp = NoTime => EmirClear("event_timestamp", r, batch, time)
           /\ r.effective_date = NoTime => EmirClear("effective_date", r, batch, time)
<1>1. ASSUME r.maturity_date = NoTime PROVE EmirClear("maturity_date", r, batch, time)
  <2>1. ASSUME NEW k \in EmirIssues(r, batch, time), k.field = "maturity_date"
        PROVE  k \in UNION {AbnormalMaturity(r, time), MaturityInPast(r, time)}
    BY <2>1, EmirIssuesRaised DEF EmirRaised
  <2> QED BY <1>1, <2>1 DEF AbnormalMaturity, MaturityInPast, Issue, EmirClear
<1>2. ASSUME r.reporting_timestamp = NoTime
      PROVE  EmirClear("reporting_timestamp", r, batch, time)
  <2>1. ASSUME NEW k \in EmirIssues(r, batch, time), k.field = "reporting_timestamp"
        PROVE  k \in UNION {LateReporting(r), ReportingBeforeExecution(r),
                            EmirRmtLateConfirmation(r)}
    BY <2>1, EmirIssuesRaised DEF EmirRaised
  <2> QED BY <1>2, <2>1
         DEF LateReporting, ReportingBeforeExecution, EmirRmtLateConfirmation, Issue, EmirClear,
             Both
<1>3. ASSUME r.event_timestamp = NoTime PROVE EmirClear("event_timestamp", r, batch, time)
  <2>1. ASSUME NEW k \in EmirIssues(r, batch, time), k.field = "event_timestamp"
        PROVE  k \in UNION {EventBeforeExecution(r)}
    BY <2>1, EmirIssuesRaised DEF EmirRaised
  <2> QED BY <1>3, <2>1 DEF EventBeforeExecution, Issue, EmirClear, Both
<1>4. ASSUME r.effective_date = NoTime PROVE EmirClear("effective_date", r, batch, time)
  <2>1. ASSUME NEW k \in EmirIssues(r, batch, time), k.field = "effective_date"
        PROVE  k \in UNION {EffectiveAfterMaturity(r)}
    BY <2>1, EmirIssuesRaised DEF EmirRaised
  <2> QED BY <1>4, <2>1 DEF EffectiveAfterMaturity, Issue, EmirClear, Both
<1> QED BY <1>1, <1>2, <1>3, <1>4

\* No check that names the field finds anything in the report.
SftrClear(field, r, batch, time) == \A k \in SftrIssues(r, batch, time) : k.field # field

LEMMA SftrPartyCures ==
    ASSUME NEW r, NEW batch, NEW time
    PROVE  /\ r.counterparty_1 = Plain("LEI1") => SftrClear("counterparty_1", r, batch, time)
           /\ r.entity_responsible_for_reporting = NoText =>
                SftrClear("entity_responsible_for_reporting", r, batch, time)
           /\ r.prior_uti = NoText => SftrClear("prior_uti", r, batch, time)
           /\ r.action_type = NoText => SftrClear("action_type", r, batch, time)
           /\ r.event_type = NoText => SftrClear("event_type", r, batch, time)
           /\ r.sft_type = Plain("REPO") => SftrClear("sft_type", r, batch, time)
           /\ r.master_agreement_type = NoText =>
                SftrClear("master_agreement_type", r, batch, time)
           /\ r.master_agreement_version = NoText =>
                SftrClear("master_agreement_version", r, batch, time)
           /\ r.security_identifier = Plain("ISIN1") =>
                SftrClear("security_identifier", r, batch, time)
           /\ r.collateral_isin = NoText => SftrClear("collateral_isin", r, batch, time)
<1>1. ASSUME r.counterparty_1 = Plain("LEI1") PROVE SftrClear("counterparty_1", r, batch, time)
  <2>1. ASSUME NEW k \in SftrIssues(r, batch, time), k.field = "counterparty_1"
        PROVE  k \in UNION {SftrCounterparty1Missing(r), SftrLeiFormatRc(r)}
    BY <2>1, SftrIssuesRaised DEF SftrRaised
  <2> QED BY <1>1, <2>1, TextsOfCures
         DEF SftrCounterparty1Missing, SftrLeiFormatRc, Issue, SftrClear, BadLei, ValidLei, In
<1>2. ASSUME r.entity_responsible_for_reporting = NoText
      PROVE  SftrClear("entity_responsible_for_reporting", r, batch, time)
  <2>1. ASSUME NEW k \in SftrIssues(r, batch, time), k.field = "entity_responsible_for_reporting"
        PROVE  k \in UNION {SftrLeiFormatErr(r)}
    BY <2>1, SftrIssuesRaised DEF SftrRaised
  <2> QED BY <1>2, <2>1, TextsOfCures DEF SftrLeiFormatErr, Issue, SftrClear, BadLei
<1>3. ASSUME r.prior_uti = NoText PROVE SftrClear("prior_uti", r, batch, time)
  <2>1. ASSUME NEW k \in SftrIssues(r, batch, time), k.field = "prior_uti"
        PROVE  k \in UNION {SftrNewtForbidsPriorUti(r), SftrModiPreservesUti(r)}
    BY <2>1, SftrIssuesRaised DEF SftrRaised
  <2> QED BY <1>3, <2>1, TextsOfCures
         DEF SftrNewtForbidsPriorUti, SftrModiPreservesUti, Issue, SftrClear
<1>4. ASSUME r.action_type = NoText PROVE SftrClear("action_type", r, batch, time)
  <2>1. ASSUME NEW k \in SftrIssues(r, batch, time), k.field = "action_type"
        PROVE  k \in UNION {SftrActionTypeEnum(r), SftrMarMaruRequiresValueOrHaircut(r)}
    BY <2>1, SftrIssuesRaised DEF SftrRaised
  <2> QED BY <1>4, <2>1, TextsOfCures
         DEF SftrActionTypeEnum, SftrMarMaruRequiresValueOrHaircut, Issue, SftrClear, NotIn, In,
             Maru
<1>5. ASSUME r.event_type = NoText PROVE SftrClear("event_type", r, batch, time)
  <2>1. ASSUME NEW k \in SftrIssues(r, batch, time), k.field = "event_type"
        PROVE  k \in UNION {SftrEventTypeEnum(r), SftrActionEventCompatibility(r)}
    BY <2>1, SftrIssuesRaised DEF SftrRaised
  <2> QED BY <1>5, <2>1, TextsOfCures
         DEF SftrEventTypeEnum, SftrActionEventCompatibility, Issue, SftrClear, NotIn
<1>6. ASSUME r.sft_type = Plain("REPO") PROVE SftrClear("sft_type", r, batch, time)
  <2>1. ASSUME NEW k \in SftrIssues(r, batch, time), k.field = "sft_type"
        PROVE  k \in UNION {SftrSftTypeMissing(r), SftrSftTypeEnum(r)}
    BY <2>1, SftrIssuesRaised DEF SftrRaised
  <2> QED BY <1>6, <2>1, TextsOfCures
         DEF SftrSftTypeMissing, SftrSftTypeEnum, Issue, SftrClear, NotIn, In
<1>7. ASSUME r.master_agreement_type = NoText
      PROVE  SftrClear("master_agreement_type", r, batch, time)
  <2>1. ASSUME NEW k \in SftrIssues(r, batch, time), k.field = "master_agreement_type"
        PROVE  k \in UNION {SftrMasterAgreementTypeEnum(r)}
    BY <2>1, SftrIssuesRaised DEF SftrRaised
  <2> QED BY <1>7, <2>1, TextsOfCures
         DEF SftrMasterAgreementTypeEnum, Issue, SftrClear, NotIn
<1>8. ASSUME r.master_agreement_version = NoText
      PROVE  SftrClear("master_agreement_version", r, batch, time)
  <2>1. ASSUME NEW k \in SftrIssues(r, batch, time), k.field = "master_agreement_version"
        PROVE  k \in UNION {SftrMasterAgreementVersionFormat(r),
                            SftrGmraGmslaVersionPlausible(r)}
    BY <2>1, SftrIssuesRaised DEF SftrRaised
  <2> QED BY <1>8, <2>1, TextsOfCures
         DEF SftrMasterAgreementVersionFormat, SftrGmraGmslaVersionPlausible, Issue, SftrClear,
             NotIn
<1>9. ASSUME r.security_identifier = Plain("ISIN1")
      PROVE  SftrClear("security_identifier", r, batch, time)
  <2>1. ASSUME NEW k \in SftrIssues(r, batch, time), k.field = "security_identifier"
        PROVE  k \in UNION {SftrSecurityIdentifierMissing(r)}
    BY <2>1, SftrIssuesRaised DEF SftrRaised
  <2> QED BY <1>9, <2>1, TextsOfCures DEF SftrSecurityIdentifierMissing, Issue, SftrClear
<1>10. ASSUME r.collateral_isin = NoText PROVE SftrClear("collateral_isin", r, batch, time)
  <2>1. ASSUME NEW k \in SftrIssues(r, batch, time), k.field = "collateral_isin"
        PROVE  k \in UNION {SftrIsinCollateral(r)}
    BY <2>1, SftrIssuesRaised DEF SftrRaised
  <2> QED BY <1>10, <2>1, TextsOfCures DEF SftrIsinCollateral, Issue, SftrClear
<1> QED BY <1>1, <1>2, <1>3, <1>4, <1>5, <1>6, <1>7, <1>8, <1>9, <1>10

LEMMA SftrAmountCures ==
    ASSUME NEW r, NEW batch, NEW time
    PROVE  /\ r.loan_value = Amount(1, 1, 0) => SftrClear("loan_value", r, batch, time)
           /\ r.collateral_value = Amount(1, 1, 0) =>
                SftrClear("collateral_value", r, batch, time)
           /\ r.loan_currency = Plain("EUR") => SftrClear("loan_currency", r, batch, time)
           /\ r.collateral_portfolio_code = Plain("PF1") =>
                SftrClear("collateral_portfolio_code", r, batch, time)
           /\ r.haircut = "inRange" => SftrClear("haircut", r, batch, time)
           /\ r.reuse_indicator = "false" => SftrClear("reuse_indicator", r, batch, time)
           /\ r.rebate_rate = "none" => SftrClear("rebate_rate", r, batch, time)
           /\ r.lending_fee = "none" => SftrClear("lending_fee", r, batch, time)
<1>0. /\ Has(Amount(1, 1, 0)) /\ ~Negative(Amount(1, 1, 0)) /\ ~IsZero(Amount(1, 1, 0))
      /\ WithinBounds(Amount(1, 1, 0)) /\ Amount(1, 1, 0).bn = 1
      /\ \A currency : ~TooFineFor(Amount(1, 1, 0), currency)
      /\ ~Has(NoAmount) /\ WithinBounds(NoAmount) /\ \A currency : ~TooFineFor(NoAmount, currency)
  BY DEF Has, Negative, IsZero, WithinBounds, TooFineFor, CurrencyMaxScale, Amount, NoAmount
<1>1. ASSUME r.loan_value = Amount(1, 1, 0) PROVE SftrClear("loan_value", r, batch, time)
  <2>1. ASSUME NEW k \in SftrIssues(r, batch, time), k.field = "loan_value"
        PROVE  k \in UNION {SftrLoanPrecision(r), SftrNegativeLoan(r),
                            SftrLoanAbnormalMagnitude(r), SftrMarMgldNeedsLoanValue(r)}
    BY <2>1, SftrIssuesRaised DEF SftrRaised
  <2> QED BY <1>1, <1>0, <2>1
         DEF SftrLoanPrecision, SftrNegativeLoan, SftrLoanAbnormalMagnitude,
             SftrMarMgldNeedsLoanValue, Issue, SftrClear
<1>2. ASSUME r.collateral_value = Amount(1, 1, 0)
      PROVE  SftrClear("collateral_value", r, batch, time)
  <2>1. ASSUME NEW k \in SftrIssues(r, batch, time), k.field = "collateral_value"
        PROVE  k \in UNION {SftrCollateralValueMissing(r, time), SftrCollateralPrecision(r),
                            SftrNegativeCollateral(r), SftrMarMgldNeedsCollateral(r)}
    BY <2>1, SftrIssuesRaised DEF SftrRaised
  <2> QED BY <1>2, <1>0, <2>1
         DEF SftrCollateralValueMissing, SftrCollateralPrecision, SftrNegativeCollateral,
             SftrMarMgldNeedsCollateral, Issue, SftrClear
<1>3. ASSUME r.loan_currency = Plain("EUR") PROVE SftrClear("loan_currency", r, batch, time)
  <2>1. ASSUME NEW k \in SftrIssues(r, batch, time), k.field = "loan_currency"
        PROVE  k \in UNION {SftrLoanCurrencyMissing(r), SftrLoanNeedsCurrency(r),
                            SftrCurrencyLoan(r)}
    BY <2>1, SftrIssuesRaised DEF SftrRaised
  <2> QED BY <1>3, <2>1, TextsOfCures
         DEF SftrLoanCurrencyMissing, SftrLoanNeedsCurrency, SftrCurrencyLoan, Issue, SftrClear,
             BadCurrency, ValidCurrency, In
<1>4. ASSUME r.collateral_portfolio_code = Plain("PF1")
      PROVE  SftrClear("collateral_portfolio_code", r, batch, time)
  <2>1. ASSUME NEW k \in SftrIssues(r, batch, time), k.field = "collateral_portfolio_code"
        PROVE  k \in UNION {SftrColuRequiresPortfolio(r), SftrReuseIndicatorRequiresPortfolio(r),
                            SftrMarMaruRequiresPortfolio(r)}
    BY <2>1, SftrIssuesRaised DEF SftrRaised
  <2> QED BY <1>4, <2>1, TextsOfCures
         DEF SftrColuRequiresPortfolio, SftrReuseIndicatorRequiresPortfolio,
             SftrMarMaruRequiresPortfolio, Issue, SftrClear
<1>5. ASSUME r.haircut = "inRange" PROVE SftrClear("haircut", r, batch, time)
  <2>1. ASSUME NEW k \in SftrIssues(r, batch, time), k.field = "haircut"
        PROVE  k \in UNION {SftrHaircutMissing(r), SftrHaircutPrecision(r),
                            SftrHaircutOutOfRange(r), SftrMarMgldHaircutOutOfRange(r)}
    BY <2>1, SftrIssuesRaised DEF SftrRaised
  <2> QED BY <1>5, <2>1
         DEF SftrHaircutMissing, SftrHaircutPrecision, SftrHaircutOutOfRange,
             SftrMarMgldHaircutOutOfRange, Issue, SftrClear
<1>6. ASSUME r.reuse_indicator = "false" PROVE SftrClear("reuse_indicator", r, batch, time)
  <2>1. ASSUME NEW k \in SftrIssues(r, batch, time), k.field = "reuse_indicator"
        PROVE  k \in UNION {SftrReuuRequiresReuseIndicator(r)}
    BY <2>1, SftrIssuesRaised DEF SftrRaised
  <2> QED BY <1>6, <2>1 DEF SftrReuuRequiresReuseIndicator, Issue, SftrClear
<1>7. ASSUME r.rebate_rate = "none" PROVE SftrClear("rebate_rate", r, batch, time)
  <2>1. ASSUME NEW k \in SftrIssues(r, batch, time), k.field = "rebate_rate"
        PROVE  k \in UNION {SftrRatePrecision(r), SftrRebateRequiresRepoOrBsb(r)}
    BY <2>1, SftrIssuesRaised DEF SftrRaised
  <2> QED BY <1>7, <2>1 DEF SftrRatePrecision, SftrRebateRequiresRepoOrBsb, Issue, SftrClear
<1>8. ASSUME r.lending_fee = "none" PROVE SftrClear("lending_fee", r, batch, time)
  <2>1. ASSUME NEW k \in SftrIssues(r, batch, time), k.field = "lending_fee"
        PROVE  k \in UNION {SftrRatePrecision(r), SftrLendingFeeNegative(r),
                            SftrLendingFeeRequiresSleb(r)}
    BY <2>1, SftrIssuesRaised DEF SftrRaised
  <2> QED BY <1>8, <2>1
         DEF SftrRatePrecision, SftrLendingFeeNegative, SftrLendingFeeRequiresSleb, Issue,
             SftrClear
<1> QED BY <1>1, <1>2, <1>3, <1>4, <1>5, <1>6, <1>7, <1>8

LEMMA SftrTimeCures ==
    ASSUME NEW r, NEW batch, NEW time
    PROVE  /\ r.maturity_date = NoTime => SftrClear("maturity_date", r, batch, time)
           /\ r.reporting_timestamp = NoTime => SftrClear("reporting_timestamp", r, batch, time)
           /\ r.event_timestamp = NoTime => SftrClear("event_timestamp", r, batch, time)
           /\ r.settlement_date = NoTime => SftrClear("settlement_date", r, batch, time)
<1>1. ASSUME r.maturity_date = NoTime PROVE SftrClear("maturity_date", r, batch, time)
  <2>1. ASSUME NEW k \in SftrIssues(r, batch, time), k.field = "maturity_date"
        PROVE  k \in UNION {SftrAbnormalMaturity(r, time), SftrMaturityBeforeEffective(r),
                            SftrMaturityInPast(r, time)}
    BY <2>1, SftrIssuesRaised DEF SftrRaised
  <2> QED BY <1>1, <2>1
         DEF SftrAbnormalMaturity, SftrMaturityBeforeEffective, SftrMaturityInPast, Issue,
             SftrClear, Both
<1>2. ASSUME r.reporting_timestamp = NoTime
      PROVE  SftrClear("reporting_timestamp", r, batch, time)
  <2>1. ASSUME NEW k \in SftrIssues(r, batch, time), k.field = "reporting_timestamp"
        PROVE  k \in UNION {SftrLateReporting(r), SftrReportingBeforeExecution(r)}
    BY <2>1, SftrIssuesRaised DEF SftrRaised
  <2> QED BY <1>2, <2>1
         DEF SftrLateReporting, SftrReportingBeforeExecution, Issue, SftrClear, Both
<1>3. ASSUME r.event_timestamp = NoTime PROVE SftrClear("event_timestamp", r, batch, time)
  <2>1. ASSUME NEW k \in SftrIssues(r, batch, time), k.field = "event_timestamp"
        PROVE  k \in UNION {SftrEventBeforeExecution(r)}
    BY <2>1, SftrIssuesRaised DEF SftrRaised
  <2> QED BY <1>3, <2>1 DEF SftrEventBeforeExecution, Issue, SftrClear, Both
<1>4. ASSUME r.settlement_date = NoTime PROVE SftrClear("settlement_date", r, batch, time)
  <2>1. ASSUME NEW k \in SftrIssues(r, batch, time), k.field = "settlement_date"
        PROVE  k \in UNION {SftrLateReportingSettlement(r), SftrSettlementBeforeExecution(r)}
    BY <2>1, SftrIssuesRaised DEF SftrRaised
  <2> QED BY <1>4, <2>1
         DEF SftrLateReportingSettlement, SftrSettlementBeforeExecution, Issue, SftrClear, Both
<1> QED BY <1>1, <1>2, <1>3, <1>4

\* The cures that depend on other fields of the report.

LEMMA EmirCounterparty2Cure ==
    ASSUME NEW r, NEW batch, NEW time, NEW c \in {"LEI1", "LEI2"},
           r.counterparty_2 = Plain(c),
           r.counterparty_1.code # c
    PROVE  EmirClear("counterparty_2", r, batch, time)
<1>1. ASSUME NEW k \in EmirIssues(r, batch, time), k.field = "counterparty_2"
      PROVE  k \in UNION {Counterparty2Missing(r), LeiFormatOc(r), SelfDealing(r)}
  BY <1>1, EmirIssuesRaised DEF EmirRaised
<1> QED BY <1>1, TextsOfCures
       DEF Counterparty2Missing, LeiFormatOc, SelfDealing, Issue, EmirClear, BadLei, ValidLei,
           In, SameText

LEMMA EmirCcpCure ==
    ASSUME NEW r, NEW batch, NEW time,
           r.clearing_ccp_lei = IF In(r.clearing_status, {"CLRD", "Y", "YES", "TRUE", "CLEARED", "T"})
                                THEN Plain("LEI3") ELSE NoText
    PROVE  EmirClear("clearing_ccp_lei", r, batch, time)
<1>1. ASSUME NEW k \in EmirIssues(r, batch, time), k.field = "clearing_ccp_lei"
      PROVE  k \in UNION {LeiFormatCcp(r), ClearedRequiresCcp(r), NclrForbidsCcp(r)}
  BY <1>1, EmirIssuesRaised DEF EmirRaised
<1> QED BY <1>1, TextsOfCures
       DEF LeiFormatCcp, ClearedRequiresCcp, NclrForbidsCcp, Issue, EmirClear, BadLei, ValidLei,
           In, Untrimmed

LEMMA EmirLeg2Cure ==
    ASSUME NEW r, NEW batch, NEW time, NEW c \in {"EUR", "USD"},
           r.leg2_notional_currency = Plain(c),
           r.notional_currency.code # c
    PROVE  EmirClear("leg2_notional_currency", r, batch, time)
<1>1. ASSUME NEW k \in EmirIssues(r, batch, time), k.field = "leg2_notional_currency"
      PROVE  k \in UNION {FxRequiresLeg2Currency(r), Leg1Leg2SameCurrency(r),
                          Leg2NotionalNeedsCurrency(r)}
  BY <1>1, EmirIssuesRaised DEF EmirRaised
<1> QED BY <1>1, TextsOfCures
       DEF FxRequiresLeg2Currency, Leg1Leg2SameCurrency, Leg2NotionalNeedsCurrency, Issue,
           EmirClear, SameText

LEMMA EmirNoValuationCure ==
    ASSUME NEW r, NEW batch, NEW time,
           ~Has(r.valuation_amount),
           r.valuation_currency = NoText
    PROVE  EmirClear("valuation_currency", r, batch, time)
<1>1. ASSUME NEW k \in EmirIssues(r, batch, time), k.field = "valuation_currency"
      PROVE  k \in UNION {ValuationCurrencyMissing(r), CurrencyValuation(r),
                          NotionalValCurrencyMismatch(r), PriceValCurrencyMismatch(r)}
  BY <1>1, EmirIssuesRaised DEF EmirRaised
<1> QED BY <1>1, TextsOfCures
       DEF ValuationCurrencyMissing, CurrencyValuation, NotionalValCurrencyMismatch,
           PriceValCurrencyMismatch, Issue, EmirClear, BadCurrency, Differ

LEMMA EmirValuationCurrencyCure ==
    ASSUME NEW r, NEW batch, NEW time, NEW c \in {"EUR", "USD", "JPY"},
           r.valuation_currency = Plain(c),
           Blank(r.notional_currency) \/ r.notional_currency.code = c,
           Blank(r.price_currency) \/ r.price_currency.code = c
    PROVE  EmirClear("valuation_currency", r, batch, time)
<1>1. ASSUME NEW k \in EmirIssues(r, batch, time), k.field = "valuation_currency"
      PROVE  k \in UNION {ValuationCurrencyMissing(r), CurrencyValuation(r),
                          NotionalValCurrencyMismatch(r), PriceValCurrencyMismatch(r)}
  BY <1>1, EmirIssuesRaised DEF EmirRaised
<1> QED BY <1>1, TextsOfCures
       DEF ValuationCurrencyMissing, CurrencyValuation, NotionalValCurrencyMismatch,
           PriceValCurrencyMismatch, Issue, EmirClear, BadCurrency, ValidCurrency, In, Differ,
           SameText

LEMMA EmirOldValuationCure ==
    ASSUME NEW r, NEW batch, NEW time,
           r.reporting_timestamp \in Nat \union {NoTime},
           r.termination_date \in Nat \union {NoTime},
           r.valuation_timestamp = 0,
           ~(Uncleared(r) /\ NotTerminated(r))
    PROVE  EmirClear("valuation_timestamp", r, batch, time)
<1>1. ASSUME NEW k \in EmirIssues(r, batch, time), k.field = "valuation_timestamp"
      PROVE  k \in UNION {ValuationTimestampMissing(r), ValuationAfterReporting(r),
                          ValuationAfterTermination(r), EmirRmtDailyValuationMissing(r, time)}
  BY <1>1, EmirIssuesRaised DEF EmirRaised
<1> QED BY <1>1
       DEF ValuationTimestampMissing, ValuationAfterReporting, ValuationAfterTermination,
           EmirRmtDailyValuationMissing, Issue, EmirClear, Both, NoTime, Day

LEMMA EmirNewValuationCure ==
    ASSUME NEW r, NEW batch, NEW time \in Nat,
           r.reporting_timestamp \in Nat \union {NoTime},
           r.valuation_timestamp = DayBefore(time),
           r.termination_date = NoTime,
           r.reporting_timestamp # NoTime => time - r.reporting_timestamp <= 48
    PROVE  EmirClear("valuation_timestamp", r, batch, time)
<1>1. ASSUME NEW k \in EmirIssues(r, batch, time), k.field = "valuation_timestamp"
      PROVE  k \in UNION {ValuationTimestampMissing(r), ValuationAfterReporting(r),
                          ValuationAfterTermination(r), EmirRmtDailyValuationMissing(r, time)}
  BY <1>1, EmirIssuesRaised DEF EmirRaised
<1> QED BY <1>1
       DEF ValuationTimestampMissing, ValuationAfterReporting, ValuationAfterTermination,
           EmirRmtDailyValuationMissing, Issue, EmirClear, Both, NoTime, Day, DayBefore

LEMMA EmirNoPriorCure ==
    ASSUME NEW r, NEW batch, NEW time,
           r.prior_uti = NoText,
           ~(Uncleared(r) /\ In(r.event_type, {"COMP", "NOVA"}))
    PROVE  EmirClear("prior_uti", r, batch, time)
<1>1. ASSUME NEW k \in EmirIssues(r, batch, time), k.field = "prior_uti"
      PROVE  k \in UNION {NewtForbidsPriorUti(r), ModiPreservesUti(r),
                          EmirRmtCompressionEventIncomplete(r)}
  BY <1>1, EmirIssuesRaised DEF EmirRaised
<1> QED BY <1>1, TextsOfCures, BlankDiffers
       DEF NewtForbidsPriorUti, ModiPreservesUti, EmirRmtCompressionEventIncomplete, Issue,
           EmirClear

LEMMA EmirPriorCure ==
    ASSUME NEW r, NEW batch, NEW time, NEW c \in {"UTI0", "UTI1"},
           r.prior_uti = Plain(c),
           r.uti.code # c,
           ~Untrimmed(r.action_type, {"NEWT"})
    PROVE  EmirClear("prior_uti", r, batch, time)
<1>1. ASSUME NEW k \in EmirIssues(r, batch, time), k.field = "prior_uti"
      PROVE  k \in UNION {NewtForbidsPriorUti(r), ModiPreservesUti(r),
                          EmirRmtCompressionEventIncomplete(r)}
  BY <1>1, EmirIssuesRaised DEF EmirRaised
<1> QED BY <1>1, TextsOfCures
       DEF NewtForbidsPriorUti, ModiPreservesUti, EmirRmtCompressionEventIncomplete, Issue,
           EmirClear, SameText

LEMMA EmirTerminationCure ==
    ASSUME NEW r, NEW batch, NEW time,
           r.maturity_date \in Nat \union {NoTime},
           r.termination_date = IF Untrimmed(r.action_type, {"ETRM"}) THEN 0 ELSE NoTime
    PROVE  EmirClear("termination_date", r, batch, time)
<1>1. ASSUME NEW k \in EmirIssues(r, batch, time), k.field = "termination_date"
      PROVE  k \in UNION {TerminationAfterMaturity(r), EtrmRequiresTerminationDate(r),
                          NewtForbidsTerminationDate(r)}
  BY <1>1, EmirIssuesRaised DEF EmirRaised
<1> QED BY <1>1
       DEF TerminationAfterMaturity, EtrmRequiresTerminationDate, NewtForbidsTerminationDate,
           Issue, EmirClear, Both, NoTime, Untrimmed

LEMMA EmirUtiCure ==
    ASSUME NEW r, NEW batch, NEW time,
           ~Blank(r.uti),
           ~Repeated(r.uti, batch)
    PROVE  EmirClear("uti", r, batch, time)
<1>1. ASSUME NEW k \in EmirIssues(r, batch, time), k.field = "uti"
      PROVE  k \in UNION {MissingUti(r), DuplicateUti(r, batch)}
  BY <1>1, EmirIssuesRaised DEF EmirRaised
<1> QED BY <1>1
       DEF MissingUti, DuplicateUti, Issue, EmirClear

LEMMA SftrCounterparty2Cure ==
    ASSUME NEW r, NEW batch, NEW time, NEW c \in {"LEI1", "LEI2"},
           r.counterparty_2 = Plain(c),
           r.counterparty_1.code # c
    PROVE  SftrClear("counterparty_2", r, batch, time)
<1>1. ASSUME NEW k \in SftrIssues(r, batch, time), k.field = "counterparty_2"
      PROVE  k \in UNION {SftrCounterparty2Missing(r), SftrLeiFormatOc(r), SftrSelfDealing(r)}
  BY <1>1, SftrIssuesRaised DEF SftrRaised
<1> QED BY <1>1, TextsOfCures
       DEF SftrCounterparty2Missing, SftrLeiFormatOc, SftrSelfDealing, Issue, SftrClear, BadLei,
           ValidLei, In, SameText

LEMMA SftrNoCollateralCure ==
    ASSUME NEW r, NEW batch, NEW time,
           ~Has(r.collateral_value),
           r.collateral_currency = NoText
    PROVE  SftrClear("collateral_currency", r, batch, time)
<1>1. ASSUME NEW k \in SftrIssues(r, batch, time), k.field = "collateral_currency"
      PROVE  k \in UNION {SftrCollateralCurrencyMissing(r), SftrCollNeedsCurrency(r),
                          SftrCurrencyCollateral(r), SftrLoanCollCurrencyMismatch(r)}
  BY <1>1, SftrIssuesRaised DEF SftrRaised
<1> QED BY <1>1, TextsOfCures
       DEF SftrCollateralCurrencyMissing, SftrCollNeedsCurrency, SftrCurrencyCollateral,
           SftrLoanCollCurrencyMismatch, Issue, SftrClear, BadCurrency, Differ

LEMMA SftrCollateralCurrencyCure ==
    ASSUME NEW r, NEW batch, NEW time, NEW c \in {"EUR", "USD", "JPY"},
           r.collateral_currency = Plain(c),
           Blank(r.loan_currency) \/ r.loan_currency.code = c
    PROVE  SftrClear("collateral_currency", r, batch, time)
<1>1. ASSUME NEW k \in SftrIssues(r, batch, time), k.field = "collateral_currency"
      PROVE  k \in UNION {SftrCollateralCurrencyMissing(r), SftrCollNeedsCurrency(r),
                          SftrCurrencyCollateral(r), SftrLoanCollCurrencyMismatch(r)}
  BY <1>1, SftrIssuesRaised DEF SftrRaised
<1> QED BY <1>1, TextsOfCures
       DEF SftrCollateralCurrencyMissing, SftrCollNeedsCurrency, SftrCurrencyCollateral,
           SftrLoanCollCurrencyMismatch, Issue, SftrClear, BadCurrency, ValidCurrency, In,
           Differ, SameText

LEMMA SftrTerminationCure ==
    ASSUME NEW r, NEW batch, NEW time,
           r.maturity_date \in Nat \union {NoTime},
           r.termination_date = IF Untrimmed(r.action_type, {"ETRM"}) THEN 0 ELSE NoTime
    PROVE  SftrClear("termination_date", r, batch, time)
<1>1. ASSUME NEW k \in SftrIssues(r, batch, time), k.field = "termination_date"
      PROVE  k \in UNION {SftrTerminationAfterMaturity(r), SftrNewtForbidsTerminationDate(r),
                          SftrEtrmRequiresTerminationDate(r)}
  BY <1>1, SftrIssuesRaised DEF SftrRaised
<1> QED BY <1>1
       DEF SftrTerminationAfterMaturity, SftrNewtForbidsTerminationDate,
           SftrEtrmRequiresTerminationDate, Issue, SftrClear, Both, NoTime, Untrimmed

LEMMA SftrUtiCure ==
    ASSUME NEW r, NEW batch, NEW time,
           ~Blank(r.uti),
           ~Repeated(r.uti, batch)
    PROVE  SftrClear("uti", r, batch, time)
<1>1. ASSUME NEW k \in SftrIssues(r, batch, time), k.field = "uti"
      PROVE  k \in UNION {SftrMissingUti(r), SftrDuplicateUti(r, batch)}
  BY <1>1, SftrIssuesRaised DEF SftrRaised
<1> QED BY <1>1
       DEF SftrMissingUti, SftrDuplicateUti, Issue, SftrClear

\* With the report corrected, no check that names the field finds anything.
Corrected(field, value) == [report EXCEPT ![field] = value]
EmirCurable(field) ==
    /\ field \in DOMAIN EmirValues
    /\ \E value \in EmirValues[field] :
          LET r == Corrected(field, value) IN EmirClear(field, r, <<r>> \o RestOfFile, now)
SftrCurable(field) ==
    /\ field \in DOMAIN SftrValues
    /\ \E value \in SftrValues[field] :
          LET r == Corrected(field, value) IN SftrClear(field, r, <<r>> \o RestOfFile, now)

LEMMA CorrectedFields ==
    ASSUME TypeOK, NEW field \in DOMAIN report, NEW value
    PROVE  /\ Corrected(field, value)[field] = value
           /\ \A f \in DOMAIN report \ {field} : Corrected(field, value)[f] = report[f]
  BY DEF Corrected, TypeOK, IsRecord

\* A value that is right in any report is a cure.
LEMMA FixedCure ==
    ASSUME TypeOK, NEW field \in DOMAIN report, NEW value
    PROVE  /\ Offers(EmirValues, {field}, value)
                /\ (\A r, batch : r[field] = value => EmirClear(field, r, batch, now))
                => EmirCurable(field)
           /\ Offers(SftrValues, {field}, value)
                /\ (\A r, batch : r[field] = value => SftrClear(field, r, batch, now))
                => SftrCurable(field)
<1>1. Corrected(field, value)[field] = value
  BY CorrectedFields
<1> QED BY <1>1 DEF Offers, EmirCurable, SftrCurable

LEMMA EmirFixedCures ==
    ASSUME TypeOK, EmirReport
    PROVE  \A f \in {"counterparty_1", "entity_responsible_for_reporting", "trading_capacity",
                     "corporate_sector", "reporting_obligation_indicator", "nature",
                     "hedging_indicator", "commercial_or_treasury_financing",
                     "intragroup_indicator", "action_type", "event_type", "asset_class",
                     "product_id", "underlying_id", "leg1_payment_frequency",
                     "master_agreement_type", "master_agreement_version", "clearing_status",
                     "confirmation_method", "valuation_type", "delta", "gamma",
                     "notional_amount", "valuation_amount", "initial_margin_posted",
                     "initial_margin_collected", "variation_margin_posted",
                     "variation_margin_collected", "price", "notional_currency",
                     "price_currency", "collateralisation_category", "collateral_portfolio_code",
                     "maturity_date", "reporting_timestamp", "event_timestamp", "effective_date"}
                     :
             EmirCurable(f)
<1>1. DOMAIN report = EmirFields
  BY DEF TypeOK, IsRecord
<1>2. EmirCurable("counterparty_1") /\ EmirCurable("entity_responsible_for_reporting") /\
      EmirCurable("trading_capacity")
  BY <1>1, EmirCuresAssumption, FixedCure, EmirPartyCures DEF EmirFields, Offers, OffersShared
<1>3. EmirCurable("corporate_sector") /\ EmirCurable("reporting_obligation_indicator") /\
      EmirCurable("nature")
  BY <1>1, EmirCuresAssumption, FixedCure, EmirPartyCures DEF EmirFields, Offers, OffersShared
<1>4. EmirCurable("hedging_indicator") /\ EmirCurable("commercial_or_treasury_financing") /\
      EmirCurable("intragroup_indicator")
  BY <1>1, EmirCuresAssumption, FixedCure, EmirPartyCures DEF EmirFields, Offers, OffersShared
<1>5. EmirCurable("action_type") /\ EmirCurable("event_type") /\ EmirCurable("asset_class")
  BY <1>1, EmirCuresAssumption, FixedCure, EmirContractCures DEF EmirFields, Offers, OffersShared
<1>6. EmirCurable("product_id") /\ EmirCurable("underlying_id") /\
      EmirCurable("leg1_payment_frequency")
  BY <1>1, EmirCuresAssumption, FixedCure, EmirContractCures DEF EmirFields, Offers, OffersShared
<1>7. EmirCurable("master_agreement_type") /\ EmirCurable("master_agreement_version") /\
      EmirCurable("clearing_status")
  BY <1>1, EmirCuresAssumption, FixedCure, EmirContractCures DEF EmirFields, Offers, OffersShared
<1>8. EmirCurable("confirmation_method") /\ EmirCurable("valuation_type") /\ EmirCurable("delta")
  BY <1>1, EmirCuresAssumption, FixedCure, EmirContractCures DEF EmirFields, Offers, OffersShared
<1>9. EmirCurable("gamma")
  BY <1>1, EmirCuresAssumption, FixedCure, EmirContractCures DEF EmirFields, Offers, OffersShared
<1>10. EmirCurable("notional_amount") /\ EmirCurable("valuation_amount") /\
       EmirCurable("initial_margin_posted")
  BY <1>1, EmirCuresAssumption, FixedCure, EmirAmountCures
     DEF EmirFields, Offers, OffersShared, MarginFields
<1>11. EmirCurable("initial_margin_collected") /\ EmirCurable("variation_margin_posted") /\
       EmirCurable("variation_margin_collected")
  BY <1>1, EmirCuresAssumption, FixedCure, EmirAmountCures
     DEF EmirFields, Offers, OffersShared, MarginFields
<1>12. EmirCurable("price") /\ EmirCurable("notional_currency") /\ EmirCurable("price_currency")
  BY <1>1, EmirCuresAssumption, FixedCure, EmirAmountCures DEF EmirFields, Offers, OffersShared
<1>13. EmirCurable("collateralisation_category") /\ EmirCurable("collateral_portfolio_code")
  BY <1>1, EmirCuresAssumption, FixedCure, EmirAmountCures DEF EmirFields, Offers, OffersShared
<1>14. EmirCurable("maturity_date") /\ EmirCurable("reporting_timestamp") /\
       EmirCurable("event_timestamp")
  BY <1>1, EmirCuresAssumption, FixedCure, EmirTimeCures DEF EmirFields, Offers, OffersShared
<1>15. EmirCurable("effective_date")
  BY <1>1, EmirCuresAssumption, FixedCure, EmirTimeCures DEF EmirFields, Offers, OffersShared
<1> QED BY <1>2, <1>3, <1>4, <1>5, <1>6, <1>7, <1>8, <1>9, <1>10, <1>11, <1>12, <1>13, <1>14,
           <1>15

LEMMA SftrFixedCures ==
    ASSUME TypeOK, ~EmirReport
    PROVE  \A f \in {"counterparty_1", "entity_responsible_for_reporting", "prior_uti",
                     "action_type", "event_type", "sft_type", "master_agreement_type",
                     "master_agreement_version", "security_identifier", "collateral_isin",
                     "loan_value", "collateral_value", "loan_currency",
                     "collateral_portfolio_code", "haircut", "reuse_indicator", "rebate_rate",
                     "lending_fee", "maturity_date", "reporting_timestamp", "event_timestamp",
                     "settlement_date"} :
             SftrCurable(f)
<1>1. DOMAIN report = SftrFields
  BY DEF TypeOK, IsRecord
<1>2. SftrCurable("counterparty_1") /\ SftrCurable("entity_responsible_for_reporting") /\
      SftrCurable("prior_uti")
  BY <1>1, SftrCuresAssumption, FixedCure, SftrPartyCures DEF SftrFields, Offers, OffersShared
<1>3. SftrCurable("action_type") /\ SftrCurable("event_type") /\ SftrCurable("sft_type")
  BY <1>1, SftrCuresAssumption, FixedCure, SftrPartyCures DEF SftrFields, Offers, OffersShared
<1>4. SftrCurable("master_agreement_type") /\ SftrCurable("master_agreement_version") /\
      SftrCurable("security_identifier")
  BY <1>1, SftrCuresAssumption, FixedCure, SftrPartyCures DEF SftrFields, Offers, OffersShared
<1>5. SftrCurable("collateral_isin")
  BY <1>1, SftrCuresAssumption, FixedCure, SftrPartyCures DEF SftrFields, Offers, OffersShared
<1>6. SftrCurable("loan_value") /\ SftrCurable("collateral_value") /\
      SftrCurable("loan_currency")
  BY <1>1, SftrCuresAssumption, FixedCure, SftrAmountCures DEF SftrFields, Offers, OffersShared
<1>7. SftrCurable("collateral_portfolio_code") /\ SftrCurable("haircut") /\
      SftrCurable("reuse_indicator")
  BY <1>1, SftrCuresAssumption, FixedCure, SftrAmountCures DEF SftrFields, Offers, OffersShared
<1>8. SftrCurable("rebate_rate") /\ SftrCurable("lending_fee")
  BY <1>1, SftrCuresAssumption, FixedCure, SftrAmountCures DEF SftrFields, Offers, OffersShared
<1>9. SftrCurable("maturity_date") /\ SftrCurable("reporting_timestamp") /\
      SftrCurable("event_timestamp")
  BY <1>1, SftrCuresAssumption, FixedCure, SftrTimeCures DEF SftrFields, Offers, OffersShared
<1>10. SftrCurable("settlement_date")
  BY <1>1, SftrCuresAssumption, FixedCure, SftrTimeCures DEF SftrFields, Offers, OffersShared
<1> QED BY <1>2, <1>3, <1>4, <1>5, <1>6, <1>7, <1>8, <1>9, <1>10

\* A currency that is not malformed is blank or has one of these codes.
LEMMA CurrencyOf ==
    ASSUME NEW t, ~NoCurrency(t)
    PROVE  Blank(t) \/ t.code \in {"EUR", "USD", "JPY"}
<1>1. Blank(Plain(t.code)) <=> Blank(t)
  BY Zenon DEF Blank, Plain
<1> QED BY <1>1 DEF NoCurrency, BadCurrency, ValidCurrency, In, Plain

\* A UTI no other record of the file has is not repeated.
LEMMA NewUti ==
    ASSUME NEW r, \A i \in DOMAIN RestOfFile : ~SameBytes(RestOfFile[i].uti, r.uti)
    PROVE  ~Repeated(r.uti, <<r>> \o RestOfFile)
<1> DEFINE batch == <<r>> \o RestOfFile
           same  == {i \in DOMAIN batch : SameBytes(batch[i].uti, r.uti)}
<1>1. RestOfFile \in Seq([uti : Texts])
  BY RecordsAssumption
<1>2. /\ DOMAIN batch = 1..(1 + Len(RestOfFile)) /\ Len(RestOfFile) \in Nat
      /\ DOMAIN RestOfFile = 1..Len(RestOfFile)
      /\ \A i \in 1..(1 + Len(RestOfFile)) : i # 1 => batch[i] = RestOfFile[i - 1]
  BY <1>1
<1>3. ASSUME NEW i \in DOMAIN batch, i # 1 PROVE ~SameBytes(batch[i].uti, r.uti)
  <2>1. i - 1 \in DOMAIN RestOfFile /\ batch[i] = RestOfFile[i - 1]
    BY <1>2, <1>3
  <2> HIDE DEF batch
  <2> QED BY <2>1
<1> HIDE DEF batch
<1>4. same \subseteq {1}
  BY <1>3
<1>5. Cardinality(same) \in Nat /\ Cardinality(same) <= 1
  <2>1. IsFiniteSet({1}) /\ Cardinality({1}) = 1
    BY FS_Singleton
  <2> HIDE DEF same
  <2>2. IsFiniteSet(same) /\ Cardinality(same) <= Cardinality({1})
    BY <1>4, <2>1, FS_Subset
  <2> QED BY <2>1, <2>2, FS_CardinalityType
<1>6. Repeated(r.uti, batch) <=> Cardinality(same) > 1
  BY DEF Repeated
<1> HIDE DEF same
<1>7. ~Repeated(r.uti, batch)
  BY <1>5, <1>6
<1> QED BY <1>7 DEF batch

\* The correction of a report's UTI to a new one is a cure.
LEMMA UtiCurable ==
    ASSUME TypeOK
    PROVE  (EmirReport => EmirCurable("uti")) /\ (~EmirReport => SftrCurable("uti"))
<1>1. "uti" \in DOMAIN report
  BY DEF TypeOK, IsRecord, EmirFields, SftrFields
<1>2. ASSUME NEW uti, ~Blank(uti), \A i \in DOMAIN RestOfFile : ~SameBytes(RestOfFile[i].uti, uti)
      PROVE  LET r == Corrected("uti", uti)
                 batch == <<r>> \o RestOfFile
             IN  EmirClear("uti", r, batch, now) /\ SftrClear("uti", r, batch, now)
  <2> DEFINE r == Corrected("uti", uti)
  <2>1. r.uti = uti
    BY <1>1, CorrectedFields
  <2> HIDE DEF r
  <2>2. ~Repeated(r.uti, <<r>> \o RestOfFile)
    BY <1>2, <2>1, NewUti
  <2>3. /\ EmirClear("uti", r, <<r>> \o RestOfFile, now)
        /\ SftrClear("uti", r, <<r>> \o RestOfFile, now)
    BY <1>2, <2>1, <2>2, EmirUtiCure, SftrUtiCure
  <2> QED BY <2>3 DEF r
<1> QED BY <1>2, EmirCuresAssumption, SftrCuresAssumption
        DEF OffersShared, OffersNewUti, EmirCurable, SftrCurable

\* And so is one of these, if nothing conflicts.
LEMMA EmirDependentCures ==
    ASSUME TypeOK, EmirReport, NEW n \in 0..Steps, now = Start + 48 * n,
           NEW f \in {"counterparty_2", "clearing_ccp_lei", "leg2_notional_currency",
                      "valuation_currency", "valuation_timestamp", "prior_uti",
                      "termination_date"},
           ~EmirConflict(f, report, now)
    PROVE  EmirCurable(f)
<1> DEFINE R(v) == Corrected(f, v)
<1>1. /\ DOMAIN report = EmirFields /\ now \in Nat
      /\ report.maturity_date \in Nat \union {NoTime}
      /\ report.reporting_timestamp \in Nat \union {NoTime}
      /\ report.termination_date \in Nat \union {NoTime}
  BY DEF TypeOK, IsRecord, EmirFields, FieldType, TimeFields, SumFields, NamedFields
<1>2. \A v : R(v)[f] = v /\ \A g \in EmirFields \ {f} : R(v)[g] = report[g]
  BY <1>1, CorrectedFields DEF EmirFields
<1>3. ASSUME NEW v, Offers(EmirValues, {f}, v), \A batch : EmirClear(f, R(v), batch, now)
      PROVE  EmirCurable(f)
  BY <1>3 DEF Offers, EmirCurable
<1> HIDE DEF R
<1>4. CASE f = "counterparty_2"
  <2>1. PICK c \in {"LEI1", "LEI2"} : report.counterparty_1.code # c
    OBVIOUS
  <2>2. R(Plain(c)).counterparty_2 = Plain(c) /\ R(Plain(c)).counterparty_1.code # c
    BY <1>2, <1>4, <2>1 DEF EmirFields
  <2>3. Offers(EmirValues, {f}, Plain(c))
    BY <1>4, EmirCuresAssumption DEF Offers, OffersShared
  <2> QED BY <1>3, <1>4, <2>2, <2>3, EmirCounterparty2Cure
<1>5. CASE f = "clearing_ccp_lei"
  <2> DEFINE v == IF In(report.clearing_status, {"CLRD", "Y", "YES", "TRUE", "CLEARED", "T"})
                  THEN Plain("LEI3") ELSE NoText
  <2>1. R(v).clearing_ccp_lei = v /\ R(v).clearing_status = report.clearing_status
    BY <1>2, <1>5 DEF EmirFields
  <2>2. Offers(EmirValues, {f}, v)
    BY <1>5, EmirCuresAssumption DEF Offers
  <2>3. \A batch : EmirClear(f, R(v), batch, now)
    BY <1>5, <2>1, EmirCcpCure
  <2> QED BY <1>3, <2>2, <2>3
<1>6. CASE f = "leg2_notional_currency"
  <2>1. PICK c \in {"EUR", "USD"} : report.notional_currency.code # c
    OBVIOUS
  <2>2. /\ R(Plain(c)).leg2_notional_currency = Plain(c)
        /\ R(Plain(c)).notional_currency.code # c
    BY <1>2, <1>6, <2>1 DEF EmirFields
  <2>3. Offers(EmirValues, {f}, Plain(c))
    BY <1>6, EmirCuresAssumption DEF Offers
  <2> QED BY <1>3, <1>6, <2>2, <2>3, EmirLeg2Cure
<1>7. CASE f = "valuation_currency"
  <2>1. CASE ~Has(report.valuation_amount)
    <3>1. R(NoText).valuation_currency = NoText /\ ~Has(R(NoText).valuation_amount)
      BY <1>2, <1>7, <2>1 DEF EmirFields
    <3>2. Offers(EmirValues, {f}, NoText)
      BY <1>7, EmirCuresAssumption DEF Offers
    <3> QED BY <1>3, <1>7, <3>1, <3>2, EmirNoValuationCure
  <2>2. CASE Has(report.valuation_amount)
    <3>1. /\ ~Differ(report.notional_currency, report.price_currency)
          /\ ~NoCurrency(report.notional_currency) /\ ~NoCurrency(report.price_currency)
      BY <1>7, <2>2 DEF EmirConflict
    <3>2. PICK c \in {"EUR", "USD", "JPY"} :
            /\ Blank(report.notional_currency) \/ report.notional_currency.code = c
            /\ Blank(report.price_currency) \/ report.price_currency.code = c
      BY <3>1, CurrencyOf DEF Differ, SameText
    <3>3. /\ R(Plain(c)).valuation_currency = Plain(c)
          /\ Blank(R(Plain(c)).notional_currency) \/ R(Plain(c)).notional_currency.code = c
          /\ Blank(R(Plain(c)).price_currency) \/ R(Plain(c)).price_currency.code = c
      BY <1>2, <1>7, <3>2 DEF EmirFields
    <3>4. Offers(EmirValues, {f}, Plain(c))
      BY <1>7, EmirCuresAssumption DEF Offers
    <3> QED BY <1>3, <1>7, <3>3, <3>4, EmirValuationCurrencyCure
  <2> QED BY <2>1, <2>2
<1>8. CASE f = "valuation_timestamp"
  <2>1. CASE Uncleared(report) /\ NotTerminated(report)
    <3> DEFINE v == DayBefore(now)
    <3>1. /\ R(v).valuation_timestamp = v /\ R(v).termination_date = NoTime
          /\ R(v).reporting_timestamp = report.reporting_timestamp
          /\ report.reporting_timestamp # NoTime => now - report.reporting_timestamp <= 48
      BY <1>1, <1>2, <1>8, <2>1 DEF EmirFields, EmirConflict, NotTerminated, NoTime
    <3>2. Offers(EmirValues, {f}, v)
      BY <1>8, EmirCuresAssumption DEF Offers
    <3> HIDE DEF v
    <3>3. v = DayBefore(now)
      BY DEF v
    <3>4. \A batch : EmirClear(f, R(v), batch, now)
      BY <1>1, <1>8, <3>1, <3>3, EmirNewValuationCure
    <3> QED BY <1>3, <3>2, <3>4
  <2>2. CASE ~(Uncleared(report) /\ NotTerminated(report))
    <3>1. /\ R(0).valuation_timestamp = 0
          /\ R(0).termination_date = report.termination_date
          /\ R(0).reporting_timestamp = report.reporting_timestamp
          /\ R(0).clearing_status = report.clearing_status
      BY <1>2, <1>8 DEF EmirFields
    <3>2. ~(Uncleared(R(0)) /\ NotTerminated(R(0)))
      BY <2>2, <3>1 DEF Uncleared, NotTerminated
    <3>3. Offers(EmirValues, {f}, 0)
      BY <1>8, EmirCuresAssumption DEF Offers
    <3> QED BY <1>1, <1>3, <1>8, <3>1, <3>2, <3>3, EmirOldValuationCure
  <2> QED BY <2>1, <2>2
<1>9. CASE f = "prior_uti"
  <2>1. CASE Uncleared(report) /\ In(report.event_type, {"COMP", "NOVA"})
    <3>1. PICK c \in {"UTI0", "UTI1"} : report.uti.code # c
      OBVIOUS
    <3>2. ~Untrimmed(report.action_type, {"NEWT"})
      BY <1>9, <2>1 DEF EmirConflict, In
    <3>3. /\ R(Plain(c)).prior_uti = Plain(c) /\ R(Plain(c)).uti.code # c
          /\ R(Plain(c)).action_type = report.action_type
      BY <1>2, <1>9, <3>1 DEF EmirFields
    <3>4. Offers(EmirValues, {f}, Plain(c))
      BY <1>9, EmirCuresAssumption DEF Offers
    <3> QED BY <1>3, <1>9, <3>2, <3>3, <3>4, EmirPriorCure
  <2>2. CASE ~(Uncleared(report) /\ In(report.event_type, {"COMP", "NOVA"}))
    <3>1. /\ R(NoText).prior_uti = NoText /\ R(NoText).event_type = report.event_type
          /\ R(NoText).clearing_status = report.clearing_status
      BY <1>2, <1>9 DEF EmirFields
    <3>2. ~(Uncleared(R(NoText)) /\ In(R(NoText).event_type, {"COMP", "NOVA"}))
      BY <2>2, <3>1 DEF Uncleared
    <3>3. Offers(EmirValues, {f}, NoText)
      BY <1>9, EmirCuresAssumption DEF Offers, OffersShared
    <3> QED BY <1>3, <1>9, <3>1, <3>2, <3>3, EmirNoPriorCure
  <2> QED BY <2>1, <2>2
<1>10. CASE f = "termination_date"
  <2> DEFINE v == IF Untrimmed(report.action_type, {"ETRM"}) THEN 0 ELSE NoTime
  <2>1. /\ R(v).termination_date = v /\ R(v).maturity_date = report.maturity_date
        /\ R(v).action_type = report.action_type
    BY <1>2, <1>10 DEF EmirFields
  <2>2. Offers(EmirValues, {f}, v)
    BY <1>10, EmirCuresAssumption DEF Offers, OffersShared
  <2>3. \A batch : EmirClear(f, R(v), batch, now)
    BY <1>1, <1>10, <2>1, EmirTerminationCure
  <2> QED BY <1>3, <2>2, <2>3
<1> QED BY <1>4, <1>5, <1>6, <1>7, <1>8, <1>9, <1>10

LEMMA SftrDependentCures ==
    ASSUME TypeOK, ~EmirReport,
           NEW f \in {"counterparty_2", "collateral_currency", "termination_date"},
           ~SftrConflict(f, report)
    PROVE  SftrCurable(f)
<1> DEFINE R(v) == Corrected(f, v)
<1>1. /\ DOMAIN report = SftrFields /\ now \in Nat
      /\ report.maturity_date \in Nat \union {NoTime}
  BY DEF TypeOK, IsRecord, SftrFields, FieldType, TimeFields, SumFields, NamedFields
<1>2. \A v : R(v)[f] = v /\ \A g \in SftrFields \ {f} : R(v)[g] = report[g]
  BY <1>1, CorrectedFields DEF SftrFields
<1>3. ASSUME NEW v, Offers(SftrValues, {f}, v), \A batch : SftrClear(f, R(v), batch, now)
      PROVE  SftrCurable(f)
  BY <1>3 DEF Offers, SftrCurable
<1> HIDE DEF R
<1>4. CASE f = "counterparty_2"
  <2>1. PICK c \in {"LEI1", "LEI2"} : report.counterparty_1.code # c
    OBVIOUS
  <2>2. R(Plain(c)).counterparty_2 = Plain(c) /\ R(Plain(c)).counterparty_1.code # c
    BY <1>2, <1>4, <2>1 DEF SftrFields
  <2>3. Offers(SftrValues, {f}, Plain(c))
    BY <1>4, SftrCuresAssumption DEF Offers, OffersShared
  <2> QED BY <1>3, <1>4, <2>2, <2>3, SftrCounterparty2Cure
<1>5. CASE f = "collateral_currency"
  <2>1. CASE ~Has(report.collateral_value)
    <3>1. R(NoText).collateral_currency = NoText /\ ~Has(R(NoText).collateral_value)
      BY <1>2, <1>5, <2>1 DEF SftrFields
    <3>2. Offers(SftrValues, {f}, NoText)
      BY <1>5, SftrCuresAssumption DEF Offers
    <3> QED BY <1>3, <1>5, <3>1, <3>2, SftrNoCollateralCure
  <2>2. CASE Has(report.collateral_value)
    <3>1. ~NoCurrency(report.loan_currency)
      BY <1>5, <2>2 DEF SftrConflict
    <3>2. PICK c \in {"EUR", "USD", "JPY"} :
            Blank(report.loan_currency) \/ report.loan_currency.code = c
      BY <3>1, CurrencyOf
    <3>3. /\ R(Plain(c)).collateral_currency = Plain(c)
          /\ Blank(R(Plain(c)).loan_currency) \/ R(Plain(c)).loan_currency.code = c
      BY <1>2, <1>5, <3>2 DEF SftrFields
    <3>4. Offers(SftrValues, {f}, Plain(c))
      BY <1>5, SftrCuresAssumption DEF Offers
    <3> QED BY <1>3, <1>5, <3>3, <3>4, SftrCollateralCurrencyCure
  <2> QED BY <2>1, <2>2
<1>6. CASE f = "termination_date"
  <2> DEFINE v == IF Untrimmed(report.action_type, {"ETRM"}) THEN 0 ELSE NoTime
  <2>1. /\ R(v).termination_date = v /\ R(v).maturity_date = report.maturity_date
        /\ R(v).action_type = report.action_type
    BY <1>2, <1>6 DEF SftrFields
  <2>2. Offers(SftrValues, {f}, v)
    BY <1>6, SftrCuresAssumption DEF Offers, OffersShared
  <2>3. \A batch : SftrClear(f, R(v), batch, now)
    BY <1>1, <1>6, <2>1, SftrTerminationCure
  <2> QED BY <1>3, <2>2, <2>3
<1> QED BY <1>4, <1>5, <1>6

\* The scans are whole days after the first, and their number is bounded.
ScansAreDaily == \E n \in 0..Steps : now = Start + 48 * n
LEMMA EveryScanIsDaily == Spec => []ScansAreDaily
<1>1. Init => ScansAreDaily
  <2>1. Start = Start + 48 * 0 /\ 0 \in 0..Steps
    BY RecordsAssumption
  <2> QED BY <2>1 DEF Init, ScansAreDaily
<1>2. TypeOK /\ ScansAreDaily /\ [Next]_vars => ScansAreDaily'
  <2> SUFFICES ASSUME TypeOK, ScansAreDaily, [Next]_vars PROVE ScansAreDaily'
    OBVIOUS
  <2>1. PICK n \in 0..Steps : now = Start + 48 * n
    BY DEF ScansAreDaily
  <2>2. CASE now' = now
    BY <2>2 DEF ScansAreDaily
  <2>3. CASE DayPasses
    <3>1. (now - Start) \div 48 = n
      BY <2>1, RecordsAssumption
    <3>2. n + 1 \in 0..Steps
      BY <2>3, <3>1, RecordsAssumption DEF DayPasses, StepsLeft, TypeOK
    <3>3. now' = Start + 48 * (n + 1)
      BY <2>1, <2>3, RecordsAssumption DEF DayPasses
    <3> QED BY <3>2, <3>3 DEF ScansAreDaily
  <2> QED BY <2>2, <2>3 DEF Next, Correct, vars
<1> QED BY <1>1, <1>2, RecordsTypeOK, PTL DEF Spec

\* Whatever a report holds, the field an issue names can be corrected so that no
\* check finds anything about it, unless two rules conflict there
\* (IssueNamesItsCure).
THEOREM EveryIssueHasItsCure == Spec => []IssueNamesItsCure
<1>1. TypeOK /\ ScansAreDaily => IssueNamesItsCure
  <2> SUFFICES ASSUME TypeOK, ScansAreDaily, NEW i \in Issues,
                      i.field \notin {"variation_margin", "initial_margin"}, ~Conflicting(i)
               PROVE  i.field \in DOMAIN Values /\ CurableIn(i, Issues)
    BY DEF IssueNamesItsCure
  <2> DEFINE file == <<report>> \o RestOfFile
  <2>1. CASE EmirReport
    <3>1. EmirRaised(i, report, file, now)
      BY <2>1, EmirIssuesRaised DEF Issues, IssuesOf
    <3>2. ~EmirConflict(i.field, report, now)
      BY <2>1 DEF Conflicting
    <3>3. EmirCurable(i.field)
      <4>1. PICK n \in 0..Steps : now = Start + 48 * n
        BY DEF ScansAreDaily
      <4>2. i.field \in {"counterparty_2", "clearing_ccp_lei", "leg2_notional_currency",
                         "valuation_currency", "valuation_timestamp", "prior_uti",
                         "termination_date"} => EmirCurable(i.field)
        BY <2>1, <3>2, <4>1, EmirDependentCures
      <4>3. i.field = "uti" => EmirCurable(i.field)
        BY <2>1, UtiCurable
      <4> QED BY <2>1, <3>1, <4>2, <4>3, EmirFixedCures DEF EmirRaised
    <3> QED BY <2>1, <3>3 DEF EmirCurable, EmirClear, Corrected, Values, CurableIn, IssuesOf
  <2>2. CASE ~EmirReport
    <3>1. SftrRaised(i, report, file, now)
      BY <2>2, SftrIssuesRaised DEF Issues, IssuesOf
    <3>2. ~SftrConflict(i.field, report)
      BY <2>2 DEF Conflicting
    <3>3. SftrCurable(i.field)
      <4>1. i.field \in {"counterparty_2", "collateral_currency", "termination_date"} =>
              SftrCurable(i.field)
        BY <2>2, <3>2, SftrDependentCures
      <4>2. i.field = "uti" => SftrCurable(i.field)
        BY <2>2, UtiCurable
      <4> QED BY <2>2, <3>1, <4>1, <4>2, SftrFixedCures DEF SftrRaised
    <3> QED BY <2>2, <3>3 DEF SftrCurable, SftrClear, Corrected, Values, CurableIn, IssuesOf
  <2> QED BY <2>1, <2>2
<1> QED BY <1>1, RecordsTypeOK, EveryScanIsDaily, PTL
=============================================================================
