------------------------- MODULE QualityPack_proofs -------------------------
(***************************************************************************)
(* Theorems about QualityPack for any files, editions and thresholds: what *)
(* the scans, the comparisons of files and the data quality pack say of    *)
(* the same rows, on one day and on the next.                              *)
(***************************************************************************)
EXTENDS QualityPack, TLAPS, FiniteSetTheorems

----------------------------------------------------------------------------
(* The files are well-formed *)

\* A later edition differs in one value, a row or a layer.
LEMMA RereadFile ==
    ASSUME NEW layer, NEW fields, NEW rows, IsFile(rows, layer, fields),
           NEW i \in DOMAIN rows, NEW field, NEW value \in ValueType(layer, field)
    PROVE  IsFile([rows EXCEPT ![i][field] = value], layer, fields)
<1> DEFINE new == [rows EXCEPT ![i][field] = value]
           S == {new[k] : k \in DOMAIN new}
<1>1. rows = [k \in 1 .. Len(rows) |-> rows[k]] /\ Len(rows) \in Nat
  BY DEF IsFile
<1>2. DOMAIN rows = 1 .. Len(rows)
  BY <1>1
<1>3. new = [k \in 1 .. Len(rows) |-> IF k = i THEN [rows[i] EXCEPT ![field] = value] ELSE rows[k]]
  BY <1>1, <1>2
<1>4. new \in Seq(S)
  <2>1. new \in [1 .. Len(rows) -> S]
    BY <1>3
  <2> HIDE DEF new, S
  <2> QED BY <1>1, <2>1
<1>5. ASSUME NEW k \in DOMAIN new PROVE IsRow(new[k], layer, fields)
  <2>1. k \in DOMAIN rows
    BY <1>2, <1>3
  <2>2. IsRow(rows[k], layer, fields) /\ IsRow(rows[i], layer, fields)
    BY <2>1 DEF IsFile
  <2>3. CASE k # i
    BY <1>2, <1>3, <2>1, <2>2, <2>3
  <2>4. CASE k = i
    <3>1. new[k] = [rows[i] EXCEPT ![field] = value]
      BY <1>2, <1>3, <2>1, <2>4
    <3>2. DOMAIN rows[i] = fields /\ \A g \in fields : rows[i][g] \in ValueType(layer, g)
      BY <2>2 DEF IsRow
    <3> HIDE DEF new
    <3> QED BY <3>1, <3>2 DEF IsRow
  <2> QED BY <2>3, <2>4
<1> QED BY <1>4, <1>5 DEF IsFile

LEMMA RepeatedFile ==
    ASSUME NEW layer, NEW fields, NEW rows, IsFile(rows, layer, fields), NEW i \in DOMAIN rows
    PROVE  IsFile(Append(rows, rows[i]), layer, fields)
<1> DEFINE R == {rows[k] : k \in DOMAIN rows}
           new == Append(rows, rows[i])
           S == {new[k] : k \in DOMAIN new}
<1>1. rows \in Seq(R) /\ rows[i] \in R
  BY DEF IsFile
<1>2. Len(rows) \in Nat /\ DOMAIN rows = 1 .. Len(rows)
  BY <1>1
<1>3. /\ new \in Seq(R) /\ DOMAIN new = 1 .. Len(rows) + 1
      /\ \A k \in 1 .. Len(rows) + 1 : new[k] = IF k <= Len(rows) THEN rows[k] ELSE rows[i]
  <2> HIDE DEF R
  <2> QED BY <1>1, <1>2
<1>4. new \in Seq(S)
  <2> HIDE DEF new, R
  <2>1. new = [k \in 1 .. Len(rows) + 1 |-> new[k]] /\ Len(rows) + 1 \in Nat
    BY <1>2, <1>3
  <2>2. new \in [1 .. Len(rows) + 1 -> S]
    BY <1>3, <2>1
  <2> HIDE DEF S
  <2> QED BY <2>1, <2>2
<1>5. \A k \in DOMAIN new : new[k] \in R
  BY <1>2, <1>3
<1> QED BY <1>4, <1>5 DEF IsFile

\* Every edition that arrives is made of rows of its layer.
THEOREM PackTypeCorrect == Spec => []TypeOK
<1>1. Init => TypeOK
  BY PackAssumption DEF Init, TypeOK
<1>2. TypeOK /\ [Next]_vars => TypeOK'
  <2> SUFFICES ASSUME TypeOK, [Next]_vars PROVE TypeOK'
    OBVIOUS
  <2>0. ASSUME NEW layer \in DOMAIN files, Change(layer)
        PROVE  /\ regime' = regime /\ day' = day /\ changes' \in Nat
               /\ \A field \in DOMAIN Values[regime][layer] :
                     Values[regime][layer][field] \subseteq ValueType(layer, field)
    BY <2>0, PackAssumption DEF Change, TypeOK
  <2>1. ASSUME NEW layer \in DOMAIN files, NEW i \in DOMAIN files[layer],
               NEW field \in DOMAIN Values[regime][layer],
               NEW value \in Values[regime][layer][field], Reread(layer, i, field, value)
        PROVE  TypeOK'
    <3> DEFINE new == [files[layer] EXCEPT ![i][field] = value]
    <3>1. files' = [files EXCEPT ![layer] = new] /\ Change(layer)
      BY <2>1 DEF Reread
    <3>2. IsFile(new, layer, LayersOf(regime)[layer])
      BY <2>0, <3>1, RereadFile DEF TypeOK, AreFiles
    <3> HIDE DEF new
    <3> QED BY <2>0, <3>1, <3>2 DEF TypeOK, AreFiles
  <2>2. ASSUME NEW layer \in DOMAIN files, NEW i \in DOMAIN files[layer], RepeatRow(layer, i)
        PROVE  TypeOK'
    <3> DEFINE new == Append(files[layer], files[layer][i])
    <3>1. files' = [files EXCEPT ![layer] = new] /\ Change(layer)
      BY <2>2 DEF RepeatRow
    <3>2. IsFile(new, layer, LayersOf(regime)[layer])
      BY RepeatedFile DEF TypeOK, AreFiles
    <3> HIDE DEF new
    <3> QED BY <2>0, <3>1, <3>2 DEF TypeOK, AreFiles
  <2>3. ASSUME NEW layer \in DOMAIN files, NotReceived(layer) PROVE TypeOK'
    BY <2>0, <2>3 DEF NotReceived, TypeOK, AreFiles
  <2>4. CASE DayPasses
    BY <2>4 DEF DayPasses, TypeOK
  <2>5. CASE UNCHANGED vars
    BY <2>5 DEF vars, TypeOK
  <2> QED BY <2>1, <2>2, <2>3, <2>4, <2>5 DEF Next
<1> QED BY <1>1, <1>2, PTL DEF Spec
----------------------------------------------------------------------------
(* What is said of a submitted or registered report *)

\* The ids of the checks that something else is compared with: the predicates of
\* the pre-submission check, two indicators and the audit of two files.
Compared == {"TIM.LATE_REPORTING", "COMP.NATURE_MISSING", "TRA.NEWT_NOT_IN_TSR"}
EmirTarKnown == EmirPredicates \union Compared
SftrTarKnown == SftrPredicates \union Compared

\* The checks of each group that have one of these ids.
LEMMA KnownCompleteness ==
    ASSUME NEW r, NEW now, NEW issue \in CompletenessIssues(r, now), issue.id \in EmirTarKnown
    PROVE  issue \in UNION {MissingUti(r), MissingValuation(r, now),
                             Counterparty1Missing(r), Counterparty2Missing(r),
                             NotionalCurrencyMissing(r), NatureMissing(r)}
<1>1. \A j \in UNION {
        ValuationCurrencyMissing(r), ValuationTimestampMissing(r), ClearingStatusMissing(r),
        IntragroupIndicatorMissing(r), TradingCapacityMissing(r),
        MasterAgreementTypeMissing(r), MasterAgreementVersionMissing(r)} :
        j.id \notin EmirTarKnown
  BY DEF ValuationCurrencyMissing, ValuationTimestampMissing, ClearingStatusMissing,
         IntragroupIndicatorMissing, TradingCapacityMissing, MasterAgreementTypeMissing,
         MasterAgreementVersionMissing, Issue, EmirTarKnown, EmirPredicates, Compared
<1>2. \A j \in UNION {
        AssetClassMissing(r), ProductIdMissing(r), InitialMarginMissingForFull(r),
        VariationMarginMissingForFull(r), CollateralPortfolioRequiredForFull(r)} :
        j.id \notin EmirTarKnown
  BY DEF AssetClassMissing, ProductIdMissing, InitialMarginMissingForFull,
         VariationMarginMissingForFull, CollateralPortfolioRequiredForFull, Issue,
         EmirTarKnown, EmirPredicates, Compared
<1> QED BY <1>1, <1>2 DEF CompletenessIssues

LEMMA KnownValidity ==
    ASSUME NEW r, NEW issue \in ValidityIssues(r), issue.id \in EmirTarKnown
    PROVE  FALSE
<1>1. \A j \in UNION {
        LeiFormatRc(r), LeiFormatOc(r), LeiFormatErr(r), LeiFormatCcp(r),
        CurrencyNotional(r), CurrencyValuation(r), ActionTypeEnum(r)} :
        j.id \notin EmirTarKnown
  BY DEF LeiFormatRc, LeiFormatOc, LeiFormatErr, LeiFormatCcp, CurrencyNotional,
         CurrencyValuation, ActionTypeEnum, Issue, EmirTarKnown, EmirPredicates, Compared
<1>2. \A j \in UNION {
        EventTypeEnum(r), ValuationTypeEnum(r), TradingCapacityEnum(r), AssetClassEnum(r),
        NatureEnum(r), MasterAgreementTypeEnum(r), CollateralisationCategoryEnum(r)} :
        j.id \notin EmirTarKnown
  BY DEF EventTypeEnum, ValuationTypeEnum, TradingCapacityEnum, AssetClassEnum, NatureEnum,
         MasterAgreementTypeEnum, CollateralisationCategoryEnum, Issue, EmirTarKnown,
         EmirPredicates, Compared
<1>3. \A j \in UNION {
        ClearingStatusEnum(r), EmirCorporateSectorEnum(r),
        EmirReportingObligationIndicatorEnum(r), NotionalPrecision(r),
        ValuationPrecision(r), PricePrecision(r), MarginPrecision(r)} :
        j.id \notin EmirTarKnown
  BY DEF ClearingStatusEnum, EmirCorporateSectorEnum, EmirReportingObligationIndicatorEnum,
         NotionalPrecision, ValuationPrecision, PricePrecision, MarginPrecision, Issue,
         EmirTarKnown, EmirPredicates, Compared
<1>4. \A j \in UNION {
        NotionalPrecisionByCurrency(r), ValuationPrecisionByCurrency(r),
        PricePrecisionByCurrency(r), MasterAgreementVersionFormat(r),
        IsdaVersionPlausible(r), CommodityBaseEnum(r), CreditSectorEnum(r)} :
        j.id \notin EmirTarKnown
  BY DEF NotionalPrecisionByCurrency, ValuationPrecisionByCurrency,
         PricePrecisionByCurrency, MasterAgreementVersionFormat, IsdaVersionPlausible,
         CommodityBaseEnum, CreditSectorEnum, Issue, EmirTarKnown, EmirPredicates, Compared
<1> QED BY <1>1, <1>2, <1>3, <1>4 DEF ValidityIssues

LEMMA KnownAccuracy ==
    ASSUME NEW r, NEW now, NEW issue \in AccuracyIssues(r, now), issue.id \in EmirTarKnown
    PROVE  issue \in UNION {ZeroNotional(r), NegativeNotional(r)}
<1>1. \A j \in UNION {
        AbnormalMaturity(r, now), NegativeInitialMarginPosted(r),
        NegativeInitialMarginCollected(r), NegativeVariationMarginPosted(r),
        NegativeVariationMarginCollected(r), NotionalAbnormalMagnitude(r),
        IrRequiresNotional(r)} :
        j.id \notin EmirTarKnown
  BY DEF AbnormalMaturity, NegativeInitialMarginPosted, NegativeInitialMarginCollected,
         NegativeVariationMarginPosted, NegativeVariationMarginCollected,
         NotionalAbnormalMagnitude, IrRequiresNotional, Issue, EmirTarKnown, EmirPredicates,
         Compared
<1>2. \A j \in UNION {
        IrRequiresLeg1Freq(r), FxRequiresLeg2Currency(r), EqRequiresUnderlying(r),
        CrRequiresUnderlying(r), CommodityRequiresProductId(r), EmirPriceNegative(r),
        EmirDeltaOutOfRange(r)} :
        j.id \notin EmirTarKnown
  BY DEF IrRequiresLeg1Freq, FxRequiresLeg2Currency, EqRequiresUnderlying,
         CrRequiresUnderlying, CommodityRequiresProductId, EmirPriceNegative,
         EmirDeltaOutOfRange, Issue, EmirTarKnown, EmirPredicates, Compared
<1>3. \A j \in UNION {
        EmirGammaNegative(r)} :
        j.id \notin EmirTarKnown
  BY DEF EmirGammaNegative, Issue, EmirTarKnown, EmirPredicates, Compared
<1> QED BY <1>1, <1>2, <1>3 DEF AccuracyIssues

LEMMA KnownConsistency ==
    ASSUME NEW r, NEW now, NEW issue \in ConsistencyIssues(r, now), issue.id \in EmirTarKnown
    PROVE  FALSE
<1>1. \A j \in UNION {
        ReportingBeforeExecution(r), EventBeforeExecution(r), ValuationAfterTermination(r),
        MaturityInPast(r, now), TerminationAfterMaturity(r), EffectiveAfterMaturity(r),
        ClearedRequiresCcp(r)} :
        j.id \notin EmirTarKnown
  BY DEF ReportingBeforeExecution, EventBeforeExecution, ValuationAfterTermination,
         MaturityInPast, TerminationAfterMaturity, EffectiveAfterMaturity,
         ClearedRequiresCcp, Issue, EmirTarKnown, EmirPredicates, Compared
<1>2. \A j \in UNION {
        NclrForbidsCcp(r), NotionalValCurrencyMismatch(r), PriceValCurrencyMismatch(r),
        Leg1Leg2SameCurrency(r), SelfDealing(r), PriceRequiresCurrency(r),
        ImNeedsCollateralPortfolio(r)} :
        j.id \notin EmirTarKnown
  BY DEF NclrForbidsCcp, NotionalValCurrencyMismatch, PriceValCurrencyMismatch,
         Leg1Leg2SameCurrency, SelfDealing, PriceRequiresCurrency,
         ImNeedsCollateralPortfolio, Issue, EmirTarKnown, EmirPredicates, Compared
<1>3. \A j \in UNION {
        VmNeedsCollateralPortfolio(r), Leg2NotionalNeedsCurrency(r), HedgingRequiresNfc(r),
        EmirCommercialOrTreasuryRequiresNfc(r), MtmChangeRequiresValuation(r),
        MaruRequiresMargin(r), MaruRequiresPortfolio(r)} :
        j.id \notin EmirTarKnown
  BY DEF VmNeedsCollateralPortfolio, Leg2NotionalNeedsCurrency, HedgingRequiresNfc,
         EmirCommercialOrTreasuryRequiresNfc, MtmChangeRequiresValuation,
         MaruRequiresMargin, MaruRequiresPortfolio, Issue, EmirTarKnown, EmirPredicates,
         Compared
<1>4. \A j \in UNION {
        PoscRequiresPortfolio(r), ValuRequiresValuation(r), EtrmRequiresTerminationDate(r),
        EtrmRequiresValuation(r), NewtForbidsPriorUti(r), NewtForbidsTerminationDate(r),
        ModiPreservesUti(r)} :
        j.id \notin EmirTarKnown
  BY DEF PoscRequiresPortfolio, ValuRequiresValuation, EtrmRequiresTerminationDate,
         EtrmRequiresValuation, NewtForbidsPriorUti, NewtForbidsTerminationDate,
         ModiPreservesUti, Issue, EmirTarKnown, EmirPredicates, Compared
<1>5. \A j \in UNION {
        ActionEventCompatibility(r)} :
        j.id \notin EmirTarKnown
  BY DEF ActionEventCompatibility, Issue, EmirTarKnown, EmirPredicates, Compared
<1> QED BY <1>1, <1>2, <1>3, <1>4, <1>5 DEF ConsistencyIssues

LEMMA KnownRiskMitigation ==
    ASSUME NEW r, NEW now, NEW issue \in RiskMitigationIssues(r, now), issue.id \in EmirTarKnown
    PROVE  FALSE
<1>1. \A j \in UNION {
        EmirRmtUnclearedNeedsConfirmation(r), EmirRmtLateConfirmation(r),
        EmirRmtPortfolioReconciliationMissing(r), EmirRmtDailyValuationMissing(r, now),
        EmirRmtVariationMarginMissing(r), EmirRmtInitialMarginThreshold(r)} :
        j.id \notin EmirTarKnown
  BY DEF EmirRmtUnclearedNeedsConfirmation, EmirRmtLateConfirmation,
         EmirRmtPortfolioReconciliationMissing, EmirRmtDailyValuationMissing,
         EmirRmtVariationMarginMissing, EmirRmtInitialMarginThreshold, Issue, EmirTarKnown,
         EmirPredicates, Compared
<1>2. \A j \in UNION {
        EmirRmtCollateralCategoryRequired(r), EmirRmtNfcAboveClearingThreshold(r),
        EmirRmtIntragroupNeedsIndicator(r), EmirRmtMasterAgreementRequired(r),
        EmirRmtCompressionEventIncomplete(r)} :
        j.id \notin EmirTarKnown
  BY DEF EmirRmtCollateralCategoryRequired, EmirRmtNfcAboveClearingThreshold,
         EmirRmtIntragroupNeedsIndicator, EmirRmtMasterAgreementRequired,
         EmirRmtCompressionEventIncomplete, Issue, EmirTarKnown, EmirPredicates, Compared
<1> QED BY <1>1, <1>2 DEF RiskMitigationIssues

LEMMA KnownSftr ==
    ASSUME NEW r, NEW batch, NEW now, NEW issue \in SftrIssues(r, batch, now), issue.id \in SftrTarKnown
    PROVE  issue \in UNION {SftrMissingUti(r), SftrCollateralValueMissing(r, now),
                             SftrCounterparty1Missing(r), SftrCounterparty2Missing(r),
                             SftrNegativeLoan(r), SftrNegativeCollateral(r),
                             SftrHaircutOutOfRange(r), SftrLateReporting(r),
                             SftrSftTypeMissing(r)}
<1>1. \A j \in UNION {
        SftrHaircutMissing(r), SftrLoanCurrencyMissing(r), SftrCollateralCurrencyMissing(r),
        SftrLeiFormatRc(r), SftrLeiFormatOc(r), SftrLeiFormatErr(r), SftrCurrencyLoan(r)} :
        j.id \notin SftrTarKnown
  BY DEF SftrHaircutMissing, SftrLoanCurrencyMissing, SftrCollateralCurrencyMissing,
         SftrLeiFormatRc, SftrLeiFormatOc, SftrLeiFormatErr, SftrCurrencyLoan, Issue,
         SftrTarKnown, SftrPredicates, Compared
<1>2. \A j \in UNION {
        SftrCurrencyCollateral(r), SftrIsinCollateral(r), SftrDuplicateUti(r, batch),
        SftrSettlementBeforeExecution(r), SftrMaturityBeforeEffective(r),
        SftrSftTypeEnum(r), SftrActionTypeEnum(r)} :
        j.id \notin SftrTarKnown
  BY DEF SftrCurrencyCollateral, SftrIsinCollateral, SftrDuplicateUti,
         SftrSettlementBeforeExecution, SftrMaturityBeforeEffective, SftrSftTypeEnum,
         SftrActionTypeEnum, Issue, SftrTarKnown, SftrPredicates, Compared
<1>3. \A j \in UNION {
        SftrLoanPrecision(r), SftrCollateralPrecision(r), SftrHaircutPrecision(r),
        SftrRatePrecision(r), SftrMasterAgreementVersionFormat(r),
        SftrGmraGmslaVersionPlausible(r), SftrSelfDealing(r)} :
        j.id \notin SftrTarKnown
  BY DEF SftrLoanPrecision, SftrCollateralPrecision, SftrHaircutPrecision,
         SftrRatePrecision, SftrMasterAgreementVersionFormat, SftrGmraGmslaVersionPlausible,
         SftrSelfDealing, Issue, SftrTarKnown, SftrPredicates, Compared
<1>4. \A j \in UNION {
        SftrLoanNeedsCurrency(r), SftrCollNeedsCurrency(r), SftrLoanCollCurrencyMismatch(r),
        SftrRebateRequiresRepoOrBsb(r), SftrLendingFeeRequiresSleb(r),
        SftrNewtForbidsPriorUti(r), SftrNewtForbidsTerminationDate(r)} :
        j.id \notin SftrTarKnown
  BY DEF SftrLoanNeedsCurrency, SftrCollNeedsCurrency, SftrLoanCollCurrencyMismatch,
         SftrRebateRequiresRepoOrBsb, SftrLendingFeeRequiresSleb, SftrNewtForbidsPriorUti,
         SftrNewtForbidsTerminationDate, Issue, SftrTarKnown, SftrPredicates, Compared
<1>5. \A j \in UNION {
        SftrEtrmRequiresTerminationDate(r), SftrColuRequiresPortfolio(r),
        SftrReuuRequiresReuseIndicator(r), SftrReuseIndicatorRequiresPortfolio(r),
        SftrEventTypeEnum(r), SftrMasterAgreementTypeEnum(r), SftrLendingFeeNegative(r)} :
        j.id \notin SftrTarKnown
  BY DEF SftrEtrmRequiresTerminationDate, SftrColuRequiresPortfolio,
         SftrReuuRequiresReuseIndicator, SftrReuseIndicatorRequiresPortfolio,
         SftrEventTypeEnum, SftrMasterAgreementTypeEnum, SftrLendingFeeNegative, Issue,
         SftrTarKnown, SftrPredicates, Compared
<1>6. \A j \in UNION {
        SftrSecurityIdentifierMissing(r), SftrMarMgldNeedsLoanValue(r),
        SftrMarMgldNeedsCollateral(r), SftrMarMaruRequiresValueOrHaircut(r),
        SftrMarMaruRequiresPortfolio(r), SftrMarMgldHaircutOutOfRange(r),
        SftrAbnormalMaturity(r, now)} :
        j.id \notin SftrTarKnown
  BY DEF SftrSecurityIdentifierMissing, SftrMarMgldNeedsLoanValue,
         SftrMarMgldNeedsCollateral, SftrMarMaruRequiresValueOrHaircut,
         SftrMarMaruRequiresPortfolio, SftrMarMgldHaircutOutOfRange, SftrAbnormalMaturity,
         Issue, SftrTarKnown, SftrPredicates, Compared
<1>7. \A j \in UNION {
        SftrLoanAbnormalMagnitude(r), SftrEventBeforeExecution(r),
        SftrReportingBeforeExecution(r), SftrMaturityInPast(r, now),
        SftrTerminationAfterMaturity(r), SftrModiPreservesUti(r),
        SftrActionEventCompatibility(r)} :
        j.id \notin SftrTarKnown
  BY DEF SftrLoanAbnormalMagnitude, SftrEventBeforeExecution, SftrReportingBeforeExecution,
         SftrMaturityInPast, SftrTerminationAfterMaturity, SftrModiPreservesUti,
         SftrActionEventCompatibility, Issue, SftrTarKnown, SftrPredicates, Compared
<1>8. \A j \in UNION {
        SftrLateReportingSettlement(r)} :
        j.id \notin SftrTarKnown
  BY DEF SftrLateReportingSettlement, Issue, SftrTarKnown, SftrPredicates, Compared
<1> QED BY <1>1, <1>2, <1>3, <1>4, <1>5, <1>6, <1>7, <1>8 DEF SftrIssues


\* What each layer's scan is.
LEMMA EmirScans ==
    ASSUME Emir, NEW fs, NEW i, NEW now
    PROVE  /\ RowIssues(fs, "tsr", i, now) = TsrIssues(i, fs["tsr"], now)
           /\ RowIssues(fs, "tar", i, now) =
                EmirIssues(fs["tar"][i], fs["tar"], now)
                  \union TarIssues(i, fs["tar"], Companion(fs))
           /\ RowIssues(fs, "msr", i, now) = MsrIssues(fs["msr"][i], now)
           /\ RowIssues(fs, "mar", i, now) = MarIssues(i, fs["mar"])
           /\ RowIssues(fs, "reconciliation", i, now) = RecIssues(fs["reconciliation"][i])
           /\ RowIssues(fs, "feedback", i, now) =
                FeedbackIssues(fs["feedback"][i], Layer(fs, "book"))
           /\ RowIssues(fs, "positions", i, now) = PosIssues(fs["positions"][i])
  BY DEF RowIssues

LEMMA SftrScans ==
    ASSUME ~Emir, NEW fs, NEW i, NEW now
    PROVE  /\ RowIssues(fs, "tsr", i, now) =
                SftrTsrIssues(i, fs["tsr"], now) \union MgldIssues(fs["tsr"][i])
           /\ RowIssues(fs, "tar", i, now) =
                SftrIssues(fs["tar"][i], fs["tar"], now)
                  \union SftrTarIssues(i, fs["tar"], Companion(fs))
           /\ RowIssues(fs, "msr", i, now) = SftrMsrIssues(fs["msr"][i])
           /\ RowIssues(fs, "mar", i, now) = SftrMarIssues(fs["mar"][i], now)
           /\ RowIssues(fs, "reconciliation", i, now) = SftrRecIssues(fs["reconciliation"][i])
           /\ RowIssues(fs, "mcr", i, now) = McrIssues(fs["mcr"][i], Companion(fs))
  BY DEF RowIssues

LEMMA IdsOfIssue ==
    ASSUME NEW found, NEW id, NEW severity, NEW field
    PROVE  Ids(Issue(found, id, severity, field)) = Of(id, found)
<1>1. CASE found
  <2>1. Issue(found, id, severity, field) = {[id |-> id, severity |-> severity, field |-> field]}
    BY <1>1 DEF Issue
  <2>2. Ids(Issue(found, id, severity, field)) = {id}
    BY ONLY <2>1 DEF Ids
  <2> QED BY <1>1, <2>2 DEF Of
<1>2. CASE ~found
  BY <1>2 DEF Ids, Issue, Of
<1> QED BY <1>1, <1>2

LEMMA IssueIds ==
    ASSUME NEW found, NEW id, NEW severity, NEW field
    PROVE  \A issue \in Issue(found, id, severity, field) : issue.id = id
  BY DEF Issue

LEMMA OneIssue ==
    ASSUME NEW id, NEW severity, NEW field
    PROVE  Ids(Issue(TRUE, id, severity, field)) = {id}
<1>1. Issue(TRUE, id, severity, field) = {[id |-> id, severity |-> severity, field |-> field]}
  BY DEF Issue
<1>2. \A issue \in Issue(TRUE, id, severity, field) : issue.id = id
  BY IssueIds
<1>3. \E issue : issue \in Issue(TRUE, id, severity, field)
  BY <1>1
<1> HIDE DEF Issue
<1> QED BY <1>2, <1>3 DEF Ids

\* An id is said of a row when the check of that name finds something.
LEMMA EmirTarIds ==
    ASSUME NEW r, NEW f, NEW i, NEW tsr, NEW now, NEW said,
           r = f[i], said = Ids(EmirIssues(r, f, now) \union TarIssues(i, f, tsr))
    PROVE  /\ "COMP.UTI_MISSING" \in said <=> Blank(r.uti)
           /\ "COMP.COUNTERPARTY_1_MISSING" \in said <=> Blank(r.counterparty_1)
           /\ "COMP.COUNTERPARTY_2_MISSING" \in said <=> Blank(r.counterparty_2)
           /\ "COMP.NOTIONAL_CURRENCY_MISSING" \in said <=>
                Has(r.notional_amount) /\ Blank(r.notional_currency)
           /\ "COMP.VALUATION_MISSING" \in said <=>
                Outstanding(r, now) /\ ~Has(r.valuation_amount)
           /\ "ACC.NEGATIVE_NOTIONAL" \in said <=> Negative(r.notional_amount)
           /\ "ACC.ZERO_NOTIONAL" \in said <=>
                ~Exactly(r.action_type, "POSC") /\ IsZero(r.notional_amount)
           /\ "TIM.LATE_REPORTING" \in said <=> LateReporting(r) # {}
           /\ "COMP.NATURE_MISSING" \in said <=> Blank(r.nature)
           /\ "TRA.NEWT_NOT_IN_TSR" \in said <=> EmirNewtNotInTsr(r, tsr) # {}
<1> DEFINE issues == EmirIssues(r, f, now) \union TarIssues(i, f, tsr)
           known == UNION {
               MissingUti(r), MissingValuation(r, now), Counterparty1Missing(r),
               Counterparty2Missing(r), NotionalCurrencyMissing(r), NatureMissing(r),
               ZeroNotional(r), NegativeNotional(r), LateReporting(r), EmirNewtNotInTsr(r, tsr)}
<1>1. ASSUME NEW issue \in issues, issue.id \in EmirTarKnown PROVE issue \in known
  <2>1. /\ issue \notin DuplicateUti(r, f) /\ issue \notin ValuationAfterReporting(r)
        /\ issue \notin EmirDuplicateNewtInBatch(i, f) /\ issue \notin EmirRepeatedCorrection(i, f)
    BY <1>1 DEF DuplicateUti, ValuationAfterReporting, EmirDuplicateNewtInBatch,
                EmirRepeatedCorrection, Issue, EmirTarKnown, EmirPredicates, Compared
  <2>2. CASE issue \in TarIssues(i, f, tsr)
    BY <2>1, <2>2 DEF TarIssues
  <2>3. CASE issue \in EmirIssues(r, f, now)
    <3>1. issue \notin ValidityIssues(r)
      BY <1>1, KnownValidity
    <3>2. issue \notin ConsistencyIssues(r, now)
      BY <1>1, KnownConsistency
    <3>3. issue \notin RiskMitigationIssues(r, now)
      BY <1>1, KnownRiskMitigation
    <3>4. CASE issue \in CompletenessIssues(r, now)
      BY <1>1, <3>4, KnownCompleteness
    <3>5. CASE issue \in AccuracyIssues(r, now)
      BY <1>1, <3>5, KnownAccuracy
    <3> QED BY <2>1, <2>3, <3>1, <3>2, <3>3, <3>4, <3>5 DEF EmirIssues
  <2> QED BY <2>2, <2>3
<1>2. known \subseteq issues
  BY DEF EmirIssues, CompletenessIssues, AccuracyIssues, TarIssues
<1>3. \A id \in EmirTarKnown : id \in Ids(issues) <=> id \in Ids(known)
  <2> HIDE DEF issues, known
  <2> QED BY <1>1, <1>2 DEF Ids
<1>4. Ids(known) = UNION {
        Of("COMP.UTI_MISSING", Blank(r.uti)),
        Of("COMP.COUNTERPARTY_1_MISSING", Blank(r.counterparty_1)),
        Of("COMP.COUNTERPARTY_2_MISSING", Blank(r.counterparty_2)),
        Of("COMP.NOTIONAL_CURRENCY_MISSING",
           Has(r.notional_amount) /\ Blank(r.notional_currency)),
        Of("COMP.VALUATION_MISSING", Outstanding(r, now) /\ ~Has(r.valuation_amount)),
        Of("ACC.NEGATIVE_NOTIONAL", Negative(r.notional_amount)),
        Of("ACC.ZERO_NOTIONAL",
           ~Exactly(r.action_type, "POSC") /\ IsZero(r.notional_amount)),
        Of("TIM.LATE_REPORTING", LateReporting(r) # {}),
        Of("COMP.NATURE_MISSING", Blank(r.nature)),
        Of("TRA.NEWT_NOT_IN_TSR", EmirNewtNotInTsr(r, tsr) # {})}
  <2>1. /\ Ids(MissingUti(r)) = Of("COMP.UTI_MISSING", Blank(r.uti))
        /\ Ids(Counterparty1Missing(r)) =
             Of("COMP.COUNTERPARTY_1_MISSING", Blank(r.counterparty_1))
        /\ Ids(Counterparty2Missing(r)) =
             Of("COMP.COUNTERPARTY_2_MISSING", Blank(r.counterparty_2))
    BY IdsOfIssue DEF MissingUti, Counterparty1Missing, Counterparty2Missing
  <2>2. /\ Ids(NotionalCurrencyMissing(r)) =
             Of("COMP.NOTIONAL_CURRENCY_MISSING",
                Has(r.notional_amount) /\ Blank(r.notional_currency))
        /\ Ids(MissingValuation(r, now)) =
             Of("COMP.VALUATION_MISSING", Outstanding(r, now) /\ ~Has(r.valuation_amount))
        /\ Ids(NatureMissing(r)) = Of("COMP.NATURE_MISSING", Blank(r.nature))
    BY IdsOfIssue DEF NotionalCurrencyMissing, MissingValuation, NatureMissing
  <2>3. /\ Ids(NegativeNotional(r)) = Of("ACC.NEGATIVE_NOTIONAL", Negative(r.notional_amount))
        /\ Ids(ZeroNotional(r)) =
             Of("ACC.ZERO_NOTIONAL",
                ~Exactly(r.action_type, "POSC") /\ IsZero(r.notional_amount))
    BY IdsOfIssue DEF NegativeNotional, ZeroNotional
  <2>4. /\ Ids(LateReporting(r)) = Of("TIM.LATE_REPORTING", LateReporting(r) # {})
        /\ Ids(EmirNewtNotInTsr(r, tsr)) =
             Of("TRA.NEWT_NOT_IN_TSR", EmirNewtNotInTsr(r, tsr) # {})
    BY DEF LateReporting, EmirNewtNotInTsr, Issue, Ids, Of
  <2>5. Ids(known) = UNION {
          Ids(MissingUti(r)), Ids(Counterparty1Missing(r)), Ids(Counterparty2Missing(r)),
          Ids(NotionalCurrencyMissing(r)), Ids(MissingValuation(r, now)),
          Ids(NegativeNotional(r)), Ids(ZeroNotional(r)), Ids(LateReporting(r)),
          Ids(NatureMissing(r)), Ids(EmirNewtNotInTsr(r, tsr))}
    BY DEF Ids
  <2> HIDE DEF known
  <2> QED BY <2>1, <2>2, <2>3, <2>4, <2>5
<1> HIDE DEF known
<1>5. \A id \in EmirTarKnown : id \in Ids(issues) <=> id \in UNION {
        Of("COMP.UTI_MISSING", Blank(r.uti)),
        Of("COMP.COUNTERPARTY_1_MISSING", Blank(r.counterparty_1)),
        Of("COMP.COUNTERPARTY_2_MISSING", Blank(r.counterparty_2)),
        Of("COMP.NOTIONAL_CURRENCY_MISSING",
           Has(r.notional_amount) /\ Blank(r.notional_currency)),
        Of("COMP.VALUATION_MISSING", Outstanding(r, now) /\ ~Has(r.valuation_amount)),
        Of("ACC.NEGATIVE_NOTIONAL", Negative(r.notional_amount)),
        Of("ACC.ZERO_NOTIONAL",
           ~Exactly(r.action_type, "POSC") /\ IsZero(r.notional_amount)),
        Of("TIM.LATE_REPORTING", LateReporting(r) # {}),
        Of("COMP.NATURE_MISSING", Blank(r.nature)),
        Of("TRA.NEWT_NOT_IN_TSR", EmirNewtNotInTsr(r, tsr) # {})}
  BY <1>3, <1>4
<1>6. \A id : id \in Ids(issues) <=> id \in said
  BY DEF issues
<1> QED BY <1>5, <1>6 DEF EmirTarKnown, EmirPredicates, Compared, Of

LEMMA SftrTarIds ==
    ASSUME NEW r, NEW f, NEW i, NEW tsr, NEW now, NEW said,
           r = f[i], said = Ids(SftrIssues(r, f, now) \union SftrTarIssues(i, f, tsr))
    PROVE  /\ "COMP.UTI_MISSING" \in said <=> Blank(r.uti)
           /\ "COMP.COUNTERPARTY_1_MISSING" \in said <=> Blank(r.counterparty_1)
           /\ "COMP.COUNTERPARTY_2_MISSING" \in said <=> Blank(r.counterparty_2)
           /\ "COMP.COLLATERAL_VALUE_MISSING" \in said <=>
                Outstanding(r, now) /\ ~Has(r.collateral_value)
           /\ "COMP.SFT_TYPE_MISSING" \in said <=> Blank(r.sft_type)
           /\ "ACC.NEGATIVE_LOAN" \in said <=> Negative(r.loan_value)
           /\ "ACC.NEGATIVE_COLLATERAL" \in said <=> Negative(r.collateral_value)
           /\ "ACC.HAIRCUT_OUT_OF_RANGE" \in said <=> SftrHaircutOutOfRange(r) # {}
           /\ "TIM.LATE_REPORTING" \in said <=> SftrLateReporting(r) # {}
           /\ "TRA.NEWT_NOT_IN_TSR" \in said <=> EmirNewtNotInTsr(r, tsr) # {}
<1> DEFINE issues == SftrIssues(r, f, now) \union SftrTarIssues(i, f, tsr)
           known == UNION {
               SftrMissingUti(r), SftrCollateralValueMissing(r, now),
               SftrCounterparty1Missing(r), SftrCounterparty2Missing(r),
               SftrSftTypeMissing(r), SftrNegativeLoan(r), SftrNegativeCollateral(r),
               SftrHaircutOutOfRange(r), SftrLateReporting(r), EmirNewtNotInTsr(r, tsr)}
<1>1. ASSUME NEW issue \in issues, issue.id \in SftrTarKnown PROVE issue \in known
  <2>1. issue \notin EmirDuplicateNewtInBatch(i, f) /\ issue \notin EmirRepeatedCorrection(i, f)
    BY <1>1 DEF EmirDuplicateNewtInBatch, EmirRepeatedCorrection, Issue, SftrTarKnown,
                SftrPredicates, Compared
  <2>2. CASE issue \in SftrTarIssues(i, f, tsr)
    BY <2>1, <2>2 DEF SftrTarIssues, SftrDuplicateNewtInBatch, SftrNewtNotInTsr,
                      SftrRepeatedCorrection
  <2>3. CASE issue \in SftrIssues(r, f, now)
    BY <1>1, <2>3, KnownSftr
  <2> QED BY <2>2, <2>3
<1>2. known \subseteq issues
  BY DEF SftrIssues, SftrTarIssues, SftrNewtNotInTsr
<1>3. \A id \in SftrTarKnown : id \in Ids(issues) <=> id \in Ids(known)
  <2> HIDE DEF issues, known
  <2> QED BY <1>1, <1>2 DEF Ids
<1> DEFINE found == UNION {
        Of("COMP.UTI_MISSING", Blank(r.uti)),
        Of("COMP.COUNTERPARTY_1_MISSING", Blank(r.counterparty_1)),
        Of("COMP.COUNTERPARTY_2_MISSING", Blank(r.counterparty_2)),
        Of("COMP.COLLATERAL_VALUE_MISSING", Outstanding(r, now) /\ ~Has(r.collateral_value)),
        Of("COMP.SFT_TYPE_MISSING", Blank(r.sft_type)),
        Of("ACC.NEGATIVE_LOAN", Negative(r.loan_value)),
        Of("ACC.NEGATIVE_COLLATERAL", Negative(r.collateral_value)),
        Of("ACC.HAIRCUT_OUT_OF_RANGE", SftrHaircutOutOfRange(r) # {}),
        Of("TIM.LATE_REPORTING", SftrLateReporting(r) # {}),
        Of("TRA.NEWT_NOT_IN_TSR", EmirNewtNotInTsr(r, tsr) # {})}
<1>4. Ids(known) = found
  <2>1. /\ Ids(SftrMissingUti(r)) = Of("COMP.UTI_MISSING", Blank(r.uti))
        /\ Ids(SftrCounterparty1Missing(r)) =
             Of("COMP.COUNTERPARTY_1_MISSING", Blank(r.counterparty_1))
        /\ Ids(SftrCounterparty2Missing(r)) =
             Of("COMP.COUNTERPARTY_2_MISSING", Blank(r.counterparty_2))
    BY IdsOfIssue DEF SftrMissingUti, SftrCounterparty1Missing, SftrCounterparty2Missing
  <2>2. /\ Ids(SftrCollateralValueMissing(r, now)) =
             Of("COMP.COLLATERAL_VALUE_MISSING", Outstanding(r, now) /\ ~Has(r.collateral_value))
        /\ Ids(SftrSftTypeMissing(r)) = Of("COMP.SFT_TYPE_MISSING", Blank(r.sft_type))
    BY IdsOfIssue DEF SftrCollateralValueMissing, SftrSftTypeMissing
  <2>3. /\ Ids(SftrNegativeLoan(r)) = Of("ACC.NEGATIVE_LOAN", Negative(r.loan_value))
        /\ Ids(SftrNegativeCollateral(r)) =
             Of("ACC.NEGATIVE_COLLATERAL", Negative(r.collateral_value))
    BY IdsOfIssue DEF SftrNegativeLoan, SftrNegativeCollateral
  <2>4. /\ Ids(SftrLateReporting(r)) = Of("TIM.LATE_REPORTING", SftrLateReporting(r) # {})
        /\ Ids(EmirNewtNotInTsr(r, tsr)) =
             Of("TRA.NEWT_NOT_IN_TSR", EmirNewtNotInTsr(r, tsr) # {})
        /\ Ids(SftrHaircutOutOfRange(r)) =
             Of("ACC.HAIRCUT_OUT_OF_RANGE", SftrHaircutOutOfRange(r) # {})
    BY DEF SftrHaircutOutOfRange, SftrLateReporting, EmirNewtNotInTsr, Issue, Ids, Of
  <2>5. Ids(known) = UNION {
          Ids(SftrMissingUti(r)), Ids(SftrCounterparty1Missing(r)),
          Ids(SftrCounterparty2Missing(r)), Ids(SftrCollateralValueMissing(r, now)),
          Ids(SftrSftTypeMissing(r)), Ids(SftrNegativeLoan(r)),
          Ids(SftrNegativeCollateral(r)), Ids(SftrHaircutOutOfRange(r)),
          Ids(SftrLateReporting(r)), Ids(EmirNewtNotInTsr(r, tsr))}
    BY DEF Ids
  <2> HIDE DEF known
  <2> QED BY <2>1, <2>2, <2>3, <2>4, <2>5
<1> HIDE DEF known
<1>5. \A id \in SftrTarKnown : id \in Ids(issues) <=> id \in found
  BY <1>3, <1>4
<1>6. \A id : id \in Ids(issues) <=> id \in said
  BY DEF issues
<1> QED BY <1>5, <1>6 DEF SftrTarKnown, SftrPredicates, Compared, Of, found

\* A warning before submission is what the scan raises, but for the differences
\* WarnedMeansFlagged names: the two lists of predicates agree.
THEOREM WarningsAreFlagged == Spec => []WarnedMeansFlagged
<1>1. WarnedMeansFlagged
  <2> SUFFICES ASSUME "tar" \in DOMAIN files, NEW i \in DOMAIN files["tar"]
               PROVE  LET r == files["tar"][i]
                          warned == IF Emir THEN EmirLikely(r) ELSE SftrLikely(r)
                          flagged == Ids(RowIssues(files, "tar", i, Now))
                                       \cap (IF Emir THEN EmirPredicates ELSE SftrPredicates)
                          differing == (warned \ flagged) \union (flagged \ warned)
                      IN  differing \subseteq
                            (IF r.termination_date # NoTime \/ Blank(r.uti)
                             THEN {"COMP.VALUATION_MISSING", "COMP.COLLATERAL_VALUE_MISSING"}
                             ELSE {})
                            \union (IF In(r.action_type, {"POSC"})
                                    THEN {"ACC.ZERO_NOTIONAL"} ELSE {})
    BY DEF WarnedMeansFlagged
  <2> DEFINE r == files["tar"][i]
             said == Ids(RowIssues(files, "tar", i, Now))
             allowed == (IF r.termination_date # NoTime \/ Blank(r.uti)
                         THEN {"COMP.VALUATION_MISSING", "COMP.COLLATERAL_VALUE_MISSING"} ELSE {})
                          \union (IF In(r.action_type, {"POSC"}) THEN {"ACC.ZERO_NOTIONAL"} ELSE {})
  <2>1. Exactly(r.action_type, "POSC") => In(r.action_type, {"POSC"})
    BY DEF Exactly, In, Plain
  <2>2. CASE Emir
    <3>1. /\ "COMP.UTI_MISSING" \in said <=> Blank(r.uti)
          /\ "COMP.COUNTERPARTY_1_MISSING" \in said <=> Blank(r.counterparty_1)
          /\ "COMP.COUNTERPARTY_2_MISSING" \in said <=> Blank(r.counterparty_2)
          /\ "COMP.NOTIONAL_CURRENCY_MISSING" \in said <=>
               Has(r.notional_amount) /\ Blank(r.notional_currency)
          /\ "COMP.VALUATION_MISSING" \in said <=> Outstanding(r, Now) /\ ~Has(r.valuation_amount)
          /\ "ACC.NEGATIVE_NOTIONAL" \in said <=> Negative(r.notional_amount)
          /\ "ACC.ZERO_NOTIONAL" \in said <=>
               ~Exactly(r.action_type, "POSC") /\ IsZero(r.notional_amount)
      <4>1. RowIssues(files, "tar", i, Now) =
              EmirIssues(r, files["tar"], Now) \union TarIssues(i, files["tar"], Companion(files))
        BY <2>2, EmirScans
      <4> HIDE DEF r
      <4>2. r = files["tar"][i]
        BY DEF r
      <4> QED BY <4>1, <4>2, EmirTarIds
    <3> HIDE DEF said
    <3>2. ASSUME NEW id \in EmirPredicates, ~(id \in EmirLikely(r) <=> id \in said)
          PROVE  id \in allowed
      BY <2>1, <3>1, <3>2 DEF EmirPredicates, EmirLikely, PartiesMissing, Of, Outstanding
    <3>3. EmirLikely(r) \subseteq EmirPredicates
      BY DEF EmirLikely, PartiesMissing, Of, EmirPredicates
    <3> HIDE DEF allowed
    <3> QED BY <2>2, <3>2, <3>3 DEF said, allowed
  <2>3. CASE ~Emir
    <3>1. /\ "COMP.UTI_MISSING" \in said <=> Blank(r.uti)
          /\ "COMP.COUNTERPARTY_1_MISSING" \in said <=> Blank(r.counterparty_1)
          /\ "COMP.COUNTERPARTY_2_MISSING" \in said <=> Blank(r.counterparty_2)
          /\ "COMP.COLLATERAL_VALUE_MISSING" \in said <=>
               Outstanding(r, Now) /\ ~Has(r.collateral_value)
          /\ "COMP.SFT_TYPE_MISSING" \in said <=> Blank(r.sft_type)
          /\ "ACC.NEGATIVE_LOAN" \in said <=> Negative(r.loan_value)
          /\ "ACC.NEGATIVE_COLLATERAL" \in said <=> Negative(r.collateral_value)
          /\ "ACC.HAIRCUT_OUT_OF_RANGE" \in said <=> SftrHaircutOutOfRange(r) # {}
      <4>1. RowIssues(files, "tar", i, Now) =
              SftrIssues(r, files["tar"], Now)
                \union SftrTarIssues(i, files["tar"], Companion(files))
        BY <2>3, SftrScans
      <4> HIDE DEF r
      <4>2. r = files["tar"][i]
        BY DEF r
      <4>3. said = Ids(SftrIssues(r, files["tar"], Now)
                         \union SftrTarIssues(i, files["tar"], Companion(files)))
        BY <4>1
      <4> HIDE DEF said
      <4> QED BY <4>2, <4>3, SftrTarIds
    <3> HIDE DEF said
    <3>2. ASSUME NEW id \in SftrPredicates, ~(id \in SftrLikely(r) <=> id \in said)
          PROVE  id \in allowed
      <4>1. SftrHaircutOutOfRange(r) # {} <=> r.haircut = "outOfRange"
        BY DEF SftrHaircutOutOfRange, Issue
      <4> QED BY <3>1, <3>2, <4>1 DEF SftrPredicates, SftrLikely, PartiesMissing, Of, Outstanding
    <3>3. SftrLikely(r) \subseteq SftrPredicates
      BY DEF SftrLikely, PartiesMissing, Of, SftrPredicates
    <3> HIDE DEF allowed
    <3> QED BY <2>3, <3>2, <3>3 DEF said, allowed
  <2> QED BY <2>2, <2>3
<1> QED BY <1>1, PTL

----------------------------------------------------------------------------
(* The pack and the issues *)

\* The indicators that are compared with a check.
LEMMA EmirPackOf ==
    ASSUME NEW fs, NEW d
    PROVE  LET pack == compute_emir_dqi_pack(fs, d) IN
           /\ pack.DQI_VAL_MISSING = compute_dqi_val_missing(Layer(fs, "tsr"))
           /\ pack.DQI_DUPLICATE_REPORTS = compute_dqi_duplicate_reports(Layer(fs, "tsr"))
           /\ pack.DQI_ANOMALY_RATE = compute_dqi_anomaly_rate(Layer(fs, "tsr"))
           /\ pack.DQI_COL_ALL_ZERO = compute_dqi_col_all_zero(Layer(fs, "msr"))
           /\ "msr" \in DOMAIN fs =>
                pack.DQI_COL_MISSING_STATE =
                  compute_dqi_col_missing_state(Layer(fs, "tsr"), Layer(fs, "msr"))
           /\ pack.DQI_TIM_REPORTING_LATE = compute_dqi_tim_reporting_late(Layer(fs, "tar"))
           /\ pack.DQI_NATURE_MISSING = compute_dqi_nature_missing(Layer(fs, "tar"))
           /\ pack.DQI_REJ_RATE = compute_dqi_rej_rate(Layer(fs, "feedback"))
           /\ pack.DQI_UNPAIRED_TRADES_RATE =
                compute_dqi_unpaired_trades_rate(Layer(fs, "reconciliation"))
           /\ pack.DQI_FIELD_MISMATCH_RATE =
                compute_dqi_field_mismatch_rate(Layer(fs, "reconciliation"))
           /\ pack.DQI_POSITION_NOTIONAL_NEGATIVE =
                compute_dqi_position_notional_negative(Layer(fs, "positions"))
  BY DEF compute_emir_dqi_pack

LEMMA SftrPackOf ==
    ASSUME NEW fs, NEW d
    PROVE  LET pack == compute_sftr_dqi_pack(fs, d) IN
           /\ pack.DQI_COLLATERAL_VALUE_MISSING_SFTR =
                compute_dqi_collateral_value_missing_sftr(Layer(fs, "tsr"))
           /\ pack.DQI_HAIRCUT_ANOMALY_SFTR = compute_dqi_haircut_anomaly_sftr(Layer(fs, "tsr"))
           /\ pack.DQI_UNDER_COLLATERALIZATION_SFTR =
                compute_dqi_under_collateralization_sftr(Layer(fs, "tsr"))
           /\ pack.DQI_TIM_REPORTING_LATE_SFTR =
                compute_dqi_tim_reporting_late_sftr(Layer(fs, "tar"))
           /\ pack.DQI_UNPAIRED_TRADES_RATE_SFTR =
                compute_dqi_unpaired_trades_rate_sftr(Layer(fs, "reconciliation"))
           /\ pack.DQI_FIELD_MISMATCH_RATE_SFTR =
                compute_dqi_field_mismatch_rate_sftr(Layer(fs, "reconciliation"))
           /\ "tsr" \in DOMAIN fs =>
                pack.DQI_MCR_OPEN_REQUESTS_SFTR =
                  compute_dqi_mcr_open_requests_sftr(Layer(fs, "mcr"), Companion(fs))
  BY DEF compute_sftr_dqi_pack, Companion, Layer

\* An id is said of a row when its check finds something: no other has that id.
LEMMA TsrIds ==
    ASSUME NEW i, NEW f, NEW now, NEW said, said = Ids(TsrIssues(i, f, now))
    PROVE  /\ "TST.MISSING_VALUATION" \in said <=> EmirMissingValuationOnTsr(f[i]) # {}
           /\ "TST.DUPLICATE_ACTIVE_UTI" \in said <=> EmirDuplicateActiveUti(i, f) # {}
           /\ "TST.PLACEHOLDER_MATURITY" \in said <=> EmirPlaceholderMaturity(f[i]) # {}
           /\ "TST.OUTSTANDING_SUMMARY" \in said <=> is_outstanding(f[i])
<1>1. /\ Ids(EmirMissingValuationOnTsr(f[i])) =
           Of("TST.MISSING_VALUATION", EmirMissingValuationOnTsr(f[i]) # {})
      /\ Ids(EmirDuplicateActiveUti(i, f)) =
           Of("TST.DUPLICATE_ACTIVE_UTI", EmirDuplicateActiveUti(i, f) # {})
      /\ Ids(EmirPlaceholderMaturity(f[i])) =
           Of("TST.PLACEHOLDER_MATURITY", EmirPlaceholderMaturity(f[i]) # {})
      /\ Ids(EmirOutstandingSummary(f[i])) = Of("TST.OUTSTANDING_SUMMARY", is_outstanding(f[i]))
  BY IdsOfIssue DEF EmirMissingValuationOnTsr, EmirDuplicateActiveUti, EmirPlaceholderMaturity,
         EmirOutstandingSummary, Issue
<1>2. \A issue \in EmirActivePastMaturity(f[i], now) \union EmirStaleValuationOnTsr(f[i], now)
                     \union EmirTsrValuationAfterTermination(f[i]) :
         issue.id \in {"TST.ACTIVE_PAST_MATURITY", "TST.STALE_VALUATION",
                       "TST.VALUATION_AFTER_TERMINATION"}
  BY DEF EmirActivePastMaturity, EmirStaleValuationOnTsr, EmirTsrValuationAfterTermination, Issue
<1>3. /\ Ids(TsrIssues(i, f, now)) = UNION {
            Ids(EmirMissingValuationOnTsr(f[i])), Ids(EmirDuplicateActiveUti(i, f)),
            Ids(EmirPlaceholderMaturity(f[i])), Ids(EmirOutstandingSummary(f[i])),
            Ids(EmirActivePastMaturity(f[i], now) \union EmirStaleValuationOnTsr(f[i], now)
                  \union EmirTsrValuationAfterTermination(f[i]))}
  BY DEF TsrIssues, Ids
<1>4. Ids(EmirActivePastMaturity(f[i], now) \union EmirStaleValuationOnTsr(f[i], now)
            \union EmirTsrValuationAfterTermination(f[i])) \subseteq
        {"TST.ACTIVE_PAST_MATURITY", "TST.STALE_VALUATION", "TST.VALUATION_AFTER_TERMINATION"}
  BY <1>2 DEF Ids
<1> QED BY <1>1, <1>3, <1>4 DEF Of

LEMMA MsrIds ==
    ASSUME NEW r, NEW now, NEW said, said = Ids(MsrIssues(r, now))
    PROVE  "MSR.MARGIN_MISSING_FOR_OUTSTANDING" \in said <=>
             EmirMsrMarginMissingForOutstanding(r) # {}
<1>1. \A issue \in UNION {
        EmirMsrCollateralMarketValueNegative(r), EmirMsrCollateralizationCategoryEnum(r),
        EmirMsrHaircutOutOfRange(r), EmirMsrImImbalance(r), EmirMsrInitialMarginNegative(r),
        EmirMsrVariationMarginNegative(r), EmirMsrMarginStale(r, now)} :
        issue.id # "MSR.MARGIN_MISSING_FOR_OUTSTANDING"
  BY DEF EmirMsrCollateralMarketValueNegative, EmirMsrCollateralizationCategoryEnum,
         EmirMsrHaircutOutOfRange, EmirMsrImImbalance, EmirMsrInitialMarginNegative,
         EmirMsrVariationMarginNegative, EmirMsrMarginStale, NegativeFields, Issue
<1>2. \A issue \in EmirMsrMarginMissingForOutstanding(r) :
         issue.id = "MSR.MARGIN_MISSING_FOR_OUTSTANDING"
  BY DEF EmirMsrMarginMissingForOutstanding, Issue
<1>3. \A id : id \in said <=> \E issue \in MsrIssues(r, now) : issue.id = id
  BY DEF Ids
<1> QED BY <1>1, <1>2, <1>3 DEF MsrIssues

LEMMA FeedbackIds ==
    ASSUME NEW r, NEW sent, NEW said, said = Ids(FeedbackIssues(r, sent))
    PROVE  "FBK.TR_REJECTED_UTI" \in said <=> TrRejectedUti(r) # {}
<1>1. \A issue \in TrInaccurateReported(r) \union TrMissingButNotSent(r, sent)
                     \union TrMissingDespiteSubmission(r, sent) :
         issue.id # "FBK.TR_REJECTED_UTI"
  BY IssueIds DEF TrInaccurateReported, TrMissingButNotSent, TrMissingDespiteSubmission
<1>2. \A issue \in TrRejectedUti(r) : issue.id = "FBK.TR_REJECTED_UTI"
  BY IssueIds DEF TrRejectedUti
<1>3. \A id : id \in said <=> \E issue \in FeedbackIssues(r, sent) : issue.id = id
  BY DEF Ids
<1> QED BY <1>1, <1>2, <1>3 DEF FeedbackIssues

LEMMA RecIds ==
    ASSUME NEW r, NEW said, said = Ids(RecIssues(r))
    PROVE  /\ "REC.UNPAIRED_TRADE" \in said <=> UnpairedTrade(r) # {}
           /\ "REC.FIELD_MISMATCH" \in said <=> EmirFieldMismatch(r) # {}
<1>1. \A issue \in EmirFieldMismatch(r) : issue.id = "REC.FIELD_MISMATCH"
  BY DEF EmirFieldMismatch, Issue
<1>2. /\ \A issue \in UnpairedTrade(r) : issue.id = "REC.UNPAIRED_TRADE"
      /\ \A issue \in UnreconciledTrade(r) : issue.id = "REC.UNRECONCILED_TRADE"
  BY IssueIds DEF UnpairedTrade, UnreconciledTrade
<1>3. \A id : id \in said <=> \E issue \in RecIssues(r) : issue.id = id
  BY DEF Ids
<1> QED BY <1>1, <1>2, <1>3 DEF RecIssues

LEMMA SftrRecIds ==
    ASSUME NEW r, NEW said, said = Ids(SftrRecIssues(r))
    PROVE  /\ "REC.UNPAIRED_TRADE" \in said <=> SftrUnpairedTrade(r) # {}
           /\ "REC.FIELD_MISMATCH" \in said <=> SftrFieldMismatch(r) # {}
<1>1. \A issue \in SftrFieldMismatch(r) : issue.id = "REC.FIELD_MISMATCH"
  BY DEF SftrFieldMismatch, Issue
<1>2. /\ \A issue \in SftrUnpairedTrade(r) : issue.id = "REC.UNPAIRED_TRADE"
      /\ \A issue \in SftrUnreconciledTrade(r) : issue.id = "REC.UNRECONCILED_TRADE"
  BY IssueIds DEF SftrUnpairedTrade, SftrUnreconciledTrade
<1>3. \A id : id \in said <=> \E issue \in SftrRecIssues(r) : issue.id = id
  BY DEF Ids
<1> QED BY <1>1, <1>2, <1>3 DEF SftrRecIssues

LEMMA PosIds ==
    ASSUME NEW r, NEW said, said = Ids(PosIssues(r))
    PROVE  "POS.NOTIONAL_NEGATIVE" \in said <=> EmirPosNotionalNegative(r) # {}
<1>1. \A issue \in EmirPosAssetClassEnumInvalid(r) \union EmirPosJurisdictionMissing(r)
                     \union EmirPosPositionSetKindInvalid(r) :
         issue.id # "POS.NOTIONAL_NEGATIVE"
  BY DEF EmirPosAssetClassEnumInvalid, EmirPosJurisdictionMissing,
         EmirPosPositionSetKindInvalid, Issue
<1>2. \A issue \in EmirPosNotionalNegative(r) : issue.id = "POS.NOTIONAL_NEGATIVE"
  BY DEF EmirPosNotionalNegative, Issue
<1>3. \A id : id \in said <=> \E issue \in PosIssues(r) : issue.id = id
  BY DEF Ids
<1> QED BY <1>1, <1>2, <1>3 DEF PosIssues

LEMMA SftrTsrIds ==
    ASSUME NEW i, NEW f, NEW now, NEW said,
           said = Ids(SftrTsrIssues(i, f, now) \union MgldIssues(f[i]))
    PROVE  /\ "TST.MISSING_COLLATERAL" \in said <=> SftrMissingCollateralOnTsr(f[i]) # {}
           /\ "TST.HAIRCUT_OUT_OF_RANGE_ON_OUTSTANDING" \in said <=>
                SftrHaircutOutOfRangeOnTsr(f[i]) # {}
           /\ "MSR.MGLD_COLLATERAL_UNDER_LOAN" \in said <=>
                SftrMsrMgldCollateralUnderLoan(f[i]) # {}
           /\ "TST.OUTSTANDING_SUMMARY" \in said <=> is_outstanding(f[i])
<1>1. \A issue \in SftrActivePastMaturity(f[i], now) \union SftrDuplicateActiveUti(i, f)
                     \union SftrStaleValuationOnTsr(f[i], now) :
         issue.id \in {"TST.ACTIVE_PAST_MATURITY", "TST.DUPLICATE_ACTIVE_UTI",
                       "TST.STALE_VALUATION"}
  BY DEF SftrActivePastMaturity, EmirActivePastMaturity, SftrDuplicateActiveUti,
         EmirDuplicateActiveUti, SftrStaleValuationOnTsr, Issue
<1>2. \A issue \in SftrMsrMgldOutstandingNeedsLoan(f[i]) \union SftrMsrMgldHaircutOutOfRange(f[i])
                     \union SftrMsrMgldReuseRequiresPortfolio(f[i])
                     \union SftrMsrMgldLoanCollCurrencyMismatch(f[i])
                     \union SftrMsrMgldMissingIsin(f[i]) :
         issue.id \in {"MSR.MGLD_OUTSTANDING_NEEDS_LOAN", "MSR.MGLD_HAIRCUT_OUT_OF_RANGE",
                       "MSR.MGLD_REUSE_REQUIRES_PORTFOLIO", "MSR.MGLD_LOAN_COLL_CURRENCY_MISMATCH",
                       "MSR.MGLD_MISSING_ISIN"}
  BY DEF SftrMsrMgldOutstandingNeedsLoan, SftrMsrMgldHaircutOutOfRange,
         SftrMsrMgldReuseRequiresPortfolio, SftrMsrMgldLoanCollCurrencyMismatch,
         SftrMsrMgldMissingIsin, Issue
<1>3. /\ \A issue \in SftrMissingCollateralOnTsr(f[i]) : issue.id = "TST.MISSING_COLLATERAL"
      /\ \A issue \in SftrHaircutOutOfRangeOnTsr(f[i]) :
            issue.id = "TST.HAIRCUT_OUT_OF_RANGE_ON_OUTSTANDING"
      /\ \A issue \in SftrMsrMgldCollateralUnderLoan(f[i]) :
            issue.id = "MSR.MGLD_COLLATERAL_UNDER_LOAN"
      /\ \A issue \in SftrOutstandingSummary(f[i]) : issue.id = "TST.OUTSTANDING_SUMMARY"
  BY IssueIds DEF SftrMissingCollateralOnTsr, SftrHaircutOutOfRangeOnTsr, SftrMsrMgldCollateralUnderLoan,
         SftrOutstandingSummary, EmirOutstandingSummary
<1>4. SftrOutstandingSummary(f[i]) # {} <=> is_outstanding(f[i])
  BY DEF SftrOutstandingSummary, EmirOutstandingSummary, Issue
<1>5. \A id : id \in said <=>
         \E issue \in SftrTsrIssues(i, f, now) \union MgldIssues(f[i]) : issue.id = id
  BY DEF Ids
<1> QED BY <1>1, <1>2, <1>3, <1>4, <1>5 DEF SftrTsrIssues, MgldIssues

LEMMA McrIds ==
    ASSUME NEW r, NEW tsr, NEW said, said = Ids(McrIssues(r, tsr))
    PROVE  "MCR.REQUESTED_UTI_NOT_IN_TSR" \in said <=>
             tsr # << >> /\ Given(r.uti) /\ StateRows(r.uti, tsr) = {}
<1>1. \A issue \in SftrMcrMissingCollateralRequested(r) \union SftrMcrMissingUtiOnRequest(r) :
         issue.id # "MCR.REQUESTED_UTI_NOT_IN_TSR"
  BY IssueIds DEF SftrMcrMissingCollateralRequested, SftrMcrMissingUtiOnRequest
<1>2. "MCR.REQUESTED_UTI_NOT_IN_TSR" \in Ids(SftrMcrCollateralStateCrossRef(r, tsr)) <=>
         tsr # << >> /\ Given(r.uti) /\ StateRows(r.uti, tsr) = {}
  <2>1. CASE tsr = << >> \/ ~Given(r.uti)
    BY <2>1 DEF SftrMcrCollateralStateCrossRef, Ids
  <2>2. CASE ~(tsr = << >> \/ ~Given(r.uti)) /\ StateRows(r.uti, tsr) = {}
    <3>1. Ids(SftrMcrCollateralStateCrossRef(r, tsr)) = {"MCR.REQUESTED_UTI_NOT_IN_TSR"}
      BY <2>2, OneIssue DEF SftrMcrCollateralStateCrossRef
    <3> QED BY <2>2, <3>1
  <2>3. CASE ~(tsr = << >> \/ ~Given(r.uti)) /\ StateRows(r.uti, tsr) # {}
    <3>1. CASE has_collateral(StateOf(r.uti, tsr))
      <4>1. Ids(SftrMcrCollateralStateCrossRef(r, tsr)) = {"MCR.COLLATERAL_PRESENT_IN_TSR"}
        BY <2>3, <3>1, OneIssue DEF SftrMcrCollateralStateCrossRef
      <4> QED BY <2>3, <4>1
    <3>2. CASE ~has_collateral(StateOf(r.uti, tsr))
      <4>1. Ids(SftrMcrCollateralStateCrossRef(r, tsr)) = {"MCR.STILL_MISSING_IN_TSR"}
        BY <2>3, <3>2, OneIssue DEF SftrMcrCollateralStateCrossRef
      <4> QED BY <2>3, <4>1
    <3> QED BY <3>1, <3>2
  <2> QED BY <2>1, <2>2, <2>3
<1>3. /\ \A id : id \in said <=> \E issue \in McrIssues(r, tsr) : issue.id = id
      /\ \A id : id \in Ids(SftrMcrCollateralStateCrossRef(r, tsr)) <=>
                   \E issue \in SftrMcrCollateralStateCrossRef(r, tsr) : issue.id = id
  BY DEF Ids
<1> QED BY <1>1, <1>2, <1>3 DEF McrIssues

\* What the indicators that are compared count.
LEMMA EmirCounts ==
    ASSUME NEW f
    PROVE  /\ compute_dqi_val_missing(f).rows =
                {i \in DOMAIN f : StillOpen(f[i]) /\ Absent(f[i].valuation_amount)}
           /\ compute_dqi_anomaly_rate(f).rows =
                {i \in DOMAIN f :
                   \/ Negative(f[i].notional_amount) \/ IsZero(f[i].notional_amount)
                   \/ Negative(f[i].valuation_amount) \/ f[i].maturity_date \in PlaceholderDates}
           /\ compute_dqi_duplicate_reports(f).rows =
                {i \in DOMAIN f : /\ ~Blank(f[i].uti)
                                  /\ Cardinality({j \in DOMAIN f : SameBytes(f[i].uti, f[j].uti)}) >= 2}
           /\ compute_dqi_col_all_zero(f).rows =
                {i \in DOMAIN f : AllAbsent(f[i], ImCurrent \union VmCurrent)}
           /\ compute_dqi_tim_reporting_late(f).rows =
                {i \in DOMAIN f :
                   /\ Both(f[i].execution_timestamp, f[i].reporting_timestamp)
                   /\ NumHours(f[i].reporting_timestamp - f[i].execution_timestamp) > max_hours}
           /\ compute_dqi_nature_missing(f).rows = {i \in DOMAIN f : Blank(f[i].nature)}
           /\ compute_dqi_rej_rate(f).rows = {i \in DOMAIN f : IsRejected(f[i])}
           /\ compute_dqi_unpaired_trades_rate(f).rows =
                {i \in DOMAIN f : /\ WithStatus(f[i])
                                  /\ In(f[i].pairing_status, {"UNPAIRED", "UNPAIR", "UNPR"})}
           /\ compute_dqi_field_mismatch_rate(f).rows =
                {i \in DOMAIN f : WithStatus(f[i]) /\ f[i].mismatched_fields # {}}
           /\ compute_dqi_position_notional_negative(f).rows =
                {i \in DOMAIN f : OfPositions(f[i]) /\ Has(f[i].notional) /\ Negative(f[i].notional)}
<1>1. /\ compute_dqi_val_missing(f).rows =
           {i \in DOMAIN f : StillOpen(f[i]) /\ Absent(f[i].valuation_amount)}
      /\ compute_dqi_anomaly_rate(f).rows =
           {i \in DOMAIN f :
              \/ Negative(f[i].notional_amount) \/ IsZero(f[i].notional_amount)
              \/ Negative(f[i].valuation_amount) \/ f[i].maturity_date \in PlaceholderDates}
  BY DEF compute_dqi_val_missing, compute_dqi_anomaly_rate, Indicator, Rows, AnyRow
<1>2. compute_dqi_duplicate_reports(f).rows =
        {i \in DOMAIN f : /\ ~Blank(f[i].uti)
                          /\ Cardinality({j \in DOMAIN f : SameBytes(f[i].uti, f[j].uti)}) >= 2}
  BY DEF compute_dqi_duplicate_reports, Indicator, Rows
<1>3. /\ compute_dqi_col_all_zero(f).rows =
           {i \in DOMAIN f : AllAbsent(f[i], ImCurrent \union VmCurrent)}
      /\ compute_dqi_tim_reporting_late(f).rows =
           {i \in DOMAIN f :
              /\ Both(f[i].execution_timestamp, f[i].reporting_timestamp)
              /\ NumHours(f[i].reporting_timestamp - f[i].execution_timestamp) > max_hours}
      /\ compute_dqi_nature_missing(f).rows = {i \in DOMAIN f : Blank(f[i].nature)}
  BY DEF compute_dqi_col_all_zero, compute_dqi_tim_reporting_late, compute_dqi_nature_missing,
         Indicator, Rows, AnyRow
<1>4. /\ compute_dqi_rej_rate(f).rows = {i \in DOMAIN f : IsRejected(f[i])}
      /\ compute_dqi_position_notional_negative(f).rows =
           {i \in DOMAIN f : OfPositions(f[i]) /\ Has(f[i].notional) /\ Negative(f[i].notional)}
  BY DEF compute_dqi_rej_rate, compute_dqi_position_notional_negative, Indicator, Rows, AnyRow
<1>5. /\ compute_dqi_unpaired_trades_rate(f).rows =
           {i \in DOMAIN f : /\ WithStatus(f[i])
                             /\ In(f[i].pairing_status, {"UNPAIRED", "UNPAIR", "UNPR"})}
      /\ compute_dqi_field_mismatch_rate(f).rows =
           {i \in DOMAIN f : WithStatus(f[i]) /\ f[i].mismatched_fields # {}}
  BY DEF compute_dqi_unpaired_trades_rate, compute_dqi_field_mismatch_rate, Indicator, Rows
<1> QED BY <1>1, <1>2, <1>3, <1>4, <1>5

LEMMA SftrCounts ==
    ASSUME NEW f
    PROVE  /\ compute_dqi_collateral_value_missing_sftr(f).rows =
                {i \in DOMAIN f :
                   /\ StillOpen(f[i])
                   /\ Given(f[i].collateral_portfolio_code) \/ Given(f[i].collateral_isin)
                   /\ Absent(f[i].collateral_value)}
           /\ compute_dqi_haircut_anomaly_sftr(f).rows =
                {i \in DOMAIN f : Has(f[i].haircut) /\ OutsideUnit(f[i].haircut)}
           /\ compute_dqi_under_collateralization_sftr(f).rows =
                {i \in DOMAIN f :
                   /\ Has(f[i].loan_value) /\ Has(f[i].collateral_value) /\ Has(f[i].haircut)
                   /\ Discounted(f[i].collateral_value, f[i].haircut) < 100 * Net(f[i].loan_value)}
           /\ compute_dqi_unpaired_trades_rate_sftr(f).rows =
                {i \in DOMAIN f : OfSftr(f[i]) /\ Unpaired(f[i])}
           /\ compute_dqi_field_mismatch_rate_sftr(f).rows =
                {i \in DOMAIN f : /\ OfSftr(f[i]) /\ Given(f[i].reconciliation_status)
                                  /\ f[i].mismatched_fields # {}}
<1>1. /\ compute_dqi_collateral_value_missing_sftr(f).rows =
           {i \in DOMAIN f :
              /\ StillOpen(f[i])
              /\ Given(f[i].collateral_portfolio_code) \/ Given(f[i].collateral_isin)
              /\ Absent(f[i].collateral_value)}
      /\ compute_dqi_haircut_anomaly_sftr(f).rows =
           {i \in DOMAIN f : Has(f[i].haircut) /\ OutsideUnit(f[i].haircut)}
  BY DEF compute_dqi_collateral_value_missing_sftr, compute_dqi_haircut_anomaly_sftr, Indicator, Rows
<1>2. compute_dqi_under_collateralization_sftr(f).rows =
        {i \in DOMAIN f :
           /\ Has(f[i].loan_value) /\ Has(f[i].collateral_value) /\ Has(f[i].haircut)
           /\ Discounted(f[i].collateral_value, f[i].haircut) < 100 * Net(f[i].loan_value)}
  BY DEF compute_dqi_under_collateralization_sftr, Indicator, Rows
<1>3. /\ compute_dqi_unpaired_trades_rate_sftr(f).rows =
           {i \in DOMAIN f : OfSftr(f[i]) /\ Unpaired(f[i])}
      /\ compute_dqi_field_mismatch_rate_sftr(f).rows =
           {i \in DOMAIN f : /\ OfSftr(f[i]) /\ Given(f[i].reconciliation_status)
                             /\ f[i].mismatched_fields # {}}
  BY DEF compute_dqi_unpaired_trades_rate_sftr, compute_dqi_field_mismatch_rate_sftr, Indicator, Rows
<1> QED BY <1>1, <1>2, <1>3

\* Where a layer is there, its file is the one the indicators read.
LEMMA LayerAtHand ==
    ASSUME NEW layer \in DOMAIN files
    PROVE  /\ Layer(files, layer) = files[layer]
           /\ \A id : RowsWith(layer, id) =
                        {i \in DOMAIN files[layer] : id \in Ids(RowIssues(files, layer, i, Now))}
  BY DEF Layer, RowsWith

\* Two rows and more: another than this one.
LEMMA AnotherRow ==
    ASSUME NEW S, IsFiniteSet(S), NEW i \in S
    PROVE  Cardinality(S) >= 2 <=> \E j \in S : j # i
<1>1. Cardinality(S) \in Nat
  BY FS_CardinalityType
<1>2. IsFiniteSet(S \ {i}) /\ Cardinality(S \ {i}) = Cardinality(S) - 1
  BY FS_RemoveElement
<1>3. Cardinality(S \ {i}) = 0 <=> S \ {i} = {}
  BY <1>2, FS_EmptySet
<1>4. Cardinality(S \ {i}) \in Nat
  BY <1>2, FS_CardinalityType
<1> QED BY <1>1, <1>2, <1>3, <1>4

LEMMA FiniteRows ==
    ASSUME NEW layer, NEW fields, NEW rows, IsFile(rows, layer, fields)
    PROVE  DOMAIN rows = 1 .. Len(rows) /\ Len(rows) \in Nat /\ IsFiniteSet(DOMAIN rows)
<1>1. DOMAIN rows = 1 .. Len(rows) /\ Len(rows) \in Nat
  BY DEF IsFile
<1> QED BY <1>1, FS_Interval

\* A TSR row is one of its layer.
LEMMA EmirFile ==
    ASSUME TypeOK, NEW layer \in DOMAIN files
    PROVE  IsFile(files[layer], layer, LayersOf(regime)[layer])
  BY DEF TypeOK, AreFiles

LEMMA TsrMirrors ==
    ASSUME TypeOK, Emir, NEW pack, pack = compute_emir_dqi_pack(files, day)
    PROVE  /\ Mirrors("tsr", pack.DQI_VAL_MISSING.rows, "TST.MISSING_VALUATION", ZeroValuation, NotOpen)
           /\ Mirrors("tsr", pack.DQI_DUPLICATE_REPORTS.rows, "TST.DUPLICATE_ACTIVE_UTI",
                      OtherCopy, Never)
           /\ Mirrors("tsr", pack.DQI_ANOMALY_RATE.rows, "TST.PLACEHOLDER_MATURITY", AnyRow, Never)
<1> DEFINE f == files["tsr"]
           said(i) == Ids(TsrIssues(i, f, Now))
<1>1. SUFFICES ASSUME "tsr" \in DOMAIN files
               PROVE  /\ Mirrors("tsr", pack.DQI_VAL_MISSING.rows, "TST.MISSING_VALUATION",
                                 ZeroValuation, NotOpen)
                      /\ Mirrors("tsr", pack.DQI_DUPLICATE_REPORTS.rows, "TST.DUPLICATE_ACTIVE_UTI",
                                 OtherCopy, Never)
                      /\ Mirrors("tsr", pack.DQI_ANOMALY_RATE.rows, "TST.PLACEHOLDER_MATURITY",
                                 AnyRow, Never)
  BY DEF Mirrors
<1>2. \A id : RowsWith("tsr", id) = {i \in DOMAIN f : id \in said(i)}
  BY <1>1, LayerAtHand, EmirScans
<1>3. Layer(files, "tsr") = f
  BY <1>1 DEF Layer
<1>4. \A i \in DOMAIN f :
         /\ "TST.MISSING_VALUATION" \in said(i) <=> EmirMissingValuationOnTsr(f[i]) # {}
         /\ "TST.DUPLICATE_ACTIVE_UTI" \in said(i) <=> EmirDuplicateActiveUti(i, f) # {}
         /\ "TST.PLACEHOLDER_MATURITY" \in said(i) <=> EmirPlaceholderMaturity(f[i]) # {}
  BY TsrIds
<1> HIDE DEF said
<1>5. Mirrors("tsr", pack.DQI_VAL_MISSING.rows, "TST.MISSING_VALUATION", ZeroValuation, NotOpen)
  <2>1. pack.DQI_VAL_MISSING.rows =
          {i \in DOMAIN f : StillOpen(f[i]) /\ Absent(f[i].valuation_amount)}
    BY <1>3, EmirPackOf, EmirCounts
  <2>2. \A i \in DOMAIN f : EmirMissingValuationOnTsr(f[i]) # {} <=>
           is_outstanding(f[i]) /\ ~Has(f[i].valuation_amount)
    BY DEF EmirMissingValuationOnTsr, Issue
  <2> QED BY <1>2, <1>4, <2>1, <2>2
          DEF Mirrors, ZeroValuation, ZeroOrNotListed, NotListed, NotOpen, Absent
<1>6. Mirrors("tsr", pack.DQI_DUPLICATE_REPORTS.rows, "TST.DUPLICATE_ACTIVE_UTI", OtherCopy, Never)
  <2> DEFINE copies(i) == {j \in DOMAIN f : SameBytes(f[i].uti, f[j].uti)}
  <2>1. pack.DQI_DUPLICATE_REPORTS.rows =
          {i \in DOMAIN f : ~Blank(f[i].uti) /\ Cardinality(copies(i)) >= 2}
    <3>1. pack.DQI_DUPLICATE_REPORTS = compute_dqi_duplicate_reports(f)
      BY <1>3, EmirPackOf
    <3> HIDE DEF f
    <3> QED BY <3>1, EmirCounts
  <2>2. \A i \in DOMAIN f : EmirDuplicateActiveUti(i, f) # {} <=>
           /\ is_outstanding(f[i]) /\ ~Blank(f[i].uti)
           /\ \E j \in DOMAIN f \ {i} : is_outstanding(f[j]) /\ SameBytes(f[i].uti, f[j].uti)
    BY DEF EmirDuplicateActiveUti, Issue
  <2>3. ASSUME NEW i \in DOMAIN f
        PROVE  /\ Cardinality(copies(i)) >= 2 <=>
                     \E j \in DOMAIN f \ {i} : SameBytes(f[i].uti, f[j].uti)
    <3>1. IsFiniteSet(copies(i)) /\ i \in copies(i)
      BY <1>1, EmirFile, FiniteRows, FS_Subset DEF SameBytes
    <3> QED BY <3>1, AnotherRow
  <2> HIDE DEF copies
  <2> QED BY <1>1, <1>2, <1>4, <2>1, <2>2, <2>3
          DEF Mirrors, OtherCopy, NotListed, Never, SameBytes
<1>7. Mirrors("tsr", pack.DQI_ANOMALY_RATE.rows, "TST.PLACEHOLDER_MATURITY", AnyRow, Never)
  <2>1. \A i \in DOMAIN f : f[i].maturity_date \in PlaceholderDates =>
                              i \in pack.DQI_ANOMALY_RATE.rows
    BY <1>3, EmirPackOf, EmirCounts
  <2>2. \A i \in DOMAIN f : EmirPlaceholderMaturity(f[i]) # {} =>
           f[i].maturity_date \in PlaceholderDates
    BY DEF EmirPlaceholderMaturity, Issue
  <2> QED BY <1>2, <1>4, <2>1, <2>2 DEF Mirrors, AnyRow, Never
<1> QED BY <1>5, <1>6, <1>7

LEMMA FoundIssue ==
    ASSUME NEW found, NEW id, NEW severity, NEW field
    PROVE  Issue(found, id, severity, field) # {} <=> found
  BY DEF Issue

LEMMA PairedText == \A t : Untrimmed(t, {"UNPAIRED"}) => Given(t) /\ t.code = "UNPAIRED"
<1>1. NoText.code # "UNPAIRED"
  BY Zenon DEF NoText, Plain
<1> QED BY <1>1 DEF Untrimmed, Given

LEMMA MsrMirrors ==
    ASSUME Emir, NEW pack, pack = compute_emir_dqi_pack(files, day)
    PROVE  Mirrors("msr", pack.DQI_COL_ALL_ZERO.rows, "MSR.MARGIN_MISSING_FOR_OUTSTANDING",
                   NoMargin, Never)
<1> DEFINE f == files["msr"]
           said(i) == Ids(MsrIssues(f[i], Now))
<1>1. SUFFICES ASSUME "msr" \in DOMAIN files
               PROVE  Mirrors("msr", pack.DQI_COL_ALL_ZERO.rows,
                              "MSR.MARGIN_MISSING_FOR_OUTSTANDING", NoMargin, Never)
  BY DEF Mirrors
<1>2. \A id : RowsWith("msr", id) = {i \in DOMAIN f : id \in said(i)}
  BY <1>1, LayerAtHand, EmirScans
<1>3. \A i \in DOMAIN f : "MSR.MARGIN_MISSING_FOR_OUTSTANDING" \in said(i) <=>
                            EmirMsrMarginMissingForOutstanding(f[i]) # {}
  BY MsrIds
<1> HIDE DEF said
<1>4. pack.DQI_COL_ALL_ZERO.rows = {i \in DOMAIN f : AllAbsent(f[i], ImCurrent \union VmCurrent)}
  <2>1. pack.DQI_COL_ALL_ZERO = compute_dqi_col_all_zero(f)
    BY <1>1, EmirPackOf DEF Layer
  <2> HIDE DEF f
  <2> QED BY <2>1, EmirCounts
<1>5. \A i \in DOMAIN f : EmirMsrMarginMissingForOutstanding(f[i]) # {} <=>
         Given(f[i].uti) /\ \A field \in ImCurrent \union VmCurrent : ~Has(f[i][field])
  BY DEF EmirMsrMarginMissingForOutstanding, Issue
<1> HIDE DEF f
<1>6. \A i \in DOMAIN f :
         /\ AllAbsent(f[i], ImCurrent \union VmCurrent)
              /\ ~(Given(f[i].uti) /\ \A field \in ImCurrent \union VmCurrent : ~Has(f[i][field]))
              => NoMargin(f[i])
         /\ (\A field \in ImCurrent \union VmCurrent : ~Has(f[i][field]))
              => AllAbsent(f[i], ImCurrent \union VmCurrent)
  BY DEF AllAbsent, Absent, NoMargin
<1> QED BY <1>2, <1>3, <1>4, <1>5, <1>6 DEF Mirrors, Never, f

\* Whole hours above the limit are a delay above it, and a delay above it that is
\* not a whole hour more leaves no whole hour above it.
LEMMA WholeHours ==
    ASSUME NEW delay \in Int
    PROVE  /\ NumHours(delay) > max_hours => delay > Hours(MaxReportingDelay)
           /\ ~ (NumHours(delay) > max_hours) => delay < Hours(max_hours + 1)
<1>1. MaxReportingDelay \in Int
  BY PackAssumption
<1>2. max_hours \in Nat /\ MaxReportingDelay <= max_hours
  BY <1>1 DEF max_hours
<1>3. NumHours(delay) = IF delay < 0 THEN -((-delay) \div 2) ELSE delay \div 2
  BY DEF NumHours, Whole, Hours
<1> QED BY <1>1, <1>2, <1>3 DEF Hours

LEMMA TarTimes ==
    ASSUME TypeOK, "tar" \in DOMAIN files, NEW i \in DOMAIN files["tar"]
    PROVE  files["tar"][i].reporting_timestamp - files["tar"][i].execution_timestamp \in Int
<1> DEFINE r == files["tar"][i]
<1>1. IsRow(r, "tar", LayersOf(regime)["tar"])
  BY DEF TypeOK, AreFiles, IsFile
<1>2. {"reporting_timestamp", "execution_timestamp"} \subseteq LayersOf(regime)["tar"]
  BY DEF LayersOf, EmirLayers, SftrLayers, EmirFields, SftrFields
<1>3. /\ FieldType("reporting_timestamp") = Nat \union {NoTime}
      /\ FieldType("execution_timestamp") = Nat \union {NoTime}
  BY DEF FieldType, TimeFields, SumFields, NamedFields
<1>4. \A field \in {"reporting_timestamp", "execution_timestamp"} : r[field] \in FieldType(field)
  BY <1>1, <1>2 DEF IsRow, ValueType
<1> QED BY <1>3, <1>4 DEF NoTime

\* The indicator of late reports against the check of that name, in either regime.
LEMMA LateAlike ==
    ASSUME TypeOK, "tar" \in DOMAIN files, NEW counted,
           counted = {i \in DOMAIN files["tar"] :
                        LET r == files["tar"][i]
                        IN  /\ Both(r.execution_timestamp, r.reporting_timestamp)
                            /\ NumHours(r.reporting_timestamp - r.execution_timestamp) > max_hours},
           RowsWith("tar", "TIM.LATE_REPORTING") =
             {i \in DOMAIN files["tar"] :
                LET r == files["tar"][i]
                IN  /\ Both(r.event_timestamp, r.reporting_timestamp)
                    /\ r.reporting_timestamp - r.event_timestamp > Hours(MaxReportingDelay)}
    PROVE  Mirrors("tar", counted, "TIM.LATE_REPORTING", TwoTimes, TwoTimesOrPartOfAnHour)
<1> DEFINE f == files["tar"]
           delay(i) == f[i].reporting_timestamp - f[i].execution_timestamp
           late(i) == /\ Both(f[i].event_timestamp, f[i].reporting_timestamp)
                      /\ f[i].reporting_timestamp - f[i].event_timestamp > Hours(MaxReportingDelay)
           flagged == RowsWith("tar", "TIM.LATE_REPORTING")
<1>1. \A i \in DOMAIN f : /\ NumHours(delay(i)) > max_hours => delay(i) > Hours(MaxReportingDelay)
                          /\ ~ (NumHours(delay(i)) > max_hours) => delay(i) < Hours(max_hours + 1)
  BY TarTimes, WholeHours
<1>2. ASSUME NEW i \in counted \ flagged
      PROVE  TwoTimes(f[i])
  BY <1>1, <1>2 DEF TwoTimes
<1>3. ASSUME NEW i \in flagged \ counted
      PROVE  TwoTimesOrPartOfAnHour(f[i])
  BY <1>1, <1>3 DEF TwoTimesOrPartOfAnHour, TwoTimes
<1> QED BY <1>2, <1>3 DEF Mirrors

LEMMA TarMirrors ==
    ASSUME TypeOK, Emir, NEW pack, pack = compute_emir_dqi_pack(files, day)
    PROVE  /\ Mirrors("tar", pack.DQI_TIM_REPORTING_LATE.rows, "TIM.LATE_REPORTING",
                      TwoTimes, TwoTimesOrPartOfAnHour)
           /\ Mirrors("tar", pack.DQI_NATURE_MISSING.rows, "COMP.NATURE_MISSING", Never, Never)
<1> DEFINE f == files["tar"]
           said(i) == Ids(EmirIssues(f[i], f, Now) \union TarIssues(i, f, Companion(files)))
<1>1. SUFFICES ASSUME "tar" \in DOMAIN files
               PROVE  /\ Mirrors("tar", pack.DQI_TIM_REPORTING_LATE.rows, "TIM.LATE_REPORTING",
                                 TwoTimes, TwoTimesOrPartOfAnHour)
                      /\ Mirrors("tar", pack.DQI_NATURE_MISSING.rows, "COMP.NATURE_MISSING",
                                 Never, Never)
  BY DEF Mirrors
<1>2. \A id : RowsWith("tar", id) = {i \in DOMAIN f : id \in said(i)}
  <2>1. \A i : RowIssues(files, "tar", i, Now) =
                 EmirIssues(f[i], f, Now) \union TarIssues(i, f, Companion(files))
    BY EmirScans
  <2>2. \A i : Ids(RowIssues(files, "tar", i, Now)) = said(i)
    BY <2>1
  <2> QED BY <1>1, <2>2, LayerAtHand
<1>3. \A i \in DOMAIN f : /\ "TIM.LATE_REPORTING" \in said(i) <=> LateReporting(f[i]) # {}
                          /\ "COMP.NATURE_MISSING" \in said(i) <=> Blank(f[i].nature)
  BY EmirTarIds
<1> HIDE DEF said
<1>4. /\ pack.DQI_TIM_REPORTING_LATE.rows =
           {i \in DOMAIN f :
              /\ Both(f[i].execution_timestamp, f[i].reporting_timestamp)
              /\ NumHours(f[i].reporting_timestamp - f[i].execution_timestamp) > max_hours}
      /\ pack.DQI_NATURE_MISSING.rows = {i \in DOMAIN f : Blank(f[i].nature)}
  BY <1>1, EmirPackOf, EmirCounts DEF Layer
<1>5. \A i \in DOMAIN f : LateReporting(f[i]) # {} <=>
         /\ Both(f[i].event_timestamp, f[i].reporting_timestamp)
         /\ f[i].reporting_timestamp - f[i].event_timestamp > Hours(MaxReportingDelay)
  BY DEF LateReporting, Issue
<1> HIDE DEF f
<1>6. Mirrors("tar", pack.DQI_TIM_REPORTING_LATE.rows, "TIM.LATE_REPORTING",
              TwoTimes, TwoTimesOrPartOfAnHour)
  <2>1. RowsWith("tar", "TIM.LATE_REPORTING") =
          {i \in DOMAIN f :
             /\ Both(f[i].event_timestamp, f[i].reporting_timestamp)
             /\ f[i].reporting_timestamp - f[i].event_timestamp > Hours(MaxReportingDelay)}
    BY <1>2, <1>3, <1>5
  <2> QED BY <1>1, <1>4, <2>1, LateAlike DEF f
<1>7. Mirrors("tar", pack.DQI_NATURE_MISSING.rows, "COMP.NATURE_MISSING", Never, Never)
  BY <1>2, <1>3, <1>4 DEF Mirrors, Never, f
<1> QED BY <1>6, <1>7

LEMMA FeedbackMirrors ==
    ASSUME Emir, NEW pack, pack = compute_emir_dqi_pack(files, day)
    PROVE  Mirrors("feedback", pack.DQI_REJ_RATE.rows, "FBK.TR_REJECTED_UTI", OtherRegime, Never)
<1> DEFINE f == files["feedback"]
           said(i) == Ids(FeedbackIssues(f[i], Layer(files, "book")))
<1>1. SUFFICES ASSUME "feedback" \in DOMAIN files
               PROVE  Mirrors("feedback", pack.DQI_REJ_RATE.rows, "FBK.TR_REJECTED_UTI",
                              OtherRegime, Never)
  BY DEF Mirrors
<1>2. \A id : RowsWith("feedback", id) = {i \in DOMAIN f : id \in said(i)}
  BY <1>1, LayerAtHand, EmirScans
<1>3. \A i \in DOMAIN f : "FBK.TR_REJECTED_UTI" \in said(i) <=> TrRejectedUti(f[i]) # {}
  BY FeedbackIds
<1> HIDE DEF said
<1>4. pack.DQI_REJ_RATE.rows = {i \in DOMAIN f : IsRejected(f[i])}
  BY <1>1, EmirPackOf, EmirCounts DEF Layer
<1>5. \A i \in DOMAIN f : TrRejectedUti(f[i]) # {} <=> Says(f[i], "Rejected")
  BY DEF TrRejectedUti, Issue
<1> HIDE DEF f
<1>6. \A i \in DOMAIN f : /\ IsRejected(f[i]) /\ ~Says(f[i], "Rejected") => OtherRegime(f[i])
                          /\ Says(f[i], "Rejected") => IsRejected(f[i])
  BY DEF IsRejected, Says, OtherRegime, Emir
<1> QED BY <1>2, <1>3, <1>4, <1>5, <1>6 DEF Mirrors, Never, f

LEMMA ReconciliationMirrors ==
    ASSUME Emir, NEW pack, pack = compute_emir_dqi_pack(files, day)
    PROVE  /\ Mirrors("reconciliation", pack.DQI_UNPAIRED_TRADES_RATE.rows, "REC.UNPAIRED_TRADE",
                      AnotherToken, Never)
           /\ Mirrors("reconciliation", pack.DQI_FIELD_MISMATCH_RATE.rows, "REC.FIELD_MISMATCH",
                      OtherRegime, NoStatus)
<1> DEFINE f == files["reconciliation"]
           said(i) == Ids(RecIssues(f[i]))
<1>1. SUFFICES ASSUME "reconciliation" \in DOMAIN files
               PROVE  /\ Mirrors("reconciliation", pack.DQI_UNPAIRED_TRADES_RATE.rows,
                                 "REC.UNPAIRED_TRADE", AnotherToken, Never)
                      /\ Mirrors("reconciliation", pack.DQI_FIELD_MISMATCH_RATE.rows,
                                 "REC.FIELD_MISMATCH", OtherRegime, NoStatus)
  BY DEF Mirrors
<1>2. \A id : RowsWith("reconciliation", id) = {i \in DOMAIN f : id \in said(i)}
  BY <1>1, LayerAtHand, EmirScans
<1>3. \A i \in DOMAIN f : /\ "REC.UNPAIRED_TRADE" \in said(i) <=> UnpairedTrade(f[i]) # {}
                          /\ "REC.FIELD_MISMATCH" \in said(i) <=> EmirFieldMismatch(f[i]) # {}
  BY RecIds
<1> HIDE DEF said
<1>4. /\ pack.DQI_UNPAIRED_TRADES_RATE.rows =
           {i \in DOMAIN f : /\ WithStatus(f[i])
                             /\ In(f[i].pairing_status, {"UNPAIRED", "UNPAIR", "UNPR"})}
      /\ pack.DQI_FIELD_MISMATCH_RATE.rows =
           {i \in DOMAIN f : WithStatus(f[i]) /\ f[i].mismatched_fields # {}}
  BY <1>1, EmirPackOf, EmirCounts DEF Layer
<1> HIDE DEF f
<1>5. \A i \in DOMAIN f :
         /\ UnpairedTrade(f[i]) # {} <=> ~OtherRegime(f[i]) /\ Untrimmed(f[i].pairing_status, {"UNPAIRED"})
         /\ EmirFieldMismatch(f[i]) # {} <=> ~OtherRegime(f[i]) /\ f[i].mismatched_fields # {}
  <2>1. \A i \in DOMAIN f : OtherRegime(f[i]) <=> f[i].regime # "EMIR"
    BY DEF OtherRegime, Emir
  <2>2. \A r : UnpairedTrade(r) # {} <=> r.regime = "EMIR" /\ Untrimmed(r.pairing_status, {"UNPAIRED"})
    BY FoundIssue DEF UnpairedTrade
  <2>3. \A r : EmirFieldMismatch(r) # {} <=> r.regime = "EMIR" /\ r.mismatched_fields # {}
    <3>1. \A r : EmirFieldMismatch(r) # {} <=>
             \E field \in r.mismatched_fields :
                Issue(r.regime = "EMIR", "REC.FIELD_MISMATCH", "High", field) # {}
      BY DEF EmirFieldMismatch
    <3> QED BY <3>1, FoundIssue
  <2> QED BY <2>1, <2>2, <2>3
<1>6. \A i \in DOMAIN f : Untrimmed(f[i].pairing_status, {"UNPAIRED"}) =>
         WithStatus(f[i]) /\ In(f[i].pairing_status, {"UNPAIRED", "UNPAIR", "UNPR"})
  BY PairedText DEF WithStatus, In
<1>7. Mirrors("reconciliation", pack.DQI_UNPAIRED_TRADES_RATE.rows, "REC.UNPAIRED_TRADE",
              AnotherToken, Never)
  BY <1>2, <1>3, <1>4, <1>5, <1>6 DEF Mirrors, Never, AnotherToken, f
<1>8. Mirrors("reconciliation", pack.DQI_FIELD_MISMATCH_RATE.rows, "REC.FIELD_MISMATCH",
              OtherRegime, NoStatus)
  BY <1>2, <1>3, <1>4, <1>5 DEF Mirrors, NoStatus, WithStatus, f
<1> QED BY <1>7, <1>8

LEMMA PositionMirrors ==
    ASSUME Emir, NEW pack, pack = compute_emir_dqi_pack(files, day)
    PROVE  Mirrors("positions", pack.DQI_POSITION_NOTIONAL_NEGATIVE.rows,
                   "POS.NOTIONAL_NEGATIVE", Never, OtherKind)
<1> DEFINE f == files["positions"]
           said(i) == Ids(PosIssues(f[i]))
<1>1. SUFFICES ASSUME "positions" \in DOMAIN files
               PROVE  Mirrors("positions", pack.DQI_POSITION_NOTIONAL_NEGATIVE.rows,
                              "POS.NOTIONAL_NEGATIVE", Never, OtherKind)
  BY DEF Mirrors
<1>2. \A id : RowsWith("positions", id) = {i \in DOMAIN f : id \in said(i)}
  BY <1>1, LayerAtHand, EmirScans
<1>3. \A i \in DOMAIN f : "POS.NOTIONAL_NEGATIVE" \in said(i) <=> EmirPosNotionalNegative(f[i]) # {}
  BY PosIds
<1> HIDE DEF said
<1>4. pack.DQI_POSITION_NOTIONAL_NEGATIVE.rows =
        {i \in DOMAIN f : OfPositions(f[i]) /\ Has(f[i].notional) /\ Negative(f[i].notional)}
  BY <1>1, EmirPackOf, EmirCounts DEF Layer
<1>5. \A i \in DOMAIN f : EmirPosNotionalNegative(f[i]) # {} <=> Negative(f[i].notional)
  BY DEF EmirPosNotionalNegative, Issue
<1> HIDE DEF f
<1>6. \A i \in DOMAIN f : Negative(f[i].notional) => Has(f[i].notional)
  BY DEF Negative
<1> QED BY <1>2, <1>3, <1>4, <1>5, <1>6 DEF Mirrors, Never, OtherKind, f

\* A row of the SFTR state report, and what its amounts are.
LEMMA SftrStateRow ==
    ASSUME TypeOK, ~Emir, "tsr" \in DOMAIN files, NEW i \in DOMAIN files["tsr"],
           NEW field \in {"loan_value", "collateral_value", "haircut"}
    PROVE  files["tsr"][i][field] \in [sgn : {-1, 0, 1}, bn : Nat, scale : Int]
<1>1. IsFile(files["tsr"], "tsr", LayersOf(regime)["tsr"])
  BY DEF TypeOK, AreFiles
<1>2. LayersOf(regime) = SftrLayers
  BY DEF LayersOf, Emir
<1>3. SftrLayers["tsr"] = SftrTrStateRecord
  BY DEF SftrLayers
<1>4. IsRow(files["tsr"][i], "tsr", SftrTrStateRecord)
  BY <1>1, <1>2, <1>3 DEF IsFile
<1>5. files["tsr"][i][field] \in ValueType("tsr", field)
  BY <1>4 DEF IsRow, SftrTrStateRecord
<1>6. ValueType("tsr", field) = AnswerType(field)
  BY DEF ValueType
<1>7. field \notin AnswerTimes /\ field \in AnswerAmounts
  BY DEF AnswerTimes, AnswerAmounts
<1> QED BY <1>5, <1>6, <1>7 DEF AnswerType

\* A collateral below the loan less the haircut is below it when the haircut is
\* taken off the collateral, unless its value is negative.
LEMMA HaircutEitherWay ==
    ASSUME NEW loan \in Int, NEW collateral \in Int, NEW haircut \in 0 .. 100,
           100 * collateral < loan * (100 - haircut), collateral >= 0
    PROVE  collateral * (100 - haircut) < 100 * loan
<1> DEFINE rest == 100 - haircut
<1>1. rest \in 0 .. 100 /\ haircut = 100 - rest
  OBVIOUS
<1> HIDE DEF rest
<1>2. loan * rest > 0
  BY <1>1
<1>3. loan > 0
  BY <1>1, <1>2, Z3
<1>4. collateral * rest <= 100 * collateral
  BY <1>1
<1>5. loan * rest <= 100 * loan
  BY <1>1, <1>3
<1> QED BY <1>1, <1>4, <1>5 DEF rest

LEMMA SftrTsrMirrors ==
    ASSUME TypeOK, ~Emir, NEW pack, pack = compute_sftr_dqi_pack(files, day)
    PROVE  /\ Mirrors("tsr", pack.DQI_COLLATERAL_VALUE_MISSING_SFTR.rows,
                      "TST.MISSING_COLLATERAL", ZeroCollateral, NotAsked)
           /\ Mirrors("tsr", pack.DQI_HAIRCUT_ANOMALY_SFTR.rows,
                      "TST.HAIRCUT_OUT_OF_RANGE_ON_OUTSTANDING", NotListed, Never)
           /\ Mirrors("tsr", pack.DQI_UNDER_COLLATERALIZATION_SFTR.rows,
                      "MSR.MGLD_COLLATERAL_UNDER_LOAN", AnyRow, NoHaircut)
<1> DEFINE f == files["tsr"]
           said(i) == Ids(SftrTsrIssues(i, f, Now) \union MgldIssues(f[i]))
<1>1. SUFFICES ASSUME "tsr" \in DOMAIN files
               PROVE  /\ Mirrors("tsr", pack.DQI_COLLATERAL_VALUE_MISSING_SFTR.rows,
                                 "TST.MISSING_COLLATERAL", ZeroCollateral, NotAsked)
                      /\ Mirrors("tsr", pack.DQI_HAIRCUT_ANOMALY_SFTR.rows,
                                 "TST.HAIRCUT_OUT_OF_RANGE_ON_OUTSTANDING", NotListed, Never)
                      /\ Mirrors("tsr", pack.DQI_UNDER_COLLATERALIZATION_SFTR.rows,
                                 "MSR.MGLD_COLLATERAL_UNDER_LOAN", AnyRow, NoHaircut)
  BY DEF Mirrors
<1>2. \A id : RowsWith("tsr", id) = {i \in DOMAIN f : id \in said(i)}
  <2>1. \A i : RowIssues(files, "tsr", i, Now) = SftrTsrIssues(i, f, Now) \union MgldIssues(f[i])
    BY SftrScans
  <2>2. \A i : Ids(RowIssues(files, "tsr", i, Now)) = said(i)
    BY <2>1
  <2> QED BY <1>1, <2>2, LayerAtHand
<1>3. \A i \in DOMAIN f :
         /\ "TST.MISSING_COLLATERAL" \in said(i) <=> SftrMissingCollateralOnTsr(f[i]) # {}
         /\ "TST.HAIRCUT_OUT_OF_RANGE_ON_OUTSTANDING" \in said(i) <=>
              SftrHaircutOutOfRangeOnTsr(f[i]) # {}
         /\ "MSR.MGLD_COLLATERAL_UNDER_LOAN" \in said(i) <=>
              SftrMsrMgldCollateralUnderLoan(f[i]) # {}
  BY SftrTsrIds
<1> HIDE DEF said
<1>4. /\ pack.DQI_COLLATERAL_VALUE_MISSING_SFTR = compute_dqi_collateral_value_missing_sftr(f)
      /\ pack.DQI_HAIRCUT_ANOMALY_SFTR = compute_dqi_haircut_anomaly_sftr(f)
      /\ pack.DQI_UNDER_COLLATERALIZATION_SFTR = compute_dqi_under_collateralization_sftr(f)
  BY <1>1, SftrPackOf DEF Layer
<1>5. \A r : /\ SftrMissingCollateralOnTsr(r) # {} <=> is_outstanding(r) /\ ~Has(r.collateral_value)
             /\ SftrHaircutOutOfRangeOnTsr(r) # {} <=> is_outstanding(r) /\ OutsideUnit(r.haircut)
             /\ SftrMsrMgldCollateralUnderLoan(r) # {} <=>
                  /\ is_mgld(r) /\ is_outstanding(r) /\ Has(r.loan_value)
                  /\ Has(r.collateral_value) /\ ~OutsideUnit(r.haircut)
                  /\ 100 * Net(r.collateral_value) < Discounted(r.loan_value, r.haircut)
  BY FoundIssue DEF SftrMissingCollateralOnTsr, SftrHaircutOutOfRangeOnTsr,
                    SftrMsrMgldCollateralUnderLoan
<1>6. \A i \in DOMAIN f :
         Has(f[i].haircut) /\ ~Negative(f[i].collateral_value) /\ SftrMsrMgldCollateralUnderLoan(f[i]) # {} =>
           Discounted(f[i].collateral_value, f[i].haircut) < 100 * Net(f[i].loan_value)
  <2> SUFFICES ASSUME NEW i \in DOMAIN f, Has(f[i].haircut), ~Negative(f[i].collateral_value),
                      SftrMsrMgldCollateralUnderLoan(f[i]) # {}
               PROVE  Discounted(f[i].collateral_value, f[i].haircut) < 100 * Net(f[i].loan_value)
    OBVIOUS
  <2>1. /\ f[i].loan_value \in [sgn : {-1, 0, 1}, bn : Nat, scale : Int]
        /\ f[i].collateral_value \in [sgn : {-1, 0, 1}, bn : Nat, scale : Int]
        /\ f[i].haircut \in [sgn : {-1, 0, 1}, bn : Nat, scale : Int]
    <3>1. \A field \in {"loan_value", "collateral_value", "haircut"} :
             f[i][field] \in [sgn : {-1, 0, 1}, bn : Nat, scale : Int]
      BY <1>1, SftrStateRow
    <3> QED BY <3>1
  <2> DEFINE loan == Net(f[i].loan_value)
             collateral == Net(f[i].collateral_value)
             haircut == Net(f[i].haircut)
  <2>2. loan \in Int /\ haircut \in Int
    BY <2>1 DEF Net
  <2>3. collateral \in Int /\ collateral >= 0
    BY <1>5, <2>1 DEF Net, Negative
  <2>4. haircut \in 0 .. 100
    BY <1>5, <2>2 DEF OutsideUnit
  <2>5. 100 * collateral < loan * (100 - haircut)
    BY <1>5 DEF Discounted
  <2> HIDE DEF loan, collateral, haircut
  <2>6. collateral * (100 - haircut) < 100 * loan
    BY <2>2, <2>3, <2>4, <2>5, HaircutEitherWay
  <2> QED BY <2>6 DEF Discounted, loan, collateral, haircut
<1> HIDE DEF f
<1>c. /\ pack.DQI_COLLATERAL_VALUE_MISSING_SFTR.rows =
           {i \in DOMAIN f :
              /\ StillOpen(f[i])
              /\ Given(f[i].collateral_portfolio_code) \/ Given(f[i].collateral_isin)
              /\ Absent(f[i].collateral_value)}
      /\ pack.DQI_UNDER_COLLATERALIZATION_SFTR.rows =
           {i \in DOMAIN f :
              /\ Has(f[i].loan_value) /\ Has(f[i].collateral_value) /\ Has(f[i].haircut)
              /\ Discounted(f[i].collateral_value, f[i].haircut) < 100 * Net(f[i].loan_value)}
  BY <1>4, SftrCounts
<1>7. Mirrors("tsr", pack.DQI_COLLATERAL_VALUE_MISSING_SFTR.rows, "TST.MISSING_COLLATERAL",
              ZeroCollateral, NotAsked)
  BY <1>2, <1>3, <1>5, <1>c
     DEF Mirrors, ZeroCollateral, ZeroOrNotListed, NotListed, NotAsked, NotOpen, Absent, f
<1>8. Mirrors("tsr", pack.DQI_HAIRCUT_ANOMALY_SFTR.rows, "TST.HAIRCUT_OUT_OF_RANGE_ON_OUTSTANDING",
              NotListed, Never)
  BY <1>2, <1>3, <1>4, <1>5, SftrCounts DEF Mirrors, NotListed, Never, OutsideUnit, f
<1>9. Mirrors("tsr", pack.DQI_UNDER_COLLATERALIZATION_SFTR.rows, "MSR.MGLD_COLLATERAL_UNDER_LOAN",
              AnyRow, NoHaircut)
  <2>1. \A i \in DOMAIN f : SftrMsrMgldCollateralUnderLoan(f[i]) # {} =>
           Has(f[i].loan_value) /\ Has(f[i].collateral_value)
    BY <1>5
  <2> QED BY <1>2, <1>3, <1>6, <1>c, <2>1 DEF Mirrors, AnyRow, NoHaircut, f
<1> QED BY <1>7, <1>8, <1>9

LEMMA SftrTarMirrors ==
    ASSUME TypeOK, ~Emir, NEW pack, pack = compute_sftr_dqi_pack(files, day)
    PROVE  Mirrors("tar", pack.DQI_TIM_REPORTING_LATE_SFTR.rows, "TIM.LATE_REPORTING",
                   TwoTimes, TwoTimesOrPartOfAnHour)
<1> DEFINE f == files["tar"]
           said(i) == Ids(SftrIssues(f[i], f, Now) \union SftrTarIssues(i, f, Companion(files)))
<1>1. SUFFICES ASSUME "tar" \in DOMAIN files
               PROVE  Mirrors("tar", pack.DQI_TIM_REPORTING_LATE_SFTR.rows,
                              "TIM.LATE_REPORTING", TwoTimes, TwoTimesOrPartOfAnHour)
  BY DEF Mirrors
<1>2. \A id : RowsWith("tar", id) = {i \in DOMAIN f : id \in said(i)}
  <2>1. \A i : RowIssues(files, "tar", i, Now) =
                 SftrIssues(f[i], f, Now) \union SftrTarIssues(i, f, Companion(files))
    BY SftrScans
  <2>2. \A i : Ids(RowIssues(files, "tar", i, Now)) = said(i)
    BY <2>1
  <2> QED BY <1>1, <2>2, LayerAtHand
<1>3. \A i \in DOMAIN f : "TIM.LATE_REPORTING" \in said(i) <=> SftrLateReporting(f[i]) # {}
  BY SftrTarIds
<1> HIDE DEF said
<1>4. pack.DQI_TIM_REPORTING_LATE_SFTR = compute_dqi_tim_reporting_late(f)
  BY <1>1, SftrPackOf DEF Layer, compute_dqi_tim_reporting_late_sftr
<1>5. \A i \in DOMAIN f : SftrLateReporting(f[i]) # {} <=>
         /\ Both(f[i].event_timestamp, f[i].reporting_timestamp)
         /\ f[i].reporting_timestamp - f[i].event_timestamp > Hours(MaxReportingDelay)
  BY DEF SftrLateReporting, Issue
<1>6. pack.DQI_TIM_REPORTING_LATE_SFTR.rows =
        {i \in DOMAIN f :
           /\ Both(f[i].execution_timestamp, f[i].reporting_timestamp)
           /\ NumHours(f[i].reporting_timestamp - f[i].execution_timestamp) > max_hours}
  BY <1>4, EmirCounts
<1> HIDE DEF f
<1>7. RowsWith("tar", "TIM.LATE_REPORTING") =
        {i \in DOMAIN f :
           /\ Both(f[i].event_timestamp, f[i].reporting_timestamp)
           /\ f[i].reporting_timestamp - f[i].event_timestamp > Hours(MaxReportingDelay)}
  BY <1>2, <1>3, <1>5
<1> QED BY <1>1, <1>6, <1>7, LateAlike DEF f

LEMMA SftrReconciliationMirrors ==
    ASSUME ~Emir, regime = "SFTR", NEW pack, pack = compute_sftr_dqi_pack(files, day)
    PROVE  /\ Mirrors("reconciliation", pack.DQI_UNPAIRED_TRADES_RATE_SFTR.rows,
                      "REC.UNPAIRED_TRADE", AnotherToken, Never)
           /\ Mirrors("reconciliation", pack.DQI_FIELD_MISMATCH_RATE_SFTR.rows,
                      "REC.FIELD_MISMATCH", Never, Unreconciled)
<1> DEFINE f == files["reconciliation"]
           said(i) == Ids(SftrRecIssues(f[i]))
<1>1. SUFFICES ASSUME "reconciliation" \in DOMAIN files
               PROVE  /\ Mirrors("reconciliation", pack.DQI_UNPAIRED_TRADES_RATE_SFTR.rows,
                                 "REC.UNPAIRED_TRADE", AnotherToken, Never)
                      /\ Mirrors("reconciliation", pack.DQI_FIELD_MISMATCH_RATE_SFTR.rows,
                                 "REC.FIELD_MISMATCH", Never, Unreconciled)
  BY DEF Mirrors
<1>2. \A id : RowsWith("reconciliation", id) = {i \in DOMAIN f : id \in said(i)}
  BY <1>1, LayerAtHand, SftrScans
<1>3. \A i \in DOMAIN f : /\ "REC.UNPAIRED_TRADE" \in said(i) <=> SftrUnpairedTrade(f[i]) # {}
                          /\ "REC.FIELD_MISMATCH" \in said(i) <=> SftrFieldMismatch(f[i]) # {}
  BY SftrRecIds
<1> HIDE DEF said
<1>4. /\ pack.DQI_UNPAIRED_TRADES_RATE_SFTR = compute_dqi_unpaired_trades_rate_sftr(f)
      /\ pack.DQI_FIELD_MISMATCH_RATE_SFTR = compute_dqi_field_mismatch_rate_sftr(f)
  BY <1>1, SftrPackOf DEF Layer
<1> HIDE DEF f
<1>5. \A i \in DOMAIN f :
         /\ SftrUnpairedTrade(f[i]) # {} <=>
              OfSftr(f[i]) /\ Untrimmed(f[i].pairing_status, {"UNPAIRED"})
         /\ SftrFieldMismatch(f[i]) # {} <=> OfSftr(f[i]) /\ f[i].mismatched_fields # {}
  <2>1. \A r : SftrUnpairedTrade(r) # {} <=> r.regime = "SFTR" /\ Untrimmed(r.pairing_status, {"UNPAIRED"})
    BY FoundIssue DEF SftrUnpairedTrade
  <2>2. \A r : SftrFieldMismatch(r) # {} <=> r.regime = "SFTR" /\ r.mismatched_fields # {}
    <3>1. \A r : SftrFieldMismatch(r) # {} <=>
             \E field \in r.mismatched_fields :
                Issue(r.regime = "SFTR", "REC.FIELD_MISMATCH", "High", field) # {}
      BY DEF SftrFieldMismatch
    <3> QED BY <3>1, FoundIssue
  <2> QED BY <2>1, <2>2 DEF OfSftr
<1>6. \A i \in DOMAIN f : Untrimmed(f[i].pairing_status, {"UNPAIRED"}) => Unpaired(f[i])
  BY PairedText DEF Unpaired, In
<1>c. /\ pack.DQI_UNPAIRED_TRADES_RATE_SFTR.rows = {i \in DOMAIN f : OfSftr(f[i]) /\ Unpaired(f[i])}
      /\ pack.DQI_FIELD_MISMATCH_RATE_SFTR.rows =
           {i \in DOMAIN f : /\ OfSftr(f[i]) /\ Given(f[i].reconciliation_status)
                             /\ f[i].mismatched_fields # {}}
  BY <1>4, SftrCounts
<1>d. \A i \in DOMAIN f : OfSftr(f[i]) <=> ~OtherRegime(f[i])
  BY DEF OfSftr, OtherRegime
<1>7. Mirrors("reconciliation", pack.DQI_UNPAIRED_TRADES_RATE_SFTR.rows, "REC.UNPAIRED_TRADE",
              AnotherToken, Never)
  BY <1>2, <1>3, <1>5, <1>6, <1>c, <1>d DEF Mirrors, Never, AnotherToken, f
<1>8. Mirrors("reconciliation", pack.DQI_FIELD_MISMATCH_RATE_SFTR.rows, "REC.FIELD_MISMATCH",
              Never, Unreconciled)
  BY <1>2, <1>3, <1>5, <1>c DEF Mirrors, Never, Unreconciled, f
<1> QED BY <1>7, <1>8

LEMMA McrMirrors ==
    ASSUME ~Emir, "tsr" \in DOMAIN files, NEW pack, pack = compute_sftr_dqi_pack(files, day)
    PROVE  Mirrors("mcr", pack.DQI_MCR_OPEN_REQUESTS_SFTR.rows, "MCR.REQUESTED_UTI_NOT_IN_TSR",
                   Never, Never)
<1> DEFINE f == files["mcr"]
           said(i) == Ids(McrIssues(f[i], Companion(files)))
<1>1. SUFFICES ASSUME "mcr" \in DOMAIN files
               PROVE  Mirrors("mcr", pack.DQI_MCR_OPEN_REQUESTS_SFTR.rows,
                              "MCR.REQUESTED_UTI_NOT_IN_TSR", Never, Never)
  BY DEF Mirrors
<1>2. \A id : RowsWith("mcr", id) = {i \in DOMAIN f : id \in said(i)}
  BY <1>1, LayerAtHand, SftrScans
<1>3. \A i \in DOMAIN f : "MCR.REQUESTED_UTI_NOT_IN_TSR" \in said(i) <=>
         /\ Companion(files) # << >> /\ Given(f[i].uti)
         /\ StateRows(f[i].uti, Companion(files)) = {}
  BY McrIds
<1> HIDE DEF said
<1>4. pack.DQI_MCR_OPEN_REQUESTS_SFTR = compute_dqi_mcr_open_requests_sftr(f, Companion(files))
  BY <1>1, SftrPackOf DEF Layer
<1>5. Companion(files) # << >>
  BY DEF Companion
<1> HIDE DEF f
<1>6. pack.DQI_MCR_OPEN_REQUESTS_SFTR.rows =
        {i \in DOMAIN f : /\ Given(f[i].uti)
                          /\ Companion(files) = << >> \/ StateRows(f[i].uti, Companion(files)) = {}}
  <2> DEFINE tsr == Companion(files)
  <2>1. pack.DQI_MCR_OPEN_REQUESTS_SFTR = compute_dqi_mcr_open_requests_sftr(f, tsr)
    BY <1>4
  <2> HIDE DEF tsr
  <2>2. pack.DQI_MCR_OPEN_REQUESTS_SFTR.rows =
          {i \in DOMAIN f : Given(f[i].uti) /\ (tsr = << >> \/ StateRows(f[i].uti, tsr) = {})}
    BY <2>1 DEF compute_dqi_mcr_open_requests_sftr, Indicator, Rows
  <2> QED BY <2>2 DEF tsr
<1> QED BY <1>2, <1>3, <1>5, <1>6 DEF Mirrors, Never, f

\* An indicator counts what the check of its name flags, but for the differences
\* IndicatorsMatchChecks names.
THEOREM IndicatorsCountFlagged == Spec => []IndicatorsMatchChecks
<1>1. TypeOK => IndicatorsMatchChecks
  <2> SUFFICES ASSUME TypeOK PROVE IndicatorsMatchChecks
    OBVIOUS
  <2>1. CASE Emir
    <3> DEFINE pack == compute_emir_dqi_pack(files, day)
    <3>1. pack = compute_emir_dqi_pack(files, day)
      OBVIOUS
    <3> HIDE DEF pack
    <3>2. EmirRollUp(pack)
      BY <2>1, <3>1, TsrMirrors, MsrMirrors, TarMirrors, FeedbackMirrors,
         ReconciliationMirrors, PositionMirrors DEF EmirRollUp
    <3> QED BY <2>1, <3>1, <3>2 DEF IndicatorsMatchChecks, Pack
  <2>2. CASE ~Emir
    <3> DEFINE pack == compute_sftr_dqi_pack(files, day)
    <3>1. pack = compute_sftr_dqi_pack(files, day)
      OBVIOUS
    <3> HIDE DEF pack
    <3>2. regime = "SFTR"
      BY <2>2, PackAssumption DEF TypeOK, Emir
    <3>3. SftrRollUp(pack)
      BY <2>2, <3>1, <3>2, SftrTsrMirrors, SftrTarMirrors, SftrReconciliationMirrors, McrMirrors
         DEF SftrRollUp
    <3> QED BY <2>2, <3>1, <3>3 DEF IndicatorsMatchChecks, Pack
  <2> QED BY <2>1, <2>2
<1> QED BY <1>1, PackTypeCorrect, PTL

----------------------------------------------------------------------------
(* Days only age *)

\* A finite set of integers that is not empty has a greatest element: the one over
\* which there is the least, by inclusion.
LEMMA LatestTime ==
    ASSUME NEW S \in SUBSET Int, IsFiniteSet(S), S # {}
    PROVE  Latest(S) \in S /\ \A j \in S : j <= Latest(S)
<1> DEFINE Later(k) == {j \in S : j > k}
           R == StrictSubsetOrdering(S)
           T == {Later(k) : k \in S}
<1>1. IsWellFoundedOn(R, SUBSET S)
  BY FS_StrictSubsetOrderingWellFounded, FS_FiniteSubsetsOfFinite
<1>2. T \subseteq SUBSET S /\ T # {}
  OBVIOUS
<1>3. \A A, B \in SUBSET S : A \subseteq B /\ A # B => <<A, B>> \in R
  BY DEF StrictSubsetOrdering
<1> HIDE DEF R
<1>4. PICK A \in T : \A B \in T : <<B, A>> \notin R
  BY <1>1, <1>2, WFMin
<1>5. PICK k \in S : A = Later(k)
  BY <1>4
<1>6. \A j \in S : j <= k
  <2> SUFFICES ASSUME NEW j \in S, ~ (j <= k) PROVE FALSE
    OBVIOUS
  <2>1. S \subseteq Int /\ j \in Int /\ k \in Int /\ k < j
    OBVIOUS
  <2>2. \A i \in Int : i > j => i > k
    BY <2>1
  <2>3. j > k /\ ~ (j > j)
    BY <2>1
  <2>4. Later(j) \subseteq Later(k) /\ j \in Later(k) /\ j \notin Later(j)
    BY <2>1, <2>2, <2>3
  <2>5. <<Later(j), Later(k)>> \in R
    BY <2>4, <1>3
  <2> QED BY <2>5, <1>4, <1>5
<1> QED BY <1>6 DEF Latest

\* One day more is a business day more, or none.
LEMMA OneDayMore ==
    ASSUME NEW from \in Int, NEW to \in Int
    PROVE  /\ business_day_diff(from, to) \in Int
           /\ business_day_diff(from, to + 1) =
                business_day_diff(from, to) + (IF IsBusinessDay(to + 1) THEN 1 ELSE 0)
<1> DEFINE Days(a, b) == {d \in a + 1 .. b : IsBusinessDay(d)}
<1>1. \A a, b \in Int : /\ IsFiniteSet(Days(a, b)) /\ BusinessDays(a, b) = Cardinality(Days(a, b))
                        /\ BusinessDays(a, b) \in Nat
  <2> SUFFICES ASSUME NEW a \in Int, NEW b \in Int
               PROVE  /\ IsFiniteSet(Days(a, b)) /\ BusinessDays(a, b) = Cardinality(Days(a, b))
                      /\ BusinessDays(a, b) \in Nat
    OBVIOUS
  <2>1. IsFiniteSet(a + 1 .. b)
    BY FS_Interval
  <2>2. IsFiniteSet(Days(a, b))
    BY <2>1, FS_Subset
  <2> QED BY <2>2, FS_CardinalityType DEF BusinessDays
<1>2. ASSUME from <= to
      PROVE  BusinessDays(from, to + 1) =
               BusinessDays(from, to) + (IF IsBusinessDay(to + 1) THEN 1 ELSE 0)
  <2>1. CASE IsBusinessDay(to + 1)
    <3>1. Days(from, to + 1) = Days(from, to) \cup {to + 1} /\ to + 1 \notin Days(from, to)
      BY <1>2, <2>1
    <3> HIDE DEF Days
    <3> QED BY <1>1, <2>1, <3>1, FS_AddElement
  <2>2. CASE ~IsBusinessDay(to + 1)
    <3>1. Days(from, to + 1) = Days(from, to)
      BY <1>2, <2>2
    <3> HIDE DEF Days
    <3> QED BY <1>1, <2>2, <3>1
  <2> QED BY <2>1, <2>2
<1>3. ASSUME from > to
      PROVE  BusinessDays(to, from) =
               BusinessDays(to + 1, from) + (IF IsBusinessDay(to + 1) THEN 1 ELSE 0)
  <2>1. CASE IsBusinessDay(to + 1)
    <3>1. /\ Days(to, from) = Days(to + 1, from) \cup {to + 1}
          /\ to + 1 \notin Days(to + 1, from) /\ to + 1 \in Int
      BY <1>3, <2>1
    <3> HIDE DEF Days
    <3> QED BY <1>1, <2>1, <3>1, FS_AddElement
  <2>2. CASE ~IsBusinessDay(to + 1)
    <3>1. Days(to, from) = Days(to + 1, from) /\ to + 1 \in Int
      BY <1>3, <2>2
    <3> HIDE DEF Days
    <3> QED BY <1>1, <2>2, <3>1
  <2> QED BY <2>1, <2>2
<1> HIDE DEF Days
<1>4. BusinessDays(from, from) = 0
  <2>1. Days(from, from) = {}
    BY DEF Days
  <2> QED BY <1>1, <2>1, FS_EmptySet
<1> DEFINE more == IF IsBusinessDay(to + 1) THEN 1 ELSE 0
<1>5. more \in {0, 1} /\ to + 1 \in Int
  OBVIOUS
<1>6. /\ BusinessDays(from, to) \in Nat /\ BusinessDays(from, to + 1) \in Nat
      /\ BusinessDays(to, from) \in Nat /\ BusinessDays(to + 1, from) \in Nat
  BY <1>1, <1>5
<1>7. /\ from <= to => BusinessDays(from, to + 1) = BusinessDays(from, to) + more
      /\ from > to => BusinessDays(to, from) = BusinessDays(to + 1, from) + more
  BY <1>2, <1>3
<1>8. from = to + 1 => BusinessDays(from, to + 1) = 0 /\ BusinessDays(to + 1, from) = 0
  BY <1>4
<1> HIDE DEF more
<1>9. business_day_diff(from, to) \in Int /\ business_day_diff(from, to + 1) \in Int
  BY <1>6 DEF business_day_diff
<1>10. business_day_diff(from, to + 1) = business_day_diff(from, to) + more
  <2>1. CASE from <= to
    BY <1>5, <1>6, <1>7, <2>1 DEF business_day_diff
  <2>2. CASE from = to + 1
    BY <1>5, <1>6, <1>7, <1>8, <2>2 DEF business_day_diff
  <2>3. CASE from > to + 1
    BY <1>5, <1>6, <1>7, <2>3 DEF business_day_diff
  <2> QED BY <2>1, <2>2, <2>3
<1> QED BY <1>9, <1>10 DEF more

LEMMA OlderTomorrow ==
    ASSUME NEW time \in Int, NEW age \in Int, NEW d \in Nat
    PROVE  /\ OlderThan(time, d, age) => OlderThan(time, d + 1, age)
           /\ ~IsBusinessDay(d + 1) => (OlderThan(time, d + 1, age) <=> OlderThan(time, d, age))
<1>1. Day(time) \in Int
  BY DEF Day
<1>2. /\ business_day_diff(Day(time), d) \in Int
      /\ business_day_diff(Day(time), d + 1) =
           business_day_diff(Day(time), d) + (IF IsBusinessDay(d + 1) THEN 1 ELSE 0)
  <2>1. d \in Int
    OBVIOUS
  <2> QED BY <1>1, <2>1, OneDayMore
<1> QED BY <1>2 DEF OlderThan

\* The times and the amounts of a row are what their type says, but for the
\* submitted records.
LEMMA TimeIn ==
    ASSUME TypeOK, NEW layer \in DOMAIN files \ {"tar", "book"}, NEW i \in DOMAIN files[layer],
           NEW field \in AnswerTimes, field \in LayersOf(regime)[layer]
    PROVE  files[layer][i][field] \in Int
<1>1. IsRow(files[layer][i], layer, LayersOf(regime)[layer])
  BY DEF TypeOK, AreFiles, IsFile
<1>2. files[layer][i][field] \in AnswerType(field)
  BY <1>1 DEF IsRow, ValueType
<1>3. AnswerType(field) = Nat \union {NoTime}
  <2>1. field \notin AnswerAmounts
    BY DEF AnswerTimes, AnswerAmounts, ImCurrent, VmCurrent, Posted, Collected, PostedSide,
           ReceivedSide
  <2>2. /\ field \notin {"regime", "feedback_type", "reported_field", "level", "reuse_indicator"}
        /\ field \notin {"mismatched_fields", "rejected_reports_per_error"}
        /\ field \notin {"total_reports", "total_reports_rejected"}
    BY DEF AnswerTimes
  <2> HIDE DEF AnswerTimes
  <2> QED BY <2>1, <2>2 DEF AnswerType
<1> QED BY <1>2, <1>3 DEF NoTime

LEMMA TimesAtHand ==
    ASSUME TypeOK
    PROVE  /\ "tsr" \in DOMAIN files => \A i \in DOMAIN files["tsr"] :
                /\ files["tsr"][i].state_as_of \in Int /\ files["tsr"][i].maturity_date \in Int
                /\ Emir => files["tsr"][i].valuation_timestamp \in Int
           /\ "msr" \in DOMAIN files => \A i \in DOMAIN files["msr"] :
                files["msr"][i].state_as_of \in Int
           /\ ~Emir /\ "reuse_state" \in DOMAIN files => \A i \in DOMAIN files["reuse_state"] :
                files["reuse_state"][i].state_as_of \in Int
           /\ ~Emir /\ "mar" \in DOMAIN files => \A i \in DOMAIN files["mar"] :
                files["mar"][i].event_date \in Int
<1>1. /\ "state_as_of" \in AnswerTimes /\ "maturity_date" \in AnswerTimes
      /\ "valuation_timestamp" \in AnswerTimes /\ "event_date" \in AnswerTimes
  BY DEF AnswerTimes
<1>2. /\ Emir => LayersOf(regime) = EmirLayers
      /\ ~Emir => LayersOf(regime) = SftrLayers
  BY DEF LayersOf, Emir
<1>3. /\ {"state_as_of", "maturity_date", "valuation_timestamp"} \subseteq EmirLayers["tsr"]
      /\ "state_as_of" \in EmirLayers["msr"]
  BY DEF EmirLayers, TrStateRecord, MarginStateRecord
<1>4. /\ {"state_as_of", "maturity_date"} \subseteq SftrLayers["tsr"]
      /\ "state_as_of" \in SftrLayers["msr"] /\ "state_as_of" \in SftrLayers["reuse_state"]
      /\ "event_date" \in SftrLayers["mar"]
  BY DEF SftrLayers, SftrTrStateRecord, SftrMarginStateRecord, SftrReuseStateRecord,
         SftrMarginActivityRecord
<1>5. /\ "tsr" \notin {"tar", "book"} /\ "msr" \notin {"tar", "book"}
      /\ "reuse_state" \notin {"tar", "book"} /\ "mar" \notin {"tar", "book"}
  OBVIOUS
<1>6. \A layer \in DOMAIN files \ {"tar", "book"} : \A i \in DOMAIN files[layer] :
         \A field \in AnswerTimes :
            field \in LayersOf(regime)[layer] => files[layer][i][field] \in Int
  BY TimeIn
<1> QED BY <1>1, <1>2, <1>3, <1>4, <1>5, <1>6

\* An indicator of age: of some rows, those whose time is too old.
AgedCount(rows, times, age, d) ==
    LET old == {i \in rows : OlderThan(times[i], d, age)}
    IN  [of |-> Cardinality(rows), bad |-> Cardinality(old), rows |-> old]
Aged(before, after, tomorrow) ==
    /\ ~IsBusinessDay(tomorrow) => after = before
    /\ after.of = before.of /\ before.rows \subseteq after.rows

LEMMA AgedTomorrow ==
    ASSUME NEW rows, NEW times, NEW age \in Int, NEW d \in Nat, \A i \in rows : times[i] \in Int
    PROVE  Aged(AgedCount(rows, times, age, d), AgedCount(rows, times, age, d + 1), d + 1)
<1> DEFINE Old(e) == {i \in rows : OlderThan(times[i], e, age)}
<1>1. Old(d) \subseteq Old(d + 1) /\ (~IsBusinessDay(d + 1) => Old(d + 1) = Old(d))
  BY OlderTomorrow
<1>2. \A e : AgedCount(rows, times, age, e) =
               [of |-> Cardinality(rows), bad |-> Cardinality(Old(e)), rows |-> Old(e)]
  BY DEF AgedCount
<1> HIDE DEF Old
<1> QED BY <1>1, <1>2 DEF Aged

LEMMA EmirAgeIndicators ==
    ASSUME NEW f, NEW d \in Nat
    PROVE  /\ (\A i \in DOMAIN f : f[i].valuation_timestamp \in Int) =>
                Aged(compute_dqi_val_stale(f, d), compute_dqi_val_stale(f, d + 1), d + 1)
           /\ (\A i \in DOMAIN f : f[i].state_as_of \in Int) =>
                Aged(compute_dqi_col_stale_state(f, d), compute_dqi_col_stale_state(f, d + 1), d + 1)
<1>1. ASSUME \A i \in DOMAIN f : f[i].valuation_timestamp \in Int
      PROVE  Aged(compute_dqi_val_stale(f, d), compute_dqi_val_stale(f, d + 1), d + 1)
  <2> DEFINE rows == {i \in DOMAIN f : f[i].valuation_timestamp # NoTime}
             times == [i \in DOMAIN f |-> f[i].valuation_timestamp]
  <2>1. \A e : compute_dqi_val_stale(f, e) = AgedCount(rows, times, MaxValuationAge, e)
    <3> TAKE e
    <3>1. {i \in rows : OlderThan(f[i].valuation_timestamp, e, MaxValuationAge)} =
            {i \in rows : OlderThan(times[i], e, MaxValuationAge)}
      OBVIOUS
    <3> QED BY <3>1 DEF compute_dqi_val_stale, Indicator, Rows, AgedCount
  <2>2. \A i \in rows : times[i] \in Int
    BY <1>1
  <2> HIDE DEF rows, times
  <2> QED BY <2>1, <2>2, AgedTomorrow, PackAssumption
<1>2. ASSUME \A i \in DOMAIN f : f[i].state_as_of \in Int
      PROVE  Aged(compute_dqi_col_stale_state(f, d), compute_dqi_col_stale_state(f, d + 1), d + 1)
  <2> DEFINE rows == {i \in DOMAIN f : f[i].state_as_of # NoTime}
             times == [i \in DOMAIN f |-> f[i].state_as_of]
  <2>1. \A e : compute_dqi_col_stale_state(f, e) = AgedCount(rows, times, MaxCollateralAge, e)
    <3> TAKE e
    <3>1. {i \in rows : OlderThan(f[i].state_as_of, e, MaxCollateralAge)} =
            {i \in rows : OlderThan(times[i], e, MaxCollateralAge)}
      OBVIOUS
    <3> QED BY <3>1 DEF compute_dqi_col_stale_state, Indicator, Rows, AgedCount
  <2>2. \A i \in rows : times[i] \in Int
    BY <1>2
  <2> HIDE DEF rows, times
  <2> QED BY <2>1, <2>2, AgedTomorrow, PackAssumption
<1> QED BY <1>1, <1>2

LEMMA SftrAgeIndicators ==
    ASSUME NEW f, NEW d \in Nat, \A i \in DOMAIN f : f[i].state_as_of \in Int
    PROVE  /\ Aged(compute_dqi_loan_value_stale_sftr(f, d),
                   compute_dqi_loan_value_stale_sftr(f, d + 1), d + 1)
           /\ Aged(compute_dqi_t3_margin_stale_sftr(f, d),
                   compute_dqi_t3_margin_stale_sftr(f, d + 1), d + 1)
           /\ Aged(compute_dqi_reuse_state_stale_sftr(f, d),
                   compute_dqi_reuse_state_stale_sftr(f, d + 1), d + 1)
<1> DEFINE times == [i \in DOMAIN f |-> f[i].state_as_of]
           all == {i \in DOMAIN f : f[i].state_as_of # NoTime /\ AnyRow(f[i])}
           margins == {i \in DOMAIN f : f[i].state_as_of # NoTime /\ HasMargin(f[i])}
           reuses == {i \in DOMAIN f : f[i].state_as_of # NoTime /\ HasReuse(f[i])}
<1>1. \A e : /\ compute_dqi_loan_value_stale_sftr(f, e) = AgedCount(all, times, MaxValuationAge, e)
             /\ compute_dqi_t3_margin_stale_sftr(f, e) =
                  AgedCount(margins, times, MaxValuationAge, e)
             /\ compute_dqi_reuse_state_stale_sftr(f, e) =
                  AgedCount(reuses, times, MaxValuationAge, e)
  <2> TAKE e
  <2>1. \A rows \in SUBSET DOMAIN f :
           {i \in rows : OlderThan(f[i].state_as_of, e, MaxValuationAge)} =
             {i \in rows : OlderThan(times[i], e, MaxValuationAge)}
    OBVIOUS
  <2>2. all \in SUBSET DOMAIN f /\ margins \in SUBSET DOMAIN f /\ reuses \in SUBSET DOMAIN f
    OBVIOUS
  <2>3. compute_dqi_loan_value_stale_sftr(f, e) = AgedCount(all, times, MaxValuationAge, e)
    BY <2>1, <2>2 DEF compute_dqi_loan_value_stale_sftr, StaleState, Indicator, Rows, AgedCount
  <2>4. compute_dqi_t3_margin_stale_sftr(f, e) = AgedCount(margins, times, MaxValuationAge, e)
    BY <2>1, <2>2 DEF compute_dqi_t3_margin_stale_sftr, StaleState, Indicator, Rows, AgedCount
  <2>5. compute_dqi_reuse_state_stale_sftr(f, e) = AgedCount(reuses, times, MaxValuationAge, e)
    BY <2>1, <2>2 DEF compute_dqi_reuse_state_stale_sftr, StaleState, Indicator, Rows, AgedCount
  <2> QED BY <2>3, <2>4, <2>5
<1>2. \A rows \in SUBSET DOMAIN f :
         Aged(AgedCount(rows, times, MaxValuationAge, d), AgedCount(rows, times, MaxValuationAge, d + 1),
              d + 1)
  <2>1. \A i \in DOMAIN f : times[i] \in Int
    OBVIOUS
  <2> HIDE DEF times
  <2> QED BY <2>1, AgedTomorrow, PackAssumption
<1>3. all \in SUBSET DOMAIN f /\ margins \in SUBSET DOMAIN f /\ reuses \in SUBSET DOMAIN f
  OBVIOUS
<1> HIDE DEF times, all, margins, reuses
<1> QED BY <1>1, <1>2, <1>3

\* What does not look at the day is the same tomorrow.
LEMMA EmirPackTomorrow ==
    ASSUME NEW fs, NEW d \in Nat, NEW id \in DOMAIN compute_emir_dqi_pack(fs, d) \ OfAge
    PROVE  compute_emir_dqi_pack(fs, d + 1)[id] = compute_emir_dqi_pack(fs, d)[id]
  BY DEF compute_emir_dqi_pack, OfAge

LEMMA SftrPackTomorrow ==
    ASSUME NEW fs, NEW d \in Nat, NEW id \in DOMAIN compute_sftr_dqi_pack(fs, d) \ OfAge
    PROVE  compute_sftr_dqi_pack(fs, d + 1)[id] = compute_sftr_dqi_pack(fs, d)[id]
  BY DEF compute_sftr_dqi_pack, OfAge

LEMMA AgeOfEmirPack ==
    ASSUME NEW fs, NEW e
    PROVE  LET pack == compute_emir_dqi_pack(fs, e) IN
           /\ pack["DQI_VAL_STALE"] = compute_dqi_val_stale(Layer(fs, "tsr"), e)
           /\ pack["DQI_COL_STALE_STATE"] = compute_dqi_col_stale_state(Layer(fs, "msr"), e)
           /\ DOMAIN pack \cap OfAge = {"DQI_VAL_STALE", "DQI_COL_STALE_STATE"}
  BY DEF compute_emir_dqi_pack, OfAge

LEMMA AgeOfSftrPack ==
    ASSUME NEW fs, NEW e
    PROVE  LET pack == compute_sftr_dqi_pack(fs, e) IN
           /\ pack["DQI_LOAN_VALUE_STALE_SFTR"] =
                compute_dqi_loan_value_stale_sftr(Layer(fs, "tsr"), e)
           /\ pack["DQI_T3_MARGIN_STALE_SFTR"] =
                compute_dqi_t3_margin_stale_sftr(Layer(fs, "msr"), e)
           /\ pack["DQI_REUSE_STATE_STALE_SFTR"] =
                compute_dqi_reuse_state_stale_sftr(Layer(fs, "reuse_state"), e)
           /\ DOMAIN pack \cap OfAge =
                {"DQI_LOAN_VALUE_STALE_SFTR", "DQI_T3_MARGIN_STALE_SFTR", "DQI_REUSE_STATE_STALE_SFTR"}
  BY DEF compute_sftr_dqi_pack, OfAge

LEMMA PackAges ==
    ASSUME TypeOK, NEW id \in DOMAIN Pack(files, day)
    PROVE  /\ id \notin OfAge => Pack(files, day + 1)[id] = Pack(files, day)[id]
           /\ id \in OfAge => Aged(Pack(files, day)[id], Pack(files, day + 1)[id], day + 1)
<1>1. day \in Nat
  BY DEF TypeOK
<1>2. CASE Emir
  <2>1. \A e : Pack(files, e) = compute_emir_dqi_pack(files, e)
    BY <1>2 DEF Pack
  <2>2. id \notin OfAge => Pack(files, day + 1)[id] = Pack(files, day)[id]
    BY <1>1, <2>1, EmirPackTomorrow
  <2>3. /\ \A i \in DOMAIN Layer(files, "tsr") : Layer(files, "tsr")[i].valuation_timestamp \in Int
        /\ \A i \in DOMAIN Layer(files, "msr") : Layer(files, "msr")[i].state_as_of \in Int
    BY <1>2, TimesAtHand DEF Layer
  <2>4. /\ Aged(Pack(files, day)["DQI_VAL_STALE"], Pack(files, day + 1)["DQI_VAL_STALE"], day + 1)
        /\ Aged(Pack(files, day)["DQI_COL_STALE_STATE"],
                Pack(files, day + 1)["DQI_COL_STALE_STATE"], day + 1)
    BY <1>1, <2>1, <2>3, AgeOfEmirPack, EmirAgeIndicators
  <2>5. id \in OfAge => id \in {"DQI_VAL_STALE", "DQI_COL_STALE_STATE"}
    BY <2>1, AgeOfEmirPack
  <2> QED BY <2>2, <2>4, <2>5
<1>3. CASE ~Emir
  <2>1. \A e : Pack(files, e) = compute_sftr_dqi_pack(files, e)
    BY <1>3 DEF Pack
  <2>2. id \notin OfAge => Pack(files, day + 1)[id] = Pack(files, day)[id]
    BY <1>1, <2>1, SftrPackTomorrow
  <2>3. \A layer \in {"tsr", "msr", "reuse_state"} :
           \A i \in DOMAIN Layer(files, layer) : Layer(files, layer)[i].state_as_of \in Int
    BY <1>3, TimesAtHand DEF Layer
  <2>4. /\ Aged(Pack(files, day)["DQI_LOAN_VALUE_STALE_SFTR"],
                Pack(files, day + 1)["DQI_LOAN_VALUE_STALE_SFTR"], day + 1)
        /\ Aged(Pack(files, day)["DQI_T3_MARGIN_STALE_SFTR"],
                Pack(files, day + 1)["DQI_T3_MARGIN_STALE_SFTR"], day + 1)
        /\ Aged(Pack(files, day)["DQI_REUSE_STATE_STALE_SFTR"],
                Pack(files, day + 1)["DQI_REUSE_STATE_STALE_SFTR"], day + 1)
    BY <1>1, <2>1, <2>3, AgeOfSftrPack, SftrAgeIndicators
  <2>5. id \in OfAge => id \in {"DQI_LOAN_VALUE_STALE_SFTR", "DQI_T3_MARGIN_STALE_SFTR",
                                "DQI_REUSE_STATE_STALE_SFTR"}
    BY <2>1, AgeOfSftrPack
  <2> QED BY <2>2, <2>4, <2>5
<1> QED BY <1>2, <1>3

\* 48 half hours on it is the next day, and nothing is younger.
LEMMA HoursAge ==
    ASSUME NEW now \in Nat
    PROVE  /\ now + 48 \in Nat /\ Day(now + 48) = Day(now) + 1 /\ Day(now) \in Nat
           /\ \A since \in Int, hours \in Int : now - since > hours => now + 48 - since > hours
  BY DEF Day

\* What the checks of the answers say tomorrow of a row.
OnlyOlder(before, after) ==
    /\ \A issue \in after \ before : issue.id \in RaisedByAge
    /\ \A issue \in before \ after : issue.id = "MAR.EVENT_DATE_IN_FUTURE"

LEMMA EmirTsrAges ==
    ASSUME NEW i, NEW f, NEW now \in Nat, f[i].state_as_of \in Int,
           f[i].valuation_timestamp \in Int, f[i].maturity_date \in Int
    PROVE  OnlyOlder(TsrIssues(i, f, now), TsrIssues(i, f, now + 48))
<1> DEFINE r == f[i]
<1>1. \A issue \in EmirActivePastMaturity(r, now + 48) \union EmirStaleValuationOnTsr(r, now + 48) :
         issue.id \in RaisedByAge
  BY DEF EmirActivePastMaturity, EmirStaleValuationOnTsr, Issue, RaisedByAge
<1>2. Day(AsOf(r, now)) <= Day(AsOf(r, now + 48))
  BY HoursAge DEF AsOf, Day
<1>3. EmirActivePastMaturity(r, now) \subseteq EmirActivePastMaturity(r, now + 48)
  <2>1. Day(AsOf(r, now)) \in Int /\ Day(AsOf(r, now + 48)) \in Int
    BY DEF AsOf, Day
  <2>2. r.maturity_date <= Day(AsOf(r, now)) => r.maturity_date <= Day(AsOf(r, now + 48))
    BY <1>2, <2>1
  <2> QED BY <2>2 DEF EmirActivePastMaturity, Issue
<1>4. EmirStaleValuationOnTsr(r, now) \subseteq EmirStaleValuationOnTsr(r, now + 48)
  <2>1. CalendarDays(MaxValuationAge) \in Int
    BY PackAssumption DEF CalendarDays
  <2>2. AsOf(r, now) - r.valuation_timestamp > 48 * CalendarDays(MaxValuationAge) =>
          AsOf(r, now + 48) - r.valuation_timestamp > 48 * CalendarDays(MaxValuationAge)
    BY <2>1 DEF AsOf
  <2> QED BY <2>2 DEF EmirStaleValuationOnTsr, Issue
<1> HIDE DEF r
<1> QED BY <1>1, <1>3, <1>4 DEF OnlyOlder, TsrIssues, r

LEMMA SftrTsrAges ==
    ASSUME NEW i, NEW f, NEW now \in Nat, f[i].state_as_of \in Int, f[i].maturity_date \in Int
    PROVE  OnlyOlder(SftrTsrIssues(i, f, now) \union MgldIssues(f[i]),
                     SftrTsrIssues(i, f, now + 48) \union MgldIssues(f[i]))
<1> DEFINE r == f[i]
<1>1. \A issue \in SftrActivePastMaturity(r, now + 48) \union SftrStaleValuationOnTsr(r, now + 48) :
         issue.id \in RaisedByAge
  BY DEF SftrActivePastMaturity, EmirActivePastMaturity, SftrStaleValuationOnTsr, Issue, RaisedByAge
<1>2. Day(AsOf(r, now)) <= Day(AsOf(r, now + 48))
  BY HoursAge DEF AsOf, Day
<1>3. SftrActivePastMaturity(r, now) \subseteq SftrActivePastMaturity(r, now + 48)
  <2>1. Day(AsOf(r, now)) \in Int /\ Day(AsOf(r, now + 48)) \in Int
    BY DEF AsOf, Day
  <2>2. r.maturity_date <= Day(AsOf(r, now)) => r.maturity_date <= Day(AsOf(r, now + 48))
    BY <1>2, <2>1
  <2> QED BY <2>2 DEF SftrActivePastMaturity, EmirActivePastMaturity, Issue
<1>4. SftrStaleValuationOnTsr(r, now) \subseteq SftrStaleValuationOnTsr(r, now + 48)
  <2>1. CalendarDays(MaxValuationAge) \in Int
    BY PackAssumption DEF CalendarDays
  <2>2. now - r.state_as_of > 48 * CalendarDays(MaxValuationAge) =>
          now + 48 - r.state_as_of > 48 * CalendarDays(MaxValuationAge)
    BY <2>1
  <2> QED BY <2>2 DEF SftrStaleValuationOnTsr, Issue
<1> HIDE DEF r
<1> QED BY <1>1, <1>3, <1>4 DEF OnlyOlder, SftrTsrIssues, r

LEMMA MarginsAge ==
    ASSUME NEW r, NEW now \in Nat
    PROVE  /\ r.state_as_of \in Int => OnlyOlder(MsrIssues(r, now), MsrIssues(r, now + 48))
           /\ r.event_date \in Int => OnlyOlder(SftrMarIssues(r, now), SftrMarIssues(r, now + 48))
<1>1. ASSUME r.state_as_of \in Int
      PROVE  OnlyOlder(MsrIssues(r, now), MsrIssues(r, now + 48))
  <2>1. \A issue \in EmirMsrMarginStale(r, now + 48) : issue.id \in RaisedByAge
    BY DEF EmirMsrMarginStale, Issue, RaisedByAge
  <2>2. EmirMsrMarginStale(r, now) \subseteq EmirMsrMarginStale(r, now + 48)
    <3> DEFINE stale(e) == r.state_as_of # NoTime /\ e - r.state_as_of > 48 * MaxValuationAge
    <3>1. \A e : EmirMsrMarginStale(r, e) = Issue(stale(e), "MSR.MARGIN_STALE", "High", "state_as_of")
      BY DEF EmirMsrMarginStale
    <3>2. stale(now) => stale(now + 48)
      <4>1. MaxValuationAge \in Int
        BY PackAssumption
      <4> SUFFICES now - r.state_as_of > 48 * MaxValuationAge
                     => (now + 48) - r.state_as_of > 48 * MaxValuationAge
        OBVIOUS
      <4> QED BY <1>1, <4>1
    <3> HIDE DEF stale
    <3> QED BY <3>1, <3>2 DEF Issue
  <2> QED BY <2>1, <2>2 DEF OnlyOlder, MsrIssues
<1>2. ASSUME r.event_date \in Int
      PROVE  OnlyOlder(SftrMarIssues(r, now), SftrMarIssues(r, now + 48))
  <2>1. \A issue \in SftrMarEventDateInFuture(r, now) : issue.id = "MAR.EVENT_DATE_IN_FUTURE"
    BY DEF SftrMarEventDateInFuture, Issue
  <2>2. r.event_date > Day(now + 48) => r.event_date > Day(now)
    BY <1>2, HoursAge
  <2>3. SftrMarEventDateInFuture(r, now + 48) \subseteq SftrMarEventDateInFuture(r, now)
    BY <2>2 DEF SftrMarEventDateInFuture, Issue
  <2> QED BY <2>1, <2>3 DEF OnlyOlder, SftrMarIssues
<1> QED BY <1>1, <1>2

\* What the scan of any other answer says does not look at the time.
LEMMA TimelessScans ==
    ASSUME NEW fs, NEW i, NEW now, NEW later,
           NEW layer \in DOMAIN LayersOf(regime) \ {"tsr", "tar", "msr", "mar"}
    PROVE  RowIssues(fs, layer, i, now) = RowIssues(fs, layer, i, later)
  BY DEF RowIssues, LayersOf, EmirLayers, SftrLayers

LEMMA RowsAge ==
    ASSUME TypeOK, NEW fs, NEW layer \in DOMAIN files \ {"tar"}, fs[layer] = files[layer],
           NEW i \in DOMAIN files[layer]
    PROVE  OnlyOlder(RowIssues(fs, layer, i, 48 * day), RowIssues(fs, layer, i, 48 * (day + 1)))
<1> DEFINE now == 48 * day
<1>1. now \in Nat /\ 48 * (day + 1) = now + 48
  BY DEF TypeOK
<1> HIDE DEF now
<1>2. CASE layer \notin {"tsr", "msr", "mar"}
  <2>1. layer \in DOMAIN LayersOf(regime) \ {"tsr", "tar", "msr", "mar"}
    BY <1>2 DEF TypeOK, AreFiles
  <2> QED BY <1>1, <2>1, TimelessScans DEF OnlyOlder
<1>3. CASE layer = "tsr"
  <2>1. files["tsr"][i].state_as_of \in Int /\ files["tsr"][i].maturity_date \in Int
    BY <1>3, TimesAtHand
  <2>2. CASE Emir
    <3>1. \A e : RowIssues(fs, "tsr", i, e) = TsrIssues(i, files["tsr"], e)
      BY <1>3, <2>2, EmirScans
    <3>2. files["tsr"][i].valuation_timestamp \in Int
      BY <1>3, <2>2, TimesAtHand
    <3>3. OnlyOlder(TsrIssues(i, files["tsr"], now), TsrIssues(i, files["tsr"], now + 48))
      BY <1>1, <2>1, <3>2, EmirTsrAges
    <3> QED BY <1>1, <1>3, <3>1, <3>3 DEF now
  <2>3. CASE ~Emir
    <3>1. \A e : RowIssues(fs, "tsr", i, e) =
                   SftrTsrIssues(i, files["tsr"], e) \union MgldIssues(files["tsr"][i])
      BY <1>3, <2>3, SftrScans
    <3>2. OnlyOlder(SftrTsrIssues(i, files["tsr"], now) \union MgldIssues(files["tsr"][i]),
                    SftrTsrIssues(i, files["tsr"], now + 48) \union MgldIssues(files["tsr"][i]))
      BY <1>1, <2>1, SftrTsrAges
    <3> QED BY <1>1, <1>3, <3>1, <3>2 DEF now
  <2> QED BY <2>2, <2>3
<1>4. CASE layer = "msr"
  <2>1. CASE Emir
    <3>1. \A e : RowIssues(fs, "msr", i, e) = MsrIssues(files["msr"][i], e)
      BY <1>4, <2>1, EmirScans
    <3>2. OnlyOlder(MsrIssues(files["msr"][i], now), MsrIssues(files["msr"][i], now + 48))
      BY <1>1, <1>4, TimesAtHand, MarginsAge
    <3> QED BY <1>1, <1>4, <3>1, <3>2 DEF now
  <2>2. CASE ~Emir
    <3>1. \A e : RowIssues(fs, "msr", i, e) = SftrMsrIssues(files["msr"][i])
      BY <1>4, <2>2, SftrScans
    <3> QED BY <1>4, <3>1 DEF OnlyOlder
  <2> QED BY <2>1, <2>2
<1>5. CASE layer = "mar"
  <2>1. CASE Emir
    <3>1. \A e : RowIssues(fs, "mar", i, e) = MarIssues(i, files["mar"])
      BY <1>5, <2>1, EmirScans
    <3> QED BY <1>5, <3>1 DEF OnlyOlder
  <2>2. CASE ~Emir
    <3>1. \A e : RowIssues(fs, "mar", i, e) = SftrMarIssues(files["mar"][i], e)
      BY <1>5, <2>2, SftrScans
    <3>2. OnlyOlder(SftrMarIssues(files["mar"][i], now), SftrMarIssues(files["mar"][i], now + 48))
      BY <1>1, <1>5, <2>2, TimesAtHand, MarginsAge
    <3> QED BY <1>1, <1>5, <3>1, <3>2 DEF now
  <2> QED BY <2>1, <2>2
<1> QED BY <1>2, <1>3, <1>4, <1>5

LEMMA FiniteImage ==
    ASSUME NEW g, IsFiniteSet(DOMAIN g)
    PROVE  IsFiniteSet({g[x] : x \in DOMAIN g})
<1> DEFINE h == [x \in DOMAIN g |-> g[x]]
           T == {g[x] : x \in DOMAIN g}
<1>1. h \in Surjection(DOMAIN g, T)
  BY DEF Surjection
<1> QED BY <1>1, FS_Surjection

\* The times of the snapshots of a file, or of some rows of it.
LEMMA SnapshotTimes ==
    ASSUME NEW layer \in {"tsr", "msr"}, TypeOK, layer \in DOMAIN files,
           NEW rows \in SUBSET DOMAIN files[layer], NEW times,
           times = {files[layer][i].state_as_of : i \in rows} \ {NoTime}, times # {}
    PROVE  Latest(times) \in Int
<1> DEFINE g == [i \in DOMAIN files[layer] |-> files[layer][i].state_as_of]
<1>1. IsFiniteSet({g[i] : i \in DOMAIN g})
  BY EmirFile, FiniteRows, FiniteImage
<1>2. times \subseteq {g[i] : i \in DOMAIN g}
  OBVIOUS
<1>3. times \in SUBSET Int
  BY TimesAtHand
<1>4. IsFiniteSet(times)
  BY <1>1, <1>2, FS_Subset
<1> QED BY <1>3, <1>4, LatestTime

LEMMA MarginsOfTradeAge ==
    ASSUME TypeOK, "tsr" \in DOMAIN files, "msr" \in DOMAIN files, NEW uti, NEW now \in Nat,
           NEW before, before = compute_collateral_emir_issues(uti, files["tsr"], files["msr"], now),
           NEW after,
           after = compute_collateral_emir_issues(uti, files["tsr"], files["msr"], now + 48)
    PROVE  before \subseteq after /\ \A issue \in after \ before : issue.id = "COL.STALE"
<1> DEFINE tsr == files["tsr"]
           msr == files["msr"]
           rows == {i \in DOMAIN msr : Key(msr[i].uti) = uti}
           times == {msr[i].state_as_of : i \in rows} \ {NoTime}
           stale(e) == times # {} /\ NumDays(ReferenceTime(tsr, e) - Latest(times)) > MaxCollateralAge
           asked == uti \in KeysOf(tsr, is_outstanding)
           margin == \E i \in rows : row_has_any_margin(msr[i])
<1>1. \A e : compute_collateral_emir_issues(uti, tsr, msr, e) =
               IF ~asked THEN {}
               ELSE IF ~margin THEN Issue(TRUE, "COL.MISSING", "High", "margin")
               ELSE Issue(stale(e), "COL.STALE", "Warning", "state_as_of")
  BY DEF compute_collateral_emir_issues, Rows, StateTimes
<1>2. stale(now) => stale(now + 48)
  <2> SUFFICES ASSUME times # {}, NumDays(ReferenceTime(tsr, now) - Latest(times)) > MaxCollateralAge
               PROVE  NumDays(ReferenceTime(tsr, now + 48) - Latest(times)) > MaxCollateralAge
    OBVIOUS
  <2>1. Latest(times) \in Int
    BY SnapshotTimes
  <2> DEFINE all == {tsr[i].state_as_of : i \in DOMAIN tsr} \ {NoTime}
  <2>2. StateTimes(tsr, AnyRow) = all
    BY DEF StateTimes, Rows, AnyRow
  <2>3. all # {} => Latest(all) \in Int
    BY SnapshotTimes
  <2> HIDE DEF times, all
  <2>4. \A e : ReferenceTime(tsr, e) = IF all = {} THEN e ELSE Latest(all)
    BY <2>2 DEF ReferenceTime
  <2>5. /\ ReferenceTime(tsr, now) \in Int /\ ReferenceTime(tsr, now + 48) \in Int
        /\ ReferenceTime(tsr, now) <= ReferenceTime(tsr, now + 48)
    BY <2>3, <2>4
  <2>6. \A d, e \in Int : d <= e => NumDays(d) \in Int /\ NumDays(e) \in Int /\ NumDays(d) <= NumDays(e)
    BY DEF NumDays, Whole
  <2> QED BY <2>1, <2>5, <2>6, PackAssumption
<1> HIDE DEF stale, asked, margin
<1> QED BY <1>1, <1>2 DEF Issue

LEMMA TradesAge ==
    ASSUME TypeOK, NEW uti
    PROVE  /\ TradeIssues(files, uti, 48 * day) \subseteq TradeIssues(files, uti, 48 * (day + 1))
           /\ \A issue \in TradeIssues(files, uti, 48 * (day + 1)) \ TradeIssues(files, uti, 48 * day) :
                 issue.id = "COL.STALE"
<1> DEFINE now == 48 * day
           asked == {"tsr", "msr"} \subseteq DOMAIN files
           margins(e) == IF asked THEN compute_collateral_emir_issues(uti, files["tsr"], files["msr"], e)
                         ELSE {}
           others == (IF {"tar", "tsr"} \subseteq DOMAIN files
                      THEN compute_tr_audit_emir_issues(uti, Layer(files, "tar"), Layer(files, "tsr"),
                                                        Layer(files, "feedback")) ELSE {})
                     \union (IF {"book", "tsr"} \subseteq DOMAIN files
                             THEN compute_book_reconcile_issues(uti, Layer(files, "book"),
                                                                Layer(files, "tsr")) ELSE {})
<1>1. now \in Nat /\ 48 * (day + 1) = now + 48
  BY DEF TypeOK
<1>2. CASE Emir
  <2>1. \A e : TradeIssues(files, uti, e) = others \union margins(e)
    BY <1>2 DEF TradeIssues, Layer
  <2>2. margins(now) \subseteq margins(now + 48)
        /\ \A issue \in margins(now + 48) \ margins(now) : issue.id = "COL.STALE"
    <3>1. CASE asked
      BY <1>1, <3>1, MarginsOfTradeAge
    <3>2. CASE ~asked
      BY <3>2
    <3> QED BY <3>1, <3>2
  <2> HIDE DEF margins, others, now
  <2>3. /\ TradeIssues(files, uti, now) \subseteq TradeIssues(files, uti, now + 48)
        /\ \A issue \in TradeIssues(files, uti, now + 48) \ TradeIssues(files, uti, now) :
              issue.id = "COL.STALE"
    BY <2>1, <2>2
  <2> QED BY <1>1, <2>3 DEF now
<1>3. CASE ~Emir
  <2>1. \A e : TradeIssues(files, uti, e) = TradeIssues(files, uti, now)
    BY <1>3 DEF TradeIssues
  <2> QED BY <1>1, <2>1
<1> QED BY <1>2, <1>3

\* Days only age: the indicators and the issues of files that nobody touches.
THEOREM FilesOnlyAge == Spec => []DaysOnlyAge
<1>1. TypeOK => DaysOnlyAge
  <2> SUFFICES ASSUME TypeOK PROVE DaysOnlyAge
    OBVIOUS
  <2> DEFINE before == Pack(files, day)
             after == Pack(files, day + 1)
             others == OtherThanTar(files)
             rows == RowFindings(others, day)
             rowsAfter == RowFindings(others, day + 1)
             trades == TradeFindings(files, day)
             tradesAfter == TradeFindings(files, day + 1)
  <2>1. \A id \in DOMAIN before :
           /\ (id \notin OfAge \/ ~IsBusinessDay(day + 1)) => after[id] = before[id]
           /\ after[id].of = before[id].of /\ before[id].rows \subseteq after[id].rows
    BY PackAges DEF Aged
  <2>2. DOMAIN others = DOMAIN files \ {"tar"} /\ \A layer \in DOMAIN others : others[layer] = files[layer]
    BY DEF OtherThanTar
  <2> HIDE DEF others
  <2>3. \A e, found : found \in RowFindings(others, e) <=>
           \E layer \in DOMAIN files \ {"tar"} : \E i \in DOMAIN files[layer] :
              \E issue \in RowIssues(others, layer, i, 48 * e) :
                 found = <<layer, files[layer][i], issue>>
    BY <2>2 DEF RowFindings
  <2>4. \A layer \in DOMAIN files \ {"tar"} : \A i \in DOMAIN files[layer] :
           OnlyOlder(RowIssues(others, layer, i, 48 * day), RowIssues(others, layer, i, 48 * (day + 1)))
    BY <2>2, RowsAge
  <2>5. \A a, b, issue : Raised(<<a, b, issue>>) = issue.id
    BY DEF Raised
  <2>6. \A found \in rowsAfter \ rows : Raised(found) \in RaisedByAge
    BY <2>3, <2>4, <2>5 DEF OnlyOlder
  <2>7. \A found \in rows \ rowsAfter : Raised(found) = "MAR.EVENT_DATE_IN_FUTURE"
    BY <2>3, <2>4, <2>5 DEF OnlyOlder
  <2>8. \A e, found : found \in TradeFindings(files, e) <=>
           \E uti \in Trades(files) : \E issue \in TradeIssues(files, uti, 48 * e) :
              found = <<uti, issue>>
    BY DEF TradeFindings
  <2>9. \A uti, issue : Raised(<<uti, issue>>) = issue.id
    BY DEF Raised
  <2>10. /\ trades \subseteq tradesAfter
         /\ \A found \in tradesAfter \ trades : Raised(found) = "COL.STALE"
    BY <2>8, <2>9, TradesAge
  <2> QED BY <2>1, <2>6, <2>7, <2>10 DEF DaysOnlyAge, others
<1> QED BY <1>1, PackTypeCorrect, PTL

----------------------------------------------------------------------------
(* Sums over finite sets *)

\* Induction over the subsets of a finite set, the property being the set of
\* those that have it.
LEMMA EverySubset ==
    ASSUME NEW U, IsFiniteSet(U), NEW P,
           \A s \in SUBSET U : (\A x \in s : s \ {x} \in P) => s \in P
    PROVE  \A s \in SUBSET U : s \in P
<1> SUFFICES ASSUME NEW lone \in SUBSET U, lone \notin P PROVE FALSE
  OBVIOUS
<1> DEFINE T == {s \in SUBSET U : s \notin P}
           R == StrictSubsetOrdering(U)
<1>1. IsWellFoundedOn(R, SUBSET U)
  <2>1. FiniteSubsetsOf(U) = SUBSET U
    BY FS_Subset DEF FiniteSubsetsOf
  <2>2. IsWellFoundedOn(StrictSubsetOrdering(U), FiniteSubsetsOf(U))
    BY FS_StrictSubsetOrderingWellFounded
  <2> QED BY <2>1, <2>2
<1>2. T \subseteq SUBSET U /\ T # {}
  OBVIOUS
<1> HIDE DEF T, R
<1>3. PICK s \in T : \A t \in T : ~(<<t, s>> \in R)
  BY <1>1, <1>2, WFMin
<1>4. s \in SUBSET U /\ s \notin P
  BY <1>3 DEF T
<1>5. PICK x \in s : s \ {x} \notin P
  BY <1>4
<1>6. s \ {x} \in SUBSET U /\ s \ {x} # s
  BY <1>4, <1>5
<1>7. s \ {x} \in T /\ <<s \ {x}, s>> \in R
  BY <1>4, <1>5, <1>6 DEF T, R, StrictSubsetOrdering
<1> QED BY <1>3, <1>7

\* g gives the sum of f over each subset of S, in the order the fold takes.
FirstOf(s) == CHOOSE x \in s : TRUE
Rest(s) == s \ {FirstOf(s)}
SumsOf(g, f, S) ==
    g = [s \in SUBSET S |-> IF s = {} THEN 0 ELSE f[FirstOf(s)] + g[s \ {FirstOf(s)}]]

LEMMA RestOf ==
    ASSUME NEW s, s # {}
    PROVE  FirstOf(s) \in s /\ Rest(s) = s \ {FirstOf(s)}
  BY DEF FirstOf, Rest

LEMMA SumsFacts ==
    ASSUME NEW f, NEW S, NEW g
    PROVE  SumsOf(g, f, S) <=> /\ DOMAIN g = SUBSET S /\ g = [s \in SUBSET S |-> g[s]]
                               /\ {} \in SUBSET S => g[{}] = 0
                               /\ \A s \in SUBSET S :
                                     s # {} => g[s] = f[FirstOf(s)] + g[Rest(s)]
<1>1. ASSUME SumsOf(g, f, S)
      PROVE  /\ DOMAIN g = SUBSET S /\ g = [s \in SUBSET S |-> g[s]]
             /\ {} \in SUBSET S => g[{}] = 0
             /\ \A s \in SUBSET S : s # {} => g[s] = f[FirstOf(s)] + g[Rest(s)]
  <2> DEFINE e(s) == IF s = {} THEN 0 ELSE f[FirstOf(s)] + g[s \ {FirstOf(s)}]
  <2>1. g = [s \in SUBSET S |-> e(s)]
    BY <1>1 DEF SumsOf
  <2>2. \A s : s # {} => e(s) = f[FirstOf(s)] + g[Rest(s)]
    BY RestOf
  <2>3. e({}) = 0
    OBVIOUS
  <2> HIDE DEF e
  <2> QED BY <2>1, <2>2, <2>3
<1>2. ASSUME DOMAIN g = SUBSET S, g = [s \in SUBSET S |-> g[s]], g[{}] = 0,
             \A s \in SUBSET S : s # {} => g[s] = f[FirstOf(s)] + g[Rest(s)]
      PROVE  SumsOf(g, f, S)
  <2> DEFINE e(s) == IF s = {} THEN 0 ELSE f[FirstOf(s)] + g[s \ {FirstOf(s)}]
  <2>1. \A s \in SUBSET S : g[s] = e(s)
    BY <1>2, RestOf
  <2> HIDE DEF e
  <2>2. g = [s \in SUBSET S |-> e(s)]
    BY <1>2, <2>1
  <2> QED BY <2>2 DEF e, SumsOf
<1> QED BY <1>1, <1>2

LEMMA SumsAgree ==
    ASSUME NEW f, NEW S, NEW U, IsFiniteSet(S), S \subseteq U, NEW g, NEW h,
           SumsOf(g, f, S), SumsOf(h, f, U)
    PROVE  \A s \in SUBSET S : g[s] = h[s]
<1> DEFINE P == {s \in SUBSET S : g[s] = h[s]}
<1>1. \A s \in SUBSET S : s # {} => g[s] = f[FirstOf(s)] + g[Rest(s)]
  BY SumsFacts
<1>2. \A s \in SUBSET S : s # {} => h[s] = f[FirstOf(s)] + h[Rest(s)]
  BY SumsFacts
<1>3. g[{}] = 0 /\ h[{}] = 0
  BY SumsFacts
<1>4. \A s \in SUBSET S : (\A x \in s : s \ {x} \in P) => s \in P
  <2> SUFFICES ASSUME NEW s \in SUBSET S, \A x \in s : s \ {x} \in P PROVE g[s] = h[s]
    OBVIOUS
  <2>1. CASE s = {}
    BY <1>3, <2>1
  <2>2. CASE s # {}
    <3>1. g[Rest(s)] = h[Rest(s)]
      BY <2>2, RestOf
    <3> QED BY <1>1, <1>2, <2>2, <3>1
  <2> QED BY <2>1, <2>2
<1>5. \A s \in SUBSET S : s \in P
  <2> HIDE DEF P
  <2> QED BY <1>4, EverySubset
<1> QED BY <1>5

LEMMA SumsRestrict ==
    ASSUME NEW f, NEW S, NEW U, S \subseteq U, NEW g, SumsOf(g, f, U)
    PROVE  SumsOf([s \in SUBSET S |-> g[s]], f, S)
<1> DEFINE h == [s \in SUBSET S |-> g[s]]
<1>1. DOMAIN h = SUBSET S /\ h = [s \in SUBSET S |-> h[s]] /\ \A s \in SUBSET S : h[s] = g[s]
  OBVIOUS
<1>2. \A s \in SUBSET S : s # {} => g[s] = f[FirstOf(s)] + g[Rest(s)]
  BY SumsFacts
<1>3. g[{}] = 0
  BY SumsFacts
<1>4. \A s \in SUBSET S : s # {} => Rest(s) \in SUBSET S
  BY RestOf
<1>5. h[{}] = 0
  BY <1>1, <1>3
<1> HIDE DEF h
<1>6. \A s \in SUBSET S : s # {} => h[s] = f[FirstOf(s)] + h[Rest(s)]
  BY <1>1, <1>2, <1>4
<1>7. SumsOf(h, f, S)
  BY <1>1, <1>5, <1>6, SumsFacts
<1> QED BY <1>7 DEF h

LEMMA SumsExist ==
    ASSUME NEW f, NEW U, IsFiniteSet(U)
    PROVE  \E g : SumsOf(g, f, U)
<1> DEFINE P == {s \in SUBSET U : \E g : SumsOf(g, f, s)}
           known(s) == CHOOSE g : SumsOf(g, f, s)
<1>1. \A s \in SUBSET U : (\A x \in s : s \ {x} \in P) => s \in P
  <2> SUFFICES ASSUME NEW s \in SUBSET U, \A x \in s : s \ {x} \in P PROVE \E g : SumsOf(g, f, s)
    OBVIOUS
  <2>1. CASE s = {}
    <3> DEFINE g == [t \in SUBSET {} |-> 0]
    <3>1. DOMAIN g = SUBSET s /\ g = [t \in SUBSET s |-> g[t]] /\ g[{}] = 0
      BY <2>1
    <3>2. \A t \in SUBSET s : t = {}
      BY <2>1
    <3> HIDE DEF g
    <3>3. SumsOf(g, f, s)
      BY <3>1, <3>2, SumsFacts
    <3> QED BY <3>3
  <2>2. CASE s # {}
    <3> DEFINE h == [t \in SUBSET s |-> IF t = s THEN f[FirstOf(s)] + known(Rest(s))[Rest(s)]
                                         ELSE known(t)[t]]
    <3>1. ASSUME NEW t \in SUBSET s, t # s PROVE SumsOf(known(t), f, t)
      <4>1. PICK x \in s : x \notin t
        BY <3>1
      <4>2. PICK g : SumsOf(g, f, s \ {x})
        BY <2>2
      <4>3. SumsOf([u \in SUBSET t |-> g[u]], f, t)
        BY <4>1, <4>2, SumsRestrict
      <4> QED BY <4>3
    <3>2. ASSUME NEW t \in SUBSET s, t # {} PROVE Rest(t) \in SUBSET t /\ Rest(t) \in SUBSET s /\ Rest(t) # s
      BY <3>2, RestOf
    <3>3. /\ DOMAIN h = SUBSET s /\ h = [t \in SUBSET s |-> h[t]]
          /\ h[s] = f[FirstOf(s)] + known(Rest(s))[Rest(s)]
          /\ \A t \in SUBSET s : t # s => h[t] = known(t)[t]
      OBVIOUS
    <3> HIDE DEF known, h
    <3>4. h[{}] = 0
      <4>1. SumsOf(known({}), f, {})
        BY <2>2, <3>1
      <4>2. known({})[{}] = 0
        BY <4>1, SumsFacts
      <4> QED BY <2>2, <3>3, <4>2
    <3>5. ASSUME NEW t \in SUBSET s, t # {} PROVE h[t] = f[FirstOf(t)] + h[Rest(t)]
      <4>1. h[Rest(t)] = known(Rest(t))[Rest(t)]
        BY <3>2, <3>3, <3>5
      <4>2. CASE t = s
        BY <3>3, <4>1, <4>2
      <4>3. CASE t # s
        <5>1. SumsOf(known(t), f, t) /\ SumsOf(known(Rest(t)), f, Rest(t))
          BY <3>1, <3>2, <3>5, <4>3
        <5>2. IsFiniteSet(Rest(t))
          BY <3>2, <3>5, FS_Subset
        <5>3. known(Rest(t))[Rest(t)] = known(t)[Rest(t)]
          BY <3>2, <3>5, <5>1, <5>2, SumsAgree
        <5>4. known(t)[t] = f[FirstOf(t)] + known(t)[Rest(t)]
          BY <3>5, <5>1, SumsFacts
        <5> QED BY <3>3, <4>1, <4>3, <5>3, <5>4
      <4> QED BY <4>2, <4>3
    <3>6. SumsOf(h, f, s)
      BY <3>3, <3>4, <3>5, SumsFacts
    <3> QED BY <3>6
  <2> QED BY <2>1, <2>2
<1>2. \A s \in SUBSET U : s \in P
  <2> HIDE DEF P
  <2> QED BY <1>1, EverySubset
<1> QED BY <1>2

\* The sum of the community modules, its order of summation still showing.
LEMMA SumIsFold ==
    ASSUME NEW f, NEW S, IsFiniteSet(S), NEW g, SumsOf(g, f, S)
    PROVE  SumFunctionOnSet(f, S) = g[S]
<1> DEFINE iter == CHOOSE h : SumsOf(h, f, S)
<1>1. SumFunctionOnSet(f, S) = iter[S]
  BY DEF SumFunctionOnSet, FoldFunctionOnSet, MapThenFoldSet, SumsOf, FirstOf
<1>2. SumsOf(iter, f, S)
  OBVIOUS
<1> HIDE DEF iter
<1> QED BY <1>1, <1>2, SumsAgree

LEMMA SumEmpty == ASSUME NEW f PROVE SumFunctionOnSet(f, {}) = 0
<1>1. IsFiniteSet({})
  BY FS_EmptySet
<1>2. PICK g : SumsOf(g, f, {})
  BY <1>1, SumsExist
<1>3. g[{}] = 0
  BY <1>2, SumsFacts
<1> QED BY <1>1, <1>2, <1>3, SumIsFold

\* The order of summation does not matter.
LEMMA SumStep ==
    ASSUME NEW S, IsFiniteSet(S), NEW f, \A x \in S : f[x] \in Int
    PROVE  /\ SumFunctionOnSet(f, S) \in Int
           /\ \A x \in S : SumFunctionOnSet(f, S) = f[x] + SumFunctionOnSet(f, S \ {x})
<1>1. PICK g : SumsOf(g, f, S)
  BY SumsExist
<1>2. \A s \in SUBSET S : s # {} => g[s] = f[FirstOf(s)] + g[Rest(s)]
  BY <1>1, SumsFacts
<1>3. g[{}] = 0
  BY <1>1, SumsFacts
<1> DEFINE K == {s \in SUBSET S : g[s] \in Int}
           P == {s \in SUBSET S : \A x \in s : g[s] = f[x] + g[s \ {x}]}
<1>7. \A s \in SUBSET S : s \in K
  <2>1. \A s \in SUBSET S : (\A x \in s : s \ {x} \in K) => s \in K
    <3> SUFFICES ASSUME NEW s \in SUBSET S, \A x \in s : s \ {x} \in K PROVE g[s] \in Int
      OBVIOUS
    <3>1. CASE s = {}
      BY <1>3, <3>1
    <3>2. CASE s # {}
      <4>1. FirstOf(s) \in s /\ g[Rest(s)] \in Int
        BY <3>2, RestOf
      <4> QED BY <1>2, <3>2, <4>1
    <3> QED BY <3>1, <3>2
  <2> HIDE DEF K
  <2> QED BY <2>1, EverySubset
<1>8. \A s \in SUBSET S : g[s] \in Int
  BY <1>7
<1> HIDE DEF K
<1>4. \A s \in SUBSET S : (\A x \in s : s \ {x} \in P) => s \in P
  <2> SUFFICES ASSUME NEW s \in SUBSET S, \A x \in s : s \ {x} \in P
               PROVE  \A x \in s : g[s] = f[x] + g[s \ {x}]
    OBVIOUS
  <2>1. CASE s = {}
    BY <1>3, <2>1
  <2>2. CASE s # {}
    <3> DEFINE c == FirstOf(s)
    <3>1. c \in s /\ f[c] \in Int /\ g[s] = f[c] + g[s \ {c}]
      BY <1>2, <2>2, RestOf
    <3> HIDE DEF c
    <3>2. ASSUME NEW x \in s PROVE g[s] = f[x] + g[s \ {x}]
      <4>1. CASE x = c
        BY <3>1, <4>1
      <4>2. CASE x # c
        <5>1. x \in s \ {c} /\ c \in s \ {x} /\ (s \ {c}) \ {x} = (s \ {x}) \ {c}
          BY <3>1, <4>2
        <5>2. g[s \ {c}] = f[x] + g[(s \ {c}) \ {x}]
          BY <3>1, <5>1
        <5>3. g[s \ {x}] = f[c] + g[(s \ {x}) \ {c}]
          BY <3>2, <5>1
        <5>4. f[x] \in Int /\ f[c] \in Int /\ g[(s \ {x}) \ {c}] \in Int
          BY <1>8, <3>1
        <5>5. g[s \ {c}] = f[x] + g[(s \ {x}) \ {c}]
          BY <5>1, <5>2
        <5>6. \A k, l, m \in Int : k + (l + m) = l + (k + m)
          OBVIOUS
        <5>7. g[s] = f[c] + (f[x] + g[(s \ {x}) \ {c}])
          BY <3>1, <5>5
        <5>8. f[c] + (f[x] + g[(s \ {x}) \ {c}]) = f[x] + (f[c] + g[(s \ {x}) \ {c}])
          BY <5>4, <5>6
        <5> QED BY <5>3, <5>7, <5>8
      <4> QED BY <4>1, <4>2
    <3> QED BY <3>2
  <2> QED BY <2>1, <2>2
<1>5. \A s \in SUBSET S : s \in P
  <2> HIDE DEF P
  <2> QED BY <1>4, EverySubset
<1>6. \A s \in SUBSET S : SumFunctionOnSet(f, s) = g[s]
  <2> SUFFICES ASSUME NEW s \in SUBSET S PROVE SumFunctionOnSet(f, s) = g[s]
    OBVIOUS
  <2>1. IsFiniteSet(s)
    BY FS_Subset
  <2>2. PICK h : SumsOf(h, f, s)
    BY <2>1, SumsExist
  <2>3. h[s] = g[s]
    BY <1>1, <2>1, <2>2, SumsAgree
  <2> QED BY <2>1, <2>2, <2>3, SumIsFold
<1> QED BY <1>5, <1>6, <1>8

\* What holds of a sum and of the number of its terms.
LEMMA CardStep ==
    ASSUME NEW s, IsFiniteSet(s)
    PROVE  /\ Cardinality(s) \in Nat /\ Cardinality({}) = 0
           /\ \A x \in s : /\ IsFiniteSet(s \ {x}) /\ Cardinality(s \ {x}) \in Nat
                           /\ Cardinality(s) = Cardinality(s \ {x}) + 1
<1>1. ASSUME NEW x \in s
      PROVE  /\ IsFiniteSet(s \ {x}) /\ Cardinality(s \ {x}) \in Nat
             /\ Cardinality(s) = Cardinality(s \ {x}) + 1
  <2>1. Cardinality(s \ {x}) = Cardinality(s) - 1 /\ IsFiniteSet(s \ {x})
    BY FS_RemoveElement
  <2> QED BY <2>1, FS_CardinalityType
<1> QED BY <1>1, FS_CardinalityType, FS_EmptySet

LEMMA SumBound ==
    ASSUME NEW S, IsFiniteSet(S), NEW f, NEW k \in Int, NEW t \in Int,
           \A x \in S : f[x] \in Int /\ k * f[x] <= t
    PROVE  k * SumFunctionOnSet(f, S) <= t * Cardinality(S)
<1> DEFINE Total(s) == SumFunctionOnSet(f, s)
           P == {s \in SUBSET S : k * Total(s) <= t * Cardinality(s)}
<1>1. ASSUME NEW s \in SUBSET S, \A x \in s : s \ {x} \in P
      PROVE  k * Total(s) <= t * Cardinality(s)
  <2>1. CASE s = {}
    <3>1. Total(s) = 0 /\ Cardinality(s) = 0
      BY <2>1, SumEmpty, FS_EmptySet
    <3> QED BY <3>1
  <2>2. CASE s # {}
    <3>1. PICK x \in s : TRUE
      BY <2>2
    <3>2. IsFiniteSet(s) /\ IsFiniteSet(s \ {x})
      BY FS_Subset
    <3>3. Total(s) = f[x] + Total(s \ {x}) /\ Total(s \ {x}) \in Int /\ f[x] \in Int
      BY <3>1, <3>2, SumStep
    <3>4. Cardinality(s) = Cardinality(s \ {x}) + 1 /\ Cardinality(s \ {x}) \in Int
      BY <3>1, <3>2, CardStep
    <3>5. k * Total(s \ {x}) <= t * Cardinality(s \ {x}) /\ k * f[x] <= t
      BY <1>1, <3>1
    <3> HIDE DEF P, Total
    <3>6. \A a, b, n \in Int : k * b <= t * n /\ k * a <= t => k * (a + b) <= t * (n + 1)
      OBVIOUS
    <3> QED BY <3>3, <3>4, <3>5, <3>6
  <2> QED BY <2>1, <2>2
<1>2. \A s \in SUBSET S : s \in P
  <2>1. \A s \in SUBSET S : (\A x \in s : s \ {x} \in P) => s \in P
    BY <1>1
  <2> HIDE DEF P
  <2> QED BY <2>1, EverySubset
<1> QED BY <1>2

\* The squares of what is left of each term after taking x from it.
LEMMA SquaresAbout ==
    ASSUME NEW S, IsFiniteSet(S), NEW f, NEW g, NEW x \in Int,
           \A y \in S : f[y] \in Int /\ g[y] = f[y] * f[y]
    PROVE  SumFunctionOnSet(g, S) - 2 * x * SumFunctionOnSet(f, S) + x * x * Cardinality(S) >= 0
<1> DEFINE F(s) == SumFunctionOnSet(f, s)
           G(s) == SumFunctionOnSet(g, s)
           P == {s \in SUBSET S : G(s) - 2 * x * F(s) + x * x * Cardinality(s) >= 0}
<1>0. \A a, b, c, n \in Int : /\ c - 2 * x * b + x * x * n >= 0
                              => (a * a + c) - 2 * x * (a + b) + x * x * (n + 1) >= 0
  <2> SUFFICES ASSUME NEW a \in Int, NEW b \in Int, NEW c \in Int, NEW n \in Int,
                      c - 2 * x * b + x * x * n >= 0
               PROVE  (a * a + c) - 2 * x * (a + b) + x * x * (n + 1) >= 0
    OBVIOUS
  <2>1. (a - x) * (a - x) >= 0
    <3>1. \A y \in Int : y * y >= 0
      OBVIOUS
    <3> QED BY <3>1
  <2>2. (a * a + c) - 2 * x * (a + b) + x * x * (n + 1)
          = (a - x) * (a - x) + (c - 2 * x * b + x * x * n)
    OBVIOUS
  <2> QED BY <2>1, <2>2
<1>1. ASSUME NEW s \in SUBSET S, \A y \in s : s \ {y} \in P
      PROVE  G(s) - 2 * x * F(s) + x * x * Cardinality(s) >= 0
  <2>1. CASE s = {}
    <3>1. F(s) = 0 /\ G(s) = 0 /\ Cardinality(s) = 0
      BY <2>1, SumEmpty, FS_EmptySet
    <3> QED BY <3>1
  <2>2. CASE s # {}
    <3>1. PICK y \in s : TRUE
      BY <2>2
    <3>2. IsFiniteSet(s) /\ IsFiniteSet(s \ {y})
      BY FS_Subset
    <3>3. F(s) = f[y] + F(s \ {y}) /\ F(s \ {y}) \in Int /\ f[y] \in Int
      BY <3>1, <3>2, SumStep
    <3>4. G(s) = f[y] * f[y] + G(s \ {y}) /\ G(s \ {y}) \in Int
      <4>1. \A z \in s : g[z] \in Int
        OBVIOUS
      <4>2. G(s) = g[y] + G(s \ {y}) /\ G(s \ {y}) \in Int
        BY <3>1, <3>2, <4>1, SumStep
      <4> QED BY <3>1, <4>2
    <3>5. Cardinality(s) = Cardinality(s \ {y}) + 1 /\ Cardinality(s \ {y}) \in Int
      BY <3>1, <3>2, CardStep
    <3>6. G(s \ {y}) - 2 * x * F(s \ {y}) + x * x * Cardinality(s \ {y}) >= 0
      BY <1>1, <3>1
    <3> HIDE DEF P, F, G
    <3> QED BY <1>0, <3>3, <3>4, <3>5, <3>6
  <2> QED BY <2>1, <2>2
<1>2. \A s \in SUBSET S : s \in P
  <2>1. \A s \in SUBSET S : (\A y \in s : s \ {y} \in P) => s \in P
    BY <1>1
  <2> HIDE DEF P
  <2> QED BY <2>1, EverySubset
<1> QED BY <1>2

\* The square of a sum is at most the number of its terms times the sum of their
\* squares.
LEMMA SquareOfSum ==
    ASSUME NEW S, IsFiniteSet(S), NEW f, NEW g,
           \A y \in S : f[y] \in Int /\ g[y] = f[y] * f[y]
    PROVE  SumFunctionOnSet(f, S) * SumFunctionOnSet(f, S) <= Cardinality(S) * SumFunctionOnSet(g, S)
<1> DEFINE F(s) == SumFunctionOnSet(f, s)
           G(s) == SumFunctionOnSet(g, s)
           P == {s \in SUBSET S : F(s) * F(s) <= Cardinality(s) * G(s)}
<1>0. \A a, b, c, n \in Int : /\ b * b <= n * c
                              /\ c - 2 * a * b + a * a * n >= 0
                              => (a + b) * (a + b) <= (n + 1) * (a * a + c)
  <2> SUFFICES ASSUME NEW a \in Int, NEW b \in Int, NEW c \in Int, NEW n \in Int,
                      b * b <= n * c, c - 2 * a * b + a * a * n >= 0
               PROVE  (a + b) * (a + b) <= (n + 1) * (a * a + c)
    OBVIOUS
  <2>1. (n + 1) * (a * a + c) - (a + b) * (a + b)
          = (c - 2 * a * b + a * a * n) + (n * c - b * b)
    OBVIOUS
  <2> QED BY <2>1
<1>1. ASSUME NEW s \in SUBSET S, \A y \in s : s \ {y} \in P
      PROVE  F(s) * F(s) <= Cardinality(s) * G(s)
  <2>1. CASE s = {}
    <3>1. F(s) = 0 /\ G(s) = 0 /\ Cardinality(s) = 0
      BY <2>1, SumEmpty, FS_EmptySet
    <3> QED BY <3>1
  <2>2. CASE s # {}
    <3>1. PICK y \in s : TRUE
      BY <2>2
    <3>2. IsFiniteSet(s) /\ IsFiniteSet(s \ {y})
      BY FS_Subset
    <3>3. F(s) = f[y] + F(s \ {y}) /\ F(s \ {y}) \in Int /\ f[y] \in Int
      BY <3>1, <3>2, SumStep
    <3>4. G(s) = f[y] * f[y] + G(s \ {y}) /\ G(s \ {y}) \in Int
      <4>1. \A z \in s : g[z] \in Int
        OBVIOUS
      <4>2. G(s) = g[y] + G(s \ {y}) /\ G(s \ {y}) \in Int
        BY <3>1, <3>2, <4>1, SumStep
      <4> QED BY <3>1, <4>2
    <3>5. Cardinality(s) = Cardinality(s \ {y}) + 1 /\ Cardinality(s \ {y}) \in Int
      BY <3>1, <3>2, CardStep
    <3>6. F(s \ {y}) * F(s \ {y}) <= Cardinality(s \ {y}) * G(s \ {y})
      BY <1>1, <3>1
    <3>7. G(s \ {y}) - 2 * f[y] * F(s \ {y}) + f[y] * f[y] * Cardinality(s \ {y}) >= 0
      BY <3>2, <3>3, SquaresAbout
    <3> HIDE DEF P, F, G
    <3> QED BY <1>0, <3>3, <3>4, <3>5, <3>6, <3>7
  <2> QED BY <2>1, <2>2
<1>2. \A s \in SUBSET S : s \in P
  <2>1. \A s \in SUBSET S : (\A y \in s : s \ {y} \in P) => s \in P
    BY <1>1
  <2> HIDE DEF P
  <2> QED BY <2>1, EverySubset
<1> QED BY <1>2

\* Of four numbers none is more than two standard deviations above the mean.
LEMMA NoneFarAbove ==
    ASSUME NEW S, IsFiniteSet(S), Cardinality(S) = 4, NEW f, NEW g,
           \A y \in S : f[y] \in Int /\ g[y] = f[y] * f[y],
           NEW p \in S
    PROVE  LET n == Cardinality(S)
               s == SumFunctionOnSet(f, S)
               q == SumFunctionOnSet(g, S)
               d == n * f[p] - s
           IN  d * d <= 4 * (n * q - s * s)
<1> DEFINE T == S \ {p}
           c == f[p]
           u == SumFunctionOnSet(f, T)
           v == SumFunctionOnSet(g, T)
<1>1. /\ c \in Int /\ u \in Int /\ v \in Int
      /\ SumFunctionOnSet(f, S) = c + u /\ SumFunctionOnSet(g, S) = c * c + v
  <2>1. IsFiniteSet(T) /\ \A y \in S : g[y] \in Int
    BY FS_Subset
  <2>2. SumFunctionOnSet(f, S) = f[p] + u /\ u \in Int
    BY <2>1, SumStep
  <2>3. SumFunctionOnSet(g, S) = g[p] + v /\ v \in Int
    BY <2>1, SumStep
  <2> QED BY <2>2, <2>3
<1>2. Cardinality(T) = Cardinality(S) - 1 /\ u * u <= Cardinality(T) * v
  <2>1. IsFiniteSet(T) /\ \A y \in T : f[y] \in Int /\ g[y] = f[y] * f[y]
    BY FS_Subset
  <2>2. Cardinality(T) = Cardinality(S) - 1
    BY FS_RemoveElement
  <2> QED BY <2>1, <2>2, SquareOfSum
<1> HIDE DEF c, u, v, T
<1> DEFINE d == 4 * c - (c + u)
           w == 3 * c - u
<1>3. 3 * (4 * (4 * (c * c + v) - (c + u) * (c + u)) - d * d) = w * w + 16 * (3 * v - u * u)
  BY <1>1
<1>4. u * u <= 3 * v
  BY <1>2
<1>5. d * d <= 4 * (4 * (c * c + v) - (c + u) * (c + u))
  <2> DEFINE a == 4 * (4 * (c * c + v) - (c + u) * (c + u))
             b == d * d
             e == u * u
             z == w * w
  <2>1. a \in Int /\ b \in Int /\ e \in Int /\ z \in Int /\ z >= 0
    <3>1. w \in Int /\ \A y \in Int : y * y >= 0 /\ y * y \in Int
      BY <1>1
    <3> QED BY <1>1, <3>1
  <2>2. 3 * (a - b) = z + 16 * (3 * v - e) /\ e <= 3 * v
    BY <1>3, <1>4
  <2> HIDE DEF a, b, d, e, w, z
  <2>3. b <= a
    BY <1>1, <2>1, <2>2
  <2> QED BY <2>3 DEF a, b
<1> QED BY <1>1, <1>5 DEF c

----------------------------------------------------------------------------
(* Files in another order *)

\* Row i of f is row p[i] of g.
Reordered(f, g, p) ==
    /\ IsFiniteSet(DOMAIN f) /\ p \in Bijection(DOMAIN f, DOMAIN g)
    /\ \A i \in DOMAIN f : g[p[i]] = f[i]
Contents(f) == {f[i] : i \in DOMAIN f}

LEMMA ReorderedRows ==
    ASSUME NEW f, NEW g, NEW p, Reordered(f, g, p)
    PROVE  /\ \A i \in DOMAIN f : p[i] \in DOMAIN g /\ g[p[i]] = f[i]
           /\ \A i, j \in DOMAIN f : p[i] = p[j] => i = j
           /\ \A k \in DOMAIN g : \E i \in DOMAIN f : p[i] = k
           /\ IsFiniteSet(DOMAIN f) /\ IsFiniteSet(DOMAIN g)
           /\ Contents(g) = Contents(f)
<1>1. /\ \A i \in DOMAIN f : p[i] \in DOMAIN g /\ g[p[i]] = f[i]
      /\ \A i, j \in DOMAIN f : p[i] = p[j] => i = j
      /\ \A k \in DOMAIN g : \E i \in DOMAIN f : p[i] = k
  BY DEF Reordered, Bijection, Injection, Surjection, IsInjective
<1>2. IsFiniteSet(DOMAIN f) /\ IsFiniteSet(DOMAIN g)
  BY FS_Bijection DEF Reordered, ExistsBijection
<1>3. Contents(g) = Contents(f)
  BY <1>1 DEF Contents
<1> QED BY <1>1, <1>2, <1>3

LEMMA SameOrder ==
    ASSUME NEW f, IsFiniteSet(DOMAIN f)
    PROVE  \E p : Reordered(f, f, p)
<1> DEFINE p == [i \in DOMAIN f |-> i]
<1>1. Reordered(f, f, p)
  BY DEF Reordered, Bijection, Injection, Surjection, IsInjective
<1> QED BY <1>1

LEMMA ReverseOrder ==
    ASSUME NEW f, NEW n \in Nat, Len(f) = n, DOMAIN f = 1 .. n
    PROVE  LET p == [i \in 1 .. n |-> (n - i) + 1] IN Reordered(f, Reverse(f), p)
<1> DEFINE p == [i \in 1 .. n |-> (n - i) + 1]
           g == Reverse(f)
<1>1. g = [i \in 1 .. n |-> f[(n - i) + 1]]
  BY DEF Reverse
<1>2. \A i \in 1 .. n : (n - i) + 1 \in 1 .. n /\ (n - ((n - i) + 1)) + 1 = i
  OBVIOUS
<1>3. DOMAIN g = 1 .. n /\ \A i \in 1 .. n : p[i] \in 1 .. n /\ g[p[i]] = f[i] /\ p[p[i]] = i
  BY <1>1, <1>2
<1>4. p \in [1 .. n -> 1 .. n]
  BY <1>2
<1> HIDE DEF p, g
<1>5. p \in Bijection(1 .. n, 1 .. n)
  BY <1>3, <1>4 DEF Bijection, Injection, Surjection, IsInjective
<1>6. IsFiniteSet(1 .. n)
  BY FS_Interval
<1>7. Reordered(f, g, p)
  BY <1>3, <1>5, <1>6 DEF Reordered
<1> QED BY <1>7 DEF p, g

\* As many rows in either order.
LEMMA SameCount ==
    ASSUME NEW f, NEW g, NEW p, Reordered(f, g, p),
           NEW S \in SUBSET DOMAIN f, NEW T \in SUBSET DOMAIN g,
           \A i \in DOMAIN f : i \in S <=> p[i] \in T
    PROVE  IsFiniteSet(S) /\ IsFiniteSet(T) /\ Cardinality(T) = Cardinality(S)
<1> DEFINE q == [i \in S |-> p[i]]
<1>1. /\ \A i \in DOMAIN f : p[i] \in DOMAIN g
      /\ \A i, j \in DOMAIN f : p[i] = p[j] => i = j
      /\ \A k \in DOMAIN g : \E i \in DOMAIN f : p[i] = k
      /\ IsFiniteSet(DOMAIN f)
  BY ReorderedRows
<1>2. IsFiniteSet(S)
  BY <1>1, FS_Subset
<1>3. q \in [S -> T]
  BY <1>1
<1>4. \A i \in S : q[i] = p[i]
  OBVIOUS
<1> HIDE DEF q
<1>5. q \in Bijection(S, T)
  BY <1>1, <1>3, <1>4 DEF Bijection, Injection, Surjection, IsInjective
<1> QED BY <1>2, <1>5, FS_Bijection DEF ExistsBijection

LEMMA SumReordered ==
    ASSUME NEW f, NEW g, NEW p, Reordered(f, g, p),
           NEW S \in SUBSET DOMAIN f, NEW T \in SUBSET DOMAIN g,
           \A i \in DOMAIN f : i \in S <=> p[i] \in T,
           NEW F, NEW G, \A i \in S : F[i] \in Int /\ G[p[i]] = F[i]
    PROVE  SumFunctionOnSet(G, T) = SumFunctionOnSet(F, S)
<1> DEFINE Image(s) == {p[i] : i \in s}
           P == {s \in SUBSET S : SumFunctionOnSet(G, Image(s)) = SumFunctionOnSet(F, s)}
<1>1. /\ \A i \in DOMAIN f : p[i] \in DOMAIN g
      /\ \A i, j \in DOMAIN f : p[i] = p[j] => i = j
      /\ \A k \in DOMAIN g : \E i \in DOMAIN f : p[i] = k
      /\ IsFiniteSet(DOMAIN f) /\ IsFiniteSet(DOMAIN g)
  BY ReorderedRows
<1>2. ASSUME NEW s \in SUBSET S, \A x \in s : s \ {x} \in P
      PROVE  SumFunctionOnSet(G, Image(s)) = SumFunctionOnSet(F, s)
  <2>1. CASE s = {}
    <3>1. Image(s) = {}
      BY <2>1
    <3> HIDE DEF Image
    <3> QED BY <2>1, <3>1, SumEmpty
  <2>2. CASE s # {}
    <3>1. PICK x \in s : TRUE
      BY <2>2
    <3>2. IsFiniteSet(s) /\ IsFiniteSet(Image(s))
      <4>1. Image(s) \in SUBSET DOMAIN g
        BY <1>1
      <4> HIDE DEF Image
      <4> QED BY <1>1, <4>1, FS_Subset
    <3>3. SumFunctionOnSet(F, s) = F[x] + SumFunctionOnSet(F, s \ {x})
      BY <3>1, <3>2, SumStep
    <3>4. /\ p[x] \in Image(s) /\ Image(s) \ {p[x]} = Image(s \ {x})
          /\ \A k \in Image(s) : G[k] \in Int
      BY <1>1, <3>1
    <3>5. SumFunctionOnSet(G, Image(s \ {x})) = SumFunctionOnSet(F, s \ {x})
      BY <1>2, <3>1
    <3> HIDE DEF P, Image
    <3>6. SumFunctionOnSet(G, Image(s)) = G[p[x]] + SumFunctionOnSet(G, Image(s) \ {p[x]})
      BY <3>2, <3>4, SumStep
    <3>7. G[p[x]] = F[x]
      BY <3>1
    <3> QED BY <3>3, <3>4, <3>5, <3>6, <3>7
  <2> QED BY <2>1, <2>2
<1>3. \A s \in SUBSET S : s \in P
  <2>1. \A s \in SUBSET S : (\A x \in s : s \ {x} \in P) => s \in P
    BY <1>2
  <2>2. IsFiniteSet(S)
    BY <1>1, FS_Subset
  <2> HIDE DEF P
  <2> QED BY <2>1, <2>2, EverySubset
<1>4. Image(S) = T
  BY <1>1
<1>5. SumFunctionOnSet(G, Image(S)) = SumFunctionOnSet(F, S)
  BY <1>3
<1> HIDE DEF Image, P
<1> QED BY <1>4, <1>5

\* The rows of f in C, and those of them that are in B as well: what an indicator
\* that looks at one row at a time counts.
CountIn(f, C, B) ==
    LET rows == {i \in DOMAIN f : f[i] \in C /\ f[i] \in B}
    IN  [of |-> Cardinality({i \in DOMAIN f : f[i] \in C}), bad |-> Cardinality(rows), rows |-> rows]
ByRow(a, b, f, g) == \E C, B : a = CountIn(f, C, B) /\ b = CountIn(g, C, B)

\* It shows what it counts, and the order of the rows does not matter to it.
Evident(a) == a.of \in Nat /\ (a.rows = {} => a.bad = 0)
SameFigures(a, b) == a.of = b.of /\ a.bad = b.bad

LEMMA CountedByRow ==
    ASSUME NEW f, NEW g, NEW p, Reordered(f, g, p), NEW a, NEW b, ByRow(a, b, f, g)
    PROVE  Evident(a) /\ SameFigures(a, b)
<1>1. PICK C, B : a = CountIn(f, C, B) /\ b = CountIn(g, C, B)
  BY DEF ByRow
<1> DEFINE Sf == {i \in DOMAIN f : f[i] \in C}
           Sg == {i \in DOMAIN g : g[i] \in C}
           Tf == {i \in DOMAIN f : f[i] \in C /\ f[i] \in B}
           Tg == {i \in DOMAIN g : g[i] \in C /\ g[i] \in B}
<1>2. \A i \in DOMAIN f : p[i] \in DOMAIN g /\ g[p[i]] = f[i]
  BY ReorderedRows
<1>3. /\ \A i \in DOMAIN f : (i \in Sf <=> p[i] \in Sg) /\ (i \in Tf <=> p[i] \in Tg)
      /\ Sf \in SUBSET DOMAIN f /\ Tf \in SUBSET DOMAIN f
      /\ Sg \in SUBSET DOMAIN g /\ Tg \in SUBSET DOMAIN g
  BY <1>2
<1>4. /\ a = [of |-> Cardinality(Sf), bad |-> Cardinality(Tf), rows |-> Tf]
      /\ b = [of |-> Cardinality(Sg), bad |-> Cardinality(Tg), rows |-> Tg]
  BY <1>1 DEF CountIn
<1> HIDE DEF Sf, Sg, Tf, Tg
<1>5. Cardinality(Sg) = Cardinality(Sf) /\ Cardinality(Tg) = Cardinality(Tf) /\ IsFiniteSet(Sf)
  BY <1>3, SameCount
<1>6. Cardinality(Sf) \in Nat /\ (Tf = {} => Cardinality(Tf) = 0)
  BY <1>5, FS_CardinalityType, FS_EmptySet
<1> QED BY <1>4, <1>5, <1>6 DEF Evident, SameFigures

\* The indicators that look at one row at a time, layer by layer: the rows they
\* count and those that are bad.
LEMMA EmirStateByRow ==
    ASSUME NEW f, NEW g, Contents(g) = Contents(f), NEW d
    PROVE  /\ ByRow(compute_dqi_val_missing(f), compute_dqi_val_missing(g), f, g)
           /\ ByRow(compute_dqi_val_stale(f, d), compute_dqi_val_stale(g, d), f, g)
           /\ ByRow(compute_dqi_lei_missing(f), compute_dqi_lei_missing(g), f, g)
           /\ ByRow(compute_dqi_anomaly_rate(f), compute_dqi_anomaly_rate(g), f, g)
<1>1. ByRow(compute_dqi_val_missing(f), compute_dqi_val_missing(g), f, g)
  <2> DEFINE C == {r \in Contents(f) : StillOpen(r)}
             B == {r \in Contents(f) : Absent(r.valuation_amount)}
  <2>1. \A h \in {f, g} : compute_dqi_val_missing(h) = CountIn(h, C, B)
    BY DEF compute_dqi_val_missing, Indicator, Rows, CountIn, Contents
  <2> QED BY <2>1 DEF ByRow
<1>2. ByRow(compute_dqi_val_stale(f, d), compute_dqi_val_stale(g, d), f, g)
  <2> DEFINE C == {r \in Contents(f) : r.valuation_timestamp # NoTime}
             B == {r \in Contents(f) : OlderThan(r.valuation_timestamp, d, MaxValuationAge)}
  <2>1. \A h \in {f, g} : compute_dqi_val_stale(h, d) = CountIn(h, C, B)
    BY DEF compute_dqi_val_stale, Indicator, Rows, CountIn, Contents
  <2> QED BY <2>1 DEF ByRow
<1>3. ByRow(compute_dqi_lei_missing(f), compute_dqi_lei_missing(g), f, g)
  <2> DEFINE C == {r \in Contents(f) : AnyRow(r)}
             B == {r \in Contents(f) :
                   Blank(r.reporting_counterparty) \/ Blank(r.other_counterparty)}
  <2>1. \A h \in {f, g} : compute_dqi_lei_missing(h) = CountIn(h, C, B)
    BY DEF compute_dqi_lei_missing, Indicator, Rows, CountIn, Contents
  <2> QED BY <2>1 DEF ByRow
<1>4. ByRow(compute_dqi_anomaly_rate(f), compute_dqi_anomaly_rate(g), f, g)
  <2> DEFINE C == {r \in Contents(f) : AnyRow(r)}
             B == {r \in Contents(f) :
                   \/ Negative(r.notional_amount) \/ IsZero(r.notional_amount)
                   \/ Negative(r.valuation_amount) \/ r.maturity_date \in PlaceholderDates}
  <2>1. \A h \in {f, g} : compute_dqi_anomaly_rate(h) = CountIn(h, C, B)
    BY DEF compute_dqi_anomaly_rate, Indicator, Rows, CountIn, Contents
  <2> QED BY <2>1 DEF ByRow
<1> QED BY <1>1, <1>2, <1>3, <1>4

LEMMA EmirMarginsByRow ==
    ASSUME NEW f, NEW g, Contents(g) = Contents(f), NEW d
    PROVE  /\ ByRow(compute_dqi_col_all_zero(f), compute_dqi_col_all_zero(g), f, g)
           /\ ByRow(compute_dqi_col_stale_state(f, d), compute_dqi_col_stale_state(g, d), f, g)
           /\ ByRow(compute_dqi_vm_missing_for_cleared(f),
                    compute_dqi_vm_missing_for_cleared(g), f, g)
<1>1. ByRow(compute_dqi_col_all_zero(f), compute_dqi_col_all_zero(g), f, g)
  <2> DEFINE C == {r \in Contents(f) : AnyRow(r)}
             B == {r \in Contents(f) : AllAbsent(r, ImCurrent \union VmCurrent)}
  <2>1. \A h \in {f, g} : compute_dqi_col_all_zero(h) = CountIn(h, C, B)
    BY DEF compute_dqi_col_all_zero, Indicator, Rows, CountIn, Contents
  <2> QED BY <2>1 DEF ByRow
<1>2. ByRow(compute_dqi_col_stale_state(f, d), compute_dqi_col_stale_state(g, d), f, g)
  <2> DEFINE C == {r \in Contents(f) : r.state_as_of # NoTime}
             B == {r \in Contents(f) : OlderThan(r.state_as_of, d, MaxCollateralAge)}
  <2>1. \A h \in {f, g} : compute_dqi_col_stale_state(h, d) = CountIn(h, C, B)
    BY DEF compute_dqi_col_stale_state, Indicator, Rows, CountIn, Contents
  <2> QED BY <2>1 DEF ByRow
<1>3. ByRow(compute_dqi_vm_missing_for_cleared(f), compute_dqi_vm_missing_for_cleared(g), f, g)
  <2> DEFINE C == {r \in Contents(f) : Untrimmed(r.collateralization_category, {"FCOL"})}
             B == {r \in Contents(f) : AllAbsent(r, VmCurrent)}
  <2>1. \A h \in {f, g} : compute_dqi_vm_missing_for_cleared(h) = CountIn(h, C, B)
    BY DEF compute_dqi_vm_missing_for_cleared, Indicator, Rows, CountIn, Contents
  <2> QED BY <2>1 DEF ByRow
<1> QED BY <1>1, <1>2, <1>3

LEMMA ReportsByRow ==
    ASSUME NEW f, NEW g, Contents(g) = Contents(f)
    PROVE  /\ ByRow(compute_dqi_rej_rate(f), compute_dqi_rej_rate(g), f, g)
           /\ ByRow(compute_dqi_tim_reporting_late(f), compute_dqi_tim_reporting_late(g), f, g)
           /\ ByRow(compute_dqi_err_missing(f), compute_dqi_err_missing(g), f, g)
           /\ ByRow(compute_dqi_nature_missing(f), compute_dqi_nature_missing(g), f, g)
           /\ ByRow(compute_dqi_sector_missing(f), compute_dqi_sector_missing(g), f, g)
<1>1. ByRow(compute_dqi_rej_rate(f), compute_dqi_rej_rate(g), f, g)
  <2> DEFINE C == {r \in Contents(f) : AnyRow(r)}
             B == {r \in Contents(f) : IsRejected(r)}
  <2>1. \A h \in {f, g} : compute_dqi_rej_rate(h) = CountIn(h, C, B)
    BY DEF compute_dqi_rej_rate, Indicator, Rows, CountIn, Contents
  <2> QED BY <2>1 DEF ByRow
<1>2. ByRow(compute_dqi_tim_reporting_late(f), compute_dqi_tim_reporting_late(g), f, g)
  <2> DEFINE C == {r \in Contents(f) : Both(r.execution_timestamp, r.reporting_timestamp)}
             B == {r \in Contents(f) :
                   NumHours(r.reporting_timestamp - r.execution_timestamp) > max_hours}
  <2>1. \A h \in {f, g} : compute_dqi_tim_reporting_late(h) = CountIn(h, C, B)
    BY DEF compute_dqi_tim_reporting_late, Indicator, Rows, CountIn, Contents
  <2> QED BY <2>1 DEF ByRow
<1>3. ByRow(compute_dqi_err_missing(f), compute_dqi_err_missing(g), f, g)
  <2> DEFINE C == {r \in Contents(f) : AnyRow(r)}
             B == {r \in Contents(f) : Blank(r.entity_responsible_for_reporting)}
  <2>1. \A h \in {f, g} : compute_dqi_err_missing(h) = CountIn(h, C, B)
    BY DEF compute_dqi_err_missing, Indicator, Rows, CountIn, Contents
  <2> QED BY <2>1 DEF ByRow
<1>4. ByRow(compute_dqi_nature_missing(f), compute_dqi_nature_missing(g), f, g)
  <2> DEFINE C == {r \in Contents(f) : AnyRow(r)}
             B == {r \in Contents(f) : Blank(r.nature)}
  <2>1. \A h \in {f, g} : compute_dqi_nature_missing(h) = CountIn(h, C, B)
    BY DEF compute_dqi_nature_missing, Indicator, Rows, CountIn, Contents
  <2> QED BY <2>1 DEF ByRow
<1>5. ByRow(compute_dqi_sector_missing(f), compute_dqi_sector_missing(g), f, g)
  <2> DEFINE C == {r \in Contents(f) : AnyRow(r)}
             B == {r \in Contents(f) : Blank(r.corporate_sector)}
  <2>1. \A h \in {f, g} : compute_dqi_sector_missing(h) = CountIn(h, C, B)
    BY DEF compute_dqi_sector_missing, Indicator, Rows, CountIn, Contents
  <2> QED BY <2>1 DEF ByRow
<1> QED BY <1>1, <1>2, <1>3, <1>4, <1>5

LEMMA EmirReconciliationByRow ==
    ASSUME NEW f, NEW g, Contents(g) = Contents(f)
    PROVE  /\ ByRow(compute_dqi_unpaired_trades_rate(f),
                    compute_dqi_unpaired_trades_rate(g), f, g)
           /\ ByRow(compute_dqi_field_mismatch_rate(f), compute_dqi_field_mismatch_rate(g), f, g)
<1>1. ByRow(compute_dqi_unpaired_trades_rate(f), compute_dqi_unpaired_trades_rate(g), f, g)
  <2> DEFINE C == {r \in Contents(f) : WithStatus(r)}
             B == {r \in Contents(f) : In(r.pairing_status, {"UNPAIRED", "UNPAIR", "UNPR"})}
  <2>1. \A h \in {f, g} : compute_dqi_unpaired_trades_rate(h) = CountIn(h, C, B)
    BY DEF compute_dqi_unpaired_trades_rate, Indicator, Rows, CountIn, Contents
  <2> QED BY <2>1 DEF ByRow
<1>2. ByRow(compute_dqi_field_mismatch_rate(f), compute_dqi_field_mismatch_rate(g), f, g)
  <2> DEFINE C == {r \in Contents(f) : WithStatus(r)}
             B == {r \in Contents(f) : r.mismatched_fields # {}}
  <2>1. \A h \in {f, g} : compute_dqi_field_mismatch_rate(h) = CountIn(h, C, B)
    BY DEF compute_dqi_field_mismatch_rate, Indicator, Rows, CountIn, Contents
  <2> QED BY <2>1 DEF ByRow
<1> QED BY <1>1, <1>2

LEMMA PositionsByRow ==
    ASSUME NEW f, NEW g, Contents(g) = Contents(f)
    PROVE  /\ ByRow(compute_dqi_position_notional_missing(f),
                    compute_dqi_position_notional_missing(g), f, g)
           /\ ByRow(compute_dqi_position_mark_to_market_missing(f),
                    compute_dqi_position_mark_to_market_missing(g), f, g)
           /\ ByRow(compute_dqi_position_notional_negative(f),
                    compute_dqi_position_notional_negative(g), f, g)
           /\ ByRow(compute_dqi_position_collateral_missing(f),
                    compute_dqi_position_collateral_missing(g), f, g)
<1>1. ByRow(compute_dqi_position_notional_missing(f),
            compute_dqi_position_notional_missing(g), f, g)
  <2> DEFINE C == {r \in Contents(f) : OfPositions(r)}
             B == {r \in Contents(f) : ~Has(r.notional)}
  <2>1. \A h \in {f, g} : compute_dqi_position_notional_missing(h) = CountIn(h, C, B)
    BY DEF compute_dqi_position_notional_missing, Indicator, Rows, CountIn, Contents
  <2> QED BY <2>1 DEF ByRow
<1>2. ByRow(compute_dqi_position_mark_to_market_missing(f),
            compute_dqi_position_mark_to_market_missing(g), f, g)
  <2> DEFINE C == {r \in Contents(f) : OfPositions(r)}
             B == {r \in Contents(f) : ~Has(r.mark_to_market_value)}
  <2>1. \A h \in {f, g} : compute_dqi_position_mark_to_market_missing(h) = CountIn(h, C, B)
    BY DEF compute_dqi_position_mark_to_market_missing, Indicator, Rows, CountIn, Contents
  <2> QED BY <2>1 DEF ByRow
<1>3. ByRow(compute_dqi_position_notional_negative(f),
            compute_dqi_position_notional_negative(g), f, g)
  <2> DEFINE C == {r \in Contents(f) : OfPositions(r) /\ Has(r.notional)}
             B == {r \in Contents(f) : Negative(r.notional)}
  <2>1. \A h \in {f, g} : compute_dqi_position_notional_negative(h) = CountIn(h, C, B)
    BY DEF compute_dqi_position_notional_negative, Indicator, Rows, CountIn, Contents
  <2> QED BY <2>1 DEF ByRow
<1>4. ByRow(compute_dqi_position_collateral_missing(f),
            compute_dqi_position_collateral_missing(g), f, g)
  <2> DEFINE C == {r \in Contents(f) : OfCollateral(r)}
             B == {r \in Contents(f) : ~Has(r.collateral_value)}
  <2>1. \A h \in {f, g} : compute_dqi_position_collateral_missing(h) = CountIn(h, C, B)
    BY DEF compute_dqi_position_collateral_missing, Indicator, Rows, CountIn, Contents
  <2> QED BY <2>1 DEF ByRow
<1> QED BY <1>1, <1>2, <1>3, <1>4

LEMMA SftrStateByRow ==
    ASSUME NEW f, NEW g, Contents(g) = Contents(f), NEW d
    PROVE  /\ ByRow(compute_dqi_loan_value_missing_sftr(f),
                    compute_dqi_loan_value_missing_sftr(g), f, g)
           /\ ByRow(compute_dqi_loan_value_stale_sftr(f, d),
                    compute_dqi_loan_value_stale_sftr(g, d), f, g)
           /\ ByRow(compute_dqi_collateral_value_missing_sftr(f),
                    compute_dqi_collateral_value_missing_sftr(g), f, g)
           /\ ByRow(compute_dqi_haircut_anomaly_sftr(f),
                    compute_dqi_haircut_anomaly_sftr(g), f, g)
           /\ ByRow(compute_dqi_under_collateralization_sftr(f),
                    compute_dqi_under_collateralization_sftr(g), f, g)
<1>1. ByRow(compute_dqi_loan_value_missing_sftr(f), compute_dqi_loan_value_missing_sftr(g), f, g)
  <2> DEFINE C == {r \in Contents(f) : StillOpen(r)}
             B == {r \in Contents(f) : Absent(r.loan_value)}
  <2>1. \A h \in {f, g} : compute_dqi_loan_value_missing_sftr(h) = CountIn(h, C, B)
    BY DEF compute_dqi_loan_value_missing_sftr, Indicator, Rows, CountIn, Contents
  <2> QED BY <2>1 DEF ByRow
<1>2. ByRow(compute_dqi_loan_value_stale_sftr(f, d),
            compute_dqi_loan_value_stale_sftr(g, d), f, g)
  <2> DEFINE C == {r \in Contents(f) : r.state_as_of # NoTime /\ AnyRow(r)}
             B == {r \in Contents(f) : OlderThan(r.state_as_of, d, MaxValuationAge)}
  <2>1. \A h \in {f, g} : compute_dqi_loan_value_stale_sftr(h, d) = CountIn(h, C, B)
    BY DEF compute_dqi_loan_value_stale_sftr, StaleState, Indicator, Rows, CountIn, Contents
  <2> QED BY <2>1 DEF ByRow
<1>3. ByRow(compute_dqi_collateral_value_missing_sftr(f),
            compute_dqi_collateral_value_missing_sftr(g), f, g)
  <2> DEFINE C == {r \in Contents(f) :
                   /\ StillOpen(r)
                   /\ Given(r.collateral_portfolio_code) \/ Given(r.collateral_isin)}
             B == {r \in Contents(f) : Absent(r.collateral_value)}
  <2>1. \A h \in {f, g} : compute_dqi_collateral_value_missing_sftr(h) = CountIn(h, C, B)
    BY DEF compute_dqi_collateral_value_missing_sftr, Indicator, Rows, CountIn, Contents
  <2> QED BY <2>1 DEF ByRow
<1>4. ByRow(compute_dqi_haircut_anomaly_sftr(f), compute_dqi_haircut_anomaly_sftr(g), f, g)
  <2> DEFINE C == {r \in Contents(f) : Has(r.haircut)}
             B == {r \in Contents(f) : OutsideUnit(r.haircut)}
  <2>1. \A h \in {f, g} : compute_dqi_haircut_anomaly_sftr(h) = CountIn(h, C, B)
    BY DEF compute_dqi_haircut_anomaly_sftr, Indicator, Rows, CountIn, Contents
  <2> QED BY <2>1 DEF ByRow
<1>5. ByRow(compute_dqi_under_collateralization_sftr(f),
            compute_dqi_under_collateralization_sftr(g), f, g)
  <2> DEFINE C == {r \in Contents(f) :
                   Has(r.loan_value) /\ Has(r.collateral_value) /\ Has(r.haircut)}
             B == {r \in Contents(f) :
                   Discounted(r.collateral_value, r.haircut) < 100 * Net(r.loan_value)}
  <2>1. \A h \in {f, g} : compute_dqi_under_collateralization_sftr(h) = CountIn(h, C, B)
    BY DEF compute_dqi_under_collateralization_sftr, Indicator, Rows, CountIn, Contents
  <2> QED BY <2>1 DEF ByRow
<1> QED BY <1>1, <1>2, <1>3, <1>4, <1>5

LEMMA SftrReconciliationByRow ==
    ASSUME NEW f, NEW g, Contents(g) = Contents(f)
    PROVE  /\ ByRow(compute_dqi_pairing_rate_sftr(f), compute_dqi_pairing_rate_sftr(g), f, g)
           /\ ByRow(compute_dqi_reconciliation_rate_sftr(f),
                    compute_dqi_reconciliation_rate_sftr(g), f, g)
           /\ ByRow(compute_dqi_unpaired_trades_rate_sftr(f),
                    compute_dqi_unpaired_trades_rate_sftr(g), f, g)
           /\ ByRow(compute_dqi_field_mismatch_rate_sftr(f),
                    compute_dqi_field_mismatch_rate_sftr(g), f, g)
<1>1. ByRow(compute_dqi_pairing_rate_sftr(f), compute_dqi_pairing_rate_sftr(g), f, g)
  <2> DEFINE C == {r \in Contents(f) : OfSftr(r) /\ WithStatus(r)}
             B == {r \in Contents(f) : Unpaired(r)}
  <2>1. \A h \in {f, g} : compute_dqi_pairing_rate_sftr(h) = CountIn(h, C, B)
    BY DEF compute_dqi_pairing_rate_sftr, Indicator, Rows, CountIn, Contents
  <2> QED BY <2>1 DEF ByRow
<1>2. ByRow(compute_dqi_reconciliation_rate_sftr(f),
            compute_dqi_reconciliation_rate_sftr(g), f, g)
  <2> DEFINE C == {r \in Contents(f) : OfSftr(r) /\ In(r.pairing_status, {"PAIRED"})}
             B == {r \in Contents(f) :
                   In(r.reconciliation_status, {"UNRECONCILED", "UNREC", "NOT_RECONCILED"})}
  <2>1. \A h \in {f, g} : compute_dqi_reconciliation_rate_sftr(h) = CountIn(h, C, B)
    BY DEF compute_dqi_reconciliation_rate_sftr, Indicator, Rows, CountIn, Contents
  <2> QED BY <2>1 DEF ByRow
<1>3. ByRow(compute_dqi_unpaired_trades_rate_sftr(f),
            compute_dqi_unpaired_trades_rate_sftr(g), f, g)
  <2> DEFINE C == {r \in Contents(f) : OfSftr(r)}
             B == {r \in Contents(f) : Unpaired(r)}
  <2>1. \A h \in {f, g} : compute_dqi_unpaired_trades_rate_sftr(h) = CountIn(h, C, B)
    BY DEF compute_dqi_unpaired_trades_rate_sftr, Indicator, Rows, CountIn, Contents
  <2> QED BY <2>1 DEF ByRow
<1>4. ByRow(compute_dqi_field_mismatch_rate_sftr(f),
            compute_dqi_field_mismatch_rate_sftr(g), f, g)
  <2> DEFINE C == {r \in Contents(f) : OfSftr(r) /\ Given(r.reconciliation_status)}
             B == {r \in Contents(f) : r.mismatched_fields # {}}
  <2>1. \A h \in {f, g} : compute_dqi_field_mismatch_rate_sftr(h) = CountIn(h, C, B)
    BY DEF compute_dqi_field_mismatch_rate_sftr, Indicator, Rows, CountIn, Contents
  <2> QED BY <2>1 DEF ByRow
<1> QED BY <1>1, <1>2, <1>3, <1>4

LEMMA SftrMarginsByRow ==
    ASSUME NEW f, NEW g, Contents(g) = Contents(f), NEW d
    PROVE  /\ ByRow(compute_dqi_t3_margin_posted_missing_sftr(f),
                    compute_dqi_t3_margin_posted_missing_sftr(g), f, g)
           /\ ByRow(compute_dqi_t3_margin_received_missing_sftr(f),
                    compute_dqi_t3_margin_received_missing_sftr(g), f, g)
           /\ ByRow(compute_dqi_t3_excess_collateral_use_sftr(f),
                    compute_dqi_t3_excess_collateral_use_sftr(g), f, g)
           /\ ByRow(compute_dqi_t3_margin_stale_sftr(f, d),
                    compute_dqi_t3_margin_stale_sftr(g, d), f, g)
           /\ ByRow(compute_dqi_mar_partial_sides_sftr(f),
                    compute_dqi_mar_partial_sides_sftr(g), f, g)
           /\ ByRow(compute_dqi_mar_excess_collateral_event_rate_sftr(f),
                    compute_dqi_mar_excess_collateral_event_rate_sftr(g), f, g)
<1>1. ByRow(compute_dqi_t3_margin_posted_missing_sftr(f),
            compute_dqi_t3_margin_posted_missing_sftr(g), f, g)
  <2> DEFINE C == {r \in Contents(f) : InPortfolio(r)}
             B == {r \in Contents(f) : ~HasPosted(r)}
  <2>1. \A h \in {f, g} : compute_dqi_t3_margin_posted_missing_sftr(h) = CountIn(h, C, B)
    BY DEF compute_dqi_t3_margin_posted_missing_sftr, Indicator, Rows, CountIn, Contents
  <2> QED BY <2>1 DEF ByRow
<1>2. ByRow(compute_dqi_t3_margin_received_missing_sftr(f),
            compute_dqi_t3_margin_received_missing_sftr(g), f, g)
  <2> DEFINE C == {r \in Contents(f) : InPortfolio(r)}
             B == {r \in Contents(f) : ~HasReceived(r)}
  <2>1. \A h \in {f, g} : compute_dqi_t3_margin_received_missing_sftr(h) = CountIn(h, C, B)
    BY DEF compute_dqi_t3_margin_received_missing_sftr, Indicator, Rows, CountIn, Contents
  <2> QED BY <2>1 DEF ByRow
<1>3. ByRow(compute_dqi_t3_excess_collateral_use_sftr(f),
            compute_dqi_t3_excess_collateral_use_sftr(g), f, g)
  <2> DEFINE C == {r \in Contents(f) : HasMargin(r)}
             B == {r \in Contents(f) :
                   \/ Above(r.excess_collateral_posted, 0)
                   \/ Above(r.excess_collateral_received, 0)}
  <2>1. \A h \in {f, g} : compute_dqi_t3_excess_collateral_use_sftr(h) = CountIn(h, C, B)
    BY DEF compute_dqi_t3_excess_collateral_use_sftr, Indicator, Rows, CountIn, Contents
  <2> QED BY <2>1 DEF ByRow
<1>4. ByRow(compute_dqi_t3_margin_stale_sftr(f, d), compute_dqi_t3_margin_stale_sftr(g, d), f, g)
  <2> DEFINE C == {r \in Contents(f) : r.state_as_of # NoTime /\ HasMargin(r)}
             B == {r \in Contents(f) : OlderThan(r.state_as_of, d, MaxValuationAge)}
  <2>1. \A h \in {f, g} : compute_dqi_t3_margin_stale_sftr(h, d) = CountIn(h, C, B)
    BY DEF compute_dqi_t3_margin_stale_sftr, StaleState, Indicator, Rows, CountIn, Contents
  <2> QED BY <2>1 DEF ByRow
<1>5. ByRow(compute_dqi_mar_partial_sides_sftr(f), compute_dqi_mar_partial_sides_sftr(g), f, g)
  <2> DEFINE C == {r \in Contents(f) : HasMargin(r)}
             B == {r \in Contents(f) : HasPosted(r) # HasReceived(r)}
  <2>1. \A h \in {f, g} : compute_dqi_mar_partial_sides_sftr(h) = CountIn(h, C, B)
    BY DEF compute_dqi_mar_partial_sides_sftr, Indicator, Rows, CountIn, Contents
  <2> QED BY <2>1 DEF ByRow
<1>6. ByRow(compute_dqi_mar_excess_collateral_event_rate_sftr(f),
            compute_dqi_mar_excess_collateral_event_rate_sftr(g), f, g)
  <2> DEFINE C == {r \in Contents(f) : HasPosted(r)}
             B == {r \in Contents(f) : Above(r.excess_collateral_posted, 0)}
  <2>1. \A h \in {f, g} : compute_dqi_mar_excess_collateral_event_rate_sftr(h) = CountIn(h, C, B)
    BY DEF compute_dqi_mar_excess_collateral_event_rate_sftr, Indicator, Rows, CountIn, Contents
  <2> QED BY <2>1 DEF ByRow
<1> QED BY <1>1, <1>2, <1>3, <1>4, <1>5, <1>6

LEMMA ReuseByRow ==
    ASSUME NEW f, NEW g, Contents(g) = Contents(f), NEW d
    PROVE  /\ ByRow(compute_dqi_reuse_volume_missing_sftr(f),
                    compute_dqi_reuse_volume_missing_sftr(g), f, g)
           /\ ByRow(compute_dqi_reuse_err_retraction_rate_sftr(f),
                    compute_dqi_reuse_err_retraction_rate_sftr(g), f, g)
           /\ ByRow(compute_dqi_reuse_state_volume_missing_sftr(f),
                    compute_dqi_reuse_state_volume_missing_sftr(g), f, g)
           /\ ByRow(compute_dqi_reuse_state_stale_sftr(f, d),
                    compute_dqi_reuse_state_stale_sftr(g, d), f, g)
<1>1. ByRow(compute_dqi_reuse_volume_missing_sftr(f),
            compute_dqi_reuse_volume_missing_sftr(g), f, g)
  <2> DEFINE C == {r \in Contents(f) : ~Retraction(r)}
             B == {r \in Contents(f) : ~HasReuse(r)}
  <2>1. \A h \in {f, g} : compute_dqi_reuse_volume_missing_sftr(h) = CountIn(h, C, B)
    BY DEF compute_dqi_reuse_volume_missing_sftr, Indicator, Rows, CountIn, Contents
  <2> QED BY <2>1 DEF ByRow
<1>2. ByRow(compute_dqi_reuse_err_retraction_rate_sftr(f),
            compute_dqi_reuse_err_retraction_rate_sftr(g), f, g)
  <2> DEFINE C == {r \in Contents(f) : AnyRow(r)}
             B == {r \in Contents(f) : Retraction(r)}
  <2>1. \A h \in {f, g} : compute_dqi_reuse_err_retraction_rate_sftr(h) = CountIn(h, C, B)
    BY DEF compute_dqi_reuse_err_retraction_rate_sftr, Indicator, Rows, CountIn, Contents
  <2> QED BY <2>1 DEF ByRow
<1>3. ByRow(compute_dqi_reuse_state_volume_missing_sftr(f),
            compute_dqi_reuse_state_volume_missing_sftr(g), f, g)
  <2> DEFINE C == {r \in Contents(f) : AnyRow(r)}
             B == {r \in Contents(f) : ~HasReuse(r)}
  <2>1. \A h \in {f, g} : compute_dqi_reuse_state_volume_missing_sftr(h) = CountIn(h, C, B)
    BY DEF compute_dqi_reuse_state_volume_missing_sftr, Indicator, Rows, CountIn, Contents
  <2> QED BY <2>1 DEF ByRow
<1>4. ByRow(compute_dqi_reuse_state_stale_sftr(f, d),
            compute_dqi_reuse_state_stale_sftr(g, d), f, g)
  <2> DEFINE C == {r \in Contents(f) : r.state_as_of # NoTime /\ HasReuse(r)}
             B == {r \in Contents(f) : OlderThan(r.state_as_of, d, MaxValuationAge)}
  <2>1. \A h \in {f, g} : compute_dqi_reuse_state_stale_sftr(h, d) = CountIn(h, C, B)
    BY DEF compute_dqi_reuse_state_stale_sftr, StaleState, Indicator, Rows, CountIn, Contents
  <2> QED BY <2>1 DEF ByRow
<1> QED BY <1>1, <1>2, <1>3, <1>4

\* Three of one kind, and two that count only if some row has their field.
LEMMA CriteriaByRow ==
    ASSUME NEW f, NEW g, Contents(g) = Contents(f)
    PROVE  /\ ByRow(compute_dqi_notional_inconsistent(f), compute_dqi_notional_inconsistent(g), f, g)
           /\ ByRow(compute_dqi_margin_inconsistent_pre_haircut(f),
                    compute_dqi_margin_inconsistent_pre_haircut(g), f, g)
           /\ ByRow(compute_dqi_margin_inconsistent_post_haircut(f),
                    compute_dqi_margin_inconsistent_post_haircut(g), f, g)
<1>1. ASSUME NEW tokens PROVE ByRow(CriterionMismatch(f, tokens), CriterionMismatch(g, tokens), f, g)
  <2> DEFINE C == {r \in Contents(f) : WithStatus(r)}
             B == {r \in Contents(f) : r.mismatched_fields \intersect tokens # {}}
  <2>1. \A h \in {f, g} : CriterionMismatch(h, tokens) = CountIn(h, C, B)
    BY DEF CriterionMismatch, Indicator, Rows, CountIn, Contents
  <2> QED BY <2>1 DEF ByRow
<1> QED BY <1>1 DEF compute_dqi_notional_inconsistent, compute_dqi_margin_inconsistent_pre_haircut,
               compute_dqi_margin_inconsistent_post_haircut

LEMMA NotMeasuredByRow == ASSUME NEW f, NEW g PROVE ByRow(NotMeasured, NotMeasured, f, g)
<1>1. \A h \in {f, g} : CountIn(h, {}, {}) = NotMeasured
  <2>1. \A h : {i \in DOMAIN h : h[i] \in {} /\ h[i] \in {}} = {} /\ {i \in DOMAIN h : h[i] \in {}} = {}
    OBVIOUS
  <2> QED BY <2>1, FS_EmptySet DEF CountIn, NotMeasured
<1> QED BY <1>1 DEF ByRow

LEMMA PresentFields ==
    ASSUME NEW f, NEW g, Contents(g) = Contents(f)
    PROVE  /\ ByRow(compute_dqi_conf_missing(f), compute_dqi_conf_missing(g), f, g)
           /\ ByRow(compute_dqi_rec_status_unpaired(f), compute_dqi_rec_status_unpaired(g), f, g)
<1>1. \A field : Present(g, field) <=> Present(f, field)
  BY DEF Present, Contents
<1>2. ByRow(compute_dqi_conf_missing(f), compute_dqi_conf_missing(g), f, g)
  <2> DEFINE C == {r \in Contents(f) : AnyRow(r)}
             B == {r \in Contents(f) : Blank(r.confirmation_timestamp)}
  <2>1. CASE Present(f, "confirmation_timestamp")
    <3>1. \A h \in {f, g} : compute_dqi_conf_missing(h) = CountIn(h, C, B)
      BY <1>1, <2>1 DEF compute_dqi_conf_missing, Indicator, Rows, CountIn, Contents
    <3> QED BY <3>1 DEF ByRow
  <2>2. CASE ~Present(f, "confirmation_timestamp")
    BY <1>1, <2>2, NotMeasuredByRow DEF compute_dqi_conf_missing
  <2> QED BY <2>1, <2>2
<1>3. ByRow(compute_dqi_rec_status_unpaired(f), compute_dqi_rec_status_unpaired(g), f, g)
  <2> DEFINE C == {r \in Contents(f) : ~Blank(r.reconciliation_status)}
             B == {r \in Contents(f) :
                     In(r.reconciliation_status,
                        {"UNPAIRED", "NOT_PAIRED", "UNREC", "UNRECONCILED", "UNMATCHED"})}
  <2>1. CASE Present(f, "reconciliation_status")
    <3>1. \A h \in {f, g} : compute_dqi_rec_status_unpaired(h) = CountIn(h, C, B)
      BY <1>1, <2>1 DEF compute_dqi_rec_status_unpaired, Indicator, Rows, CountIn, Contents
    <3> QED BY <3>1 DEF ByRow
  <2>2. CASE ~Present(f, "reconciliation_status")
    BY <1>1, <2>2, NotMeasuredByRow DEF compute_dqi_rec_status_unpaired
  <2> QED BY <2>1, <2>2
<1> QED BY <1>2, <1>3

\* The indicators that compare a row with the others of its file, or of another.
LEMMA DuplicatesByRow ==
    ASSUME NEW f, NEW g, NEW p, Reordered(f, g, p)
    PROVE  ByRow(compute_dqi_duplicate_reports(f), compute_dqi_duplicate_reports(g), f, g)
<1> DEFINE Twins(h, r) == {j \in DOMAIN h : SameBytes(r.uti, h[j].uti)}
           C == {r \in Contents(f) : ~Blank(r.uti)}
           B == {r \in Contents(f) : Cardinality(Twins(f, r)) >= 2}
<1>1. ASSUME NEW r PROVE Cardinality(Twins(g, r)) = Cardinality(Twins(f, r))
  <2>1. \A i \in DOMAIN f : i \in Twins(f, r) <=> p[i] \in Twins(g, r)
    BY ReorderedRows
  <2>2. Twins(f, r) \in SUBSET DOMAIN f /\ Twins(g, r) \in SUBSET DOMAIN g
    OBVIOUS
  <2> HIDE DEF Twins
  <2> QED BY <2>1, <2>2, SameCount
<1>2. Contents(g) = Contents(f)
  BY ReorderedRows
<1>3. ASSUME NEW h \in {f, g} PROVE compute_dqi_duplicate_reports(h) = CountIn(h, C, B)
  <2>1. \A i \in DOMAIN h : h[i] \in Contents(f)
    BY <1>2 DEF Contents
  <2>2. \A r : Cardinality(Twins(h, r)) = Cardinality(Twins(f, r))
    BY <1>1
  <2>3. compute_dqi_duplicate_reports(h) =
          [of |-> Cardinality({i \in DOMAIN h : ~Blank(h[i].uti)}),
           bad |-> Cardinality({i \in {k \in DOMAIN h : ~Blank(h[k].uti)} :
                                  Cardinality(Twins(h, h[i])) >= 2}),
           rows |-> {i \in {k \in DOMAIN h : ~Blank(h[k].uti)} : Cardinality(Twins(h, h[i])) >= 2}]
    BY DEF compute_dqi_duplicate_reports, Indicator, Rows
  <2> HIDE DEF Twins
  <2>4. /\ {i \in DOMAIN h : ~Blank(h[i].uti)} = {i \in DOMAIN h : h[i] \in C}
        /\ {i \in {k \in DOMAIN h : ~Blank(h[k].uti)} : Cardinality(Twins(h, h[i])) >= 2}
             = {i \in DOMAIN h : h[i] \in C /\ h[i] \in B}
    BY <2>1, <2>2
  <2> QED BY <2>3, <2>4 DEF CountIn
<1> HIDE DEF C, B
<1> QED BY <1>3 DEF ByRow

LEMMA MarginsMissingByRow ==
    ASSUME NEW f, NEW g, Contents(g) = Contents(f), NEW m, NEW n, Contents(n) = Contents(m)
    PROVE  ByRow(compute_dqi_col_missing_state(f, m), compute_dqi_col_missing_state(g, n), f, g)
<1> DEFINE Asked(r) == StillOpen(r) /\ Given(r.collateral_portfolio_code)
           Unmatched(r, o) == ~Given(r.uti) \/ \A j \in DOMAIN o : o[j].uti # r.uti
           C == {r \in Contents(f) : Asked(r)}
           B == {r \in Contents(f) : Unmatched(r, m)}
<1>1. \A r : Unmatched(r, n) <=> Unmatched(r, m)
  BY DEF Contents
<1>2. ASSUME NEW h \in {f, g}, NEW o \in {m, n}
      PROVE  compute_dqi_col_missing_state(h, o) = CountIn(h, C, B)
  <2>1. \A i \in DOMAIN h : h[i] \in Contents(f)
    BY DEF Contents
  <2>2. \A r : Unmatched(r, o) <=> Unmatched(r, m)
    BY <1>1
  <2>3. compute_dqi_col_missing_state(h, o) =
          [of |-> Cardinality({i \in DOMAIN h : Asked(h[i])}),
           bad |-> Cardinality({i \in {k \in DOMAIN h : Asked(h[k])} : Unmatched(h[i], o)}),
           rows |-> {i \in {k \in DOMAIN h : Asked(h[k])} : Unmatched(h[i], o)}]
    BY DEF compute_dqi_col_missing_state, Indicator, Rows
  <2> HIDE DEF Asked, Unmatched
  <2>4. /\ {i \in DOMAIN h : Asked(h[i])} = {i \in DOMAIN h : h[i] \in C}
        /\ {i \in {k \in DOMAIN h : Asked(h[k])} : Unmatched(h[i], o)}
             = {i \in DOMAIN h : h[i] \in C /\ h[i] \in B}
    BY <2>1, <2>2
  <2> QED BY <2>3, <2>4 DEF CountIn
<1> HIDE DEF C, B
<1> QED BY <1>2 DEF ByRow

LEMMA RequestsByRow ==
    ASSUME NEW f, NEW g, Contents(g) = Contents(f), NEW m, NEW n, Contents(n) = Contents(m)
    PROVE  /\ ByRow(compute_dqi_mcr_open_requests_sftr(f, <<m>>),
                    compute_dqi_mcr_open_requests_sftr(g, <<n>>), f, g)
           /\ ByRow(compute_dqi_mcr_open_requests_sftr(f, << >>),
                    compute_dqi_mcr_open_requests_sftr(g, << >>), f, g)
<1> DEFINE Open(r, o) == o = << >> \/ StateRows(r.uti, o) = {}
           C == {r \in Contents(f) : Given(r.uti)}
           B(o) == {r \in Contents(f) : Open(r, o)}
<1>1. \A r : Open(r, <<n>>) <=> Open(r, <<m>>)
  <2>1. \A o : <<o>>[1] = o /\ <<o>> # << >>
    OBVIOUS
  <2>2. \A r, o : Open(r, <<o>>) <=> \A s \in Contents(o) : s.uti # r.uti
    BY <2>1 DEF Contents, StateRows
  <2> QED BY <2>2
<1>2. ASSUME NEW h \in {f, g}, NEW o, NEW q, \A r : Open(r, o) <=> Open(r, q)
      PROVE  compute_dqi_mcr_open_requests_sftr(h, o) = CountIn(h, C, B(q))
  <2>1. \A i \in DOMAIN h : h[i] \in Contents(f)
    BY DEF Contents
  <2>2. compute_dqi_mcr_open_requests_sftr(h, o) =
          [of |-> Cardinality({i \in DOMAIN h : Given(h[i].uti)}),
           bad |-> Cardinality({i \in {k \in DOMAIN h : Given(h[k].uti)} : Open(h[i], o)}),
           rows |-> {i \in {k \in DOMAIN h : Given(h[k].uti)} : Open(h[i], o)}]
    BY DEF compute_dqi_mcr_open_requests_sftr, Indicator, Rows
  <2> HIDE DEF Open
  <2>3. /\ {i \in DOMAIN h : Given(h[i].uti)} = {i \in DOMAIN h : h[i] \in C}
        /\ {i \in {k \in DOMAIN h : Given(h[k].uti)} : Open(h[i], o)}
             = {i \in DOMAIN h : h[i] \in C /\ h[i] \in B(q)}
    BY <1>2, <2>1
  <2> QED BY <2>2, <2>3 DEF CountIn
<1> HIDE DEF Open, C, B
<1> QED BY <1>1, <1>2 DEF ByRow

\* UTIs, not rows, are counted.
LEMMA RepeatedRejections ==
    ASSUME NEW f, NEW g, NEW p, Reordered(f, g, p)
    PROVE  /\ Evident(compute_dqi_rej_repeat_uti(f))
           /\ SameFigures(compute_dqi_rej_repeat_uti(f), compute_dqi_rej_repeat_uti(g))
<1> DEFINE Rejected(h) == {i \in Rows(h, IsRejected) : Given(h[i].uti)}
           Repeating(h) == {i \in Rejected(h) : \E j \in Rejected(h) \ {i} : h[j].uti = h[i].uti}
           UtisAtRows(h, rows) == {h[i].uti : i \in rows}
<1>1. \A h : compute_dqi_rej_repeat_uti(h) =
               [of |-> Cardinality(UtisAtRows(h, Rejected(h))),
                bad |-> Cardinality(UtisAtRows(h, Repeating(h))), rows |-> Repeating(h)]
  BY DEF compute_dqi_rej_repeat_uti
<1>2. /\ \A i \in DOMAIN f : p[i] \in DOMAIN g /\ g[p[i]] = f[i]
      /\ \A i, j \in DOMAIN f : p[i] = p[j] => i = j
      /\ \A k \in DOMAIN g : \E i \in DOMAIN f : p[i] = k
      /\ IsFiniteSet(DOMAIN f)
  BY ReorderedRows
<1> DEFINE Refused(r) == IsRejected(r) /\ Given(r.uti)
<1>3. \A h : /\ \A i : i \in Rejected(h) <=> i \in DOMAIN h /\ Refused(h[i])
             /\ Rejected(h) \in SUBSET DOMAIN h
  BY DEF Rows
<1> HIDE DEF Refused
<1>4. /\ \A i \in DOMAIN f : i \in Rejected(f) <=> p[i] \in Rejected(g)
      /\ UtisAtRows(g, Rejected(g)) = UtisAtRows(f, Rejected(f))
  <2>1. \A i \in DOMAIN f : i \in Rejected(f) <=> p[i] \in Rejected(g)
    <3> HIDE DEF Rejected
    <3> QED BY <1>2, <1>3
  <2>2. Rejected(f) \in SUBSET DOMAIN f /\ Rejected(g) \in SUBSET DOMAIN g
    BY <1>3
  <2> HIDE DEF Rejected
  <2> QED BY <1>2, <2>1, <2>2
<1>5. \A i \in DOMAIN f : i \in Repeating(f) <=> p[i] \in Repeating(g)
  <2> HIDE DEF Rejected
  <2> QED BY <1>2, <1>3, <1>4
<1>6. UtisAtRows(g, Repeating(g)) = UtisAtRows(f, Repeating(f))
  <2>1. Repeating(f) \in SUBSET DOMAIN f /\ Repeating(g) \in SUBSET DOMAIN g
    BY <1>3
  <2> HIDE DEF Repeating
  <2> QED BY <1>2, <1>5, <2>1
<1>7. Cardinality(UtisAtRows(f, Rejected(f))) \in Nat
  <2> DEFINE h == [i \in Rejected(f) |-> f[i].uti]
  <2>1. IsFiniteSet(Rejected(f))
    BY <1>2, <1>3, FS_Subset
  <2>2. DOMAIN h = Rejected(f) /\ {h[i] : i \in DOMAIN h} = UtisAtRows(f, Rejected(f))
    OBVIOUS
  <2> HIDE DEF h, Rejected, UtisAtRows
  <2> QED BY <2>1, <2>2, FiniteImage, FS_CardinalityType
<1>8. Repeating(f) = {} => Cardinality(UtisAtRows(f, Repeating(f))) = 0
  BY FS_EmptySet
<1> HIDE DEF Rejected, Repeating, UtisAtRows
<1> QED BY <1>1, <1>4, <1>6, <1>7, <1>8 DEF Evident, SameFigures

\* The shortfalls of the pairing and reconciliation rates.
LEMMA ShortfallOf ==
    ASSUME NEW f, NEW rate, NEW id
    PROVE  LET S == {i \in DOMAIN f : Has(f[i][rate])}
               F == [i \in S |-> 100 - Net(f[i][rate])]
           IN  MeanShortfall(f, rate, id) =
                 [of |-> 100 * Cardinality(S), bad |-> SumFunctionOnSet(F, S),
                  rows |-> {i \in S : 100 * F[i] > resolve_threshold(id)[1]}]
<1> DEFINE S == {i \in DOMAIN f : Has(f[i][rate])}
           F == [i \in S |-> 100 - Net(f[i][rate])]
<1>1. DOMAIN F = S
  OBVIOUS
<1>2. MeanShortfall(f, rate, id) =
        [of |-> 100 * Cardinality(DOMAIN F), bad |-> SumFunction(F),
         rows |-> {i \in DOMAIN F : 100 * F[i] > resolve_threshold(id)[1]}]
  BY DEF MeanShortfall, Rows
<1> HIDE DEF S, F
<1> QED BY <1>1, <1>2 DEF SumFunction, S, F

LEMMA ShortfallReordered ==
    ASSUME NEW f, NEW g, NEW p, Reordered(f, g, p), NEW rate, NEW id,
           \A i \in DOMAIN f : Net(f[i][rate]) \in Int
    PROVE  SameFigures(MeanShortfall(f, rate, id), MeanShortfall(g, rate, id))
<1> DEFINE S(h) == {i \in DOMAIN h : Has(h[i][rate])}
           F(h) == [i \in S(h) |-> 100 - Net(h[i][rate])]
<1>1. \A i \in DOMAIN f : p[i] \in DOMAIN g /\ g[p[i]] = f[i]
  BY ReorderedRows
<1>2. \A i \in DOMAIN f : i \in S(f) <=> p[i] \in S(g)
  BY <1>1
<1>3. S(f) \in SUBSET DOMAIN f /\ S(g) \in SUBSET DOMAIN g
  OBVIOUS
<1>4. \A i \in S(f) : F(f)[i] \in Int /\ F(g)[p[i]] = F(f)[i]
  <2>1. ASSUME NEW i \in S(f) PROVE F(f)[i] \in Int /\ F(g)[p[i]] = F(f)[i]
    <3>1. i \in DOMAIN f /\ p[i] \in S(g) /\ g[p[i]] = f[i] /\ Net(f[i][rate]) \in Int
      BY <1>1, <1>2
    <3>2. F(g)[p[i]] = 100 - Net(g[p[i]][rate]) /\ F(f)[i] = 100 - Net(f[i][rate])
      BY <3>1
    <3> QED BY <3>1, <3>2
  <2> QED BY <2>1
<1>5. \A h \in {f, g} : /\ MeanShortfall(h, rate, id).of = 100 * Cardinality(S(h))
                        /\ MeanShortfall(h, rate, id).bad = SumFunctionOnSet(F(h), S(h))
  BY ShortfallOf
<1> HIDE DEF S, F
<1>6. Cardinality(S(g)) = Cardinality(S(f))
  BY <1>2, <1>3, SameCount
<1>7. SumFunctionOnSet(F(g), S(g)) = SumFunctionOnSet(F(f), S(f))
  BY <1>2, <1>3, <1>4, SumReordered
<1> QED BY <1>5, <1>6, <1>7 DEF SameFigures

\* The totals of the advice on submissions.
LEMMA TotalsReordered ==
    ASSUME NEW f, NEW g, NEW p, Reordered(f, g, p),
           \A i \in DOMAIN f : f[i].total_reports \in Int /\ f[i].total_reports_rejected \in Int
    PROVE  SameFigures(compute_dqi_rej_rate_sftr(f), compute_dqi_rej_rate_sftr(g))
<1> DEFINE Column(h, field) == [i \in DOMAIN h |-> h[i][field]]
<1>1. ASSUME NEW field, \A i \in DOMAIN f : f[i][field] \in Int
      PROVE  SumFunction(Column(g, field)) = SumFunction(Column(f, field))
  <2>1. \A h \in {f, g} : DOMAIN Column(h, field) = DOMAIN h
    OBVIOUS
  <2>2. \A i \in DOMAIN f : /\ i \in DOMAIN f <=> p[i] \in DOMAIN g
                            /\ Column(f, field)[i] \in Int
                            /\ Column(g, field)[p[i]] = Column(f, field)[i]
    BY <1>1, ReorderedRows
  <2> HIDE DEF Column
  <2>3. SumFunctionOnSet(Column(g, field), DOMAIN g) = SumFunctionOnSet(Column(f, field), DOMAIN f)
    BY <2>2, SumReordered
  <2> QED BY <2>1, <2>3 DEF SumFunction
<1>2. \A h : /\ compute_dqi_rej_rate_sftr(h).of = SumFunction(Column(h, "total_reports"))
             /\ compute_dqi_rej_rate_sftr(h).bad = SumFunction(Column(h, "total_reports_rejected"))
  BY DEF compute_dqi_rej_rate_sftr
<1>3. /\ SumFunction(Column(g, "total_reports")) = SumFunction(Column(f, "total_reports"))
      /\ SumFunction(Column(g, "total_reports_rejected")) =
           SumFunction(Column(f, "total_reports_rejected"))
  BY <1>1
<1> HIDE DEF Column
<1> QED BY <1>2, <1>3 DEF SameFigures

\* Of the spikes: the pairs of counterparties and the events of each.
NamedCall(r) == Given(r.reporting_counterparty) /\ Given(r.other_counterparty)
PairOf(r) == <<r.reporting_counterparty, r.other_counterparty>>
PairsOf(f) == {PairOf(f[i]) : i \in {i \in DOMAIN f : NamedCall(f[i])}}
CallsOf(f, pair) == {i \in DOMAIN f : NamedCall(f[i]) /\ PairOf(f[i]) = pair}
EventsOfPairs(f) == [pair \in PairsOf(f) |-> Cardinality(CallsOf(f, pair))]
SpikesAmong(pairs, events) ==
    LET n == Cardinality(pairs)
        s == SumFunctionOnSet(events, pairs)
        squares == [pair \in pairs |-> events[pair] * events[pair]]
        q == SumFunctionOnSet(squares, pairs)
        Excess(pair) == n * events[pair] - s
    IN  {pair \in pairs : Excess(pair) > 0 /\ Excess(pair) * Excess(pair) > 4 * (n * q - s * s)}

LEMMA SpikeOf ==
    ASSUME NEW f
    PROVE  compute_dqi_mar_event_spike_sftr(f) =
             IF Cardinality(PairsOf(f)) < MinPairsForStats THEN NotMeasured
             ELSE [of |-> Cardinality(PairsOf(f)),
                   bad |-> Cardinality(SpikesAmong(PairsOf(f), EventsOfPairs(f))),
                   rows |-> SpikesAmong(PairsOf(f), EventsOfPairs(f))]
<1> DEFINE pairs == PairsOf(f)
           events == EventsOfPairs(f)
           squares == [pair \in pairs |-> events[pair] * events[pair]]
<1>1. DOMAIN events = pairs /\ DOMAIN squares = pairs
  BY DEF EventsOfPairs
<1>2. pairs = {<<f[i].reporting_counterparty, f[i].other_counterparty>> :
                 i \in {i \in DOMAIN f : NamedCall(f[i])}}
  BY DEF PairsOf, PairOf
<1>3. events = [pair \in pairs |->
                  Cardinality({i \in {i \in DOMAIN f : NamedCall(f[i])} :
                      <<f[i].reporting_counterparty, f[i].other_counterparty>> = pair})]
  <2>1. \A pair : CallsOf(f, pair) =
                    {i \in {i \in DOMAIN f : NamedCall(f[i])} :
                       <<f[i].reporting_counterparty, f[i].other_counterparty>> = pair}
    BY DEF CallsOf, PairOf
  <2> QED BY <2>1 DEF EventsOfPairs
<1> QED BY <1>1, <1>2, <1>3 DEF compute_dqi_mar_event_spike_sftr, Rows, NamedCall, SumFunction, SpikesAmong

LEMMA FinitePairs ==
    ASSUME NEW f, IsFiniteSet(DOMAIN f)
    PROVE  /\ IsFiniteSet(PairsOf(f))
           /\ \A pair \in PairsOf(f) : EventsOfPairs(f)[pair] \in Int
<1>1. IsFiniteSet(PairsOf(f))
  <2> DEFINE h == [i \in {i \in DOMAIN f : NamedCall(f[i])} |-> PairOf(f[i])]
  <2>1. IsFiniteSet(DOMAIN h) /\ {h[i] : i \in DOMAIN h} = PairsOf(f)
    BY FS_Subset DEF PairsOf
  <2> HIDE DEF h
  <2> QED BY <2>1, FiniteImage
<1>2. ASSUME NEW pair \in PairsOf(f) PROVE EventsOfPairs(f)[pair] \in Int
  <2>1. IsFiniteSet(CallsOf(f, pair))
    BY FS_Subset DEF CallsOf
  <2>2. Cardinality(CallsOf(f, pair)) \in Nat
    BY <2>1, FS_CardinalityType
  <2> QED BY <2>2 DEF EventsOfPairs
<1> QED BY <1>1, <1>2

LEMMA SpikesReordered ==
    ASSUME NEW f, NEW g, NEW p, Reordered(f, g, p)
    PROVE  compute_dqi_mar_event_spike_sftr(g) = compute_dqi_mar_event_spike_sftr(f)
<1>1. \A i \in DOMAIN f : p[i] \in DOMAIN g /\ g[p[i]] = f[i]
  BY ReorderedRows
<1>2. PairsOf(g) = PairsOf(f)
  <2>1. \A h : PairsOf(h) = {PairOf(r) : r \in {r \in Contents(h) : NamedCall(r)}}
    <3> TAKE h
    <3>1. {PairOf(h[i]) : i \in {i \in DOMAIN h : NamedCall(h[i])}} =
            {PairOf(r) : r \in {r \in {h[i] : i \in DOMAIN h} : NamedCall(r)}}
      OBVIOUS
    <3> QED BY <3>1 DEF PairsOf, Contents
  <2> QED BY <2>1, ReorderedRows
<1>3. \A pair : Cardinality(CallsOf(g, pair)) = Cardinality(CallsOf(f, pair))
  <2> TAKE pair
  <2>1. \A i \in DOMAIN f : i \in CallsOf(f, pair) <=> p[i] \in CallsOf(g, pair)
    BY <1>1 DEF CallsOf
  <2>2. CallsOf(f, pair) \in SUBSET DOMAIN f /\ CallsOf(g, pair) \in SUBSET DOMAIN g
    BY DEF CallsOf
  <2> QED BY <2>1, <2>2, SameCount
<1>4. EventsOfPairs(g) = EventsOfPairs(f)
  BY <1>2, <1>3 DEF EventsOfPairs
<1> QED BY <1>2, <1>4, SpikeOf

LEMMA SpikesEvident ==
    ASSUME NEW f, IsFiniteSet(DOMAIN f)
    PROVE  /\ Evident(compute_dqi_mar_event_spike_sftr(f))
           /\ compute_dqi_mar_event_spike_sftr(f).of \in {0, 4}
                => compute_dqi_mar_event_spike_sftr(f).bad = 0
<1> DEFINE pairs == PairsOf(f)
           events == EventsOfPairs(f)
           spikes == SpikesAmong(pairs, events)
<1>1. IsFiniteSet(pairs) /\ Cardinality(pairs) \in Nat /\ \A pair \in pairs : events[pair] \in Int
  BY FinitePairs, FS_CardinalityType
<1>2. Cardinality({}) = 0
  BY FS_EmptySet
<1>3. ASSUME Cardinality(pairs) = 4 PROVE spikes = {}
  <2> DEFINE squares == [pair \in pairs |-> events[pair] * events[pair]]
             n == Cardinality(pairs)
             s == SumFunctionOnSet(events, pairs)
             q == SumFunctionOnSet(squares, pairs)
  <2>1. \A pair \in pairs : events[pair] \in Int /\ squares[pair] = events[pair] * events[pair]
    BY <1>1
  <2>2. \A pair \in pairs : squares[pair] \in Int
    BY <2>1
  <2>3. s \in Int /\ q \in Int /\ n \in Int
    <3> HIDE DEF squares, pairs, events
    <3> QED BY <1>1, <2>1, <2>2, SumStep
  <2>4. ASSUME NEW pair \in pairs
        PROVE  (n * events[pair] - s) * (n * events[pair] - s) <= 4 * (n * q - s * s)
    <3> HIDE DEF squares, pairs, events
    <3> QED BY <1>1, <1>3, <2>1, NoneFarAbove
  <2>5. spikes = {pair \in pairs : /\ n * events[pair] - s > 0
                                   /\ (n * events[pair] - s) * (n * events[pair] - s)
                                        > 4 * (n * q - s * s)}
    BY DEF SpikesAmong
  <2> HIDE DEF spikes, squares, pairs, events, n, s, q
  <2>6. ASSUME NEW pair \in pairs
        PROVE  ~((n * events[pair] - s) * (n * events[pair] - s) > 4 * (n * q - s * s))
    <3> DEFINE a == (n * events[pair] - s) * (n * events[pair] - s)
               b == 4 * (n * q - s * s)
    <3>1. a \in Int /\ b \in Int
      BY <1>1, <2>3
    <3>2. a <= b
      BY <2>4
    <3> HIDE DEF a, b
    <3>3. ~(a > b)
      BY <3>1, <3>2
    <3> QED BY <3>3 DEF a, b
  <2> QED BY <2>5, <2>6
<1>4. compute_dqi_mar_event_spike_sftr(f) =
        IF Cardinality(pairs) < MinPairsForStats THEN NotMeasured
        ELSE [of |-> Cardinality(pairs), bad |-> Cardinality(spikes), rows |-> spikes]
  BY SpikeOf
<1> HIDE DEF pairs, events, spikes
<1>5. CASE Cardinality(pairs) < 4
  BY <1>4, <1>5 DEF MinPairsForStats, NotMeasured, Evident
<1>6. CASE ~(Cardinality(pairs) < 4)
  BY <1>1, <1>2, <1>3, <1>4, <1>6 DEF MinPairsForStats, Evident
<1> QED BY <1>5, <1>6

----------------------------------------------------------------------------
(* What the pack shows *)

Good(a, b) == Evident(a) /\ SameFigures(a, b)
\* The means of the reconciliation statistics may be above zero and yet green.
Means == {"DQI_PAIRING_RATE", "DQI_RECONCILIATION_RATE"}
\* The files of gs are those of fs, their rows in another order.
Rearranged(fs, gs) ==
    /\ DOMAIN gs = DOMAIN fs
    /\ \A layer \in DOMAIN fs : \E p : Reordered(fs[layer], gs[layer], p)

LEMMA RearrangedLayers ==
    ASSUME NEW fs, NEW gs, Rearranged(fs, gs)
    PROVE  \A layer : /\ \E p : Reordered(Layer(fs, layer), Layer(gs, layer), p)
                      /\ Contents(Layer(gs, layer)) = Contents(Layer(fs, layer))
                      /\ \A a, b : ByRow(a, b, Layer(fs, layer), Layer(gs, layer)) => Good(a, b)
<1> SUFFICES ASSUME NEW layer
             PROVE  /\ \E p : Reordered(Layer(fs, layer), Layer(gs, layer), p)
                    /\ Contents(Layer(gs, layer)) = Contents(Layer(fs, layer))
                    /\ \A a, b : ByRow(a, b, Layer(fs, layer), Layer(gs, layer)) => Good(a, b)
  OBVIOUS
<1>1. \E p : Reordered(Layer(fs, layer), Layer(gs, layer), p)
  <2>1. CASE layer \in DOMAIN fs
    BY <2>1 DEF Rearranged, Layer
  <2>2. CASE layer \notin DOMAIN fs
    <3>1. IsFiniteSet(DOMAIN << >>)
      <4>1. DOMAIN << >> = {}
        OBVIOUS
      <4> QED BY <4>1, FS_EmptySet
    <3>2. Layer(fs, layer) = << >> /\ Layer(gs, layer) = << >>
      BY <2>2 DEF Rearranged, Layer
    <3> QED BY <3>1, <3>2, SameOrder
  <2> QED BY <2>1, <2>2
<1>2. PICK p : Reordered(Layer(fs, layer), Layer(gs, layer), p)
  BY <1>1
<1>3. \A a, b : ByRow(a, b, Layer(fs, layer), Layer(gs, layer)) => Good(a, b)
  BY <1>2, CountedByRow DEF Good
<1> QED BY <1>1, <1>2, <1>3, ReorderedRows

LEMMA EmirStateFigures ==
    ASSUME NEW fs, NEW gs, Rearranged(fs, gs), NEW d
    PROVE  LET f == Layer(fs, "tsr")
               g == Layer(gs, "tsr")
           IN  /\ Good(compute_dqi_val_missing(f), compute_dqi_val_missing(g))
               /\ Good(compute_dqi_val_stale(f, d), compute_dqi_val_stale(g, d))
               /\ Good(compute_dqi_lei_missing(f), compute_dqi_lei_missing(g))
               /\ Good(compute_dqi_anomaly_rate(f), compute_dqi_anomaly_rate(g))
               /\ Good(compute_dqi_duplicate_reports(f), compute_dqi_duplicate_reports(g))
               /\ Good(compute_dqi_col_missing_state(f, Layer(fs, "msr")),
                       compute_dqi_col_missing_state(g, Layer(gs, "msr")))
<1> DEFINE f == Layer(fs, "tsr")
           g == Layer(gs, "tsr")
<1>1. /\ Contents(g) = Contents(f)
      /\ Contents(Layer(gs, "msr")) = Contents(Layer(fs, "msr"))
      /\ \A a, b : ByRow(a, b, f, g) => Good(a, b)
  BY RearrangedLayers
<1>2. ByRow(compute_dqi_duplicate_reports(f), compute_dqi_duplicate_reports(g), f, g)
  BY RearrangedLayers, DuplicatesByRow
<1>3. ByRow(compute_dqi_col_missing_state(f, Layer(fs, "msr")),
            compute_dqi_col_missing_state(g, Layer(gs, "msr")), f, g)
  BY <1>1, MarginsMissingByRow
<1> HIDE DEF f, g
<1>4. /\ ByRow(compute_dqi_val_missing(f), compute_dqi_val_missing(g), f, g)
      /\ ByRow(compute_dqi_val_stale(f, d), compute_dqi_val_stale(g, d), f, g)
      /\ ByRow(compute_dqi_lei_missing(f), compute_dqi_lei_missing(g), f, g)
      /\ ByRow(compute_dqi_anomaly_rate(f), compute_dqi_anomaly_rate(g), f, g)
  BY <1>1, EmirStateByRow
<1>5. /\ Good(compute_dqi_val_missing(f), compute_dqi_val_missing(g))
      /\ Good(compute_dqi_val_stale(f, d), compute_dqi_val_stale(g, d))
      /\ Good(compute_dqi_lei_missing(f), compute_dqi_lei_missing(g))
      /\ Good(compute_dqi_anomaly_rate(f), compute_dqi_anomaly_rate(g))
      /\ Good(compute_dqi_duplicate_reports(f), compute_dqi_duplicate_reports(g))
      /\ Good(compute_dqi_col_missing_state(f, Layer(fs, "msr")),
              compute_dqi_col_missing_state(g, Layer(gs, "msr")))
  BY <1>1, <1>2, <1>3, <1>4
<1> QED BY <1>5 DEF f, g

LEMMA EmirMarginFigures ==
    ASSUME NEW fs, NEW gs, Rearranged(fs, gs), NEW d
    PROVE  LET f == Layer(fs, "msr")
               g == Layer(gs, "msr")
           IN  /\ Good(compute_dqi_col_all_zero(f), compute_dqi_col_all_zero(g))
               /\ Good(compute_dqi_col_stale_state(f, d), compute_dqi_col_stale_state(g, d))
               /\ Good(compute_dqi_vm_missing_for_cleared(f),
                       compute_dqi_vm_missing_for_cleared(g))
<1> DEFINE f == Layer(fs, "msr")
           g == Layer(gs, "msr")
<1>1. Contents(g) = Contents(f) /\ \A a, b : ByRow(a, b, f, g) => Good(a, b)
  BY RearrangedLayers
<1> HIDE DEF f, g
<1>2. /\ ByRow(compute_dqi_col_all_zero(f), compute_dqi_col_all_zero(g), f, g)
      /\ ByRow(compute_dqi_col_stale_state(f, d), compute_dqi_col_stale_state(g, d), f, g)
      /\ ByRow(compute_dqi_vm_missing_for_cleared(f), compute_dqi_vm_missing_for_cleared(g), f, g)
  BY <1>1, EmirMarginsByRow
<1>3. /\ Good(compute_dqi_col_all_zero(f), compute_dqi_col_all_zero(g))
      /\ Good(compute_dqi_col_stale_state(f, d), compute_dqi_col_stale_state(g, d))
      /\ Good(compute_dqi_vm_missing_for_cleared(f), compute_dqi_vm_missing_for_cleared(g))
  BY <1>1, <1>2
<1> QED BY <1>3 DEF f, g

LEMMA ReportFigures ==
    ASSUME NEW fs, NEW gs, Rearranged(fs, gs)
    PROVE  LET f == Layer(fs, "tar")
               g == Layer(gs, "tar")
           IN  /\ Good(compute_dqi_tim_reporting_late(f), compute_dqi_tim_reporting_late(g))
               /\ Good(compute_dqi_conf_missing(f), compute_dqi_conf_missing(g))
               /\ Good(compute_dqi_rec_status_unpaired(f), compute_dqi_rec_status_unpaired(g))
               /\ Good(compute_dqi_err_missing(f), compute_dqi_err_missing(g))
               /\ Good(compute_dqi_nature_missing(f), compute_dqi_nature_missing(g))
               /\ Good(compute_dqi_sector_missing(f), compute_dqi_sector_missing(g))
<1> DEFINE f == Layer(fs, "tar")
           g == Layer(gs, "tar")
<1>1. Contents(g) = Contents(f) /\ \A a, b : ByRow(a, b, f, g) => Good(a, b)
  BY RearrangedLayers
<1> HIDE DEF f, g
<1>2. /\ ByRow(compute_dqi_tim_reporting_late(f), compute_dqi_tim_reporting_late(g), f, g)
      /\ ByRow(compute_dqi_conf_missing(f), compute_dqi_conf_missing(g), f, g)
      /\ ByRow(compute_dqi_rec_status_unpaired(f), compute_dqi_rec_status_unpaired(g), f, g)
      /\ ByRow(compute_dqi_err_missing(f), compute_dqi_err_missing(g), f, g)
      /\ ByRow(compute_dqi_nature_missing(f), compute_dqi_nature_missing(g), f, g)
      /\ ByRow(compute_dqi_sector_missing(f), compute_dqi_sector_missing(g), f, g)
  BY <1>1, ReportsByRow, PresentFields
<1>3. /\ Good(compute_dqi_tim_reporting_late(f), compute_dqi_tim_reporting_late(g))
      /\ Good(compute_dqi_conf_missing(f), compute_dqi_conf_missing(g))
      /\ Good(compute_dqi_rec_status_unpaired(f), compute_dqi_rec_status_unpaired(g))
      /\ Good(compute_dqi_err_missing(f), compute_dqi_err_missing(g))
      /\ Good(compute_dqi_nature_missing(f), compute_dqi_nature_missing(g))
      /\ Good(compute_dqi_sector_missing(f), compute_dqi_sector_missing(g))
  BY <1>1, <1>2
<1> QED BY <1>3 DEF f, g

LEMMA EmirReconciliationFigures ==
    ASSUME NEW fs, NEW gs, Rearranged(fs, gs)
    PROVE  LET f == Layer(fs, "reconciliation")
               g == Layer(gs, "reconciliation")
           IN  /\ Good(compute_dqi_unpaired_trades_rate(f), compute_dqi_unpaired_trades_rate(g))
               /\ Good(compute_dqi_field_mismatch_rate(f), compute_dqi_field_mismatch_rate(g))
               /\ Good(compute_dqi_notional_inconsistent(f), compute_dqi_notional_inconsistent(g))
               /\ Good(compute_dqi_margin_inconsistent_pre_haircut(f),
                       compute_dqi_margin_inconsistent_pre_haircut(g))
               /\ Good(compute_dqi_margin_inconsistent_post_haircut(f),
                       compute_dqi_margin_inconsistent_post_haircut(g))
<1> DEFINE f == Layer(fs, "reconciliation")
           g == Layer(gs, "reconciliation")
<1>1. Contents(g) = Contents(f) /\ \A a, b : ByRow(a, b, f, g) => Good(a, b)
  BY RearrangedLayers
<1> HIDE DEF f, g
<1>2. /\ ByRow(compute_dqi_unpaired_trades_rate(f), compute_dqi_unpaired_trades_rate(g), f, g)
      /\ ByRow(compute_dqi_field_mismatch_rate(f), compute_dqi_field_mismatch_rate(g), f, g)
      /\ ByRow(compute_dqi_notional_inconsistent(f), compute_dqi_notional_inconsistent(g), f, g)
      /\ ByRow(compute_dqi_margin_inconsistent_pre_haircut(f),
               compute_dqi_margin_inconsistent_pre_haircut(g), f, g)
      /\ ByRow(compute_dqi_margin_inconsistent_post_haircut(f),
               compute_dqi_margin_inconsistent_post_haircut(g), f, g)
  BY <1>1, EmirReconciliationByRow, CriteriaByRow
<1>3. /\ Good(compute_dqi_unpaired_trades_rate(f), compute_dqi_unpaired_trades_rate(g))
      /\ Good(compute_dqi_field_mismatch_rate(f), compute_dqi_field_mismatch_rate(g))
      /\ Good(compute_dqi_notional_inconsistent(f), compute_dqi_notional_inconsistent(g))
      /\ Good(compute_dqi_margin_inconsistent_pre_haircut(f),
              compute_dqi_margin_inconsistent_pre_haircut(g))
      /\ Good(compute_dqi_margin_inconsistent_post_haircut(f),
              compute_dqi_margin_inconsistent_post_haircut(g))
  BY <1>1, <1>2
<1> QED BY <1>3 DEF f, g

LEMMA PositionFigures ==
    ASSUME NEW fs, NEW gs, Rearranged(fs, gs)
    PROVE  LET f == Layer(fs, "positions")
               g == Layer(gs, "positions")
           IN  /\ Good(compute_dqi_position_notional_missing(f),
                       compute_dqi_position_notional_missing(g))
               /\ Good(compute_dqi_position_mark_to_market_missing(f),
                       compute_dqi_position_mark_to_market_missing(g))
               /\ Good(compute_dqi_position_notional_negative(f),
                       compute_dqi_position_notional_negative(g))
               /\ Good(compute_dqi_position_collateral_missing(f),
                       compute_dqi_position_collateral_missing(g))
<1> DEFINE f == Layer(fs, "positions")
           g == Layer(gs, "positions")
<1>1. Contents(g) = Contents(f) /\ \A a, b : ByRow(a, b, f, g) => Good(a, b)
  BY RearrangedLayers
<1> HIDE DEF f, g
<1>2. /\ ByRow(compute_dqi_position_notional_missing(f),
               compute_dqi_position_notional_missing(g), f, g)
      /\ ByRow(compute_dqi_position_mark_to_market_missing(f),
               compute_dqi_position_mark_to_market_missing(g), f, g)
      /\ ByRow(compute_dqi_position_notional_negative(f),
               compute_dqi_position_notional_negative(g), f, g)
      /\ ByRow(compute_dqi_position_collateral_missing(f),
               compute_dqi_position_collateral_missing(g), f, g)
  BY <1>1, PositionsByRow
<1>3. /\ Good(compute_dqi_position_notional_missing(f), compute_dqi_position_notional_missing(g))
      /\ Good(compute_dqi_position_mark_to_market_missing(f),
              compute_dqi_position_mark_to_market_missing(g))
      /\ Good(compute_dqi_position_notional_negative(f),
              compute_dqi_position_notional_negative(g))
      /\ Good(compute_dqi_position_collateral_missing(f),
              compute_dqi_position_collateral_missing(g))
  BY <1>1, <1>2
<1> QED BY <1>3 DEF f, g

LEMMA SftrStateFigures ==
    ASSUME NEW fs, NEW gs, Rearranged(fs, gs), NEW d
    PROVE  LET f == Layer(fs, "tsr")
               g == Layer(gs, "tsr")
           IN  /\ Good(compute_dqi_loan_value_missing_sftr(f),
                       compute_dqi_loan_value_missing_sftr(g))
               /\ Good(compute_dqi_loan_value_stale_sftr(f, d),
                       compute_dqi_loan_value_stale_sftr(g, d))
               /\ Good(compute_dqi_collateral_value_missing_sftr(f),
                       compute_dqi_collateral_value_missing_sftr(g))
               /\ Good(compute_dqi_haircut_anomaly_sftr(f), compute_dqi_haircut_anomaly_sftr(g))
               /\ Good(compute_dqi_under_collateralization_sftr(f),
                       compute_dqi_under_collateralization_sftr(g))
<1> DEFINE f == Layer(fs, "tsr")
           g == Layer(gs, "tsr")
<1>1. Contents(g) = Contents(f) /\ \A a, b : ByRow(a, b, f, g) => Good(a, b)
  BY RearrangedLayers
<1> HIDE DEF f, g
<1>2. /\ ByRow(compute_dqi_loan_value_missing_sftr(f),
               compute_dqi_loan_value_missing_sftr(g), f, g)
      /\ ByRow(compute_dqi_loan_value_stale_sftr(f, d),
               compute_dqi_loan_value_stale_sftr(g, d), f, g)
      /\ ByRow(compute_dqi_collateral_value_missing_sftr(f),
               compute_dqi_collateral_value_missing_sftr(g), f, g)
      /\ ByRow(compute_dqi_haircut_anomaly_sftr(f), compute_dqi_haircut_anomaly_sftr(g), f, g)
      /\ ByRow(compute_dqi_under_collateralization_sftr(f),
               compute_dqi_under_collateralization_sftr(g), f, g)
  BY <1>1, SftrStateByRow
<1>3. /\ Good(compute_dqi_loan_value_missing_sftr(f), compute_dqi_loan_value_missing_sftr(g))
      /\ Good(compute_dqi_loan_value_stale_sftr(f, d), compute_dqi_loan_value_stale_sftr(g, d))
      /\ Good(compute_dqi_collateral_value_missing_sftr(f),
              compute_dqi_collateral_value_missing_sftr(g))
      /\ Good(compute_dqi_haircut_anomaly_sftr(f), compute_dqi_haircut_anomaly_sftr(g))
      /\ Good(compute_dqi_under_collateralization_sftr(f),
              compute_dqi_under_collateralization_sftr(g))
  BY <1>1, <1>2
<1> QED BY <1>3 DEF f, g

LEMMA SftrReconciliationFigures ==
    ASSUME NEW fs, NEW gs, Rearranged(fs, gs)
    PROVE  LET f == Layer(fs, "reconciliation")
               g == Layer(gs, "reconciliation")
           IN  /\ Good(compute_dqi_pairing_rate_sftr(f), compute_dqi_pairing_rate_sftr(g))
               /\ Good(compute_dqi_reconciliation_rate_sftr(f),
                       compute_dqi_reconciliation_rate_sftr(g))
               /\ Good(compute_dqi_unpaired_trades_rate_sftr(f),
                       compute_dqi_unpaired_trades_rate_sftr(g))
               /\ Good(compute_dqi_field_mismatch_rate_sftr(f),
                       compute_dqi_field_mismatch_rate_sftr(g))
<1> DEFINE f == Layer(fs, "reconciliation")
           g == Layer(gs, "reconciliation")
<1>1. Contents(g) = Contents(f) /\ \A a, b : ByRow(a, b, f, g) => Good(a, b)
  BY RearrangedLayers
<1> HIDE DEF f, g
<1>2. /\ ByRow(compute_dqi_pairing_rate_sftr(f), compute_dqi_pairing_rate_sftr(g), f, g)
      /\ ByRow(compute_dqi_reconciliation_rate_sftr(f),
               compute_dqi_reconciliation_rate_sftr(g), f, g)
      /\ ByRow(compute_dqi_unpaired_trades_rate_sftr(f),
               compute_dqi_unpaired_trades_rate_sftr(g), f, g)
      /\ ByRow(compute_dqi_field_mismatch_rate_sftr(f),
               compute_dqi_field_mismatch_rate_sftr(g), f, g)
  BY <1>1, SftrReconciliationByRow
<1>3. /\ Good(compute_dqi_pairing_rate_sftr(f), compute_dqi_pairing_rate_sftr(g))
      /\ Good(compute_dqi_reconciliation_rate_sftr(f), compute_dqi_reconciliation_rate_sftr(g))
      /\ Good(compute_dqi_unpaired_trades_rate_sftr(f), compute_dqi_unpaired_trades_rate_sftr(g))
      /\ Good(compute_dqi_field_mismatch_rate_sftr(f), compute_dqi_field_mismatch_rate_sftr(g))
  BY <1>1, <1>2
<1> QED BY <1>3 DEF f, g

LEMMA SftrMarginFigures ==
    ASSUME NEW fs, NEW gs, Rearranged(fs, gs), NEW d
    PROVE  LET f == Layer(fs, "msr")
               g == Layer(gs, "msr")
           IN  /\ Good(compute_dqi_t3_margin_posted_missing_sftr(f),
                       compute_dqi_t3_margin_posted_missing_sftr(g))
               /\ Good(compute_dqi_t3_margin_received_missing_sftr(f),
                       compute_dqi_t3_margin_received_missing_sftr(g))
               /\ Good(compute_dqi_t3_excess_collateral_use_sftr(f),
                       compute_dqi_t3_excess_collateral_use_sftr(g))
               /\ Good(compute_dqi_t3_margin_stale_sftr(f, d),
                       compute_dqi_t3_margin_stale_sftr(g, d))
<1> DEFINE f == Layer(fs, "msr")
           g == Layer(gs, "msr")
<1>1. Contents(g) = Contents(f) /\ \A a, b : ByRow(a, b, f, g) => Good(a, b)
  BY RearrangedLayers
<1> HIDE DEF f, g
<1>2. /\ ByRow(compute_dqi_t3_margin_posted_missing_sftr(f),
               compute_dqi_t3_margin_posted_missing_sftr(g), f, g)
      /\ ByRow(compute_dqi_t3_margin_received_missing_sftr(f),
               compute_dqi_t3_margin_received_missing_sftr(g), f, g)
      /\ ByRow(compute_dqi_t3_excess_collateral_use_sftr(f),
               compute_dqi_t3_excess_collateral_use_sftr(g), f, g)
      /\ ByRow(compute_dqi_t3_margin_stale_sftr(f, d),
               compute_dqi_t3_margin_stale_sftr(g, d), f, g)
  BY <1>1, SftrMarginsByRow
<1>3. /\ Good(compute_dqi_t3_margin_posted_missing_sftr(f),
              compute_dqi_t3_margin_posted_missing_sftr(g))
      /\ Good(compute_dqi_t3_margin_received_missing_sftr(f),
              compute_dqi_t3_margin_received_missing_sftr(g))
      /\ Good(compute_dqi_t3_excess_collateral_use_sftr(f),
              compute_dqi_t3_excess_collateral_use_sftr(g))
      /\ Good(compute_dqi_t3_margin_stale_sftr(f, d), compute_dqi_t3_margin_stale_sftr(g, d))
  BY <1>1, <1>2
<1> QED BY <1>3 DEF f, g

LEMMA SftrCallFigures ==
    ASSUME NEW fs, NEW gs, Rearranged(fs, gs), NEW d
    PROVE  LET f == Layer(fs, "mar")
               g == Layer(gs, "mar")
           IN  /\ Good(compute_dqi_mar_partial_sides_sftr(f),
                       compute_dqi_mar_partial_sides_sftr(g))
               /\ Good(compute_dqi_mar_excess_collateral_event_rate_sftr(f),
                       compute_dqi_mar_excess_collateral_event_rate_sftr(g))
<1> DEFINE f == Layer(fs, "mar")
           g == Layer(gs, "mar")
<1>1. Contents(g) = Contents(f) /\ \A a, b : ByRow(a, b, f, g) => Good(a, b)
  BY RearrangedLayers
<1> HIDE DEF f, g
<1>2. /\ ByRow(compute_dqi_mar_partial_sides_sftr(f), compute_dqi_mar_partial_sides_sftr(g), f, g)
      /\ ByRow(compute_dqi_mar_excess_collateral_event_rate_sftr(f),
               compute_dqi_mar_excess_collateral_event_rate_sftr(g), f, g)
  BY <1>1, SftrMarginsByRow
<1>3. /\ Good(compute_dqi_mar_partial_sides_sftr(f), compute_dqi_mar_partial_sides_sftr(g))
      /\ Good(compute_dqi_mar_excess_collateral_event_rate_sftr(f),
              compute_dqi_mar_excess_collateral_event_rate_sftr(g))
  BY <1>1, <1>2
<1> QED BY <1>3 DEF f, g

LEMMA ReuseFigures ==
    ASSUME NEW fs, NEW gs, Rearranged(fs, gs), NEW d
    PROVE  LET f == Layer(fs, "reuse_activity")
               g == Layer(gs, "reuse_activity")
           IN  /\ Good(compute_dqi_reuse_volume_missing_sftr(f),
                       compute_dqi_reuse_volume_missing_sftr(g))
               /\ Good(compute_dqi_reuse_err_retraction_rate_sftr(f),
                       compute_dqi_reuse_err_retraction_rate_sftr(g))
<1> DEFINE f == Layer(fs, "reuse_activity")
           g == Layer(gs, "reuse_activity")
<1>1. Contents(g) = Contents(f) /\ \A a, b : ByRow(a, b, f, g) => Good(a, b)
  BY RearrangedLayers
<1> HIDE DEF f, g
<1>2. /\ ByRow(compute_dqi_reuse_volume_missing_sftr(f),
               compute_dqi_reuse_volume_missing_sftr(g), f, g)
      /\ ByRow(compute_dqi_reuse_err_retraction_rate_sftr(f),
               compute_dqi_reuse_err_retraction_rate_sftr(g), f, g)
  BY <1>1, ReuseByRow
<1>3. /\ Good(compute_dqi_reuse_volume_missing_sftr(f), compute_dqi_reuse_volume_missing_sftr(g))
      /\ Good(compute_dqi_reuse_err_retraction_rate_sftr(f),
              compute_dqi_reuse_err_retraction_rate_sftr(g))
  BY <1>1, <1>2
<1> QED BY <1>3 DEF f, g

LEMMA ReuseStateFigures ==
    ASSUME NEW fs, NEW gs, Rearranged(fs, gs), NEW d
    PROVE  LET f == Layer(fs, "reuse_state")
               g == Layer(gs, "reuse_state")
           IN  /\ Good(compute_dqi_reuse_state_volume_missing_sftr(f),
                       compute_dqi_reuse_state_volume_missing_sftr(g))
               /\ Good(compute_dqi_reuse_state_stale_sftr(f, d),
                       compute_dqi_reuse_state_stale_sftr(g, d))
<1> DEFINE f == Layer(fs, "reuse_state")
           g == Layer(gs, "reuse_state")
<1>1. Contents(g) = Contents(f) /\ \A a, b : ByRow(a, b, f, g) => Good(a, b)
  BY RearrangedLayers
<1> HIDE DEF f, g
<1>2. /\ ByRow(compute_dqi_reuse_state_volume_missing_sftr(f),
               compute_dqi_reuse_state_volume_missing_sftr(g), f, g)
      /\ ByRow(compute_dqi_reuse_state_stale_sftr(f, d),
               compute_dqi_reuse_state_stale_sftr(g, d), f, g)
  BY <1>1, ReuseByRow
<1>3. /\ Good(compute_dqi_reuse_state_volume_missing_sftr(f),
              compute_dqi_reuse_state_volume_missing_sftr(g))
      /\ Good(compute_dqi_reuse_state_stale_sftr(f, d), compute_dqi_reuse_state_stale_sftr(g, d))
  BY <1>1, <1>2
<1> QED BY <1>3 DEF f, g

LEMMA FeedbackFigures ==
    ASSUME NEW fs, NEW gs, Rearranged(fs, gs)
    PROVE  LET f == Layer(fs, "feedback")
               g == Layer(gs, "feedback")
           IN  /\ Good(compute_dqi_rej_rate(f), compute_dqi_rej_rate(g))
               /\ Good(compute_dqi_rej_repeat_uti(f), compute_dqi_rej_repeat_uti(g))
<1> DEFINE f == Layer(fs, "feedback")
           g == Layer(gs, "feedback")
<1>1. Contents(g) = Contents(f) /\ \A a, b : ByRow(a, b, f, g) => Good(a, b)
  BY RearrangedLayers
<1>2. PICK p : Reordered(f, g, p)
  BY RearrangedLayers
<1> HIDE DEF f, g
<1>3. ByRow(compute_dqi_rej_rate(f), compute_dqi_rej_rate(g), f, g)
  BY <1>1, ReportsByRow
<1>4. Good(compute_dqi_rej_rate(f), compute_dqi_rej_rate(g))
  BY <1>1, <1>3
<1>5. Good(compute_dqi_rej_repeat_uti(f), compute_dqi_rej_repeat_uti(g))
  BY <1>2, RepeatedRejections DEF Good
<1> QED BY <1>4, <1>5 DEF f, g

LEMMA MissingStateFigures ==
    ASSUME NEW fs, NEW gs, Rearranged(fs, gs)
    PROVE  Good(IF "msr" \in DOMAIN fs
                THEN compute_dqi_col_missing_state(Layer(fs, "tsr"), Layer(fs, "msr")) ELSE NotMeasured,
                IF "msr" \in DOMAIN gs
                THEN compute_dqi_col_missing_state(Layer(gs, "tsr"), Layer(gs, "msr")) ELSE NotMeasured)
<1>1. "msr" \in DOMAIN gs <=> "msr" \in DOMAIN fs
  BY DEF Rearranged
<1>2. Good(compute_dqi_col_missing_state(Layer(fs, "tsr"), Layer(fs, "msr")),
           compute_dqi_col_missing_state(Layer(gs, "tsr"), Layer(gs, "msr")))
  BY EmirStateFigures
<1>3. Good(NotMeasured, NotMeasured)
  BY RearrangedLayers, NotMeasuredByRow
<1> QED BY <1>1, <1>2, <1>3

LEMMA RequestFigures ==
    ASSUME NEW fs, NEW gs, Rearranged(fs, gs)
    PROVE  Good(compute_dqi_mcr_open_requests_sftr(Layer(fs, "mcr"),
                  IF "tsr" \in DOMAIN fs THEN <<Layer(fs, "tsr")>> ELSE << >>),
                compute_dqi_mcr_open_requests_sftr(Layer(gs, "mcr"),
                  IF "tsr" \in DOMAIN gs THEN <<Layer(gs, "tsr")>> ELSE << >>))
<1> DEFINE f == Layer(fs, "mcr")
           g == Layer(gs, "mcr")
           m == Layer(fs, "tsr")
           n == Layer(gs, "tsr")
<1>1. /\ Contents(g) = Contents(f) /\ Contents(n) = Contents(m)
      /\ \A a, b : ByRow(a, b, f, g) => Good(a, b)
  BY RearrangedLayers
<1>2. "tsr" \in DOMAIN gs <=> "tsr" \in DOMAIN fs
  BY DEF Rearranged
<1> HIDE DEF f, g, m, n
<1>3. /\ ByRow(compute_dqi_mcr_open_requests_sftr(f, <<m>>),
               compute_dqi_mcr_open_requests_sftr(g, <<n>>), f, g)
      /\ ByRow(compute_dqi_mcr_open_requests_sftr(f, << >>),
               compute_dqi_mcr_open_requests_sftr(g, << >>), f, g)
  BY <1>1, RequestsByRow
<1>4. /\ Good(compute_dqi_mcr_open_requests_sftr(f, <<m>>),
              compute_dqi_mcr_open_requests_sftr(g, <<n>>))
      /\ Good(compute_dqi_mcr_open_requests_sftr(f, << >>),
              compute_dqi_mcr_open_requests_sftr(g, << >>))
  BY <1>1, <1>3
<1>5. Good(compute_dqi_mcr_open_requests_sftr(f, IF "tsr" \in DOMAIN fs THEN <<m>> ELSE << >>),
           compute_dqi_mcr_open_requests_sftr(g, IF "tsr" \in DOMAIN gs THEN <<n>> ELSE << >>))
  BY <1>2, <1>4
<1> QED BY <1>5 DEF f, g, m, n

LEMMA SpikeFigures ==
    ASSUME NEW fs, NEW gs, Rearranged(fs, gs)
    PROVE  LET a == compute_dqi_mar_event_spike_sftr(Layer(fs, "mar"))
               b == compute_dqi_mar_event_spike_sftr(Layer(gs, "mar"))
           IN  Good(a, b) /\ (a.of \in {0, 4} => a.bad = 0)
<1> DEFINE f == Layer(fs, "mar")
           g == Layer(gs, "mar")
<1>1. PICK p : Reordered(f, g, p)
  BY RearrangedLayers
<1>2. IsFiniteSet(DOMAIN f)
  BY <1>1, ReorderedRows
<1>3. compute_dqi_mar_event_spike_sftr(g) = compute_dqi_mar_event_spike_sftr(f)
  BY <1>1, SpikesReordered
<1> HIDE DEF f, g
<1>4. /\ Evident(compute_dqi_mar_event_spike_sftr(f))
      /\ compute_dqi_mar_event_spike_sftr(f).of \in {0, 4}
           => compute_dqi_mar_event_spike_sftr(f).bad = 0
  BY <1>2, SpikesEvident
<1> QED BY <1>3, <1>4 DEF Good, SameFigures, f, g

\* The figures of the packs, whose means and totals need their terms to be numbers.
LEMMA EmirPackFigures ==
    ASSUME NEW fs, NEW gs, Rearranged(fs, gs), NEW d, NEW a, NEW b,
           a = compute_emir_dqi_pack(fs, d), b = compute_emir_dqi_pack(gs, d),
           \A i \in DOMAIN Layer(fs, "recon_stats") :
              /\ Net(Layer(fs, "recon_stats")[i]["pairing_rate"]) \in Int
              /\ Net(Layer(fs, "recon_stats")[i]["recon_rate"]) \in Int
    PROVE  /\ DOMAIN b = DOMAIN a /\ Means \subseteq DOMAIN a
           /\ \A id \in DOMAIN a : SameFigures(a[id], b[id])
           /\ \A id \in DOMAIN a \ Means : Evident(a[id])
           /\ a["DQI_PAIRING_RATE"] =
                MeanShortfall(Layer(fs, "recon_stats"), "pairing_rate", "DQI_PAIRING_RATE")
           /\ a["DQI_RECONCILIATION_RATE"] =
                MeanShortfall(Layer(fs, "recon_stats"), "recon_rate", "DQI_RECONCILIATION_RATE")
<1>1. PICK p : Reordered(Layer(fs, "recon_stats"), Layer(gs, "recon_stats"), p)
  BY RearrangedLayers
<1>2. /\ SameFigures(a["DQI_PAIRING_RATE"], b["DQI_PAIRING_RATE"])
      /\ a["DQI_PAIRING_RATE"] =
           MeanShortfall(Layer(fs, "recon_stats"), "pairing_rate", "DQI_PAIRING_RATE")
  BY <1>1, ShortfallReordered DEF compute_emir_dqi_pack, compute_dqi_pairing_rate
<1>3. /\ SameFigures(a["DQI_RECONCILIATION_RATE"], b["DQI_RECONCILIATION_RATE"])
      /\ a["DQI_RECONCILIATION_RATE"] =
           MeanShortfall(Layer(fs, "recon_stats"), "recon_rate", "DQI_RECONCILIATION_RATE")
  BY <1>1, ShortfallReordered DEF compute_emir_dqi_pack, compute_dqi_reconciliation_rate
<1>4. DOMAIN b = DOMAIN a /\ Means \subseteq DOMAIN a
  BY DEF compute_emir_dqi_pack, Means
<1>5. \A id \in DOMAIN a \ Means : Good(a[id], b[id])
  BY EmirStateFigures, EmirMarginFigures, ReportFigures, EmirReconciliationFigures,
     PositionFigures, FeedbackFigures, MissingStateFigures DEF compute_emir_dqi_pack, Means
<1> QED BY <1>2, <1>3, <1>4, <1>5 DEF Good, Means

LEMMA SftrPackFigures ==
    ASSUME NEW fs, NEW gs, Rearranged(fs, gs), NEW d, NEW a, NEW b,
           a = compute_sftr_dqi_pack(fs, d), b = compute_sftr_dqi_pack(gs, d),
           \A i \in DOMAIN Layer(fs, "tr_status_advice") :
              /\ Layer(fs, "tr_status_advice")[i].total_reports \in Int
              /\ Layer(fs, "tr_status_advice")[i].total_reports_rejected \in Int
    PROVE  /\ DOMAIN b = DOMAIN a
           /\ \A id \in DOMAIN a : SameFigures(a[id], b[id])
           /\ \A id \in DOMAIN a \ {"DQI_REJ_RATE_SFTR"} : Evident(a[id])
           /\ a["DQI_MAR_EVENT_SPIKE_SFTR"].of \in {0, 4} =>
                a["DQI_MAR_EVENT_SPIKE_SFTR"].bad = 0
<1>1. PICK p : Reordered(Layer(fs, "tr_status_advice"), Layer(gs, "tr_status_advice"), p)
  BY RearrangedLayers
<1>2. SameFigures(a["DQI_REJ_RATE_SFTR"], b["DQI_REJ_RATE_SFTR"])
  BY <1>1, TotalsReordered DEF compute_sftr_dqi_pack
<1>3. DOMAIN b = DOMAIN a
  BY DEF compute_sftr_dqi_pack
<1>4. /\ Good(a["DQI_MAR_EVENT_SPIKE_SFTR"], b["DQI_MAR_EVENT_SPIKE_SFTR"])
      /\ a["DQI_MAR_EVENT_SPIKE_SFTR"].of \in {0, 4} =>
           a["DQI_MAR_EVENT_SPIKE_SFTR"].bad = 0
  BY SpikeFigures DEF compute_sftr_dqi_pack
<1>5. \A id \in DOMAIN a \ {"DQI_REJ_RATE_SFTR"} : Good(a[id], b[id])
  BY EmirStateFigures, ReportFigures, SftrStateFigures, SftrReconciliationFigures,
     SftrMarginFigures, SftrCallFigures, ReuseFigures, ReuseStateFigures, RequestFigures,
     SpikeFigures DEF compute_sftr_dqi_pack, compute_dqi_lei_missing_sftr,
                      compute_dqi_tim_reporting_late_sftr
<1> QED BY <1>2, <1>3, <1>4, <1>5 DEF Good

LEMMA NonNegativeProduct == ASSUME NEW a \in Nat, NEW b \in Nat PROVE a * b \in Nat
  OBVIOUS

\* An indicator that shows nothing is not amber or red.
LEMMA QuietIndicator ==
    ASSUME NEW ind, ind.of \in Nat, ind.bad \in Int, NEW pair, pair[1] \in Nat,
           10000 * ind.bad <= pair[1] * ind.of
    PROVE  compute_status(ind, pair) \notin {"Amber", "Red"}
<1>1. CASE ind.of = 0
  BY <1>1 DEF compute_status
<1>2. CASE ind.of > 0
  <2> DEFINE few == 10000 * ind.bad <= pair[1] * ind.of
             many == 10000 * ind.bad > pair[1] * ind.of
  <2>1. compute_status(ind, pair) = CASE ind.of = 0 -> "NotApplicable"
                                      [] ind.of > 0 /\ few -> "Green"
                                      [] ind.of > 0 /\ many
                                           /\ 10000 * ind.bad <= pair[2] * ind.of -> "Amber"
                                      [] OTHER -> "Red"
    BY DEF compute_status
  <2>2. few /\ ~many
    <3> DEFINE x == 10000 * ind.bad
               y == pair[1] * ind.of
    <3>1. x \in Int /\ y \in Int /\ x <= y
      BY NonNegativeProduct
    <3> HIDE DEF x, y
    <3>2. x <= y /\ ~(x > y)
      BY <3>1
    <3> QED BY <3>2 DEF x, y
  <2> HIDE DEF few, many
  <2>3. ind.of # 0
    BY <1>2
  <2> QED BY <1>2, <2>1, <2>2, <2>3
<1> QED BY <1>1, <1>2

LEMMA ThresholdPairs == ASSUME NEW id PROVE resolve_threshold(id)[1] \in Nat
<1>1. CASE id \in DOMAIN Configured
  <2>1. resolve_threshold(id) = Configured[id]
    BY <1>1 DEF resolve_threshold
  <2>2. Configured[id] \in Nat \X Nat
    BY <1>1, PackAssumption
  <2> QED BY <2>1, <2>2
<1>2. CASE id \notin DOMAIN Configured /\ id \in DOMAIN DefaultPairs
  <2>1. resolve_threshold(id) = DefaultPairs[id]
    BY <1>2 DEF resolve_threshold
  <2>2. DefaultPairs[id][1] \in Nat
    BY <1>2 DEF DefaultPairs
  <2> QED BY <2>1, <2>2
<1>3. CASE id \notin DOMAIN Configured /\ id \notin DOMAIN DefaultPairs
  BY <1>3 DEF resolve_threshold
<1> QED BY <1>1, <1>2, <1>3

LEMMA EvidentShows ==
    ASSUME NEW ind, Evident(ind), NEW id,
           compute_status(ind, resolve_threshold(id)) \in {"Amber", "Red"}
    PROVE  ind.rows # {}
<1> SUFFICES ASSUME ind.rows = {} PROVE FALSE
  OBVIOUS
<1>1. ind.of \in Nat /\ ind.bad = 0
  BY DEF Evident
<1>2. resolve_threshold(id)[1] * ind.of \in Nat
  BY <1>1, ThresholdPairs, NonNegativeProduct
<1>3. 10000 * ind.bad <= resolve_threshold(id)[1] * ind.of
  BY <1>1, <1>2
<1> QED BY <1>1, <1>3, ThresholdPairs, QuietIndicator

\* A mean is no higher than the highest of what it is the mean of.
LEMMA MeanShows ==
    ASSUME NEW f, IsFiniteSet(DOMAIN f), NEW rate, \A i \in DOMAIN f : Net(f[i][rate]) \in Int,
           NEW id, NEW ind, ind = MeanShortfall(f, rate, id),
           compute_status(ind, resolve_threshold(id)) \in {"Amber", "Red"}
    PROVE  ind.rows # {}
<1> SUFFICES ASSUME ind.rows = {} PROVE FALSE
  OBVIOUS
<1> DEFINE S == {i \in DOMAIN f : Has(f[i][rate])}
           F == [i \in S |-> 100 - Net(f[i][rate])]
           amber == resolve_threshold(id)[1]
           n == Cardinality(S)
           total == SumFunctionOnSet(F, S)
<1>1. ind = [of |-> 100 * n, bad |-> total, rows |-> {i \in S : 100 * F[i] > amber}]
  BY ShortfallOf
<1>2. IsFiniteSet(S) /\ n \in Nat
  BY FS_Subset, FS_CardinalityType
<1>3. \A i \in S : F[i] \in Int
  OBVIOUS
<1>4. amber \in Nat
  BY ThresholdPairs
<1> HIDE DEF S, F, amber
<1>5. \A i \in S : 100 * F[i] <= amber
  BY <1>1, <1>3, <1>4
<1>6. total \in Int /\ 100 * total <= amber * n
  <2>1. total \in Int
    BY <1>2, <1>3, SumStep
  <2>2. amber \in Int /\ 100 \in Int
    BY <1>4
  <2>3. \A i \in S : F[i] \in Int /\ 100 * F[i] <= amber
    BY <1>3, <1>5
  <2>4. 100 * SumFunctionOnSet(F, S) <= amber * Cardinality(S)
    BY <1>2, <2>2, <2>3, SumBound
  <2> QED BY <2>1, <2>4
<1> HIDE DEF n, total
<1>7. ind.of \in Nat /\ ind.bad \in Int /\ 10000 * ind.bad <= amber * ind.of
  BY <1>1, <1>2, <1>4, <1>6
<1> QED BY <1>4, <1>7, QuietIndicator DEF amber

\* What the means and totals add up.
LEMMA NumbersAtHand ==
    ASSUME TypeOK
    PROVE  /\ Emir => \A i \in DOMAIN Layer(files, "recon_stats") :
                /\ Net(Layer(files, "recon_stats")[i]["pairing_rate"]) \in Int
                /\ Net(Layer(files, "recon_stats")[i]["recon_rate"]) \in Int
           /\ ~Emir => \A i \in DOMAIN Layer(files, "tr_status_advice") :
                /\ Layer(files, "tr_status_advice")[i].total_reports \in Int
                /\ Layer(files, "tr_status_advice")[i].total_reports_rejected \in Int
<1>1. ASSUME NEW layer \in DOMAIN files, NEW i \in DOMAIN files[layer]
      PROVE  IsRow(files[layer][i], layer, LayersOf(regime)[layer])
  BY DEF TypeOK, AreFiles, IsFile
<1>2. ASSUME Emir, "recon_stats" \in DOMAIN files, NEW i \in DOMAIN files["recon_stats"],
             NEW field \in {"pairing_rate", "recon_rate"}
      PROVE  Net(files["recon_stats"][i][field]) \in Int
  <2>1. field \in LayersOf(regime)["recon_stats"]
    BY <1>2 DEF LayersOf, Emir, EmirLayers, ReconStatsRecord
  <2>2. files["recon_stats"][i][field] \in AnswerType(field)
    BY <1>1, <1>2, <2>1 DEF IsRow, ValueType
  <2>3. AnswerType(field) = [sgn : {-1, 0, 1}, bn : Nat, scale : Int]
    <3>1. field \notin AnswerTimes /\ field \in AnswerAmounts
      BY DEF AnswerTimes, AnswerAmounts
    <3>2. /\ field \notin {"regime", "feedback_type", "reported_field", "level", "reuse_indicator"}
          /\ field \notin {"mismatched_fields", "rejected_reports_per_error"}
          /\ field \notin {"total_reports", "total_reports_rejected"}
      OBVIOUS
    <3> QED BY <3>1, <3>2 DEF AnswerType
  <2>4. \A a \in [sgn : {-1, 0, 1}, bn : Nat, scale : Int] : Net(a) \in Int
    BY DEF Net
  <2> QED BY <2>2, <2>3, <2>4
<1>3. ASSUME ~Emir, "tr_status_advice" \in DOMAIN files, NEW i \in DOMAIN files["tr_status_advice"],
             NEW field \in {"total_reports", "total_reports_rejected"}
      PROVE  files["tr_status_advice"][i][field] \in Int
  <2>1. field \in LayersOf(regime)["tr_status_advice"]
    BY <1>3 DEF LayersOf, Emir, SftrLayers, SftrTrStatusAdviceRecord
  <2>2. files["tr_status_advice"][i][field] \in AnswerType(field)
    BY <1>1, <1>3, <2>1 DEF IsRow, ValueType
  <2>3. AnswerType(field) = Nat
    <3>1. field \notin AnswerTimes /\ field \notin AnswerAmounts
      BY DEF AnswerTimes, AnswerAmounts, ImCurrent, VmCurrent, Posted, Collected, PostedSide,
             ReceivedSide
    <3>2. /\ field \notin {"regime", "feedback_type", "reported_field", "level", "reuse_indicator"}
          /\ field \notin {"mismatched_fields", "rejected_reports_per_error"}
      OBVIOUS
    <3> QED BY <3>1, <3>2 DEF AnswerType
  <2> QED BY <2>2, <2>3
<1>4. Emir => \A i \in DOMAIN Layer(files, "recon_stats") :
                 /\ Net(Layer(files, "recon_stats")[i]["pairing_rate"]) \in Int
                 /\ Net(Layer(files, "recon_stats")[i]["recon_rate"]) \in Int
  BY <1>2 DEF Layer
<1>5. ~Emir => \A i \in DOMAIN Layer(files, "tr_status_advice") :
                  /\ Layer(files, "tr_status_advice")[i]["total_reports"] \in Int
                  /\ Layer(files, "tr_status_advice")[i]["total_reports_rejected"] \in Int
  BY <1>3 DEF Layer
<1> QED BY <1>4, <1>5

LEMMA FilesRearranged ==
    ASSUME TypeOK
    PROVE  Rearranged(files, files) /\ Rearranged(files, Backwards(files))
<1>1. ASSUME NEW layer \in DOMAIN files
      PROVE  /\ \E p : Reordered(files[layer], files[layer], p)
             /\ \E p : Reordered(files[layer], Reverse(files[layer]), p)
  <2>1. /\ DOMAIN files[layer] = 1 .. Len(files[layer]) /\ Len(files[layer]) \in Nat
        /\ IsFiniteSet(DOMAIN files[layer])
    BY EmirFile, FiniteRows
  <2> QED BY <2>1, SameOrder, ReverseOrder
<1> QED BY <1>1 DEF Rearranged, Backwards

\* An indicator that turns amber or red shows rows to look at: for every rate it
\* counts what it shows, and a mean above its limit has a term above it.
THEOREM AlarmsAreEvident == Spec => []AlarmsShowRows
<1>1. TypeOK => AlarmsShowRows
  <2> SUFFICES ASSUME TypeOK PROVE AlarmsShowRows
    OBVIOUS
  <2> DEFINE pack == Pack(files, day)
             Alarming(id) == compute_status(pack[id], resolve_threshold(id)) \in {"Amber", "Red"}
  <2>1. CASE Emir
    <3> DEFINE stats == Layer(files, "recon_stats")
    <3>1. \A i \in DOMAIN stats : /\ Net(stats[i]["pairing_rate"]) \in Int
                                  /\ Net(stats[i]["recon_rate"]) \in Int
      BY <2>1, NumbersAtHand
    <3>2. IsFiniteSet(DOMAIN stats)
      BY FilesRearranged, RearrangedLayers, ReorderedRows
    <3>3. pack = compute_emir_dqi_pack(files, day)
      BY <2>1 DEF Pack
    <3>4. /\ \A id \in DOMAIN pack \ Means : Evident(pack[id])
          /\ pack["DQI_PAIRING_RATE"] = MeanShortfall(stats, "pairing_rate", "DQI_PAIRING_RATE")
          /\ pack["DQI_RECONCILIATION_RATE"] =
               MeanShortfall(stats, "recon_rate", "DQI_RECONCILIATION_RATE")
      BY <3>1, <3>3, FilesRearranged, EmirPackFigures
    <3> HIDE DEF pack, stats
    <3>5. \A id \in Means : Alarming(id) => pack[id].rows # {}
      BY <3>1, <3>2, <3>4, MeanShows DEF Means
    <3>6. \A id \in DOMAIN pack : Alarming(id) => pack[id].rows # {}
      BY <3>4, <3>5, EvidentShows
    <3> QED BY <2>1, <3>6 DEF AlarmsShowRows, pack
  <2>2. CASE ~Emir
    <3> DEFINE spike == pack["DQI_MAR_EVENT_SPIKE_SFTR"]
    <3>1. pack = compute_sftr_dqi_pack(files, day)
      BY <2>2 DEF Pack
    <3>2. /\ \A id \in DOMAIN pack \ {"DQI_REJ_RATE_SFTR"} : Evident(pack[id])
          /\ spike.of \in {0, 4} => spike.bad = 0
      BY <2>2, <3>1, FilesRearranged, NumbersAtHand, SftrPackFigures
    <3> HIDE DEF pack
    <3>3. \A id \in DOMAIN pack \ {"DQI_REJ_RATE_SFTR"} : Alarming(id) => pack[id].rows # {}
      BY <3>2, EvidentShows
    <3> QED BY <3>2, <3>3 DEF AlarmsShowRows, pack
  <2> QED BY <2>1, <2>2
<1> QED BY <1>1, PackTypeCorrect, PTL

----------------------------------------------------------------------------
(* What is said of the rows in another order *)

LEMMA ActionsReordered ==
    ASSUME NEW f, NEW g, NEW p, Reordered(f, g, p), NEW types
    PROVE  Cardinality({i \in DOMAIN g : Acts(g[i], types)})
             = Cardinality({i \in DOMAIN f : Acts(f[i], types)})
<1> DEFINE S(h) == {i \in DOMAIN h : Acts(h[i], types)}
<1>1. \A i \in DOMAIN f : p[i] \in DOMAIN g /\ g[p[i]] = f[i]
  BY ReorderedRows
<1>2. \A i \in DOMAIN f : i \in S(f) <=> p[i] \in S(g)
  BY <1>1
<1>3. S(f) \in SUBSET DOMAIN f /\ S(g) \in SUBSET DOMAIN g
  OBVIOUS
<1> HIDE DEF S
<1>4. Cardinality(S(g)) = Cardinality(S(f))
  BY <1>2, <1>3, SameCount
<1> QED BY <1>4 DEF S

LEMMA SharesReordered ==
    ASSUME NEW f, NEW g, NEW p, Reordered(f, g, p), Len(g) = Len(f)
    PROVE  TarBatchIssues(g) = TarBatchIssues(f) /\ SftrTarBatchIssues(g) = SftrTarBatchIssues(f)
<1>1. \A types : ActionsShare(g, types) = ActionsShare(f, types)
  <2>1. \A h, types : ActionsShare(h, types) =
           [of |-> Len(h), bad |-> Cardinality({i \in DOMAIN h : Acts(h[i], types)})]
    BY DEF ActionsShare, Share, Rows
  <2>2. \A types : Cardinality({i \in DOMAIN g : Acts(g[i], types)})
                     = Cardinality({i \in DOMAIN f : Acts(f[i], types)})
    BY ActionsReordered
  <2> QED BY <2>1, <2>2
<1>2. EmirSpikeModi(g) = EmirSpikeModi(f) /\ EmirSpikeTerm(g) = EmirSpikeTerm(f)
  BY <1>1 DEF EmirSpikeModi, EmirSpikeTerm
<1> QED BY <1>2 DEF TarBatchIssues, SftrTarBatchIssues, SftrSpikeModi, SftrSpikeTerm

LEMMA RepeatedReordered ==
    ASSUME NEW f, NEW g, NEW p, Reordered(f, g, p), NEW uti
    PROVE  Repeated(uti, g) <=> Repeated(uti, f)
<1> DEFINE S(h) == {i \in DOMAIN h : SameBytes(h[i].uti, uti)}
<1>1. \A i \in DOMAIN f : i \in S(f) <=> p[i] \in S(g)
  BY ReorderedRows
<1>2. S(f) \in SUBSET DOMAIN f /\ S(g) \in SUBSET DOMAIN g
  OBVIOUS
<1>3. \A h : Repeated(uti, h) <=> Cardinality(S(h)) > 1
  BY DEF Repeated
<1> HIDE DEF S
<1> QED BY <1>1, <1>2, <1>3, SameCount

LEMMA StateChecksReordered ==
    ASSUME NEW f, NEW g, NEW p, Reordered(f, g, p), NEW i \in DOMAIN f, NEW now
    PROVE  /\ TsrIssues(p[i], g, now) = TsrIssues(i, f, now)
           /\ SftrTsrIssues(p[i], g, now) = SftrTsrIssues(i, f, now)
<1>1. /\ \A k \in DOMAIN f : p[k] \in DOMAIN g /\ g[p[k]] = f[k]
      /\ \A k, j \in DOMAIN f : p[k] = p[j] => k = j
      /\ \A k \in DOMAIN g : \E j \in DOMAIN f : p[j] = k
  BY ReorderedRows
<1>2. (\E j \in DOMAIN g \ {p[i]} : is_outstanding(g[j]) /\ SameBytes(f[i].uti, g[j].uti))
        <=> (\E j \in DOMAIN f \ {i} : is_outstanding(f[j]) /\ SameBytes(f[i].uti, f[j].uti))
  BY <1>1
<1>3. g[p[i]] = f[i]
  BY <1>1
<1>4. EmirDuplicateActiveUti(p[i], g) = EmirDuplicateActiveUti(i, f)
  BY <1>2, <1>3 DEF EmirDuplicateActiveUti
<1> QED BY <1>3, <1>4 DEF TsrIssues, SftrTsrIssues, SftrDuplicateActiveUti

\* The state report may be reordered as well.
LEMMA ActivityChecksReordered ==
    ASSUME NEW f, NEW g, NEW p, Reordered(f, g, p), NEW i \in DOMAIN f, NEW m, NEW n,
           \/ m = << >> /\ n = << >>
           \/ m # << >> /\ n # << >> /\ Contents(n[1]) = Contents(m[1])
    PROVE  /\ TarIssues(p[i], g, n) = TarIssues(i, f, m)
           /\ SftrTarIssues(p[i], g, n) = SftrTarIssues(i, f, m)
<1>1. /\ \A k \in DOMAIN f : p[k] \in DOMAIN g /\ g[p[k]] = f[k]
      /\ g[p[i]] = f[i]
  BY ReorderedRows
<1>2. ASSUME NEW types
      PROVE  Cardinality(SameTrade(g, p[i], types)) = Cardinality(SameTrade(f, i, types))
  <2>1. \A k \in DOMAIN f : k \in SameTrade(f, i, types) <=> p[k] \in SameTrade(g, p[i], types)
    BY <1>1 DEF SameTrade
  <2>2. SameTrade(f, i, types) \in SUBSET DOMAIN f /\ SameTrade(g, p[i], types) \in SUBSET DOMAIN g
    BY DEF SameTrade
  <2> QED BY <2>1, <2>2, SameCount
<1>3. /\ EmirDuplicateNewtInBatch(p[i], g) = EmirDuplicateNewtInBatch(i, f)
      /\ EmirRepeatedCorrection(p[i], g) = EmirRepeatedCorrection(i, f)
  <2>1. /\ Cardinality(SameTrade(g, p[i], {"NEWT"})) = Cardinality(SameTrade(f, i, {"NEWT"}))
        /\ Cardinality(SameTrade(g, p[i], {"CORR", "MODI"}))
             = Cardinality(SameTrade(f, i, {"CORR", "MODI"}))
    BY <1>2
  <2>2. g[p[i]] = f[i]
    BY <1>1
  <2>3. EmirDuplicateNewtInBatch(p[i], g) = EmirDuplicateNewtInBatch(i, f)
    BY <2>1, <2>2 DEF EmirDuplicateNewtInBatch
  <2>4. EmirRepeatedCorrection(p[i], g) = EmirRepeatedCorrection(i, f)
    BY <2>1, <2>2 DEF EmirRepeatedCorrection
  <2> QED BY <2>3, <2>4
<1>4. m # << >> /\ n # << >> => \A uti : HasUti(n[1], uti) <=> HasUti(m[1], uti)
  <2>1. \A h, uti : HasUti(h, uti) <=> \E r \in Contents(h) : SameBytes(r.uti, uti)
    BY DEF HasUti, Contents
  <2> QED BY <2>1
<1>5. EmirNewtNotInTsr(f[i], n) = EmirNewtNotInTsr(f[i], m)
  BY <1>4 DEF EmirNewtNotInTsr
<1> QED BY <1>1, <1>3, <1>5 DEF TarIssues, SftrTarIssues, SftrDuplicateNewtInBatch,
                                SftrRepeatedCorrection, SftrNewtNotInTsr

LEMMA RecordsReordered ==
    ASSUME NEW f, NEW g, NEW p, Reordered(f, g, p), NEW r, NEW now
    PROVE  EmirIssues(r, g, now) = EmirIssues(r, f, now) /\ SftrIssues(r, g, now) = SftrIssues(r, f, now)
<1>1. DuplicateUti(r, g) = DuplicateUti(r, f) /\ SftrDuplicateUti(r, g) = SftrDuplicateUti(r, f)
  BY RepeatedReordered DEF DuplicateUti, SftrDuplicateUti
<1> QED BY <1>1 DEF EmirIssues, SftrIssues

\* Two margin calls of one portfolio at one time: which of them is the earlier
\* one is up to the order of the file.
CallsAtOnce(f) ==
    \E i, j \in DOMAIN f : i # j /\ SamePortfolio(f, i, j) /\ f[i].event_timestamp = f[j].event_timestamp

LEMMA PreviousReordered ==
    ASSUME NEW f, NEW g, NEW p, Reordered(f, g, p), NEW j \in DOMAIN f, ~CallsAtOnce(f),
           DOMAIN f \subseteq Int, DOMAIN g \subseteq Int
    PROVE  \A i \in DOMAIN f : i \in PreviousCalls(f, j) <=> p[i] \in PreviousCalls(g, p[j])
<1>1. /\ \A k \in DOMAIN f : p[k] \in DOMAIN g /\ g[p[k]] = f[k]
      /\ \A k, l \in DOMAIN f : p[k] = p[l] => k = l
      /\ \A k \in DOMAIN g : \E l \in DOMAIN f : p[l] = k
  BY ReorderedRows
<1>2. \A k, l \in DOMAIN f : SamePortfolio(g, p[k], p[l]) <=> SamePortfolio(f, k, l)
  BY <1>1 DEF SamePortfolio
<1>3. \A k, l \in DOMAIN f : SamePortfolio(f, k, l) =>
         /\ EarlierCall(f, k, l) <=> f[k].event_timestamp < f[l].event_timestamp
         /\ EarlierCall(g, p[k], p[l]) <=> f[k].event_timestamp < f[l].event_timestamp
  <2> SUFFICES ASSUME NEW k \in DOMAIN f, NEW l \in DOMAIN f, SamePortfolio(f, k, l)
               PROVE  /\ EarlierCall(f, k, l) <=> f[k].event_timestamp < f[l].event_timestamp
                      /\ EarlierCall(g, p[k], p[l]) <=> f[k].event_timestamp < f[l].event_timestamp
    OBVIOUS
  <2>1. ~(f[k].event_timestamp = f[l].event_timestamp /\ k < l)
    BY DEF CallsAtOnce
  <2>2. ~(f[k].event_timestamp = f[l].event_timestamp /\ p[k] < p[l])
    <3>1. p[k] \in Int /\ p[l] \in Int
      BY <1>1
    <3>2. CASE k = l
      BY <3>1, <3>2
    <3>3. CASE k # l
      BY <3>3 DEF CallsAtOnce
    <3> QED BY <3>2, <3>3
  <2> QED BY <1>1, <2>1, <2>2 DEF EarlierCall
<1>4. \A k, l \in DOMAIN f : SamePortfolio(f, k, j) /\ SamePortfolio(f, l, j) => SamePortfolio(f, k, l)
  BY DEF SamePortfolio
<1>5. ASSUME NEW i \in DOMAIN f, SamePortfolio(f, i, j)
      PROVE  (\E k \in DOMAIN f : /\ SamePortfolio(f, k, j)
                                  /\ EarlierCall(f, i, k) /\ EarlierCall(f, k, j))
               <=> (\E k \in DOMAIN g : /\ SamePortfolio(g, k, p[j])
                                        /\ EarlierCall(g, p[i], k) /\ EarlierCall(g, k, p[j]))
  BY <1>1, <1>2, <1>3, <1>4, <1>5
<1> SUFFICES ASSUME NEW i \in DOMAIN f PROVE i \in PreviousCalls(f, j) <=> p[i] \in PreviousCalls(g, p[j])
  OBVIOUS
<1>6. p[i] \in DOMAIN g /\ p[j] \in DOMAIN g
  BY <1>1
<1>7. CASE SamePortfolio(f, i, j)
  BY <1>2, <1>3, <1>5, <1>6, <1>7 DEF PreviousCalls
<1>8. CASE ~SamePortfolio(f, i, j)
  BY <1>2, <1>8 DEF PreviousCalls
<1> QED BY <1>7, <1>8

LEMMA MarginChecksReordered ==
    ASSUME NEW f, NEW g, NEW p, Reordered(f, g, p), NEW j \in DOMAIN f,
           DOMAIN f \subseteq Int, DOMAIN g \subseteq Int,
           NEW issue \in (MarIssues(j, f) \ MarIssues(p[j], g))
                           \union (MarIssues(p[j], g) \ MarIssues(j, f))
    PROVE  issue.id = "MAR.LARGE_MARGIN_DELTA" /\ CallsAtOnce(f)
<1>1. /\ \A k \in DOMAIN f : p[k] \in DOMAIN g /\ g[p[k]] = f[k]
      /\ \A k, l \in DOMAIN f : p[k] = p[l] => k = l
      /\ \A k \in DOMAIN g : \E l \in DOMAIN f : p[l] = k
      /\ g[p[j]] = f[j]
  BY ReorderedRows
<1>2. EmirMarDuplicateMarginCall(p[j], g) = EmirMarDuplicateMarginCall(j, f)
  <2>1. (\E k \in DOMAIN g \ {p[j]} :
            SamePortfolio(g, p[j], k) /\ g[p[j]].event_timestamp = g[k].event_timestamp)
          <=> (\E k \in DOMAIN f \ {j} :
                  SamePortfolio(f, j, k) /\ f[j].event_timestamp = f[k].event_timestamp)
    BY <1>1 DEF SamePortfolio
  <2> QED BY <1>1, <2>1 DEF EmirMarDuplicateMarginCall
<1>3. issue \in EmirMarLargeMarginDelta(j, f) \union EmirMarLargeMarginDelta(p[j], g)
      /\ EmirMarLargeMarginDelta(j, f) # EmirMarLargeMarginDelta(p[j], g)
  BY <1>1, <1>2 DEF MarIssues
<1>4. \A k, h : \A said \in EmirMarLargeMarginDelta(k, h) : said.id = "MAR.LARGE_MARGIN_DELTA"
  BY DEF EmirMarLargeMarginDelta, Issue
<1>5. CallsAtOnce(f)
  <2> SUFFICES ASSUME ~CallsAtOnce(f) PROVE EmirMarLargeMarginDelta(p[j], g) = EmirMarLargeMarginDelta(j, f)
    BY <1>3
  <2> DEFINE Delta(h, k, i, field) ==
               Issue(/\ Has(h[i][field]) /\ Has(h[k][field]) /\ ~IsZero(h[i][field])
                     /\ Far(h[i][field], h[k][field], 50),
                     "MAR.LARGE_MARGIN_DELTA", "Warning", field)
  <2>1. \A i \in DOMAIN f : i \in PreviousCalls(f, j) <=> p[i] \in PreviousCalls(g, p[j])
    BY PreviousReordered
  <2>2. \A h, k : EmirMarLargeMarginDelta(k, h) =
           UNION {Delta(h, k, i, field) : i \in PreviousCalls(h, k), field \in Posted}
    BY DEF EmirMarLargeMarginDelta
  <2>3. \A i \in DOMAIN f : \A field : Delta(g, p[j], p[i], field) = Delta(f, j, i, field)
    BY <1>1
  <2>4. /\ PreviousCalls(f, j) \subseteq DOMAIN f /\ PreviousCalls(g, p[j]) \subseteq DOMAIN g
    BY DEF PreviousCalls
  <2> HIDE DEF Delta
  <2>5. \A h, k, said : said \in EmirMarLargeMarginDelta(k, h) <=>
           \E i \in PreviousCalls(h, k), field \in Posted : said \in Delta(h, k, i, field)
    BY <2>2
  <2>6. \A said : said \in EmirMarLargeMarginDelta(p[j], g) <=> said \in EmirMarLargeMarginDelta(j, f)
    BY <1>1, <2>1, <2>3, <2>4, <2>5
  <2> QED BY <2>6
<1> QED BY <1>3, <1>4, <1>5

\* Of two rows of one UTI the cross-reference takes the last.
LEMMA RequestsReordered ==
    ASSUME NEW f, NEW g, NEW p, Reordered(f, g, p), NEW r,
           DOMAIN f \subseteq Int, DOMAIN g \subseteq Int,
           \A i, j \in DOMAIN f : i # j => ~SameBytes(f[i].uti, f[j].uti)
    PROVE  McrIssues(r, <<g>>) = McrIssues(r, <<f>>)
<1> DEFINE S(h) == {k \in DOMAIN h : h[k].uti = r.uti}
           LastRow(h) == CHOOSE k \in S(h) : \A j \in S(h) : j <= k
<1>1. \A h : StateRows(r.uti, <<h>>) = S(h) /\ StateOf(r.uti, <<h>>) = h[LastRow(h)]
  BY DEF StateRows, StateOf
<1>2. /\ \A k \in DOMAIN f : p[k] \in DOMAIN g /\ g[p[k]] = f[k]
      /\ \A k \in DOMAIN g : \E l \in DOMAIN f : p[l] = k
  BY ReorderedRows
<1>3. S(g) = {} <=> S(f) = {}
  BY <1>2
<1>4. ASSUME S(f) # {} PROVE g[LastRow(g)] = f[LastRow(f)]
  <2>1. PICK k \in DOMAIN f : k \in S(f)
    BY <1>4
  <2>2. S(f) = {k}
    <3>1. ASSUME NEW i \in S(f) PROVE i = k
      <4>1. i \in DOMAIN f /\ f[i].uti = f[k].uti
        BY <2>1
      <4>2. SameBytes(f[i].uti, f[k].uti)
        BY <4>1 DEF SameBytes
      <4> QED BY <4>1, <4>2
    <3> QED BY <2>1, <3>1
  <2>3. S(g) = {p[k]}
    BY <1>2, <2>1, <2>2
  <2>4. k \in Int /\ p[k] \in Int
    BY <1>2, <2>1
  <2>5. LastRow(f) = k /\ LastRow(g) = p[k]
    BY <2>2, <2>3, <2>4
  <2> HIDE DEF LastRow, S
  <2> QED BY <1>2, <2>1, <2>5
<1>5. SftrMcrCollateralStateCrossRef(r, <<g>>) = SftrMcrCollateralStateCrossRef(r, <<f>>)
  <2> HIDE DEF LastRow, S
  <2>1. \A h : SftrMcrCollateralStateCrossRef(r, <<h>>) =
           IF ~Given(r.uti) THEN {}
           ELSE IF S(h) = {} THEN Issue(TRUE, "MCR.REQUESTED_UTI_NOT_IN_TSR", "High", "")
           ELSE IF has_collateral(h[LastRow(h)])
           THEN Issue(TRUE, "MCR.COLLATERAL_PRESENT_IN_TSR", "Info", "")
           ELSE Issue(TRUE, "MCR.STILL_MISSING_IN_TSR", "High", "")
    <3> SUFFICES ASSUME NEW h
                 PROVE  SftrMcrCollateralStateCrossRef(r, <<h>>) =
                          IF ~Given(r.uti) THEN {}
                          ELSE IF S(h) = {} THEN Issue(TRUE, "MCR.REQUESTED_UTI_NOT_IN_TSR", "High", "")
                          ELSE IF has_collateral(h[LastRow(h)])
                          THEN Issue(TRUE, "MCR.COLLATERAL_PRESENT_IN_TSR", "Info", "")
                          ELSE Issue(TRUE, "MCR.STILL_MISSING_IN_TSR", "High", "")
      OBVIOUS
    <3>2. /\ StateRows(r.uti, <<h>>) = S(h) /\ StateOf(r.uti, <<h>>) = h[LastRow(h)]
          /\ <<h>> # << >>
      BY <1>1
    <3> QED BY <3>2 DEF SftrMcrCollateralStateCrossRef
  <2> QED BY <1>3, <1>4, <2>1
<1> QED BY <1>5 DEF McrIssues

\* What may be said differently of a row when its file is in another order.
Excused(layer, issue) ==
    \/ Emir /\ layer = "mar" /\ issue.id = "MAR.LARGE_MARGIN_DELTA" /\ SameMoment
    \/ layer = "mcr" /\ Competing("tsr")

LEMMA BackwardsFiles ==
    ASSUME TypeOK, NEW back, back = Backwards(files)
    PROVE  /\ DOMAIN back = DOMAIN files
           /\ \A layer \in DOMAIN files :
                 /\ \E p : Reordered(files[layer], back[layer], p)
                 /\ Len(back[layer]) = Len(files[layer])
                 /\ DOMAIN files[layer] \subseteq Int /\ DOMAIN back[layer] \subseteq Int
                 /\ Contents(back[layer]) = Contents(files[layer])
<1>1. DOMAIN back = DOMAIN files /\ \A layer \in DOMAIN files : back[layer] = Reverse(files[layer])
  BY DEF Backwards
<1> SUFFICES ASSUME NEW layer \in DOMAIN files
             PROVE  /\ \E p : Reordered(files[layer], back[layer], p)
                    /\ Len(back[layer]) = Len(files[layer])
                    /\ DOMAIN files[layer] \subseteq Int /\ DOMAIN back[layer] \subseteq Int
                    /\ Contents(back[layer]) = Contents(files[layer])
  BY <1>1
<1> DEFINE f == files[layer]
<1>2. /\ DOMAIN f = 1 .. Len(f) /\ Len(f) \in Nat
  BY EmirFile, FiniteRows
<1>3. PICK p : Reordered(f, back[layer], p)
  BY <1>1, <1>2, ReverseOrder
<1>4. /\ DOMAIN back[layer] = 1 .. Len(f) /\ Len(back[layer]) = Len(f)
  <2>1. back[layer] = [i \in 1 .. Len(f) |-> f[(Len(f) - i) + 1]]
    BY <1>1 DEF Reverse
  <2> HIDE DEF f
  <2> QED BY <1>2, <2>1
<1>5. Contents(back[layer]) = Contents(f)
  BY <1>3, ReorderedRows
<1> QED BY <1>2, <1>3, <1>4, <1>5

LEMMA ScansOfOneRow ==
    ASSUME NEW fs, NEW gs, NEW layer \in DOMAIN LayersOf(regime) \ {"tsr", "tar", "feedback", "mcr"},
           ~(Emir /\ layer = "mar"), NEW i, NEW k, gs[layer][k] = fs[layer][i], NEW now
    PROVE  RowIssues(gs, layer, k, now) = RowIssues(fs, layer, i, now)
  BY DEF RowIssues, LayersOf, EmirLayers, SftrLayers, Emir

LEMMA FeedbackAnyOrder ==
    ASSUME NEW r, NEW f, NEW g, Contents(g) = Contents(f)
    PROVE  FeedbackIssues(r, g) = FeedbackIssues(r, f)
<1>1. \A h, uti : priors_with_newt(h, uti) <=>
         \E s \in Contents(h) : Acts(s, {"NEWT"}) /\ SameBytes(s.uti, uti)
  BY DEF priors_with_newt, Contents
<1>2. \A uti : priors_with_newt(g, uti) <=> priors_with_newt(f, uti)
  BY <1>1
<1>3. /\ TrMissingButNotSent(r, g) = TrMissingButNotSent(r, f)
      /\ TrMissingDespiteSubmission(r, g) = TrMissingDespiteSubmission(r, f)
  BY <1>2 DEF TrMissingButNotSent, TrMissingDespiteSubmission
<1> QED BY <1>3 DEF FeedbackIssues

LEMMA RowsAnyOrder ==
    ASSUME TypeOK, NEW back, back = Backwards(files), NEW layer \in DOMAIN files,
           NEW p, Reordered(files[layer], back[layer], p), NEW i \in DOMAIN files[layer], NEW now,
           NEW issue \in (RowIssues(files, layer, i, now) \ RowIssues(back, layer, p[i], now))
                           \union (RowIssues(back, layer, p[i], now) \ RowIssues(files, layer, i, now))
    PROVE  Excused(layer, issue)
<1> DEFINE f == files[layer]
           g == back[layer]
<1>1. g[p[i]] = f[i] /\ p[i] \in DOMAIN g
  BY ReorderedRows
<1>2. /\ DOMAIN back = DOMAIN files
      /\ \A l \in DOMAIN files : Contents(back[l]) = Contents(files[l])
      /\ DOMAIN f \subseteq Int /\ DOMAIN g \subseteq Int
  BY BackwardsFiles
<1>3. \/ Companion(files) = << >> /\ Companion(back) = << >>
      \/ /\ Companion(files) # << >> /\ Companion(back) # << >>
         /\ Contents(Companion(back)[1]) = Contents(Companion(files)[1])
  <2>1. CASE "tsr" \in DOMAIN files
    <3>1. Companion(files) = <<files["tsr"]>> /\ Companion(back) = <<back["tsr"]>>
      BY <1>2, <2>1 DEF Companion
    <3> QED BY <1>2, <2>1, <3>1
  <2>2. CASE "tsr" \notin DOMAIN files
    BY <1>2, <2>2 DEF Companion
  <2> QED BY <2>1, <2>2
<1>4. CASE layer = "tsr"
  <2>1. /\ TsrIssues(p[i], g, now) = TsrIssues(i, f, now)
        /\ SftrTsrIssues(p[i], g, now) = SftrTsrIssues(i, f, now)
    BY StateChecksReordered
  <2>2. RowIssues(back, "tsr", p[i], now) = RowIssues(files, "tsr", i, now)
    BY <1>1, <1>4, <2>1, EmirScans, SftrScans
  <2> QED BY <1>4, <2>2
<1>5. CASE layer = "tar"
  <2>1. /\ TarIssues(p[i], g, Companion(back)) = TarIssues(i, f, Companion(files))
        /\ SftrTarIssues(p[i], g, Companion(back)) = SftrTarIssues(i, f, Companion(files))
    BY <1>3, ActivityChecksReordered
  <2>2. EmirIssues(f[i], g, now) = EmirIssues(f[i], f, now) /\ SftrIssues(f[i], g, now) = SftrIssues(f[i], f, now)
    BY RecordsReordered
  <2>3. RowIssues(back, "tar", p[i], now) = RowIssues(files, "tar", i, now)
    BY <1>1, <1>5, <2>1, <2>2, EmirScans, SftrScans
  <2> QED BY <1>5, <2>3
<1>6. CASE Emir /\ layer = "mar"
  <2>1. issue \in (MarIssues(i, f) \ MarIssues(p[i], g)) \union (MarIssues(p[i], g) \ MarIssues(i, f))
    <3>1. RowIssues(back, "mar", p[i], now) = MarIssues(p[i], g)
          /\ RowIssues(files, "mar", i, now) = MarIssues(i, f)
      BY <1>6, EmirScans
    <3> QED BY <1>6, <3>1
  <2>2. issue.id = "MAR.LARGE_MARGIN_DELTA" /\ CallsAtOnce(f)
    BY <1>2, <2>1, MarginChecksReordered
  <2>3. SameMoment
    BY <1>6, <2>2 DEF CallsAtOnce, SameMoment
  <2> QED BY <1>6, <2>2, <2>3 DEF Excused
<1>7. CASE layer = "feedback"
  <2>1. Emir
    BY <1>7 DEF TypeOK, AreFiles, LayersOf, SftrLayers, Emir
  <2>2. Contents(Layer(back, "book")) = Contents(Layer(files, "book"))
    BY <1>2 DEF Layer
  <2>3. FeedbackIssues(f[i], Layer(back, "book")) = FeedbackIssues(f[i], Layer(files, "book"))
    BY <2>2, FeedbackAnyOrder
  <2>4. RowIssues(back, "feedback", p[i], now) = RowIssues(files, "feedback", i, now)
    BY <1>1, <1>7, <2>1, <2>3, EmirScans
  <2> QED BY <1>7, <2>4
<1>8. CASE layer = "mcr"
  <2>1. ~Emir
    BY <1>8 DEF TypeOK, AreFiles, LayersOf, EmirLayers, Emir
  <2> SUFFICES ASSUME ~Competing("tsr") PROVE FALSE
    BY <1>8 DEF Excused
  <2>2. McrIssues(f[i], Companion(back)) = McrIssues(f[i], Companion(files))
    <3>1. CASE "tsr" \in DOMAIN files
      <4>1. PICK q : Reordered(files["tsr"], back["tsr"], q)
        BY <3>1, BackwardsFiles
      <4>2. DOMAIN files["tsr"] \subseteq Int /\ DOMAIN back["tsr"] \subseteq Int
        BY <3>1, BackwardsFiles
      <4>3. \A j, k \in DOMAIN files["tsr"] :
               j # k => ~SameBytes(files["tsr"][j].uti, files["tsr"][k].uti)
        BY <3>1 DEF Competing
      <4>4. Companion(files) = <<files["tsr"]>> /\ Companion(back) = <<back["tsr"]>>
        BY <1>2, <3>1 DEF Companion
      <4>5. McrIssues(f[i], <<back["tsr"]>>) = McrIssues(f[i], <<files["tsr"]>>)
        BY <4>1, <4>2, <4>3, RequestsReordered
      <4> QED BY <4>4, <4>5
    <3>2. CASE "tsr" \notin DOMAIN files
      BY <1>2, <3>2 DEF Companion
    <3> QED BY <3>1, <3>2
  <2>3. RowIssues(back, "mcr", p[i], now) = RowIssues(files, "mcr", i, now)
    BY <1>1, <1>8, <2>1, <2>2, SftrScans
  <2> QED BY <1>8, <2>3
<1>9. CASE layer \notin {"tsr", "tar", "feedback", "mcr"} /\ ~(Emir /\ layer = "mar")
  <2>1. layer \in DOMAIN LayersOf(regime) \ {"tsr", "tar", "feedback", "mcr"}
    BY <1>9 DEF TypeOK, AreFiles
  <2>2. RowIssues(back, layer, p[i], now) = RowIssues(files, layer, i, now)
    BY <1>1, <1>9, <2>1, ScansOfOneRow
  <2> QED BY <2>2
<1> QED BY <1>4, <1>5, <1>6, <1>7, <1>8, <1>9

LEMMA FindingsAnyOrder ==
    ASSUME TypeOK, NEW back, back = Backwards(files), NEW d,
           NEW found \in (RowFindings(back, d) \ RowFindings(files, d))
                           \union (RowFindings(files, d) \ RowFindings(back, d))
    PROVE  Excused(found[1], found[3])
<1>1. \A fs, said : said \in RowFindings(fs, d) <=>
         \E layer \in DOMAIN fs : \E i \in DOMAIN fs[layer] :
            \E issue \in RowIssues(fs, layer, i, 48 * d) : said = <<layer, fs[layer][i], issue>>
  BY DEF RowFindings
<1>2. DOMAIN back = DOMAIN files
  BY BackwardsFiles
<1>3. \A a, b, c : <<a, b, c>>[1] = a /\ <<a, b, c>>[3] = c
  OBVIOUS
<1>4. CASE found \in RowFindings(files, d) \ RowFindings(back, d)
  <2>0. PICK layer \in DOMAIN files : \E i \in DOMAIN files[layer] :
               \E issue \in RowIssues(files, layer, i, 48 * d) :
                  found = <<layer, files[layer][i], issue>>
    BY <1>1, <1>4
  <2>1. PICK i \in DOMAIN files[layer] :
               \E issue \in RowIssues(files, layer, i, 48 * d) :
                  found = <<layer, files[layer][i], issue>>
    BY <2>0
  <2>2. PICK issue \in RowIssues(files, layer, i, 48 * d) : found = <<layer, files[layer][i], issue>>
    BY <2>1
  <2>3. PICK p : Reordered(files[layer], back[layer], p)
    BY BackwardsFiles
  <2>4. back[layer][p[i]] = files[layer][i] /\ p[i] \in DOMAIN back[layer]
    BY <2>3, ReorderedRows
  <2>5. issue \notin RowIssues(back, layer, p[i], 48 * d)
    BY <1>1, <1>2, <1>4, <2>2, <2>4
  <2>6. Excused(layer, issue)
    BY <2>2, <2>3, <2>5, RowsAnyOrder
  <2> QED BY <1>3, <2>2, <2>6
<1>5. CASE found \in RowFindings(back, d) \ RowFindings(files, d)
  <2>0. PICK layer \in DOMAIN files : \E k \in DOMAIN back[layer] :
               \E issue \in RowIssues(back, layer, k, 48 * d) :
                  found = <<layer, back[layer][k], issue>>
    BY <1>1, <1>2, <1>5
  <2>1. PICK k \in DOMAIN back[layer] :
               \E issue \in RowIssues(back, layer, k, 48 * d) :
                  found = <<layer, back[layer][k], issue>>
    BY <2>0
  <2>2. PICK issue \in RowIssues(back, layer, k, 48 * d) : found = <<layer, back[layer][k], issue>>
    BY <2>1
  <2>3. PICK p : Reordered(files[layer], back[layer], p)
    BY BackwardsFiles
  <2>4. PICK i \in DOMAIN files[layer] : p[i] = k /\ back[layer][k] = files[layer][i]
    BY <2>3, ReorderedRows
  <2>5. issue \notin RowIssues(files, layer, i, 48 * d)
    BY <1>1, <1>5, <2>2, <2>4
  <2>6. Excused(layer, issue)
    BY <2>2, <2>3, <2>4, <2>5, RowsAnyOrder
  <2> QED BY <1>3, <2>2, <2>6
<1> QED BY <1>4, <1>5

----------------------------------------------------------------------------
(* What is said of the trades in another order *)

LEMMA KeysAnyOrder ==
    ASSUME NEW f, NEW g, Contents(g) = Contents(f)
    PROVE  /\ Utis(g) = Utis(f)
           /\ KeysOf(g, IsNewt) = KeysOf(f, IsNewt)
           /\ KeysOf(g, AuditOutstanding) = KeysOf(f, AuditOutstanding)
           /\ KeysOf(g, IsRejected) = KeysOf(f, IsRejected)
           /\ KeysOf(g, is_outstanding) = KeysOf(f, is_outstanding)
<1>1. ASSUME NEW h
      PROVE  /\ Utis(h) = {Key(r.uti) : r \in {r \in Contents(h) : ~Blank(r.uti)}}
             /\ KeysOf(h, IsNewt) = {Key(r.uti) : r \in {r \in Contents(h) : ~Blank(r.uti) /\ IsNewt(r)}}
             /\ KeysOf(h, AuditOutstanding) =
                  {Key(r.uti) : r \in {r \in Contents(h) : ~Blank(r.uti) /\ AuditOutstanding(r)}}
             /\ KeysOf(h, IsRejected) =
                  {Key(r.uti) : r \in {r \in Contents(h) : ~Blank(r.uti) /\ IsRejected(r)}}
             /\ KeysOf(h, is_outstanding) =
                  {Key(r.uti) : r \in {r \in Contents(h) : ~Blank(r.uti) /\ is_outstanding(r)}}
  <2>1. Utis(h) = {Key(r.uti) : r \in {r \in Contents(h) : ~Blank(r.uti)}}
    BY DEF Utis, KeysOf, AnyRow, Contents
  <2>2. KeysOf(h, IsNewt) = {Key(r.uti) : r \in {r \in Contents(h) : ~Blank(r.uti) /\ IsNewt(r)}}
    BY DEF KeysOf, Contents
  <2>3. KeysOf(h, AuditOutstanding) =
          {Key(r.uti) : r \in {r \in Contents(h) : ~Blank(r.uti) /\ AuditOutstanding(r)}}
    BY DEF KeysOf, Contents
  <2>4. KeysOf(h, IsRejected) =
          {Key(r.uti) : r \in {r \in Contents(h) : ~Blank(r.uti) /\ IsRejected(r)}}
    BY DEF KeysOf, Contents
  <2>5. KeysOf(h, is_outstanding) =
          {Key(r.uti) : r \in {r \in Contents(h) : ~Blank(r.uti) /\ is_outstanding(r)}}
    BY DEF KeysOf, Contents
  <2> QED BY <2>1, <2>2, <2>3, <2>4, <2>5
<1> QED BY <1>1

LEMMA AuditAnyOrder ==
    ASSUME NEW tar, NEW tsr, NEW fbk, NEW tar2, NEW tsr2, NEW fbk2,
           Contents(tar2) = Contents(tar), Contents(tsr2) = Contents(tsr),
           Contents(fbk2) = Contents(fbk), NEW uti
    PROVE  /\ compute_tr_audit_emir_issues(uti, tar2, tsr2, fbk2)
                = compute_tr_audit_emir_issues(uti, tar, tsr, fbk)
           /\ compute_tr_audit_sftr_issues(uti, tar2, tsr2) = compute_tr_audit_sftr_issues(uti, tar, tsr)
<1>1. /\ Utis(tar2) = Utis(tar) /\ Utis(tsr2) = Utis(tsr)
      /\ KeysOf(tar2, IsNewt) = KeysOf(tar, IsNewt)
      /\ KeysOf(tsr2, AuditOutstanding) = KeysOf(tsr, AuditOutstanding)
      /\ KeysOf(fbk2, IsRejected) = KeysOf(fbk, IsRejected)
  BY KeysAnyOrder
<1>2. /\ NewtNotInState(uti, tar2, tsr2) = NewtNotInState(uti, tar, tsr)
      /\ OutstandingNotInActivity(uti, tar2, tsr2) = OutstandingNotInActivity(uti, tar, tsr)
  BY <1>1 DEF NewtNotInState, OutstandingNotInActivity
<1> QED BY <1>1, <1>2 DEF compute_tr_audit_emir_issues, compute_tr_audit_sftr_issues

LEMMA KeyKeepsBytes ==
    ASSUME NEW a \in Texts, NEW b \in Texts, Key(a) = Key(b)
    PROVE  SameBytes(a, b)
<1>1. \A t \in Texts : Key(t) = [code |-> t.code, form |-> IF t.form = "padded" THEN "plain" ELSE t.form]
  BY DEF Key, Texts
<1>2. a.code = b.code /\ ((a.form = "lower") <=> (b.form = "lower"))
  BY <1>1 DEF Texts
<1> QED BY <1>2 DEF SameBytes

\* The files whose rows RowOf picks from.
OneRowEach(f) ==
    /\ \A i \in DOMAIN f : f[i].uti \in Texts
    /\ \A i, j \in DOMAIN f : i # j => ~SameBytes(f[i].uti, f[j].uti)

LEMMA RowOfAnyOrder ==
    ASSUME NEW f, NEW g, NEW p, Reordered(f, g, p), OneRowEach(f),
           DOMAIN f \subseteq Int, DOMAIN g \subseteq Int, NEW uti \in Utis(f)
    PROVE  RowOf(g, uti) = RowOf(f, uti)
<1> DEFINE S(h) == {i \in DOMAIN h : Key(h[i].uti) = uti}
           LastRow(h) == CHOOSE i \in S(h) : \A j \in S(h) : j <= i
<1>1. \A h : RowOf(h, uti) = h[LastRow(h)]
  BY DEF RowOf
<1>2. /\ \A k \in DOMAIN f : p[k] \in DOMAIN g /\ g[p[k]] = f[k]
      /\ \A k \in DOMAIN g : \E l \in DOMAIN f : p[l] = k
  BY ReorderedRows
<1>3. PICK k \in DOMAIN f : k \in S(f)
  BY DEF Utis, KeysOf
<1>4. S(f) = {k}
  <2>1. ASSUME NEW i \in S(f) PROVE i = k
    <3>1. i \in DOMAIN f /\ Key(f[i].uti) = Key(f[k].uti)
      BY <1>3, <2>1
    <3>2. SameBytes(f[i].uti, f[k].uti)
      BY <3>1, KeyKeepsBytes DEF OneRowEach
    <3> QED BY <3>1, <3>2 DEF OneRowEach
  <2> QED BY <1>3, <2>1
<1>5. S(g) = {p[k]}
  BY <1>2, <1>3, <1>4
<1>6. k \in Int /\ p[k] \in Int
  BY <1>2
<1>7. LastRow(f) = k /\ LastRow(g) = p[k]
  BY <1>4, <1>5, <1>6
<1> HIDE DEF LastRow, S
<1> QED BY <1>1, <1>2, <1>7

LEMMA BookAnyOrder ==
    ASSUME NEW book, NEW tsr, NEW book2, NEW tsr2, NEW p, NEW q,
           Reordered(book, book2, p), Reordered(tsr, tsr2, q), OneRowEach(book), OneRowEach(tsr),
           DOMAIN book \subseteq Int, DOMAIN book2 \subseteq Int,
           DOMAIN tsr \subseteq Int, DOMAIN tsr2 \subseteq Int, NEW uti
    PROVE  /\ compute_book_reconcile_issues(uti, book2, tsr2)
                = compute_book_reconcile_issues(uti, book, tsr)
           /\ compute_sftr_book_reconcile_issues(uti, book2, tsr2)
                = compute_sftr_book_reconcile_issues(uti, book, tsr)
<1>1. Utis(book2) = Utis(book) /\ Utis(tsr2) = Utis(tsr)
  BY ReorderedRows, KeysAnyOrder
<1>2. /\ uti \in Utis(book) => RowOf(book2, uti) = RowOf(book, uti)
      /\ uti \in Utis(tsr) => RowOf(tsr2, uti) = RowOf(tsr, uti)
  BY RowOfAnyOrder
<1>3. CASE uti \in Utis(book) \intersect Utis(tsr)
  BY <1>1, <1>2, <1>3 DEF compute_book_reconcile_issues, compute_sftr_book_reconcile_issues
<1>4. CASE uti \notin Utis(book) \intersect Utis(tsr)
  <2>1. OneSided(uti, book2, tsr2) = OneSided(uti, book, tsr)
    BY <1>1, <1>2 DEF OneSided
  <2> QED BY <1>1, <1>4, <2>1 DEF compute_book_reconcile_issues, compute_sftr_book_reconcile_issues
<1> QED BY <1>3, <1>4

LEMMA CollateralAnyOrder ==
    ASSUME NEW tsr, NEW msr, NEW tsr2, NEW msr2,
           Contents(tsr2) = Contents(tsr), Contents(msr2) = Contents(msr), NEW uti, NEW now
    PROVE  compute_collateral_emir_issues(uti, tsr2, msr2, now)
             = compute_collateral_emir_issues(uti, tsr, msr, now)
<1> DEFINE times(m) == {m[i].state_as_of : i \in {i \in DOMAIN m : Key(m[i].uti) = uti}} \ {NoTime}
           margin(m) == \E i \in {i \in DOMAIN m : Key(m[i].uti) = uti} : row_has_any_margin(m[i])
           all(t) == {t[i].state_as_of : i \in DOMAIN t} \ {NoTime}
<1>1. \A t, m : compute_collateral_emir_issues(uti, t, m, now) =
         IF uti \notin KeysOf(t, is_outstanding) THEN {}
         ELSE IF ~margin(m) THEN Issue(TRUE, "COL.MISSING", "High", "margin")
         ELSE Issue(/\ times(m) # {}
                    /\ NumDays(ReferenceTime(t, now) - Latest(times(m))) > MaxCollateralAge,
                    "COL.STALE", "Warning", "state_as_of")
  BY DEF compute_collateral_emir_issues, Rows, StateTimes
<1>2. times(msr2) = times(msr) /\ (margin(msr2) <=> margin(msr))
  BY DEF Contents
<1>3. ReferenceTime(tsr2, now) = ReferenceTime(tsr, now)
  <2>1. \A t : StateTimes(t, AnyRow) = all(t)
    BY DEF StateTimes, Rows, AnyRow
  <2>2. all(tsr2) = all(tsr)
    BY DEF Contents
  <2> HIDE DEF all
  <2> QED BY <2>1, <2>2 DEF ReferenceTime
<1>4. KeysOf(tsr2, is_outstanding) = KeysOf(tsr, is_outstanding)
  BY KeysAnyOrder
<1> HIDE DEF times, margin
<1> QED BY <1>1, <1>2, <1>3, <1>4

LEMMA UtisAreTexts ==
    ASSUME TypeOK, NEW layer \in TradeLayers, layer \in DOMAIN files
    PROVE  \A i \in DOMAIN files[layer] : files[layer][i].uti \in Texts
<1> SUFFICES ASSUME NEW i \in DOMAIN files[layer] PROVE files[layer][i]["uti"] \in Texts
  OBVIOUS
<1>1. IsRow(files[layer][i], layer, LayersOf(regime)[layer])
  BY DEF TypeOK, AreFiles, IsFile
<1>2. "uti" \in LayersOf(regime)[layer]
  <2>1. layer \in DOMAIN LayersOf(regime)
    BY DEF TypeOK, AreFiles
  <2> QED
    BY <2>1 DEF TradeLayers, Emir, LayersOf, EmirLayers, SftrLayers, TrStateRecord,
           SftrTrStateRecord, MarginStateRecord, FeedbackRecord, EmirFields, SftrFields
<1>3. ValueType(layer, "uti") = Texts
  <2>1. "uti" \notin TimeFields /\ "uti" \notin SumFields /\ "uti" \notin NamedFields
    BY DEF TimeFields, SumFields, NamedFields
  <2>2. "uti" \notin AnswerTimes /\ "uti" \notin AnswerAmounts
    BY DEF AnswerTimes, AnswerAmounts, ImCurrent, VmCurrent, Posted, Collected, PostedSide,
           ReceivedSide
  <2>3. FieldType("uti") = Texts /\ AnswerType("uti") = Texts
    BY <2>1, <2>2 DEF FieldType, AnswerType
  <2> QED BY <2>3 DEF ValueType
<1> QED BY <1>1, <1>2, <1>3 DEF IsRow

LEMMA TradesAnyOrder ==
    ASSUME TypeOK, ~Competing("tsr"), ~Competing("book"), NEW back, back = Backwards(files), NEW d
    PROVE  TradeFindings(back, d) = TradeFindings(files, d)
<1>1. /\ DOMAIN back = DOMAIN files
      /\ \A layer \in DOMAIN files : Contents(back[layer]) = Contents(files[layer])
  BY BackwardsFiles
<1>2. \A layer : Contents(Layer(back, layer)) = Contents(Layer(files, layer))
  BY <1>1 DEF Layer
<1>3. Trades(back) = Trades(files)
  <2>1. \A layer \in DOMAIN files : Utis(back[layer]) = Utis(files[layer])
    BY <1>1, KeysAnyOrder
  <2> QED BY <1>1, <2>1 DEF Trades
<1>4. \A layer \in {"tsr", "book"} : layer \in DOMAIN files =>
         /\ Layer(files, layer) = files[layer] /\ Layer(back, layer) = back[layer]
         /\ OneRowEach(files[layer])
         /\ DOMAIN files[layer] \subseteq Int /\ DOMAIN back[layer] \subseteq Int
         /\ \E p : Reordered(files[layer], back[layer], p)
  <2> SUFFICES ASSUME NEW layer \in {"tsr", "book"}, layer \in DOMAIN files
               PROVE  /\ Layer(files, layer) = files[layer] /\ Layer(back, layer) = back[layer]
                      /\ OneRowEach(files[layer])
                      /\ DOMAIN files[layer] \subseteq Int /\ DOMAIN back[layer] \subseteq Int
                      /\ \E p : Reordered(files[layer], back[layer], p)
    OBVIOUS
  <2>1. Layer(files, layer) = files[layer] /\ Layer(back, layer) = back[layer]
    BY <1>1 DEF Layer
  <2>2. OneRowEach(files[layer])
    <3>1. ~Competing(layer)
      OBVIOUS
    <3> QED BY <3>1, UtisAreTexts DEF OneRowEach, Competing, TradeLayers
  <2> QED BY <2>1, <2>2, BackwardsFiles
<1>5. ASSUME NEW uti, NEW now PROVE TradeIssues(back, uti, now) = TradeIssues(files, uti, now)
  <2> DEFINE tsr == Layer(files, "tsr")
             tar == Layer(files, "tar")
             book == Layer(files, "book")
             msr == Layer(files, "msr")
             fbk == Layer(files, "feedback")
             tsr2 == Layer(back, "tsr")
             tar2 == Layer(back, "tar")
             book2 == Layer(back, "book")
             msr2 == Layer(back, "msr")
             fbk2 == Layer(back, "feedback")
             Both2(a, b) == {a, b} \subseteq DOMAIN files
  <2>1. /\ compute_tr_audit_emir_issues(uti, tar2, tsr2, fbk2)
             = compute_tr_audit_emir_issues(uti, tar, tsr, fbk)
        /\ compute_tr_audit_sftr_issues(uti, tar2, tsr2) = compute_tr_audit_sftr_issues(uti, tar, tsr)
    BY <1>2, AuditAnyOrder
  <2>2. compute_collateral_emir_issues(uti, tsr2, msr2, now)
          = compute_collateral_emir_issues(uti, tsr, msr, now)
    BY <1>2, CollateralAnyOrder
  <2>3. Both2("book", "tsr") =>
          /\ compute_book_reconcile_issues(uti, book2, tsr2)
               = compute_book_reconcile_issues(uti, book, tsr)
          /\ compute_sftr_book_reconcile_issues(uti, book2, tsr2)
               = compute_sftr_book_reconcile_issues(uti, book, tsr)
    <3> SUFFICES ASSUME "book" \in DOMAIN files, "tsr" \in DOMAIN files
                 PROVE  /\ compute_book_reconcile_issues(uti, book2, tsr2)
                             = compute_book_reconcile_issues(uti, book, tsr)
                        /\ compute_sftr_book_reconcile_issues(uti, book2, tsr2)
                             = compute_sftr_book_reconcile_issues(uti, book, tsr)
      OBVIOUS
    <3>1. /\ OneRowEach(book) /\ DOMAIN book \subseteq Int /\ DOMAIN book2 \subseteq Int
          /\ OneRowEach(tsr) /\ DOMAIN tsr \subseteq Int /\ DOMAIN tsr2 \subseteq Int
          /\ \E p : Reordered(book, book2, p)
          /\ \E q : Reordered(tsr, tsr2, q)
      BY <1>4
    <3> HIDE DEF book, tsr, book2, tsr2
    <3>2. PICK p : Reordered(book, book2, p)
      BY <3>1
    <3>3. PICK q : Reordered(tsr, tsr2, q)
      BY <3>1
    <3> QED BY <3>1, <3>2, <3>3, BookAnyOrder
  <2> HIDE DEF tsr, tar, book, msr, fbk, tsr2, tar2, book2, msr2, fbk2
  <2>4. CASE Emir
    <3>1. TradeIssues(files, uti, now) =
            (IF Both2("tar", "tsr") THEN compute_tr_audit_emir_issues(uti, tar, tsr, fbk) ELSE {})
              \union (IF Both2("book", "tsr") THEN compute_book_reconcile_issues(uti, book, tsr) ELSE {})
              \union (IF Both2("tsr", "msr")
                      THEN compute_collateral_emir_issues(uti, tsr, msr, now) ELSE {})
      BY <2>4 DEF TradeIssues, tsr, tar, book, msr, fbk
    <3>2. TradeIssues(back, uti, now) =
            (IF Both2("tar", "tsr") THEN compute_tr_audit_emir_issues(uti, tar2, tsr2, fbk2) ELSE {})
              \union (IF Both2("book", "tsr") THEN compute_book_reconcile_issues(uti, book2, tsr2) ELSE {})
              \union (IF Both2("tsr", "msr")
                      THEN compute_collateral_emir_issues(uti, tsr2, msr2, now) ELSE {})
      BY <1>1, <2>4 DEF TradeIssues, tsr2, tar2, book2, msr2, fbk2
    <3> HIDE DEF Both2
    <3> QED BY <2>1, <2>2, <2>3, <3>1, <3>2
  <2>5. CASE ~Emir
    <3>1. TradeIssues(files, uti, now) =
            (IF Both2("tar", "tsr") THEN compute_tr_audit_sftr_issues(uti, tar, tsr) ELSE {})
              \union (IF Both2("book", "tsr")
                      THEN compute_sftr_book_reconcile_issues(uti, book, tsr) ELSE {})
      BY <2>5 DEF TradeIssues, tsr, tar, book
    <3>2. TradeIssues(back, uti, now) =
            (IF Both2("tar", "tsr") THEN compute_tr_audit_sftr_issues(uti, tar2, tsr2) ELSE {})
              \union (IF Both2("book", "tsr")
                      THEN compute_sftr_book_reconcile_issues(uti, book2, tsr2) ELSE {})
      BY <1>1, <2>5 DEF TradeIssues, tsr2, tar2, book2
    <3> HIDE DEF Both2
    <3> QED BY <2>1, <2>3, <3>1, <3>2
  <2> QED BY <2>4, <2>5
<1> QED BY <1>3, <1>5 DEF TradeFindings

\* The order of the rows of a file decides nothing but the exceptions named.
THEOREM RowsInAnyOrder == Spec => []OrderIsIrrelevant
<1>1. TypeOK => OrderIsIrrelevant
  <2> SUFFICES ASSUME TypeOK PROVE OrderIsIrrelevant
    OBVIOUS
  <2> DEFINE back == Backwards(files)
  <2>1. Rearranged(files, back)
    BY FilesRearranged
  <2>2. DOMAIN back = DOMAIN files /\ \A layer \in DOMAIN files : Len(back[layer]) = Len(files[layer])
    BY BackwardsFiles
  <2> HIDE DEF back
  <2>3. Figures(Pack(back, day)) = Figures(Pack(files, day))
    <3>1. CASE Emir
      <4>1. /\ DOMAIN Pack(back, day) = DOMAIN Pack(files, day)
            /\ \A id \in DOMAIN Pack(files, day) : SameFigures(Pack(files, day)[id], Pack(back, day)[id])
        BY <2>1, <3>1, NumbersAtHand, EmirPackFigures DEF Pack
      <4> QED BY <4>1 DEF Figures, SameFigures
    <3>2. CASE ~Emir
      <4>1. /\ DOMAIN Pack(back, day) = DOMAIN Pack(files, day)
            /\ \A id \in DOMAIN Pack(files, day) : SameFigures(Pack(files, day)[id], Pack(back, day)[id])
        BY <2>1, <3>2, NumbersAtHand, SftrPackFigures DEF Pack
      <4> QED BY <4>1 DEF Figures, SameFigures
    <3> QED BY <3>1, <3>2
  <2>4. BatchFindings(back) = BatchFindings(files)
    <3>1. CASE "tar" \in DOMAIN files
      <4>1. PICK p : Reordered(files["tar"], back["tar"], p)
        BY <2>1, <3>1 DEF Rearranged
      <4>2. /\ TarBatchIssues(back["tar"]) = TarBatchIssues(files["tar"])
            /\ SftrTarBatchIssues(back["tar"]) = SftrTarBatchIssues(files["tar"])
        BY <2>2, <3>1, <4>1, SharesReordered
      <4> QED BY <2>2, <4>2 DEF BatchFindings
    <3>2. CASE "tar" \notin DOMAIN files
      BY <2>2, <3>2 DEF BatchFindings
    <3> QED BY <3>1, <3>2
  <2>5. \A found \in (RowFindings(back, day) \ RowFindings(files, day))
                       \union (RowFindings(files, day) \ RowFindings(back, day)) :
           \/ Emir /\ found[1] = "mar" /\ found[3].id = "MAR.LARGE_MARGIN_DELTA" /\ SameMoment
           \/ found[1] = "mcr" /\ Competing("tsr")
    BY FindingsAnyOrder DEF back, Excused
  <2>6. TradeFindings(back, day) # TradeFindings(files, day) => Competing("tsr") \/ Competing("book")
    BY TradesAnyOrder DEF back
  <2> QED BY <2>3, <2>4, <2>5, <2>6 DEF OrderIsIrrelevant, back
<1> QED BY <1>1, PackTypeCorrect, PTL

----------------------------------------------------------------------------
(* One command and another *)

\* A key has its text's code, and two texts have one key when they are the same
\* but for the blanks around them.
LEMMA KeyOfText ==
    ASSUME NEW a \in Texts
    PROVE  /\ Blank(Key(a)) <=> Blank(a)
           /\ \A b \in Texts : Key(a) = Key(b) <=> SameBytes(a, b)
<1>1. \A t \in Texts : Key(t) = [code |-> t.code, form |-> IF t.form = "padded" THEN "plain" ELSE t.form]
  BY DEF Key, Texts
<1>2. Key(a).code = a.code
  BY <1>1
<1>3. Blank(Key(a)) <=> Blank(a)
  BY <1>2, Zenon DEF Blank
<1>4. ASSUME NEW b \in Texts, SameBytes(a, b) PROVE Key(a) = Key(b)
  <2>1. a.form \in {"plain", "lower", "padded"} /\ b.form \in {"plain", "lower", "padded"}
    BY DEF Texts
  <2>2. a.code = b.code /\ ((a.form = "lower") <=> (b.form = "lower"))
    BY <1>4 DEF SameBytes
  <2> QED BY <1>1, <2>1, <2>2
<1> QED BY <1>3, <1>4, KeyKeepsBytes

LEMMA SameIsBlank == ASSUME NEW a, NEW b, SameBytes(a, b) PROVE Blank(a) <=> Blank(b)
  BY Zenon DEF SameBytes, Blank

\* The trades of a file are the keys of its rows that are not blank.
LEMMA RowsOfTrade ==
    ASSUME TypeOK, NEW layer \in TradeLayers \cap DOMAIN files, NEW uti, ~Blank(uti)
    PROVE  /\ uti \in Utis(files[layer]) <=> RowsOf(layer, uti) # {}
           /\ \A i \in RowsOf(layer, uti) :
                 /\ i \in DOMAIN files[layer] /\ ~Blank(files[layer][i].uti)
                 /\ Key(files[layer][i].uti) = uti /\ files[layer][i].uti \in Texts
<1>1. \A i \in RowsOf(layer, uti) :
         /\ i \in DOMAIN files[layer] /\ ~Blank(files[layer][i].uti)
         /\ Key(files[layer][i].uti) = uti /\ files[layer][i].uti \in Texts
  BY UtisAreTexts, KeyOfText DEF RowsOf
<1> QED BY <1>1 DEF Utis, KeysOf, AnyRow, RowsOf

LEMMA TradesAreNamed ==
    ASSUME TypeOK, NEW uti \in Trades(files)
    PROVE  ~Blank(uti)
<1>1. PICK layer \in TradeLayers \cap DOMAIN files : uti \in Utis(files[layer])
  BY DEF Trades
<1>2. PICK i \in DOMAIN files[layer] : uti = Key(files[layer][i].uti) /\ ~Blank(files[layer][i].uti)
  BY <1>1 DEF Utis, KeysOf
<1> QED BY <1>2, UtisAreTexts, KeyOfText

\* Of several rows of a trade, RowOf is one.
LEMMA RowOfTrade ==
    ASSUME TypeOK, NEW layer \in DOMAIN files, NEW uti, RowsOf(layer, uti) # {}
    PROVE  \E i \in RowsOf(layer, uti) : RowOf(files[layer], uti) = files[layer][i]
<1> DEFINE S == RowsOf(layer, uti)
<1>1. RowOf(files[layer], uti) = files[layer][Latest(S)]
  BY DEF RowOf, RowsOf, Latest
<1>2. S \in SUBSET Int /\ IsFiniteSet(S)
  <2>1. DOMAIN files[layer] \subseteq Int /\ IsFiniteSet(DOMAIN files[layer])
    BY EmirFile, FiniteRows
  <2>2. S \subseteq DOMAIN files[layer]
    BY DEF RowsOf
  <2> HIDE DEF S
  <2> QED BY <2>1, <2>2, FS_Subset
<1> HIDE DEF S
<1>3. Latest(S) \in S
  BY <1>2, LatestTime DEF S
<1> QED BY <1>1, <1>3 DEF S

\* What is said of a trade, id by id.
AuditNames == {"AUD.NEWT_IN_TAR_NOT_IN_TSR", "AUD.OUTSTANDING_IN_TSR_NOT_IN_TAR",
               "AUD.REJECTED_BUT_OUTSTANDING_IN_TSR"}
BookNames == {"BREC.IN_BOOK_NOT_IN_TSR", "BREC.IN_TSR_NOT_IN_BOOK", "BREC.NOTIONAL_MISMATCH",
              "BREC.NOTIONAL_CURRENCY_MISMATCH", "BREC.VALUATION_MISMATCH",
              "BREC.MATURITY_MISMATCH", "BREC.STATUS_MISMATCH", "BREC.LOAN_MISMATCH",
              "BREC.LOAN_CURRENCY_MISMATCH", "BREC.COLLATERAL_MISMATCH"}
MarginNames == {"COL.MISSING", "COL.STALE"}

LEMMA AuditIds ==
    ASSUME NEW uti, NEW tar, NEW tsr, NEW fbk,
           NEW audit \in {compute_tr_audit_emir_issues(uti, tar, tsr, fbk),
                          compute_tr_audit_sftr_issues(uti, tar, tsr)}
    PROVE  /\ \A issue \in audit : issue.id \in AuditNames
           /\ (\E issue \in audit : issue.id = "AUD.NEWT_IN_TAR_NOT_IN_TSR") <=>
                uti \in KeysOf(tar, IsNewt) /\ uti \notin Utis(tsr)
           /\ (\E issue \in audit : issue.id = "AUD.OUTSTANDING_IN_TSR_NOT_IN_TAR") <=>
                uti \in KeysOf(tsr, AuditOutstanding) /\ uti \notin Utis(tar)
<1> DEFINE rejected == Issue(uti \in KeysOf(fbk, IsRejected) /\ uti \in KeysOf(tsr, AuditOutstanding),
                             "AUD.REJECTED_BUT_OUTSTANDING_IN_TSR", "Critical", "uti")
<1>1. /\ \A issue \in NewtNotInState(uti, tar, tsr) : issue.id = "AUD.NEWT_IN_TAR_NOT_IN_TSR"
      /\ NewtNotInState(uti, tar, tsr) # {} <=> uti \in KeysOf(tar, IsNewt) /\ uti \notin Utis(tsr)
  BY IssueIds, FoundIssue DEF NewtNotInState
<1>2. /\ \A issue \in OutstandingNotInActivity(uti, tar, tsr) :
            issue.id = "AUD.OUTSTANDING_IN_TSR_NOT_IN_TAR"
      /\ OutstandingNotInActivity(uti, tar, tsr) # {} <=>
           uti \in KeysOf(tsr, AuditOutstanding) /\ uti \notin Utis(tar)
  BY IssueIds, FoundIssue DEF OutstandingNotInActivity
<1>3. \A issue \in rejected : issue.id = "AUD.REJECTED_BUT_OUTSTANDING_IN_TSR"
  BY IssueIds
<1>4. /\ \A issue \in audit : \/ issue \in NewtNotInState(uti, tar, tsr)
                              \/ issue \in OutstandingNotInActivity(uti, tar, tsr)
                              \/ issue \in rejected
      /\ NewtNotInState(uti, tar, tsr) \subseteq audit
      /\ OutstandingNotInActivity(uti, tar, tsr) \subseteq audit
  BY DEF compute_tr_audit_emir_issues, compute_tr_audit_sftr_issues
<1> HIDE DEF rejected
<1> QED BY <1>1, <1>2, <1>3, <1>4 DEF AuditNames

LEMMA BookIds ==
    ASSUME NEW uti, NEW book, NEW tsr,
           NEW found \in {compute_book_reconcile_issues(uti, book, tsr),
                          compute_sftr_book_reconcile_issues(uti, book, tsr)}
    PROVE  /\ \A issue \in found : issue.id \in BookNames
           /\ (\E issue \in found : issue.id = "BREC.IN_BOOK_NOT_IN_TSR") <=>
                uti \in Utis(book) \ Utis(tsr)
           /\ (\E issue \in found : issue.id = "BREC.IN_TSR_NOT_IN_BOOK") <=>
                uti \in Utis(tsr) \ Utis(book) /\ is_outstanding(RowOf(tsr, uti))
<1>1. CASE uti \in Utis(book) \intersect Utis(tsr)
  <2> DEFINE b == RowOf(book, uti)
             t == RowOf(tsr, uti)
             Mismatches == BookNames \ {"BREC.IN_BOOK_NOT_IN_TSR", "BREC.IN_TSR_NOT_IN_BOOK"}
  <2>1. /\ \A issue \in CurrencyMismatch(b, t, "notional_currency", "BREC.NOTIONAL_CURRENCY_MISMATCH") :
              issue.id = "BREC.NOTIONAL_CURRENCY_MISMATCH"
        /\ \A issue \in ValueMismatch(b, t, "valuation_amount", "BREC.VALUATION_MISMATCH", "Warning") :
              issue.id = "BREC.VALUATION_MISMATCH"
        /\ \A issue \in ValueMismatch(b, t, "loan_value", "BREC.LOAN_MISMATCH", "High") :
              issue.id = "BREC.LOAN_MISMATCH"
        /\ \A issue \in CurrencyMismatch(b, t, "loan_currency", "BREC.LOAN_CURRENCY_MISMATCH") :
              issue.id = "BREC.LOAN_CURRENCY_MISMATCH"
        /\ \A issue \in ValueMismatch(b, t, "collateral_value", "BREC.COLLATERAL_MISMATCH", "Warning") :
              issue.id = "BREC.COLLATERAL_MISMATCH"
    BY IssueIds DEF CurrencyMismatch, ValueMismatch
  <2>2. /\ \A issue \in MaturityMismatch(b, t) : issue.id = "BREC.MATURITY_MISMATCH"
        /\ \A issue \in StatusMismatch(b, t) : issue.id = "BREC.STATUS_MISMATCH"
    BY IssueIds DEF MaturityMismatch, StatusMismatch
  <2> DEFINE notional == Issue(/\ BothHave(b, t, "notional_amount")
                               /\ Net(b.notional_amount) # Net(t.notional_amount),
                               "BREC.NOTIONAL_MISMATCH", "High", "notional_amount")
  <2>3. \A issue \in notional : issue.id = "BREC.NOTIONAL_MISMATCH"
    BY IssueIds
  <2>4. {"BREC.NOTIONAL_CURRENCY_MISMATCH", "BREC.VALUATION_MISMATCH", "BREC.LOAN_MISMATCH",
         "BREC.LOAN_CURRENCY_MISMATCH", "BREC.COLLATERAL_MISMATCH", "BREC.NOTIONAL_MISMATCH",
         "BREC.MATURITY_MISMATCH", "BREC.STATUS_MISMATCH"} \subseteq Mismatches
    BY DEF BookNames
  <2>5. compute_book_reconcile_issues(uti, book, tsr) =
          notional
            \union CurrencyMismatch(b, t, "notional_currency", "BREC.NOTIONAL_CURRENCY_MISMATCH")
            \union ValueMismatch(b, t, "valuation_amount", "BREC.VALUATION_MISMATCH", "Warning")
            \union MaturityMismatch(b, t) \union StatusMismatch(b, t)
    BY <1>1 DEF compute_book_reconcile_issues
  <2>6. compute_sftr_book_reconcile_issues(uti, book, tsr) =
          ValueMismatch(b, t, "loan_value", "BREC.LOAN_MISMATCH", "High")
            \union CurrencyMismatch(b, t, "loan_currency", "BREC.LOAN_CURRENCY_MISMATCH")
            \union ValueMismatch(b, t, "collateral_value", "BREC.COLLATERAL_MISMATCH", "Warning")
            \union MaturityMismatch(b, t) \union StatusMismatch(b, t)
    BY <1>1 DEF compute_sftr_book_reconcile_issues
  <2> HIDE DEF b, t, notional, Mismatches
  <2>7. \A issue \in compute_book_reconcile_issues(uti, book, tsr) : issue.id \in Mismatches
    BY <2>1, <2>2, <2>3, <2>4, <2>5
  <2>8. \A issue \in compute_sftr_book_reconcile_issues(uti, book, tsr) : issue.id \in Mismatches
    BY <2>1, <2>2, <2>4, <2>6
  <2> QED BY <1>1, <2>7, <2>8 DEF Mismatches
<1>2. CASE uti \notin Utis(book) \intersect Utis(tsr)
  <2>1. found = OneSided(uti, book, tsr)
    BY <1>2 DEF compute_book_reconcile_issues, compute_sftr_book_reconcile_issues
  <2> DEFINE booked == Issue(uti \in Utis(book) \ Utis(tsr), "BREC.IN_BOOK_NOT_IN_TSR", "High", "uti")
             known == Issue(uti \in Utis(tsr) \ Utis(book) /\ is_outstanding(RowOf(tsr, uti)),
                            "BREC.IN_TSR_NOT_IN_BOOK", "High", "uti")
  <2>2. /\ \A issue \in booked : issue.id = "BREC.IN_BOOK_NOT_IN_TSR"
        /\ booked # {} <=> uti \in Utis(book) \ Utis(tsr)
    BY IssueIds, FoundIssue
  <2>3. /\ \A issue \in known : issue.id = "BREC.IN_TSR_NOT_IN_BOOK"
        /\ known # {} <=> uti \in Utis(tsr) \ Utis(book) /\ is_outstanding(RowOf(tsr, uti))
    BY IssueIds, FoundIssue
  <2>4. found = booked \union known
    BY <2>1 DEF OneSided
  <2> HIDE DEF booked, known
  <2> QED BY <2>2, <2>3, <2>4 DEF BookNames
<1> QED BY <1>1, <1>2

LEMMA CollateralIds ==
    ASSUME NEW uti, NEW tsr, NEW msr, NEW now,
           NEW found, found = compute_collateral_emir_issues(uti, tsr, msr, now)
    PROVE  /\ \A issue \in found : issue.id \in MarginNames
           /\ (\E issue \in found : issue.id = "COL.MISSING") <=>
                /\ uti \in KeysOf(tsr, is_outstanding)
                /\ \A i \in DOMAIN msr : Key(msr[i].uti) = uti => ~row_has_any_margin(msr[i])
<1> DEFINE rows == {i \in DOMAIN msr : Key(msr[i].uti) = uti}
           times == {msr[i].state_as_of : i \in rows} \ {NoTime}
           missing == Issue(TRUE, "COL.MISSING", "High", "margin")
           stale == Issue(/\ times # {}
                          /\ NumDays(ReferenceTime(tsr, now) - Latest(times)) > MaxCollateralAge,
                          "COL.STALE", "Warning", "state_as_of")
<1>1. found = IF uti \notin KeysOf(tsr, is_outstanding) THEN {}
              ELSE IF ~\E i \in rows : row_has_any_margin(msr[i]) THEN missing ELSE stale
  BY DEF compute_collateral_emir_issues, Rows, StateTimes
<1>2. /\ \A issue \in missing : issue.id = "COL.MISSING"
      /\ missing # {}
      /\ \A issue \in stale : issue.id = "COL.STALE"
  BY IssueIds, FoundIssue
<1> HIDE DEF missing, stale, times
<1> QED BY <1>1, <1>2 DEF MarginNames

LEMMA TradeIds ==
    ASSUME NEW uti, "tsr" \in DOMAIN files, NEW said, said = Ids(TradeIssues(files, uti, Now))
    PROVE  /\ "tar" \in DOMAIN files =>
                /\ "AUD.NEWT_IN_TAR_NOT_IN_TSR" \in said <=>
                     uti \in KeysOf(files["tar"], IsNewt) /\ uti \notin Utis(files["tsr"])
                /\ "AUD.OUTSTANDING_IN_TSR_NOT_IN_TAR" \in said <=>
                     uti \in KeysOf(files["tsr"], AuditOutstanding) /\ uti \notin Utis(files["tar"])
           /\ "book" \in DOMAIN files =>
                /\ "BREC.IN_BOOK_NOT_IN_TSR" \in said <=>
                     uti \in Utis(files["book"]) \ Utis(files["tsr"])
                /\ "BREC.IN_TSR_NOT_IN_BOOK" \in said <=>
                     /\ uti \in Utis(files["tsr"]) \ Utis(files["book"])
                     /\ is_outstanding(RowOf(files["tsr"], uti))
           /\ Emir /\ "msr" \in DOMAIN files =>
                ("COL.MISSING" \in said <=>
                   /\ uti \in KeysOf(files["tsr"], is_outstanding)
                   /\ \A i \in RowsOf("msr", uti) : ~row_has_any_margin(files["msr"][i]))
<1> DEFINE tsr == files["tsr"]
           tar == Layer(files, "tar")
           book == Layer(files, "book")
           msr == Layer(files, "msr")
           fbk == Layer(files, "feedback")
           audit == IF Emir THEN compute_tr_audit_emir_issues(uti, tar, tsr, fbk)
                    ELSE compute_tr_audit_sftr_issues(uti, tar, tsr)
           rec == IF Emir THEN compute_book_reconcile_issues(uti, book, tsr)
                  ELSE compute_sftr_book_reconcile_issues(uti, book, tsr)
           margin == compute_collateral_emir_issues(uti, tsr, msr, Now)
<1>1. TradeIssues(files, uti, Now) =
        (IF "tar" \in DOMAIN files THEN audit ELSE {})
          \union (IF "book" \in DOMAIN files THEN rec ELSE {})
          \union (IF Emir /\ "msr" \in DOMAIN files THEN margin ELSE {})
  <2>1. Layer(files, "tsr") = tsr
    BY DEF Layer
  <2> HIDE DEF tsr, tar, book, msr, fbk
  <2>2. CASE Emir
    BY <2>1, <2>2 DEF TradeIssues, tar, book, msr, fbk
  <2>3. CASE ~Emir
    BY <2>1, <2>3 DEF TradeIssues, tar, book
  <2> QED BY <2>2, <2>3
<1>2. /\ "tar" \in DOMAIN files => tar = files["tar"]
      /\ "book" \in DOMAIN files => book = files["book"]
      /\ "msr" \in DOMAIN files => msr = files["msr"]
  BY DEF Layer
<1> HIDE DEF tsr, tar, book, msr, fbk
<1>3. /\ \A issue \in audit : issue.id \in AuditNames
      /\ (\E issue \in audit : issue.id = "AUD.NEWT_IN_TAR_NOT_IN_TSR") <=>
           uti \in KeysOf(tar, IsNewt) /\ uti \notin Utis(tsr)
      /\ (\E issue \in audit : issue.id = "AUD.OUTSTANDING_IN_TSR_NOT_IN_TAR") <=>
           uti \in KeysOf(tsr, AuditOutstanding) /\ uti \notin Utis(tar)
  <2>1. audit \in {compute_tr_audit_emir_issues(uti, tar, tsr, fbk),
                   compute_tr_audit_sftr_issues(uti, tar, tsr)}
    OBVIOUS
  <2> HIDE DEF audit
  <2> QED BY <2>1, AuditIds
<1>4. /\ \A issue \in rec : issue.id \in BookNames
      /\ (\E issue \in rec : issue.id = "BREC.IN_BOOK_NOT_IN_TSR") <=>
           uti \in Utis(book) \ Utis(tsr)
      /\ (\E issue \in rec : issue.id = "BREC.IN_TSR_NOT_IN_BOOK") <=>
           uti \in Utis(tsr) \ Utis(book) /\ is_outstanding(RowOf(tsr, uti))
  <2>1. rec \in {compute_book_reconcile_issues(uti, book, tsr),
                 compute_sftr_book_reconcile_issues(uti, book, tsr)}
    OBVIOUS
  <2> HIDE DEF rec
  <2> QED BY <2>1, BookIds
<1>5. /\ \A issue \in margin : issue.id \in MarginNames
      /\ (\E issue \in margin : issue.id = "COL.MISSING") <=>
           /\ uti \in KeysOf(tsr, is_outstanding)
           /\ \A i \in DOMAIN msr : Key(msr[i].uti) = uti => ~row_has_any_margin(msr[i])
  BY CollateralIds
<1> HIDE DEF audit, rec, margin
<1>6. \A id : id \in said <=> \E issue \in TradeIssues(files, uti, Now) : issue.id = id
  BY DEF Ids
<1>7. /\ \A id \in AuditNames : id \notin BookNames /\ id \notin MarginNames
      /\ \A id \in BookNames : id \notin MarginNames
  BY DEF AuditNames, BookNames, MarginNames
<1>8. \A id \in AuditNames : "tar" \in DOMAIN files =>
         (id \in said <=> \E issue \in audit : issue.id = id)
  BY <1>1, <1>4, <1>5, <1>6, <1>7
<1>9. \A id \in BookNames : "book" \in DOMAIN files =>
         (id \in said <=> \E issue \in rec : issue.id = id)
  BY <1>1, <1>3, <1>5, <1>6, <1>7
<1>10. \A id \in MarginNames : Emir /\ "msr" \in DOMAIN files =>
         (id \in said <=> \E issue \in margin : issue.id = id)
  BY <1>1, <1>3, <1>4, <1>6, <1>7
<1>11. "tar" \in DOMAIN files =>
         /\ "AUD.NEWT_IN_TAR_NOT_IN_TSR" \in said <=>
              uti \in KeysOf(files["tar"], IsNewt) /\ uti \notin Utis(files["tsr"])
         /\ "AUD.OUTSTANDING_IN_TSR_NOT_IN_TAR" \in said <=>
              uti \in KeysOf(files["tsr"], AuditOutstanding) /\ uti \notin Utis(files["tar"])
  <2>1. {"AUD.NEWT_IN_TAR_NOT_IN_TSR", "AUD.OUTSTANDING_IN_TSR_NOT_IN_TAR"} \subseteq AuditNames
    BY DEF AuditNames
  <2> QED BY <1>2, <1>3, <1>8, <2>1 DEF tsr
<1>12. "book" \in DOMAIN files =>
         /\ "BREC.IN_BOOK_NOT_IN_TSR" \in said <=>
              uti \in Utis(files["book"]) \ Utis(files["tsr"])
         /\ "BREC.IN_TSR_NOT_IN_BOOK" \in said <=>
              /\ uti \in Utis(files["tsr"]) \ Utis(files["book"])
              /\ is_outstanding(RowOf(files["tsr"], uti))
  <2>1. {"BREC.IN_BOOK_NOT_IN_TSR", "BREC.IN_TSR_NOT_IN_BOOK"} \subseteq BookNames
    BY DEF BookNames
  <2> QED BY <1>2, <1>4, <1>9, <2>1 DEF tsr
<1>13. Emir /\ "msr" \in DOMAIN files =>
         ("COL.MISSING" \in said <=>
            /\ uti \in KeysOf(files["tsr"], is_outstanding)
            /\ \A i \in RowsOf("msr", uti) : ~row_has_any_margin(files["msr"][i]))
  <2>1. "COL.MISSING" \in MarginNames
    BY DEF MarginNames
  <2> QED BY <1>2, <1>5, <1>10, <2>1 DEF tsr, RowsOf
<1> QED BY <1>11, <1>12, <1>13

\* The trades the summary of the state report lists.
Listed == UtisAt("tsr", RowsWith("tsr", "TST.OUTSTANDING_SUMMARY"))

LEMMA ListedTrades ==
    ASSUME TypeOK, "tsr" \in DOMAIN files, NEW uti, ~Blank(uti)
    PROVE  /\ uti \in Listed <=>
                \E i \in RowsOf("tsr", uti) : is_outstanding(files["tsr"][i])
           /\ uti \in KeysOf(files["tsr"], is_outstanding) <=> uti \in Listed
<1> DEFINE f == files["tsr"]
<1>1. RowsWith("tsr", "TST.OUTSTANDING_SUMMARY") = {i \in DOMAIN f : is_outstanding(f[i])}
  <2>1. CASE Emir
    <3>1. \A i : "TST.OUTSTANDING_SUMMARY" \in Ids(TsrIssues(i, f, Now)) <=> is_outstanding(f[i])
      BY TsrIds
    <3> QED BY <2>1, <3>1, EmirScans DEF RowsWith
  <2>2. CASE ~Emir
    <3>1. \A i : "TST.OUTSTANDING_SUMMARY" \in Ids(SftrTsrIssues(i, f, Now) \union MgldIssues(f[i]))
                   <=> is_outstanding(f[i])
      BY SftrTsrIds
    <3>2. \A i : RowIssues(files, "tsr", i, Now) = SftrTsrIssues(i, f, Now) \union MgldIssues(f[i])
      BY <2>2, SftrScans
    <3>3. \A i : "TST.OUTSTANDING_SUMMARY" \in Ids(RowIssues(files, "tsr", i, Now))
                   <=> is_outstanding(f[i])
      BY <3>1, <3>2
    <3> QED BY <3>3 DEF RowsWith
  <2> QED BY <2>1, <2>2
<1>2. \A i \in RowsOf("tsr", uti) : /\ i \in DOMAIN f /\ ~Blank(f[i].uti)
                                    /\ Key(f[i].uti) = uti
  BY RowsOfTrade DEF TradeLayers
<1>3. uti \in Listed <=> \E i \in RowsOf("tsr", uti) : is_outstanding(f[i])
  BY <1>1 DEF Listed, UtisAt, RowsOf
<1>4. uti \in KeysOf(f, is_outstanding) <=> \E i \in RowsOf("tsr", uti) : is_outstanding(f[i])
  BY <1>2 DEF KeysOf, RowsOf
<1> QED BY <1>3, <1>4

\* tr_audit's own test of a status is the scan's, but for LIVE.
LEMMA AuditedStatus ==
    ASSUME NEW r
    PROVE  AuditOutstanding(r) <=> is_outstanding(r) /\ ~In(r.status, {"LIVE"})
<1>1. Blank(r.status) => r.status.code # "LIVE"
  BY Zenon DEF Blank
<1> QED BY <1>1 DEF AuditOutstanding, is_outstanding, In

LEMMA AuditsAgree ==
    ASSUME TypeOK, "tsr" \in DOMAIN files, "tar" \in DOMAIN files, NEW uti, ~Blank(uti),
           NEW said, said = Ids(TradeIssues(files, uti, Now))
    PROVE  AuditAgrees(uti, said, Listed)
<1> DEFINE tar == files["tar"]
           tsr == files["tsr"]
<1>1. /\ \A i \in RowsOf("tar", uti) : /\ i \in DOMAIN tar /\ ~Blank(tar[i].uti)
                                       /\ Key(tar[i].uti) = uti /\ tar[i].uti \in Texts
      /\ \A i \in RowsOf("tsr", uti) : /\ i \in DOMAIN tsr /\ ~Blank(tsr[i].uti)
                                       /\ Key(tsr[i].uti) = uti /\ tsr[i].uti \in Texts
      /\ uti \in Utis(tsr) <=> RowsOf("tsr", uti) # {}
  BY RowsOfTrade DEF TradeLayers
<1>2. \A i \in DOMAIN tar : i \in RowsWith("tar", "TRA.NEWT_NOT_IN_TSR") <=>
         IsNewt(tar[i]) /\ ~Blank(tar[i].uti) /\ ~HasUti(tsr, tar[i].uti)
  <2>1. \A i : EmirNewtNotInTsr(tar[i], Companion(files)) # {} <=>
           IsNewt(tar[i]) /\ ~Blank(tar[i].uti) /\ ~HasUti(tsr, tar[i].uti)
    <3>1. Companion(files) = <<tsr>>
      BY DEF Companion
    <3>2. <<tsr>> # << >> /\ <<tsr>>[1] = tsr
      OBVIOUS
    <3> HIDE DEF tar, tsr
    <3> QED BY <3>1, <3>2, FoundIssue DEF EmirNewtNotInTsr, IsNewt
  <2>2. CASE Emir
    <3>1. \A i : RowIssues(files, "tar", i, Now) =
                   EmirIssues(tar[i], tar, Now) \union TarIssues(i, tar, Companion(files))
      BY <2>2, EmirScans
    <3>2. \A i : "TRA.NEWT_NOT_IN_TSR" \in
                    Ids(EmirIssues(tar[i], tar, Now) \union TarIssues(i, tar, Companion(files)))
                 <=> EmirNewtNotInTsr(tar[i], Companion(files)) # {}
      BY EmirTarIds
    <3>3. \A i : "TRA.NEWT_NOT_IN_TSR" \in Ids(RowIssues(files, "tar", i, Now))
                 <=> EmirNewtNotInTsr(tar[i], Companion(files)) # {}
      BY <3>1, <3>2
    <3> QED BY <2>1, <3>3 DEF RowsWith
  <2>3. CASE ~Emir
    <3>1. \A i : RowIssues(files, "tar", i, Now) =
                   SftrIssues(tar[i], tar, Now) \union SftrTarIssues(i, tar, Companion(files))
      BY <2>3, SftrScans
    <3>2. \A i : "TRA.NEWT_NOT_IN_TSR" \in
                    Ids(SftrIssues(tar[i], tar, Now) \union SftrTarIssues(i, tar, Companion(files)))
                 <=> EmirNewtNotInTsr(tar[i], Companion(files)) # {}
      BY SftrTarIds
    <3>3. \A i : "TRA.NEWT_NOT_IN_TSR" \in Ids(RowIssues(files, "tar", i, Now))
                 <=> EmirNewtNotInTsr(tar[i], Companion(files)) # {}
      BY <3>1, <3>2
    <3> QED BY <2>1, <3>3 DEF RowsWith
  <2> QED BY <2>2, <2>3
<1>3. ASSUME NEW i \in RowsOf("tar", uti) PROVE HasUti(tsr, tar[i].uti) <=> uti \in Utis(tsr)
  <2>1. Key(tar[i].uti) = uti /\ tar[i].uti \in Texts
    BY <1>1
  <2>2. \A j \in DOMAIN tsr : SameBytes(tsr[j].uti, tar[i].uti) <=> j \in RowsOf("tsr", uti)
    <3>1. \A j \in DOMAIN tsr : tsr[j].uti \in Texts
      BY UtisAreTexts DEF TradeLayers
    <3>2. \A j \in DOMAIN tsr : Key(tsr[j].uti) = Key(tar[i].uti) <=> SameBytes(tsr[j].uti, tar[i].uti)
      BY <2>1, <3>1, KeyOfText
    <3> QED BY <2>1, <3>2 DEF RowsOf
  <2> QED BY <1>1, <2>2 DEF HasUti, RowsOf
<1>4. ("AUD.NEWT_IN_TAR_NOT_IN_TSR" \in said)
        <=> (uti \in UtisAt("tar", RowsWith("tar", "TRA.NEWT_NOT_IN_TSR")))
  <2>1. uti \in KeysOf(tar, IsNewt) <=> \E i \in RowsOf("tar", uti) : IsNewt(tar[i])
    BY <1>1 DEF KeysOf, RowsOf
  <2>2. RowsWith("tar", "TRA.NEWT_NOT_IN_TSR") \subseteq DOMAIN tar
    BY DEF RowsWith
  <2>3. uti \in UtisAt("tar", RowsWith("tar", "TRA.NEWT_NOT_IN_TSR")) <=>
          \E i \in RowsOf("tar", uti) : i \in RowsWith("tar", "TRA.NEWT_NOT_IN_TSR")
    BY <2>2 DEF UtisAt, RowsOf
  <2>4. "AUD.NEWT_IN_TAR_NOT_IN_TSR" \in said <=> uti \in KeysOf(tar, IsNewt) /\ uti \notin Utis(tsr)
    BY TradeIds
  <2> HIDE DEF tar, tsr
  <2> QED BY <1>1, <1>2, <1>3, <2>1, <2>3, <2>4
<1>5. ("AUD.OUTSTANDING_IN_TSR_NOT_IN_TAR" \in said)
        <=> (uti \in Listed \ Utis(tar) /\ ~Live(uti))
  <2>1. uti \in KeysOf(tsr, AuditOutstanding) <=> \E i \in RowsOf("tsr", uti) : AuditOutstanding(tsr[i])
    BY <1>1 DEF KeysOf, RowsOf
  <2>2. ~Live(uti) <=> \E i \in RowsOf("tsr", uti) : AuditOutstanding(tsr[i])
    BY AuditedStatus DEF Live
  <2>3. ~Live(uti) => uti \in Listed
    BY ListedTrades DEF Live
  <2>4. "AUD.OUTSTANDING_IN_TSR_NOT_IN_TAR" \in said <=>
          uti \in KeysOf(tsr, AuditOutstanding) /\ uti \notin Utis(tar)
    BY TradeIds
  <2> HIDE DEF tar, tsr
  <2> QED BY <2>1, <2>2, <2>3, <2>4
<1> QED BY <1>4, <1>5 DEF AuditAgrees

LEMMA BooksAgree ==
    ASSUME TypeOK, "tsr" \in DOMAIN files, "book" \in DOMAIN files, NEW uti, ~Blank(uti),
           NEW said, said = Ids(TradeIssues(files, uti, Now))
    PROVE  BookAgrees(uti, said, Listed)
<1> DEFINE book == files["book"]
           tsr == files["tsr"]
           kept == RowsOf("tsr", uti)
<1>1. /\ "BREC.IN_BOOK_NOT_IN_TSR" \in said <=> uti \in Utis(book) \ Utis(tsr)
      /\ "BREC.IN_TSR_NOT_IN_BOOK" \in said <=>
           uti \in Utis(tsr) \ Utis(book) /\ is_outstanding(RowOf(tsr, uti))
  BY TradeIds
<1>2. uti \in Utis(tsr) <=> kept # {}
  BY RowsOfTrade DEF TradeLayers
<1>3. kept # {} => \E i \in kept : RowOf(tsr, uti) = tsr[i]
  BY RowOfTrade
<1>4. uti \in Listed <=> \E i \in kept : is_outstanding(tsr[i])
  BY ListedTrades
<1>5. Cardinality(kept) = 1 => \A i, j \in kept : i = j
  <2>1. IsFiniteSet(kept)
    <3>1. IsFiniteSet(DOMAIN tsr) /\ kept \subseteq DOMAIN tsr
      BY EmirFile, FiniteRows DEF RowsOf
    <3> QED BY <3>1, FS_Subset
  <2> HIDE DEF kept
  <2>2. SUFFICES ASSUME Cardinality(kept) = 1 PROVE \A i, j \in kept : i = j
    OBVIOUS
  <2>3. \E x : kept = {x}
    BY <2>1, <2>2, FS_Singleton
  <2> QED BY <2>3
<1> HIDE DEF book, tsr, kept
<1> QED BY <1>1, <1>2, <1>3, <1>4, <1>5 DEF BookAgrees, book, tsr, kept

LEMMA MarginsAgree ==
    ASSUME TypeOK, Emir, "tsr" \in DOMAIN files, "msr" \in DOMAIN files, NEW uti, ~Blank(uti),
           NEW said, said = Ids(TradeIssues(files, uti, Now)),
           NEW pack, pack = compute_emir_dqi_pack(files, day)
    PROVE  MarginAgrees(uti, said, Listed, pack)
<1> DEFINE tsr == files["tsr"]
           msr == files["msr"]
<1>1. "COL.MISSING" \in said <=>
        uti \in Listed /\ \A i \in RowsOf("msr", uti) : ~row_has_any_margin(msr[i])
  BY TradeIds, ListedTrades
<1>2. \A i \in RowsOf("msr", uti) :
         i \in pack.DQI_COL_ALL_ZERO.rows <=> ~row_has_any_margin(msr[i])
  <2>1. pack.DQI_COL_ALL_ZERO = compute_dqi_col_all_zero(msr)
    BY EmirPackOf DEF Layer
  <2>2. RowsOf("msr", uti) \subseteq DOMAIN msr
    BY DEF RowsOf
  <2> HIDE DEF msr
  <2>3. pack.DQI_COL_ALL_ZERO.rows = {i \in DOMAIN msr : AllAbsent(msr[i], ImCurrent \union VmCurrent)}
    BY <2>1, EmirCounts
  <2>4. \A r : AllAbsent(r, ImCurrent \union VmCurrent) <=> ~row_has_any_margin(r)
    BY DEF AllAbsent, Absent, row_has_any_margin
  <2> QED BY <2>2, <2>3, <2>4
<1>3. \A i \in pack.DQI_COL_MISSING_STATE.rows :
         /\ i \in DOMAIN tsr
         /\ Given(tsr[i].uti) => \A j \in DOMAIN msr : msr[j].uti # tsr[i].uti
  <2>1. pack.DQI_COL_MISSING_STATE = compute_dqi_col_missing_state(tsr, msr)
    BY EmirPackOf DEF Layer
  <2> HIDE DEF tsr, msr
  <2> QED BY <2>1 DEF compute_dqi_col_missing_state, Indicator, Rows
<1>4. ASSUME uti \in Listed, uti \in UtisAt("tsr", pack.DQI_COL_MISSING_STATE.rows),
             \A i \in RowsOf("tsr", uti), j \in RowsOf("msr", uti) : tsr[i].uti = msr[j].uti
      PROVE  "COL.MISSING" \in said
  <2>1. PICK i \in pack.DQI_COL_MISSING_STATE.rows : uti = Key(tsr[i].uti)
    BY <1>4 DEF UtisAt
  <2>2. i \in RowsOf("tsr", uti)
    BY <1>3, <2>1 DEF RowsOf
  <2>3. Given(tsr[i].uti)
    <3>1. ~Blank(tsr[i].uti)
      BY <2>2, RowsOfTrade DEF TradeLayers
    <3>2. Blank(NoText)
      BY Zenon DEF Blank, NoText, Plain
    <3> QED BY <3>1, <3>2 DEF Given
  <2>4. RowsOf("msr", uti) \subseteq DOMAIN msr
    BY DEF RowsOf
  <2>5. RowsOf("msr", uti) = {}
    BY <1>3, <1>4, <2>1, <2>2, <2>3, <2>4
  <2> QED BY <1>1, <1>4, <2>5
<1> QED BY <1>1, <1>2, <1>4 DEF MarginAgrees

\* The audits of two files, the scans of one and the pack do not deny each other
\* but in the ways named.
THEOREM CommandsTellOneStory == Spec => []OneStory
<1>1. TypeOK => OneStory
  <2> SUFFICES ASSUME TypeOK, "tsr" \in DOMAIN files, NEW uti \in Trades(files)
               PROVE  LET pack == Pack(files, day)
                          said == Ids(TradeIssues(files, uti, Now))
                      IN  /\ "tar" \in DOMAIN files => AuditAgrees(uti, said, Listed)
                          /\ "book" \in DOMAIN files => BookAgrees(uti, said, Listed)
                          /\ Emir /\ "msr" \in DOMAIN files => MarginAgrees(uti, said, Listed, pack)
    BY DEF OneStory, Listed
  <2>1. ~Blank(uti)
    BY TradesAreNamed
  <2>2. Emir => Pack(files, day) = compute_emir_dqi_pack(files, day)
    BY DEF Pack
  <2> QED BY <2>1, <2>2, AuditsAgree, BooksAgree, MarginsAgree
<1> QED BY <1>1, PackTypeCorrect, PTL
=============================================================================
