---------------------------- MODULE RecordChecks ----------------------------
(***************************************************************************)
(* The two rule books at work on one report.  A firm prepares a report,    *)
(* corrects its fields one by one, and scans the file it is in from day to *)
(* day: `opendqi emir scan` runs EmirIssues, `opendqi sftr scan`           *)
(* SftrIssues.  Nothing but the record, the rest of its file and the time  *)
(* of the scan decides what they report, so these are the state.           *)
(***************************************************************************)
EXTENDS EmirRecordChecks, SftrRecordChecks

CONSTANTS
    EmirReports,  \* the EMIR records a firm starts from,
    SftrReports,  \* and the SFTR ones
    EmirValues,   \* what a correction may put into a field: field -> values
    SftrValues,
    RestOfFile,   \* the other records of the file
    Start,        \* the time of the first scan
    Corrections,  \* bound: the corrections of a report
    Steps         \* bound: its corrections and the days that pass

\* The reports are records of their regime, and a correction puts into a field
\* what a field of its kind may hold.
ASSUME RecordsAssumption ==
    /\ Start \in Nat /\ Steps \in Nat /\ AbnormalMaturityDays \in Nat
    /\ RestOfFile \in Seq([uti : Texts])
    /\ SftrReports # {}
    /\ \A r \in EmirReports : IsRecord(r, EmirFields)
    /\ \A r \in SftrReports : IsRecord(r, SftrFields)
    /\ \A f \in DOMAIN EmirValues : EmirValues[f] \subseteq FieldType(f)
    /\ \A f \in DOMAIN SftrValues : SftrValues[f] \subseteq FieldType(f)

\* Among the corrections are, for every field an issue may name, values that
\* are right in some report.
Offers(values, fields, value) == \A f \in fields : f \in DOMAIN values /\ value \in values[f]
OffersNewUti(values) ==
    /\ "uti" \in DOMAIN values
    /\ \E uti \in values["uti"] :
          ~Blank(uti) /\ \A i \in DOMAIN RestOfFile : ~SameBytes(RestOfFile[i].uti, uti)
OffersShared(values) ==
    /\ OffersNewUti(values)
    /\ Offers(values, {"prior_uti", "entity_responsible_for_reporting", "action_type",
                       "event_type"}, NoText)
    /\ Offers(values, {"counterparty_1", "counterparty_2"}, Plain("LEI1"))
    /\ Offers(values, {"counterparty_2"}, Plain("LEI2"))
    /\ Offers(values, {"event_timestamp", "reporting_timestamp", "maturity_date",
                       "termination_date"}, NoTime)
    /\ Offers(values, {"termination_date"}, 0)
    /\ Offers(values, {"collateral_portfolio_code"}, Plain("PF1"))
\* A day before a scan, or the first moment of all.
DayBefore(time) == IF time < 48 THEN 0 ELSE time - 48
ASSUME EmirCuresAssumption ==
    /\ OffersShared(EmirValues)
    /\ Offers(EmirValues, {"clearing_ccp_lei", "valuation_currency", "valuation_type",
                           "corporate_sector", "reporting_obligation_indicator"}, NoText)
    /\ Offers(EmirValues, {"prior_uti"}, Plain("UTI0"))
    /\ Offers(EmirValues, {"prior_uti"}, Plain("UTI1"))
    /\ Offers(EmirValues, {"clearing_ccp_lei"}, Plain("LEI3"))
    /\ Offers(EmirValues, {"asset_class"}, Plain("EQ"))
    /\ Offers(EmirValues, {"product_id"}, Plain("A"))
    /\ Offers(EmirValues, {"underlying_id"}, Plain("ISIN1"))
    /\ Offers(EmirValues, {"price"}, NoAmount)
    /\ Offers(EmirValues, {"notional_amount", "valuation_amount"} \union
                          {MarginFields[i] : i \in 1..4}, Amount(1, 1, 0))
    /\ Offers(EmirValues, {"notional_currency", "valuation_currency", "price_currency",
                           "leg2_notional_currency"}, Plain("EUR"))
    /\ Offers(EmirValues, {"valuation_currency", "leg2_notional_currency"}, Plain("USD"))
    /\ Offers(EmirValues, {"valuation_currency"}, Plain("JPY"))
    /\ \A n \in 0..Steps :
          Offers(EmirValues, {"valuation_timestamp"}, DayBefore(Start + 48 * n))
    /\ Offers(EmirValues, {"valuation_timestamp"}, 0)
    /\ Offers(EmirValues, {"effective_date"}, NoTime)
    /\ Offers(EmirValues, {"clearing_status"}, Plain("CLRD"))
    /\ Offers(EmirValues, {"collateralisation_category"}, Plain("FLCL"))
    /\ Offers(EmirValues, {"leg1_payment_frequency"}, Plain("MNTH"))
    /\ Offers(EmirValues, {"intragroup_indicator"}, "true")
    /\ Offers(EmirValues, {"hedging_indicator", "commercial_or_treasury_financing", "delta",
                           "gamma"}, "none")
    /\ Offers(EmirValues, {"trading_capacity"}, Plain("AGEN"))
    /\ Offers(EmirValues, {"nature"}, Plain("F"))
    /\ Offers(EmirValues, {"master_agreement_type"}, Plain("OTHR"))
    /\ Offers(EmirValues, {"master_agreement_version"}, Plain("2002"))
    /\ Offers(EmirValues, {"confirmation_method"}, Plain("ELEC"))
ASSUME SftrCuresAssumption ==
    /\ OffersShared(SftrValues)
    /\ Offers(SftrValues, {"master_agreement_type", "master_agreement_version",
                           "collateral_isin", "collateral_currency"}, NoText)
    /\ Offers(SftrValues, {"sft_type"}, Plain("REPO"))
    /\ Offers(SftrValues, {"loan_value", "collateral_value"}, Amount(1, 1, 0))
    /\ Offers(SftrValues, {"loan_currency", "collateral_currency"}, Plain("EUR"))
    /\ Offers(SftrValues, {"collateral_currency"}, Plain("USD"))
    /\ Offers(SftrValues, {"collateral_currency"}, Plain("JPY"))
    /\ Offers(SftrValues, {"haircut"}, "inRange")
    /\ Offers(SftrValues, {"reuse_indicator"}, "false")
    /\ Offers(SftrValues, {"rebate_rate", "lending_fee"}, "none")
    /\ Offers(SftrValues, {"settlement_date"}, NoTime)
    /\ Offers(SftrValues, {"security_identifier"}, Plain("ISIN1"))

VARIABLES regime, report, now, corrections
vars == <<regime, report, now, corrections>>

EmirReport == regime = "EMIR"

\* run_all and run_all_sftr over the file.
IssuesOf(r, time) ==
    LET file == <<r>> \o RestOfFile IN
    IF EmirReport THEN EmirIssues(r, file, time) ELSE SftrIssues(r, file, time)
Issues == IssuesOf(report, now)

Values == IF EmirReport THEN EmirValues ELSE SftrValues

Init ==
    /\ \/ regime = "EMIR" /\ report \in EmirReports
       \/ regime = "SFTR" /\ report \in SftrReports
    /\ now = Start
    /\ corrections = 0

StepsLeft == corrections + (now - Start) \div 48 < Steps

Correct(field, value) ==
    /\ corrections < Corrections /\ StepsLeft
    /\ report[field] # value
    /\ report' = [report EXCEPT ![field] = value]
    /\ corrections' = corrections + 1
    /\ UNCHANGED <<regime, now>>

DayPasses ==
    /\ StepsLeft
    /\ now' = now + 48
    /\ UNCHANGED <<regime, report, corrections>>

Next ==
    \/ \E field \in DOMAIN Values : \E value \in Values[field] : Correct(field, value)
    \/ DayPasses

Spec == Init /\ [][Next]_vars

----------------------------------------------------------------------------
(* Properties *)

\* The report is a record of its regime, and the scans are never before the
\* first one.
TypeOK ==
    /\ regime \in {"EMIR", "SFTR"}
    /\ IsRecord(report, IF EmirReport THEN EmirFields ELSE SftrFields)
    /\ now \in Nat /\ corrections \in Nat

\* A report nobody touches is judged differently the next day for four
\* reasons only: it matures (MaturityInPast), its valuation ages
\* (EmirRmtDailyValuationMissing), it stops being outstanding, which ends what
\* is asked of outstanding reports, or a far maturity comes closer.  One day
\* differs: on a 29 February every maturity to come is abnormal, and no longer
\* is on the day after (LastNormalDay).
AppearsWithTime == {"CON.MATURITY_IN_PAST", "RMT.DAILY_VALUATION_MISSING"}
EndsWithTime ==
    {"COMP.VALUATION_MISSING", "COMP.COLLATERAL_VALUE_MISSING", "CON.MATURITY_IN_PAST",
     "ACC.ABNORMAL_MATURITY"}
TimeAlone ==
    [][now' # now =>
         /\ Ids(Issues') \ Ids(Issues) \subseteq
              AppearsWithTime
              \union (IF Day(now') \in LeapDays THEN {"ACC.ABNORMAL_MATURITY"} ELSE {})
         /\ Ids(Issues) \ Ids(Issues') \subseteq EndsWithTime
         /\ "CON.MATURITY_IN_PAST" \in Ids(Issues) \ Ids(Issues') =>
              EmirReport /\ report.termination_date # NoTime]_vars

\* What both rule books say of the fields both records have is the same: a
\* field wrong in an EMIR report is wrong in an SFTR report that has the same
\* values.  Their lists of actions differ, so this is for the actions both
\* know; and it holds but for two rules.  MODI_PRESERVES_UTI is turned around,
\* and MATURITY_IN_PAST excuses any termination date in SFTR, in EMIR only one
\* that has come.
SharedFields ==
    {"uti", "prior_uti", "action_type", "counterparty_1", "counterparty_2",
     "entity_responsible_for_reporting", "execution_timestamp", "event_timestamp",
     "reporting_timestamp", "effective_date", "maturity_date", "termination_date"}
SharedRules ==
    {"COMP.UTI_MISSING", "COMP.COUNTERPARTY_1_MISSING", "COMP.COUNTERPARTY_2_MISSING",
     "VLD.LEI_FORMAT_RC", "VLD.LEI_FORMAT_OC", "VLD.LEI_FORMAT_ERR", "VLD.ACTION_TYPE_ENUM",
     "UNI.DUPLICATE_UTI", "TIM.LATE_REPORTING", "CON.REPORTING_BEFORE_EXECUTION",
     "CON.EVENT_BEFORE_EXECUTION", "CON.TERMINATION_AFTER_MATURITY", "CON.SELF_DEALING",
     "CON.NEWT_FORBIDS_PRIOR_UTI", "CON.NEWT_FORBIDS_TERMINATION_DATE",
     "CON.ETRM_REQUIRES_TERMINATION_DATE"}
SharedActions == {"", "NEWT", "MODI", "CORR", "ETRM", "VALU", "MARU", "POSC", "OTHR"}
AsSftr(r) ==
    LET model == CHOOSE s \in SftrReports : TRUE
    IN  [f \in DOMAIN model |-> IF f \in SharedFields THEN r[f] ELSE model[f]]
RegimesAgree ==
    EmirReport /\ report.action_type.code \in SharedActions =>
        LET file == <<report>> \o RestOfFile
            emir == Ids(EmirIssues(report, file, now))
            sftr == Ids(SftrIssues(AsSftr(report), file, now))
        IN  /\ emir \cap SharedRules = sftr \cap SharedRules
            /\ "CON.MATURITY_IN_PAST" \in emir /\ report.termination_date = NoTime
                 <=> "CON.MATURITY_IN_PAST" \in sftr
            /\ "CON.MODI_PRESERVES_UTI" \in emir /\ In(report.action_type, {"MODI"})
                 => "CON.MODI_PRESERVES_UTI" \notin sftr

\* An accepted code means the same however it is written, but for these rules:
\* two EMIR ones compare the action with its exact letters (MaruRequiresMargin,
\* ZeroNotional), and those that compare a text nobody trimmed lose sight of a
\* code with blanks around it, which a Parquet column may hold.
AllCodes == {"action_type", "clearing_status", "asset_class", "collateralisation_category",
             "nature", "master_agreement_type"}
CodeFields == AllCodes \cap DOMAIN Values
ExactRules == {"CON.MARU_REQUIRES_MARGIN", "ACC.ZERO_NOTIONAL"}
UntrimmedRules ==
    ExactRules \union
    {"COMP.INITIAL_MARGIN_MISSING_FOR_FULL", "COMP.VARIATION_MARGIN_MISSING_FOR_FULL",
     "COMP.COLLATERAL_PORTFOLIO_REQUIRED_FOR_FULL", "VLD.ISDA_VERSION_PLAUSIBLE",
     "ACC.IR_REQUIRES_NOTIONAL", "ACC.IR_REQUIRES_LEG1_FREQ", "ACC.FX_REQUIRES_LEG2_CURRENCY",
     "ACC.EQ_REQUIRES_UNDERLYING", "ACC.CR_REQUIRES_UNDERLYING",
     "ACC.COMMODITY_REQUIRES_PRODUCT_ID", "CON.NCLR_FORBIDS_CCP", "CON.HEDGING_REQUIRES_NFC",
     "CON.MARU_REQUIRES_PORTFOLIO", "CON.POSC_REQUIRES_PORTFOLIO", "CON.VALU_REQUIRES_VALUATION",
     "CON.ETRM_REQUIRES_TERMINATION_DATE", "CON.ETRM_REQUIRES_VALUATION",
     "CON.NEWT_FORBIDS_PRIOR_UTI", "CON.NEWT_FORBIDS_TERMINATION_DATE",
     "CON.COLU_REQUIRES_PORTFOLIO", "CON.REUU_REQUIRES_REUSE_INDICATOR"}
Respelled(form) ==
    [f \in DOMAIN report |->
        IF f \in CodeFields THEN [report[f] EXCEPT !.form = form] ELSE report[f]]
SpellingMatters ==
    LET As(form)        == Ids(IssuesOf(Respelled(form), now))
        Differing(s, t) == (s \ t) \union (t \ s)
        plain           == As("plain")
    IN  /\ Differing(plain, As("lower")) \subseteq ExactRules
        /\ Differing(plain, As("padded")) \subseteq UntrimmedRules

\* The rules do not work against each other: the field an issue names has a
\* value that ends the issue and brings no other one about that field.  Three
\* pairs of EMIR rules do conflict, and these are the only ones: the valuation
\* of an uncleared swap must be no older than a day at the scan but not younger
\* than the report (EmirRmtDailyValuationMissing, ValuationAfterReporting), its
\* currency must be that of the notional and that of the price, and a NEWT of a
\* novation must and must not name its prior UTI (NewtForbidsPriorUti,
\* EmirRmtCompressionEventIncomplete).  And in both books a currency that has
\* to be another field's has no cure of its own while that one is malformed.
\* The two margin issues name no field.
CurableIn(i, issues) ==
    LET others == issues \ {i} IN
    \E value \in Values[i.field] :
        \A k \in IssuesOf([report EXCEPT ![i.field] = value], now) :
            k.field = i.field => k \in others
NoCurrency(t) == BadCurrency(Plain(t.code))
EmirConflict(field, r, time) ==
    \/ /\ field = "valuation_timestamp"
       /\ Uncleared(r) /\ NotTerminated(r)
       /\ r.reporting_timestamp # NoTime /\ time - r.reporting_timestamp > 48
    \/ /\ field = "valuation_currency" /\ Has(r.valuation_amount)
       /\ \/ Differ(r.notional_currency, r.price_currency)
          \/ NoCurrency(r.notional_currency)
          \/ NoCurrency(r.price_currency)
    \/ /\ field = "prior_uti" /\ Uncleared(r)
       /\ Untrimmed(r.action_type, {"NEWT"}) /\ In(r.event_type, {"NOVA", "COMP"})
SftrConflict(field, r) ==
    field = "collateral_currency" /\ Has(r.collateral_value) /\ NoCurrency(r.loan_currency)
Conflicting(i) ==
    IF EmirReport THEN EmirConflict(i.field, report, now) ELSE SftrConflict(i.field, report)
IssueNamesItsCure ==
    LET issues == Issues IN
    \A i \in issues :
        \/ i.field \in {"variation_margin", "initial_margin"}
        \/ Conflicting(i)
        \/ i.field \in DOMAIN Values /\ CurableIn(i, issues)
============================================================================
