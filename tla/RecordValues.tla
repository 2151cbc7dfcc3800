--------------------------- MODULE RecordValues ----------------------------
(***************************************************************************)
(* The values a report field takes, as far as the checks tell them apart,  *)
(* and the helpers of dq/formats.rs over them.                             *)
(*                                                                         *)
(* A text is a code and the form it is written in: "plain", "lower" (the   *)
(* same letters in lower case) or "padded" (blanks around it).  An absent  *)
(* text, an empty one and one of blanks only are all Blank: no check of    *)
(* the packs distinguishes them.  A decimal is its sign, its magnitude in  *)
(* units of 10^9 (0: below one unit) and its number of decimals.  Times    *)
(* are half hours, 48 a day, so that a part of an hour is a time too;      *)
(* dates are days.                                                         *)
(***************************************************************************)
EXTENDS Integers, FiniteSets

CONSTANTS   \* the thresholds both rule books read (config.rs)
    MaxReportingDelay,   \* timeliness.max_reporting_delay_hours
    AbnormalMaturityDays,\* maturity.abnormal_maturity_years, in days
    LeapDays,            \* the days that are a 29 February
    PlaceholderDates     \* maturity.placeholder_dates

Plain(c)  == [code |-> c, form |-> "plain"]
Lower(c)  == [code |-> c, form |-> "lower"]
Padded(c) == [code |-> c, form |-> "padded"]
NoText    == Plain("")

Blank(t) == t.code = ""

\* trim, then is_in: case-insensitive membership.
In(t, allowed) == t.code \in allowed

\* eq_ignore_ascii_case, or is_in, on a text nobody trimmed.
Untrimmed(t, allowed) == t.code \in allowed /\ t.form # "padded"

\* == on the raw text.
Exactly(t, c) == t = Plain(c)

\* Two trimmed texts compared with eq_ignore_ascii_case; with ==.
SameText(a, b)  == a.code = b.code
SameBytes(a, b) == a.code = b.code /\ (a.form = "lower") = (b.form = "lower")

\* Shapes: twenty characters of which the last two are digits; three letters;
\* two letters, nine letters or digits, one digit.  All upper case.
ValidLei(t)      == In(t, {"LEI1", "LEI2", "LEI3"}) /\ t.form # "lower"
ValidCurrency(t) == In(t, {"EUR", "USD", "JPY"}) /\ t.form # "lower"
ValidIsin(t)     == In(t, {"ISIN1"}) /\ t.form # "lower"

\* Of the texts of this model, those of four digits.
FourDigits == {"1992", "1999", "2002", "2011", "2017"}

NotIn(t, allowed) == ~Blank(t) /\ ~In(t, allowed)
BadLei(t)         == ~Blank(t) /\ ~ValidLei(t)
BadCurrency(t)    == ~Blank(t) /\ ~ValidCurrency(t)
Differ(a, b)      == ~Blank(a) /\ ~Blank(b) /\ ~SameText(a, b)

NoAmount == [sgn |-> 0, bn |-> 0, scale |-> -1]
Amount(sgn, bn, scale) == [sgn |-> sgn, bn |-> bn, scale |-> scale]
Has(a)      == a # NoAmount
Negative(a) == Has(a) /\ a.sgn < 0
IsZero(a)   == Has(a) /\ a.sgn = 0
Above(a, bn) == Has(a) /\ a.sgn > 0 /\ a.bn > bn

\* within_decimal_bounds(d, 18, 5): at most 5 decimals and, of the magnitude,
\* at most 18 integer digits.
WithinBounds(a) == a.scale <= 5 /\ a.bn < 1000000000

\* CURRENCY_DECIMALS, for the currencies of this model; a currency outside
\* the table has no limit.
CurrencyMaxScale == [EUR |-> 2, USD |-> 2, JPY |-> 0]
TooFineFor(a, ccy) ==
    /\ Has(a)
    /\ ccy.code \in DOMAIN CurrencyMaxScale
    /\ a.scale > CurrencyMaxScale[ccy.code]

\* canonical_asset_class: the short code of every alias, "" for any other text.
AssetClassAliases ==
    [IR |-> {"IR", "INTR", "RATE"}, CR |-> {"CR", "CRDT"}, EQ |-> {"EQ", "EQTY"},
     FX |-> {"FX", "CU", "CURR"},   CO |-> {"CO", "COMM"}]
CanonicalAssetClass(t) ==
    IF \E c \in DOMAIN AssetClassAliases : In(t, AssetClassAliases[c])
    THEN CHOOSE c \in DOMAIN AssetClassAliases : In(t, AssetClassAliases[c])
    ELSE ""

NoTime == -1
Day(time) == time \div 48
Hours(n) == 2 * n
\* num_hours and num_days of a duration: whole ones, towards zero.
Whole(duration, unit) == IF duration < 0 THEN -((-duration) \div unit) ELSE duration \div unit
NumHours(duration) == Whole(duration, Hours(1))
NumDays(duration) == Whole(duration, 48)
Both(s, t) == s # NoTime /\ t # NoTime

\* max_normal: today.with_year(today.year() + abnormal_maturity_years), or
\* today itself when that year has no such date.  A leap year plus the default
\* of 51 years is never a leap year.
LastNormalDay(day) == IF day \in LeapDays THEN day ELSE day + AbnormalMaturityDays

\* The grouping of both DUPLICATE_UTI checks: UTIs trimmed, with their case.
Repeated(uti, batch) == Cardinality({i \in DOMAIN batch : SameBytes(batch[i].uti, uti)}) > 1

\* Fault (a mutated form): the comparison is turned around.
OutstandingOnceEnded(r, now) == r.termination_date = NoTime \/ r.termination_date <= Day(now)
\* EmirRecord::is_outstanding and SftrRecord::is_outstanding.
Outstanding(r, now) == r.termination_date = NoTime \/ r.termination_date > Day(now)

\* The fields of a record by the kind of value they hold; those of a flag or of
\* one of the ratios are told apart by name, every other field is a text.
TimeFields ==
    {"execution_timestamp", "event_timestamp", "reporting_timestamp", "valuation_timestamp",
     "effective_date", "maturity_date", "termination_date", "settlement_date"}
SumFields ==
    {"notional_amount", "price", "valuation_amount", "initial_margin_posted",
     "initial_margin_collected", "variation_margin_posted", "variation_margin_collected",
     "leg2_notional_amount", "mtm_value_change", "loan_value", "collateral_value"}
NamedFields ==
    {"intragroup_indicator", "hedging_indicator", "commercial_or_treasury_financing", "delta",
     "gamma", "haircut", "reuse_indicator", "rebate_rate", "lending_fee"}
Texts == [code : STRING, form : {"plain", "lower", "padded"}]
FieldType(f) ==
    CASE f \in TimeFields -> Nat \union {NoTime}
      [] f \in SumFields -> [sgn : {-1, 0, 1}, bn : Nat, scale : Int]
      [] f \in NamedFields -> STRING
      [] OTHER -> Texts
IsRecord(r, fields) == DOMAIN r = fields /\ \A f \in fields : r[f] \in FieldType(f)

\* An issue says which check raised it, how severe it is and the field it names.
Issue(found, id, severity, field) ==
    IF found THEN {[id |-> id, severity |-> severity, field |-> field]} ELSE {}
Ids(issues) == {i.id : i \in issues}
============================================================================
