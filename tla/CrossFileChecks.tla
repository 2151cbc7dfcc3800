--------------------------- MODULE CrossFileChecks ---------------------------
(***************************************************************************)
(* The checks that compare files with each other: the audit of activity    *)
(* against state (tr_audit.rs), the firm's book against state              *)
(* (book_reconcile.rs), margins against state (collateral_audit.rs), and a *)
(* file about to be submitted against the rejections of the past           *)
(* (pre_submission).  An operator yields the issues about one UTI; the     *)
(* code goes through the UTIs of the files, trimmed and not empty.         *)
(***************************************************************************)
EXTENDS SftrAnswerChecks, FiniteSetsExt

CONSTANT MaxCollateralAge   \* emir_rmt.collateral_max_age_days

\* Fault (a mutated form, as are the definitions marked Fault below): the UTI
\* is taken as it was read.
KeyAsRead(t) == t
\* uti_key and trimmed_nonempty.
Key(t) == [t EXCEPT !.form = IF t.form = "padded" THEN "plain" ELSE t.form]
AnyRow(r) == TRUE
KeysOf(f, P(_)) == {Key(f[i].uti) : i \in {i \in DOMAIN f : ~Blank(f[i].uti) /\ P(f[i])}}
Utis(f) == KeysOf(f, AnyRow)
\* Of several rows of a UTI, the last one.
RowOf(f, uti) ==
    LET at == {i \in DOMAIN f : Key(f[i].uti) = uti}
    IN  f[CHOOSE i \in at : \A j \in at : j <= i]

----------------------------------------------------------------------------
(* tr_audit *)

\* tr_audit.rs has an is_outstanding of its own, which does not know LIVE.
AuditOutstanding(r) == Blank(r.status) \/ In(r.status, {"OUTSTANDING", "ACTIVE"})
IsNewt(r) == Acts(r, {"NEWT"})
IsRejected(r) == r.feedback_type = "Rejected"

NewtNotInState(uti, tar, tsr) ==
    Issue(uti \in KeysOf(tar, IsNewt) /\ uti \notin Utis(tsr), "AUD.NEWT_IN_TAR_NOT_IN_TSR", "High", "uti")
OutstandingNotInActivity(uti, tar, tsr) ==
    Issue(uti \in KeysOf(tsr, AuditOutstanding) /\ uti \notin Utis(tar),
          "AUD.OUTSTANDING_IN_TSR_NOT_IN_TAR", "Warning", "uti")

compute_tr_audit_emir_issues(uti, tar, tsr, feedback) ==
    NewtNotInState(uti, tar, tsr) \union OutstandingNotInActivity(uti, tar, tsr)
      \union Issue(uti \in KeysOf(feedback, IsRejected) /\ uti \in KeysOf(tsr, AuditOutstanding),
                   "AUD.REJECTED_BUT_OUTSTANDING_IN_TSR", "Critical", "uti")
compute_tr_audit_sftr_issues(uti, tar, tsr) ==
    NewtNotInState(uti, tar, tsr) \union OutstandingNotInActivity(uti, tar, tsr)

----------------------------------------------------------------------------
(* book_reconcile *)

within_tolerance(book, tsr) == ~Far(tsr, book, 1)
BothHave(b, t, field) == Has(b[field]) /\ Has(t[field])

\* A trade only one side has; the repository's only while it is outstanding.
OneSided(uti, book, tsr) ==
    Issue(uti \in Utis(book) \ Utis(tsr), "BREC.IN_BOOK_NOT_IN_TSR", "High", "uti")
      \union Issue(uti \in Utis(tsr) \ Utis(book) /\ is_outstanding(RowOf(tsr, uti)),
                   "BREC.IN_TSR_NOT_IN_BOOK", "High", "uti")
CurrencyMismatch(b, t, field, id) ==
    Issue(Given(b[field]) /\ Given(t[field]) /\ ~SameNocase(b[field], t[field]), id, "Warning", field)
MaturityMismatch(b, t) ==
    Issue(Both(b.maturity_date, t.maturity_date) /\ b.maturity_date # t.maturity_date,
          "BREC.MATURITY_MISMATCH", "High", "maturity_date")
StatusMismatch(b, t) ==
    Issue(b.termination_date = NoTime /\ In(t.status, {"TERMINATED"}),
          "BREC.STATUS_MISMATCH", "Warning", "status")
ValueMismatch(b, t, field, id, severity) ==
    Issue(BothHave(b, t, field) /\ ~within_tolerance(b[field], t[field]), id, severity, field)

compute_book_reconcile_issues(uti, book, tsr) ==
    IF uti \in Utis(book) \intersect Utis(tsr)
    THEN LET b == RowOf(book, uti)
             t == RowOf(tsr, uti)
         IN  Issue(/\ BothHave(b, t, "notional_amount")
                   /\ Net(b.notional_amount) # Net(t.notional_amount),
                   "BREC.NOTIONAL_MISMATCH", "High", "notional_amount")
               \union CurrencyMismatch(b, t, "notional_currency", "BREC.NOTIONAL_CURRENCY_MISMATCH")
               \union ValueMismatch(b, t, "valuation_amount", "BREC.VALUATION_MISMATCH", "Warning")
               \union MaturityMismatch(b, t) \union StatusMismatch(b, t)
    ELSE OneSided(uti, book, tsr)
compute_sftr_book_reconcile_issues(uti, book, tsr) ==
    IF uti \in Utis(book) \intersect Utis(tsr)
    THEN LET b == RowOf(book, uti)
             t == RowOf(tsr, uti)
         IN  ValueMismatch(b, t, "loan_value", "BREC.LOAN_MISMATCH", "High")
               \union CurrencyMismatch(b, t, "loan_currency", "BREC.LOAN_CURRENCY_MISMATCH")
               \union ValueMismatch(b, t, "collateral_value", "BREC.COLLATERAL_MISMATCH", "Warning")
               \union MaturityMismatch(b, t) \union StatusMismatch(b, t)
    ELSE OneSided(uti, book, tsr)

----------------------------------------------------------------------------
(* collateral_audit *)

row_has_any_margin(r) ==
    \E field \in ImCurrent \union VmCurrent : Has(r[field]) /\ ~IsZero(r[field])
Latest(times) == CHOOSE t \in times : \A u \in times : u <= t
StateTimes(f, P(_)) == {f[i].state_as_of : i \in Rows(f, P)} \ {NoTime}
\* tsr_reference_state_as_of: the latest snapshot of the TSR, else now.
ReferenceTime(tsr, now) ==
    IF StateTimes(tsr, AnyRow) = {} THEN now ELSE Latest(StateTimes(tsr, AnyRow))

compute_collateral_emir_issues(uti, tsr, msr, now) ==
    LET Margin(m) == Key(m.uti) = uti
        rows == Rows(msr, Margin)
        times == StateTimes(msr, Margin)
    IN  IF uti \notin KeysOf(tsr, is_outstanding) THEN {}
        ELSE IF ~\E i \in rows : row_has_any_margin(msr[i])
        THEN Issue(TRUE, "COL.MISSING", "High", "margin")
        ELSE Issue(/\ times # {}
                   /\ NumDays(ReferenceTime(tsr, now) - Latest(times)) > MaxCollateralAge,
                   "COL.STALE", "Warning", "state_as_of")

----------------------------------------------------------------------------
(* pre_submission: profile has the checks that the top causes of rejection *)
(* suggest, and the keys of the UTIs rejected more than once               *)

EmirPscRepeatedRejection(r, profile) ==
    Issue(Key(r.uti) \in profile.repeated_rejected_utis, "PSC.REPEATED_REJECTION", "High", "uti")
SftrPscRepeatedRejection(r, profile) == EmirPscRepeatedRejection(r, profile)

\* predicate_for: the checks it knows, and those of them whose predicate holds of
\* a record.  The predicates are written again here, and differ from the checks
\* they name.
Of(check, holds) == IF holds THEN {check} ELSE {}
EmirPredicates ==
    {"COMP.UTI_MISSING", "COMP.NOTIONAL_CURRENCY_MISSING", "COMP.VALUATION_MISSING",
     "COMP.COUNTERPARTY_1_MISSING", "COMP.COUNTERPARTY_2_MISSING", "ACC.NEGATIVE_NOTIONAL",
     "ACC.ZERO_NOTIONAL"}
SftrPredicates ==
    {"COMP.UTI_MISSING", "COMP.COLLATERAL_VALUE_MISSING", "COMP.SFT_TYPE_MISSING",
     "COMP.COUNTERPARTY_1_MISSING", "COMP.COUNTERPARTY_2_MISSING", "ACC.NEGATIVE_LOAN",
     "ACC.NEGATIVE_COLLATERAL", "ACC.HAIRCUT_OUT_OF_RANGE"}
\* Fault: the other counterparty is taken for the first.
OnePartyMissing(r) ==
    Of("COMP.UTI_MISSING", Blank(r.uti))
      \union Of("COMP.COUNTERPARTY_1_MISSING", Blank(r.counterparty_1))
      \union Of("COMP.COUNTERPARTY_2_MISSING", Blank(r.counterparty_1))
PartiesMissing(r) ==
    Of("COMP.UTI_MISSING", Blank(r.uti))
      \union Of("COMP.COUNTERPARTY_1_MISSING", Blank(r.counterparty_1))
      \union Of("COMP.COUNTERPARTY_2_MISSING", Blank(r.counterparty_2))
EmirLikely(r) ==
    PartiesMissing(r)
      \union Of("COMP.NOTIONAL_CURRENCY_MISSING",
                Has(r.notional_amount) /\ Blank(r.notional_currency))
      \union Of("COMP.VALUATION_MISSING",
                ~Has(r.valuation_amount) /\ r.termination_date = NoTime /\ ~Blank(r.uti))
      \union Of("ACC.NEGATIVE_NOTIONAL", Negative(r.notional_amount))
      \union Of("ACC.ZERO_NOTIONAL", IsZero(r.notional_amount))
SftrLikely(r) ==
    PartiesMissing(r)
      \union Of("COMP.COLLATERAL_VALUE_MISSING", ~Has(r.collateral_value))
      \union Of("COMP.SFT_TYPE_MISSING", Blank(r.sft_type))
      \union Of("ACC.NEGATIVE_LOAN", Negative(r.loan_value))
      \union Of("ACC.NEGATIVE_COLLATERAL", Negative(r.collateral_value))
      \union Of("ACC.HAIRCUT_OUT_OF_RANGE", r.haircut = "outOfRange")

Likely(checks, profile) ==
    Issue(checks \intersect profile.suggested # {}, "PSC.LIKELY_REJECTION_PATTERN", "Warning", "")
EmirPscLikelyRejectionPattern(r, profile) == Likely(EmirLikely(r), profile)
SftrPscLikelyRejectionPattern(r, profile) == Likely(SftrLikely(r), profile)
=============================================================================
