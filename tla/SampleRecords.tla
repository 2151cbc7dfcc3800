--------------------------- MODULE SampleRecords ---------------------------
\* One submitted record of each regime, for the instances to start from.
EXTENDS RecordValues, TLC

T(c) == Plain(c)
A(n) == Amount(1, n, 2)

Shared == [
    uti |-> T("UTI1"), prior_uti |-> NoText, action_type |-> T("NEWT"), event_type |-> T("TRAD"),
    counterparty_1 |-> T("LEI1"), counterparty_2 |-> T("LEI2"),
    entity_responsible_for_reporting |-> T("LEI1"),
    execution_timestamp |-> 480, event_timestamp |-> 480, reporting_timestamp |-> 492,
    effective_date |-> 10, maturity_date |-> 11, termination_date |-> NoTime,
    collateral_portfolio_code |-> T("PF1"), master_agreement_version |-> T("2011")]

\* An uncleared interest rate swap between two financial counterparties.
Swap == [
    asset_class |-> T("IR"), product_id |-> T("SWAP"), underlying_id |-> NoText,
    notional_amount |-> A(1), notional_currency |-> T("EUR"),
    price |-> NoAmount, price_currency |-> NoText,
    valuation_amount |-> A(0), valuation_currency |-> T("EUR"), valuation_timestamp |-> 488,
    valuation_type |-> T("MTMA"),
    initial_margin_posted |-> A(0), initial_margin_collected |-> NoAmount,
    variation_margin_posted |-> A(0), variation_margin_collected |-> NoAmount,
    clearing_status |-> T("NCLR"), clearing_ccp_lei |-> NoText,
    collateralisation_category |-> T("FLCL"),
    leg2_notional_amount |-> NoAmount, leg2_notional_currency |-> NoText,
    leg1_payment_frequency |-> T("MNTH"), intragroup_indicator |-> "false",
    hedging_indicator |-> "none", trading_capacity |-> T("PRIN"),
    commercial_or_treasury_financing |-> "none", reporting_obligation_indicator |-> T("TRUE"),
    corporate_sector |-> T("CDTI"), nature |-> T("F"), master_agreement_type |-> T("ISDA"),
    confirmation_method |-> T("ELEC"), mtm_value_change |-> NoAmount,
    delta |-> "none", gamma |-> "none"]
NewSwap == [Swap @@ Shared EXCEPT !.master_agreement_version = T("2002")]

Loan == [
    sft_type |-> T("REPO"), master_agreement_type |-> T("GMRA"),
    loan_value |-> A(1), loan_currency |-> T("EUR"),
    collateral_value |-> A(1), collateral_currency |-> T("EUR"),
    haircut |-> "inRange", reuse_indicator |-> "none", rebate_rate |-> "positive",
    lending_fee |-> "none", settlement_date |-> 10, collateral_isin |-> T("ISIN1"),
    security_identifier |-> NoText]
Repo == Loan @@ Shared
SecLoan == [Repo EXCEPT !.sft_type = T("SLEB"), !.action_type = T("MODI"), !.event_type = T("MODI"),
                        !.rebate_rate = "none", !.lending_fee = "positive",
                        !.security_identifier = T("ISIN1"), !.prior_uti = T("UTI1")]
=============================================================================
