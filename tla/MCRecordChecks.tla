--------------------------- MODULE MCRecordChecks ---------------------------
EXTENDS RecordChecks, SampleRecords

MCEmirReports == {NewSwap}
MCSftrReports == {SecLoan}

Leis    == {NoText, T("LEI1"), T("LEI2"), Lower("LEI3")}
Codes(good, bad) == {NoText, T(good), T(bad)}
Sums    == {NoAmount, A(1), Amount(1, 1, 0), Amount(-1, 0, 2), Amount(1, 0, 6)}
Margins == {NoAmount, Amount(1, 1, 0), Amount(-1, 0, 6)}
Currencies == {NoText, T("EUR"), T("JPY"), Lower("EUR"), T("EURO")}
ValueCurrencies == Currencies \union {T("USD")}
SharedValues == [
    uti |-> {NoText, T("UTI1"), T("UTI2"), Padded("UTI2")},
    prior_uti |-> {NoText, T("UTI0"), T("UTI1")},
    counterparty_1 |-> Leis, counterparty_2 |-> Leis,
    entity_responsible_for_reporting |-> {NoText, T("LEI1"), Lower("LEI3")},
    execution_timestamp |-> {NoTime, 432, 500}, event_timestamp |-> {NoTime, 432, 492},
    reporting_timestamp |-> {NoTime, 478, 492, 529}, effective_date |-> {NoTime, 10, 13},
    maturity_date |-> {NoTime, 9, 12, 16, 99}, termination_date |-> {NoTime, 0, 9, 11, 12},
    collateral_portfolio_code |-> {NoText, T("PF1")},
    master_agreement_version |-> {NoText, T("2002"), T("2011"), T("v2")}]
MCEmirValues == [
    action_type |-> {NoText, T("NEWT"), T("MODI"), T("VALU"), T("ETRM"), Padded("ETRM"),
                     T("XXXX"), Lower("MARU")},
    event_type |-> {NoText, T("TRAD"), T("NOVA"), T("UPDT"), T("XXXX")},
    asset_class |-> {NoText, T("CR"), T("EQ"), T("FX"), T("COMM"), T("XXXX")},
    product_id |-> {NoText, T("A"), T("SWAP")}, underlying_id |-> {NoText, T("ISIN1"), T("XXXX")},
    notional_amount |-> {NoAmount, A(9), Amount(1, 1, 0), Amount(0, 0, 0), Amount(-1, 0, 2),
                        A(2000000)},
    notional_currency |-> Currencies, price |-> Sums,
    price_currency |-> Currencies,
    valuation_amount |-> Sums, valuation_currency |-> ValueCurrencies,
    valuation_timestamp |-> {NoTime, 0, 432, 452, 500, 548, 596},
    valuation_type |-> {NoText, T("MTMO"), T("XXXX")},
    initial_margin_posted |-> Margins, initial_margin_collected |-> Margins,
    variation_margin_posted |-> Margins, variation_margin_collected |-> Margins,
    clearing_status |-> {NoText, T("CLRD"), T("NCLR"), T("XXXX")},
    clearing_ccp_lei |-> {NoText, T("LEI3"), Lower("LEI3")},
    collateralisation_category |-> Codes("FLCL", "XXXX"),
    leg2_notional_amount |-> {NoAmount, A(1)},
    leg2_notional_currency |-> {NoText, T("EUR"), T("USD")},
    leg1_payment_frequency |-> {NoText, T("MNTH")}, intragroup_indicator |-> {"none", "true"},
    hedging_indicator |-> {"none", "true"}, trading_capacity |-> {NoText, T("AGEN")},
    commercial_or_treasury_financing |-> {"none", "true"},
    reporting_obligation_indicator |-> {NoText, T("XXXX")},
    corporate_sector |-> {NoText, T("XXXX")}, nature |-> {NoText, T("F"), T("N"), T("NFC")},
    master_agreement_type |-> Codes("OTHR", "XXXX"), confirmation_method |-> {NoText, T("ELEC")},
    mtm_value_change |-> {NoAmount, A(1)}, delta |-> {"none", "outOfRange"},
    gamma |-> {"none", "negative"}] @@ SharedValues
MCSftrValues == [
    action_type |-> {NoText, T("NEWT"), T("ETRM"), T("COLU"), Lower("REUU"), Padded("MODI"),
                     T("XXXX")},
    event_type |-> {NoText, T("TRAD"), T("COLU"), T("MODI"), T("MARU"), T("XXXX")},
    sft_type |-> {NoText, T("REPO"), T("BSB"), T("SLEB"), T("MGLD"), T("XXXX")},
    master_agreement_type |-> {NoText, T("GMSLA"), T("XXXX")},
    loan_value |-> Sums \union {A(2000000)}, loan_currency |-> Currencies,
    collateral_value |-> Sums, collateral_currency |-> ValueCurrencies,
    haircut |-> {"none", "inRange", "outOfRange", "tooFine"},
    reuse_indicator |-> {"none", "true", "false"},
    rebate_rate |-> {"none", "positive", "tooFine"},
    lending_fee |-> {"none", "positive", "negative", "tooFine"},
    settlement_date |-> {NoTime, 9, 10, 18}, collateral_isin |-> Codes("ISIN1", "XXXX"),
    security_identifier |-> {NoText, T("ISIN1")}] @@ SharedValues

MCRestOfFile == <<[uti |-> Plain("UTI2")]>>
MCNfcThreshold == [IR |-> 3, FX |-> 3, CR |-> 1, EQ |-> 1, CO |-> 4]
=============================================================================
