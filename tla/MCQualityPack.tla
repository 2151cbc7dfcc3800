--------------------------- MODULE MCQualityPack ---------------------------
EXTENDS QualityPack, SampleRecords

\* Day 14 is a Monday.  The files are of that day; they are scanned from Tuesday
\* on, past a Wednesday that is a closing day, and what is said of them is
\* compared with what is said on the day after.
Monday == 14
Early == 48 * (Monday - 3)
Today == 48 * Monday

----------------------------------------------------------------------------
(* EMIR *)

State == [uti |-> T("U1"), status |-> T("OUTSTANDING"), termination_date |-> NoTime,
          maturity_date |-> 40, state_as_of |-> Today,
          valuation_amount |-> Units(100), valuation_timestamp |-> Today,
          reporting_counterparty |-> T("LEI1"), other_counterparty |-> T("LEI2"),
          notional_amount |-> Units(1000), notional_currency |-> T("EUR"),
          collateral_portfolio_code |-> T("PF1")]
Action == [confirmation_timestamp |-> T("2024"), reconciliation_status |-> T("PAIRED")] @@ NewSwap
Booked == [NewSwap EXCEPT !.uti = T("U1"), !.maturity_date = 40,
                          !.notional_amount = Units(1000), !.valuation_amount = Units(100)]
Margin == [uti |-> T("U1"), state_as_of |-> Today,
           initial_margin_posted_current |-> Units(10),
           initial_margin_collected_current |-> NoAmount,
           variation_margin_posted_current |-> NoAmount,
           variation_margin_collected_current |-> NoAmount,
           collateral_market_value |-> NoAmount, haircut_applied |-> NoAmount,
           collateralization_category |-> T("FCOL")]
Call == [collateral_portfolio_code |-> T("PF1"), action_type |-> T("MARU"),
         event_timestamp |-> Early, reporting_timestamp |-> Early,
         initial_margin_posted |-> Units(10), initial_margin_collected |-> NoAmount,
         variation_margin_posted |-> NoAmount, variation_margin_collected |-> NoAmount,
         margin_currency |-> T("EUR")]
Reply == [regime |-> "EMIR", feedback_type |-> "Rejected", uti |-> T("U3"), reported_field |-> "x"]
Paired == [regime |-> "EMIR", uti |-> T("U1"), pairing_status |-> T("PAIRED"),
           reconciliation_status |-> T("RECONCILED"), mismatched_fields |-> {}]
Rates == [counterparty_lei |-> T("LEI1"), pairing_rate |-> Units(98), recon_rate |-> Units(90),
          outstanding_unpaired |-> Units(1)]
Position == [position_set_kind |-> T("PosSet"), asset_class |-> T("INTR"), notional |-> Units(5),
             underlying_id |-> T("ISIN1"), mark_to_market_value |-> Units(1),
             collateral_value |-> NoAmount]
Warning == [level |-> "report", warning_category |-> T("MissingValuation"),
            missing_valuation_rate |-> Units(1), outdated_valuation_rate |-> Units(1),
            missing_margin_rate |-> Units(1), outdated_margin_rate |-> Units(1),
            abnormal_values_rate |-> Units(1)]
EmirEdition == [
    tsr |-> <<State, [State EXCEPT !.uti = T("U2"), !.status = T("LIVE"), !.maturity_date = 17,
                                   !.collateral_portfolio_code = NoText, !.state_as_of = NoTime]>>,
    tar |-> <<[Action EXCEPT !.uti = T("U1")]>>,
    book |-> <<Booked>>,
    msr |-> <<Margin>>,
    mar |-> <<Call, [Call EXCEPT !.event_timestamp = Today]>>,
    feedback |-> <<Reply>>,
    reconciliation |-> <<Paired>>,
    recon_stats |-> <<Rates>>,
    positions |-> <<Position>>,
    warnings |-> <<Warning, [Warning EXCEPT !.level = "trade"]>>,
    queries |-> <<[query_id |-> T("Q1"), requesting_lei |-> T("LEI1")]>>,
    advice |-> <<[submission_id |-> T("S1"), ack_status |-> T("ACPT"), ack_timestamp |-> T("2024")]>>]

EmirValues == [
    tsr |-> [uti |-> {NoText, T("U1"), Padded("U1")},
             status |-> {NoText, T("MATURED"), Padded("LIVE"), T("XXXX")},
             termination_date |-> {10}, maturity_date |-> {99}, state_as_of |-> {NoTime, Early},
             valuation_amount |-> {NoAmount, Units(0), Units(-102)},
             valuation_timestamp |-> {NoTime, Early},
             notional_amount |-> {Units(0)},
             notional_currency |-> {Lower("EUR"), T("USD")},
             collateral_portfolio_code |-> {NoText, T("PF1")}],
    tar |-> [uti |-> {NoText, T("U1"), Padded("U2"), T("U3")},
             action_type |-> {T("MODI"), Lower("ETRM"), Padded("NEWT"), T("POSC")},
             event_timestamp |-> {442, NoTime},
             reporting_timestamp |-> {528, 529, 530},
             counterparty_2 |-> {NoText}, notional_currency |-> {NoText},
             notional_amount |-> {Amount(0, 0, 0), Amount(-1, 0, 2)},
             valuation_amount |-> {NoAmount}, termination_date |-> {11, 16},
             nature |-> {NoText}, corporate_sector |-> {NoText}, confirmation_timestamp |-> {NoText},
             reconciliation_status |-> {T("UNPAIRED")}],
    book |-> [uti |-> {T("U2"), Padded("U1")}, termination_date |-> {12},
              action_type |-> {T("MODI")}, notional_amount |-> {NoAmount, Units(-1)},
              valuation_amount |-> {NoAmount}, maturity_date |-> {41}],
    msr |-> [uti |-> {T("U2"), Padded("U1"), NoText}, state_as_of |-> {NoTime, Early},
             initial_margin_posted_current |-> {NoAmount, Units(0), Units(-4)},
             initial_margin_collected_current |-> {Units(0), Units(12)},
             variation_margin_collected_current |-> {Units(1)},
             haircut_applied |-> {Units(101)}],
    mar |-> [collateral_portfolio_code |-> {T("PF2")}, event_timestamp |-> {Early, Today},
             initial_margin_posted |-> {Units(20)}, margin_currency |-> {NoText}],
    feedback |-> [feedback_type |-> {"Missing", "Inaccurate"}, regime |-> {"SFTR"},
                  uti |-> {NoText, T("U1"), Padded("U2")}],
    reconciliation |-> [pairing_status |-> {NoText, T("UNPAIRED"), Padded("UNPAIRED"), T("UNPR")},
                        reconciliation_status |-> {NoText, T("UNRECONCILED")},
                        mismatched_fields |-> {{"NtnlAmt"}}, regime |-> {"SFTR"}],
    recon_stats |-> [pairing_rate |-> {NoAmount, Units(94), Units(84)},
                     recon_rate |-> {Units(60)}, outstanding_unpaired |-> {Units(9)}],
    positions |-> [position_set_kind |-> {T("CollPosSet"), T("XXXX")}, notional |-> {NoAmount, Units(-5)},
                   underlying_id |-> {NoText}, mark_to_market_value |-> {NoAmount}],
    warnings |-> [level |-> {"counterparty"}, warning_category |-> {NoText},
                  missing_valuation_rate |-> {Units(30)}],
    queries |-> [query_id |-> {NoText}],
    advice |-> [ack_status |-> {NoText}]]

----------------------------------------------------------------------------
(* SFTR *)

SftrState == [uti |-> T("U1"), status |-> T("OUTSTANDING"), sft_type |-> T("MGLD"),
              termination_date |-> NoTime, maturity_date |-> 40, state_as_of |-> Today,
              reporting_counterparty |-> T("LEI1"), other_counterparty |-> T("LEI2"),
              loan_value |-> Units(100), loan_currency |-> T("EUR"),
              collateral_value |-> Units(100), collateral_currency |-> T("EUR"),
              haircut |-> Units(0), reuse_indicator |-> "true",
              collateral_portfolio_code |-> T("PF1"), collateral_isin |-> T("ISIN1")]
SftrBooked == [Repo EXCEPT !.uti = T("U1"), !.maturity_date = 40,
                           !.loan_value = Units(100), !.collateral_value = Units(100)]
Sides == [initial_margin_posted |-> Units(1), variation_margin_posted |-> Units(1),
          excess_collateral_posted |-> NoAmount,
          initial_margin_received |-> Units(1), variation_margin_received |-> Units(1),
          excess_collateral_received |-> NoAmount,
          margin_currency |-> T("EUR"), collateral_portfolio_code |-> T("PF1")]
Event(cp) == [action_type |-> T("NEWT"), event_date |-> Monday + 2,
              reporting_counterparty |-> T("LEI1"), other_counterparty |-> T(cp)] @@ Sides
Reuse == [total_reuse_value |-> Units(7), reuse_currency |-> T("EUR"),
          cash_reinvestment_rate |-> NoAmount]
SftrEdition == [
    tsr |-> <<SftrState, [SftrState EXCEPT !.uti = T("U2"), !.status = T("LIVE"),
                                           !.sft_type = T("REPO"), !.maturity_date = 17,
                                           !.collateral_isin = NoText]>>,
    tar |-> <<[Repo EXCEPT !.uti = T("U1")]>>,
    book |-> <<SftrBooked>>,
    msr |-> <<[state_as_of |-> Today] @@ Sides>>,
    \* Four pairs of counterparties, one of them with two events.
    mar |-> <<Event("LEI2"), Event("LEI3"), Event("LEI4"), Event("LEI5"), Event("LEI5")>>,
    reconciliation |-> <<[Paired EXCEPT !.regime = "SFTR"]>>,
    reuse_activity |-> <<[action_type |-> T("NEWT")] @@ Reuse>>,
    reuse_state |-> <<[state_as_of |-> Today] @@ Reuse>>,
    mcr |-> <<[uti |-> T("U2")]>>,
    tr_status_advice |-> <<[total_reports |-> 10, total_reports_rejected |-> 0,
                            rejected_reports_per_error |-> {}]>>]

SftrValues == [
    tsr |-> [uti |-> {NoText, T("U1"), Padded("U1")},
             status |-> {NoText, T("MATURED"), Padded("LIVE"), T("XXXX")},
             termination_date |-> {10}, maturity_date |-> {99}, state_as_of |-> {NoTime, Early},
             loan_value |-> {NoAmount, Units(0), Units(110)}, loan_currency |-> {T("USD")},
             collateral_value |-> {NoAmount, Units(0), Units(90)},
             haircut |-> {NoAmount, Units(20), Units(101)},
             collateral_portfolio_code |-> {NoText}],
    tar |-> [uti |-> {NoText, T("U1"), Padded("U2"), T("U3")},
             action_type |-> {Lower("ETRM"), Padded("NEWT"), T("CORR")},
             event_timestamp |-> {442, NoTime},
             reporting_timestamp |-> {529, 530}, counterparty_2 |-> {NoText}, sft_type |-> {NoText},
             loan_value |-> {Amount(-1, 0, 2)}, collateral_value |-> {NoAmount, Amount(-1, 0, 2)},
             haircut |-> {"outOfRange"}, termination_date |-> {11, 16}],
    book |-> [uti |-> {T("U2"), Padded("U1")}, termination_date |-> {12},
              loan_value |-> {NoAmount, Units(-1)}, collateral_value |-> {Units(102)},
              maturity_date |-> {41}],
    msr |-> [initial_margin_posted |-> {NoAmount, Units(-1)},
             variation_margin_posted |-> {NoAmount}, margin_currency |-> {NoText},
             excess_collateral_posted |-> {Units(3)},
             collateral_portfolio_code |-> {NoText}, state_as_of |-> {NoTime, Early}],
    mar |-> [other_counterparty |-> {T("LEI6"), T("LEI2")},
             excess_collateral_posted |-> {Units(3)}],
    reconciliation |-> [pairing_status |-> {NoText, T("UNPAIRED"), T("UNPR")},
                        reconciliation_status |-> {NoText}, mismatched_fields |-> {{"NtnlAmt"}}],
    reuse_activity |-> [action_type |-> {T("ERRT")}, total_reuse_value |-> {NoAmount},
                        cash_reinvestment_rate |-> {Units(60)}],
    reuse_state |-> [state_as_of |-> {NoTime, Early}, total_reuse_value |-> {NoAmount},
                     reuse_currency |-> {NoText}],
    mcr |-> [uti |-> {NoText, T("U1"), Padded("U2"), T("U4")}],
    tr_status_advice |-> [total_reports |-> {0, 2}, total_reports_rejected |-> {1, 2},
                          rejected_reports_per_error |-> {{"E1"}}]]

MCEditions == [EMIR |-> EmirEdition, SFTR |-> SftrEdition]
MCValues   == [EMIR |-> EmirValues, SFTR |-> SftrValues]

----------------------------------------------------------------------------

\* Two differences at a time in the files that are compared with each other,
\* one in a file that is read alone.
Layers == DOMAIN EmirEdition \union DOMAIN SftrEdition
MCWeight == [layer \in Layers |->
                IF layer \in {"tsr", "tar", "book", "msr", "feedback", "mcr"} THEN 1 ELSE 2]

MCProfile == [
    suggested |-> {"COMP.UTI_MISSING", "COMP.COUNTERPARTY_1_MISSING", "COMP.COUNTERPARTY_2_MISSING",
                   "COMP.NOTIONAL_CURRENCY_MISSING", "COMP.VALUATION_MISSING",
                   "ACC.NEGATIVE_NOTIONAL", "ACC.ZERO_NOTIONAL", "COMP.COLLATERAL_VALUE_MISSING",
                   "COMP.SFT_TYPE_MISSING", "ACC.NEGATIVE_LOAN", "ACC.NEGATIVE_COLLATERAL",
                   "ACC.HAIRCUT_OUT_OF_RANGE"},
    repeated_rejected_utis |-> {T("U2")}]
MCNfcThreshold == [IR |-> 3, FX |-> 3, CR |-> 1, EQ |-> 1, CO |-> 4]
MCMaxWarned == [missing_valuation_rate |-> 20, outdated_valuation_rate |-> 20,
                missing_margin_rate |-> 20, outdated_margin_rate |-> 20,
                abnormal_values_rate |-> 10]
MCConfigured == [DQI_REUSE_STATE_STALE_SFTR |-> <<1000, 3000>>]
=============================================================================
