------------------------------ MODULE CommandPlans ------------------------------
(***************************************************************************)
(* What each `opendqi emir|sftr` command does around its checks: the table *)
(* it persists its batch to, the table it then searches by UTI, whether it *)
(* loads the latest earlier snapshot, the reports it writes and in which   *)
(* order, and the three files its e-mail attaches.                         *)
(***************************************************************************)
EXTENDS Sequences

None == "none"

\* Without a store a command skips the store steps; "required" commands take
\* the path as a mandatory argument, "never" ones have no --store.
Plan(store, table, key, own, latest, files, mail) ==
    [store |-> store,    \* "never" | "optional" | "required"
     table |-> table,    \* the table the batch is persisted to, or None
     key |-> key,        \* the table searched by UTI, or None
     own |-> own,        \* the search excludes its own scan_id and later ones
     latest |-> latest,  \* the latest earlier snapshot of table is loaded
     files |-> files,
     mail |-> mail]

\* The three reports nearly every command writes.
Reports(csv, html) == <<"summary.json", csv, html>>

Storeless(csv, html) ==
    Plan("never", None, None, FALSE, FALSE, Reports(csv, html), {"summary.json", csv, html})

Attached == {"summary.json", "issues.csv", "report.html"}

\* Fault (a mutated form, as are the definitions marked Fault below): the search
\* has no upper bound on scan_id.
RecordScanUnbounded(table) ==
    Plan("optional", table, table, FALSE, FALSE,
         <<"summary.json", "issues.csv", "report.html", "xsd_errors.csv">>, Attached)

\* summary.json, issues.csv and report.html; xsd_errors.csv only with --xsd.
RecordScan(table) ==
    Plan("optional", table, table, TRUE, FALSE,
         <<"summary.json", "issues.csv", "report.html", "xsd_errors.csv">>, Attached)

\* Fault: the attachments are named like those of a record scan.
StateScanMailsScan(table, key, csv, html) ==
    Plan("optional", table, key, FALSE, TRUE, Reports(csv, html), Attached)

StateScan(table, key, csv, html) ==
    Plan("optional", table, key, FALSE, TRUE, Reports(csv, html), {"summary.json", csv, html})

AnswerScan(table, key) ==
    Plan("required", table, key, FALSE, FALSE, Reports("issues.csv", "report.html"), Attached)

ReadOnlyScan(key, csv, html) ==
    Plan("optional", None, key, FALSE, FALSE, Reports(csv, html), {"summary.json", csv, html})

ActivityScan(key) ==
    Plan("optional", None, key, FALSE, FALSE,
         <<"summary.json", "tr_activity_summary.json", "tr_activity_issues.csv", "tr_activity_report.html">>,
         {"summary.json", "tr_activity_issues.csv", "tr_activity_report.html"})

DataQualityPack ==
    Plan("never", None, None, FALSE, FALSE,
         <<"summary.json", "issues.csv", "indicators.csv", "evidence.csv", "report.html">>, Attached)

Normalizer == Plan("never", None, None, FALSE, FALSE, <<"records.parquet">>, {})

Validator == Plan("never", None, None, FALSE, FALSE, <<>>, {})

----------------------------------------------------------------------------
\* crates/opendqi-cli/src/commands/emir.rs

EmirScan            == RecordScan("emir_records")
EmirNormalize       == Normalizer
EmirValidate        == Validator
EmirFeedback        == AnswerScan("feedbacks", "emir_records")
EmirReconStats      == Storeless("recon_stats_issues.csv", "recon_stats_report.html")
EmirWarnings        == Storeless("warnings_issues.csv", "warnings_report.html")
EmirTrState         == StateScan("tr_state_records", "emir_records", "tr_state_issues.csv", "tr_state_report.html")
EmirMar             == StateScan("margin_activity_records", None, "mar_issues.csv", "mar_report.html")
EmirMsr             == StateScan("margin_state_records", "emir_records", "msr_issues.csv", "msr_report.html")
EmirTrActivity      == ActivityScan("emir_records")
EmirTrAudit         == ReadOnlyScan("emir_records", "tr_audit_issues.csv", "tr_audit_report.html")
EmirCollateralAudit == Storeless("collateral_audit_issues.csv", "collateral_audit_report.html")
EmirBookReconcile   == Storeless("book_vs_tsr_issues.csv", "book_vs_tsr_report.html")
EmirDataQualityPack == DataQualityPack
EmirQuery           == Storeless("query_issues.csv", "query_report.html")
EmirStatusAdvice    == Storeless("status_advice_issues.csv", "status_advice_report.html")

\* crates/opendqi-cli/src/commands/sftr.rs

SftrScan              == RecordScan("sftr_records")
SftrMissingCollateral == ReadOnlyScan("sftr_tr_state_records", "missing_collateral_issues.csv", "missing_collateral_report.html")
SftrNormalize         == Normalizer
SftrValidate          == Validator
SftrReconcile         == AnswerScan("reconciliations", "sftr_records")
SftrTrState           == StateScan("sftr_tr_state_records", "sftr_records", "tr_state_issues.csv", "tr_state_report.html")
SftrTrActivity        == ActivityScan("sftr_records")
SftrTrAudit           == ReadOnlyScan("sftr_records", "tr_audit_issues.csv", "tr_audit_report.html")
SftrBookReconcile     == Storeless("book_vs_tsr_issues.csv", "book_vs_tsr_report.html")
SftrDataQualityPack   == DataQualityPack
SftrMar               == Storeless("mar_issues.csv", "mar_report.html")
SftrMsr               == Storeless("msr_issues.csv", "msr_report.html")
SftrTrStatusAdvice    == Storeless("tr_status_advice_issues.csv", "tr_status_advice_report.html")
SftrReuseActivity     == Storeless("reuse_activity_issues.csv", "reuse_activity_report.html")
SftrReuseState        == Storeless("reuse_state_issues.csv", "reuse_state_report.html")

StoreCommands ==
    {EmirScan, EmirFeedback, EmirTrState, EmirMar, EmirMsr, EmirTrActivity, EmirTrAudit,
     SftrScan, SftrMissingCollateral, SftrReconcile, SftrTrState, SftrTrActivity, SftrTrAudit}

FileCommands ==
    {EmirNormalize, EmirValidate, EmirReconStats, EmirWarnings, EmirCollateralAudit,
     EmirBookReconcile, EmirDataQualityPack, EmirQuery, EmirStatusAdvice, SftrNormalize,
     SftrValidate, SftrBookReconcile, SftrDataQualityPack, SftrMar, SftrMsr,
     SftrTrStatusAdvice, SftrReuseActivity, SftrReuseState}
================================================================================
