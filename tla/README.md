# OpenDQI: formal models of the scan pipeline

OpenDQI reads the transaction reports a firm exchanges with a trade repository
(EMIR and SFTR, ISO 20022 XML, CSV or Parquet), runs some hundreds of data quality
checks on them and writes reports. This directory holds TLA+ models of the parts of
it whose correctness depends on order, concurrency, failure or history, and of the
checks and indicators themselves; the TLC configurations that check them on small
instances; and proofs of the main results.

Read [the inventory](#1-the-system), then [the modules](#2-modules), then
[the runs](#3-runs) and [the theorems](#4-theorems). `PROJECT.json` has the same
information in machine-readable form: components, runs, mutated definitions, a map
from every definition to the lines it models, findings and hazards.

    tlc -workers 2 -config HistoryStore.cfg MCHistoryStore    # check one run
    tlapm Store_proofs.tla                                    # check one set of proofs

## 1. The system

### Components

| Component (code) | State it keeps | Operations | Modelled by |
|---|---|---|---|
| Streaming issue sink (`opendqi-core` `dq/sink.rs`, `dq/mod.rs`, `dq/aggregate.rs`) | a buffer, run files in a temporary directory, the tallies of the summary, a merge heap | `push`, `push_batch`, `spill`, `finish`, the iterator, `Drop` | `IssueStream`, `IssueSink` |
| History store, rows (`opendqi-store` `persist.rs`, `load.rs`) | SQLite tables of scans and of their records | `persist_*_batch`, `load_prior_*`, `load_latest_prior_*` | `HistoryLog`, `HistoryStore` |
| History store, schema (`opendqi-store` `lib.rs`, `migrations.rs`) | the schema, `schema_version` | `open_store`, `migrate` | `StoreMigrations` |
| Feedback workflow (`opendqi-cli` `commands/feedback.rs`, the `feedbacks` table) | one row per answer of the repository, with its status | ingestion, `resolve`, `stale`, `analytics`, `list` | `FeedbackWorkflow` |
| Scan commands (`opendqi-cli` `commands/emir.rs`, `sftr.rs`, `opendqi-report`) | the store, the reports of an output directory, the e-mail | the 31 `emir` and `sftr` commands | `CommandPlans`, `ScanCommands` |
| Cross-batch checks (`dq/lifecycle`, `dq/sftr/lifecycle`, `dq/*_lifecycle.rs`) | none of their own: the history of batches | 21 checks in six families | `LifecycleChecks` |
| Record checks (`dq/*.rs`, `dq/sftr`) | none | the registries of `emir scan` and `sftr scan`, each check a predicate on one record, some on its file | `RecordValues`, `EmirRecordChecks`, `SftrRecordChecks`, `RecordChecks` |
| Checks on the repository's answers (`dq/tr_state`, `tr_activity`, `margin_*`, `reconciliation`, `feedback`, `emir_*`, `sftr_*`) | none | a registry for each kind of answer | `AnswerChecks`, `SftrAnswerChecks`, `AnswerRecords` |
| Cross-file comparisons (`tr_audit`, `book_reconcile`, `collateral_audit`, `pre_submission`) | none | joins of two or three files by UTI | `CrossFileChecks` |
| Data quality pack (`dq/dqi`, `business_days`) | none | the indicators of both regimes and their traffic lights | `QualityIndicators`, `SftrQualityIndicators`, `QualityPack` |
| Desktop server (`opendqi-server`) | a directory per upload, the locals of each handler | upload, checks on a blocking thread, results page, download | `DesktopServer` |
| Data model, configuration (`model.rs`, `config.rs`) | none | fields and thresholds | in part, `RecordValues`, `AnswerRecords` |
| Readers (`opendqi-xml`, `opendqi-io`) | a stack of element names, a current record | XML events, CSV columns, Parquet batches | no, see [below](#6-what-is-not-modelled) |
| XSD validation, Python bindings, SMTP test, memory trace | none | | no, see [below](#6-what-is-not-modelled) |

### How they interact

A scan command parses its inputs, and with `--store` opens the history store, writes
its batch in one transaction, and then reads what *earlier* scans left: the records
of the same UTIs (`load_prior_*`, bounded by the scan's own id or not at all) or
the latest earlier snapshot (`load_latest_prior_*`). The checks run as rayon tasks.
Each returns a vector of issues and pushes it into the sink under one mutex. `finish`
seals the sink and returns a summary and a sorted iterator; the command writes
`summary.json`, streams the iterator into `issues.csv`, writes `report.html`, and
perhaps mails the three, which it reads back from disk. Any error ends the command
at once through `?`, and undoes nothing. Commands are separate processes that share
nothing but the SQLite file and, if the user says so, an output directory.

The desktop server is a second front end: one process, one directory per upload, the
same registries, dispatched anew. The data quality pack is a third look at the same
files: it runs the registries, and next to them indicators that count the same defects
with predicates of their own. Nothing in the code ties the copies together; the runs
`RecordChecks`, `QualityPack` and `DesktopServer` do.

### What is hard about it

* **Concurrency.** Check tasks against one mutex; processes against one SQLite file;
  the three queries of `feedback analytics` against ingestions; uploads against each
  other, and a handler that is dropped while its blocking thread writes on.
* **Partial failure.** A spill that fails leaves a partial run file; a run that
  does not open is skipped; a report half written over an older one; an upload whose
  report or sidecar cannot be written.
* **The same rule written twice.** EMIR and SFTR siblings, an indicator and the check
  it rolls up, a pre-submission warning and the check it predicts, three definitions
  of *outstanding*, four ways to match a UTI, two dispatchers of the same operations.
* **Crash and repetition.** A kill inside a migration, or between the commit of a
  batch and its reports: the repetition of the command finds its own records.
* **Order.** A NEWT, its modifications, valuations and termination arrive spread
  over scans in any order; the snapshots of a trade have gaps.
* **Edges.** The buffer exactly at its bound, ties in the sort, percentages exactly
  at their limit, timestamps cut down to seconds, padded keys, empty batches, closed
  days, a 29 February.

`PROJECT.json` "hazards" lists each one at its line, with the properties meant to
catch it.

### What makes each component correct

* *Sink*: the output is every issue exactly once, in the order of `issue_cmp`,
  with a summary that counts the same rows, whatever the scheduling; memory is
  bounded; nothing stays in the temporary directory; the scan ends.
* *Store rows*: a batch enters the history at once and whole; a scan sees exactly
  the history before it; of two scans of one trade exactly one sees the other.
* *Store schema*: `open_store` returns only a store with the current schema, and no
  crash or race leaves a file that cannot be opened any more.
* *Feedback*: rows are permanent, statuses move one way, and a report composed of
  unsynchronised queries is still consistent.
* *Commands*: nothing is reported about a batch that is not stored, no scan is
  compared with itself, and success means complete reports of this execution.
* *Cross-batch checks*: a history is silent exactly when it is legal, and no change
  between two snapshots goes unreported.
* *Record checks*: the two rule books agree on what both have; a code means the same
  however it is spelt; every issue can be cured at the field it names without bringing
  another about that field, unless two rules contradict each other; and what a check says
  of an untouched record changes with time for few and known reasons.
* *Answers, comparisons, indicators*: they tell one story about one set of files, an
  alarm has rows to show for it, the order of rows decides nothing, and days only age.
* *Desktop server*: a redirect leads to whole reports, about the files of that request
  and equal to the command line's; every client that stays is answered.

## 2. Modules

Written in this order, the most important behaviour first. Definitions marked
"Fault" in the modules are mutated forms of the definition that follows them. They
are used by nothing here: they document a plausible bug that the named property
detects.

| Module | What it is |
|---|---|
| `IssueStream` | Abstract specification: what a caller of the sink may rely on. Issues are accepted, the stream is sealed, and they are emitted once each, least first. |
| `IssueSink` | The sink and its workers. Implements `IssueStream`. |
| `IssueSink_proofs` | Type, order, content and summary of the sink, and that it implements `IssueStream`. |
| `HistoryLog` | Abstract specification: scans enter a log one at a time, and a scan's view is a function of the log before its own entry. |
| `HistoryStore` | Transactions and queries row by row. Implements `HistoryLog`. |
| `StoreMigrations` | `open_store` by several processes. |
| `Store_proofs` | Rows and schema: prior views are the history before the scan, the store implements `HistoryLog`, and an open store is current. |
| `FeedbackWorkflow`, `FeedbackWorkflow_proofs` | The `feedbacks` table and its four commands. |
| `CommandPlans` | What each of the 31 commands does around its checks, as data. |
| `ScanCommands` | EXTENDS `CommandPlans`: executions of the plans over one store and several directories. Composes the store (a batch is one value, as `HistoryLog` allows) with the report writers. |
| `ScanCommands_proofs` | What a command compares with, leaves behind and mails. |
| `LifecycleChecks` | The 21 cross-batch checks over a history of scans. Rests on `HistoryStore`, which shows that concurrent scans see the prior view of some sequential history. |
| `LifecycleChecks_proofs` | What the checks of all scans together say of a history. |
| `RecordValues` | The values of a field as far as the checks tell them apart, the helpers of `formats.rs`, and `is_outstanding`. |
| `EmirRecordChecks`, `SftrRecordChecks` | One operator per check of `default_checks` and `default_sftr_checks`, and the registries. |
| `RecordChecks` | A report that is corrected field by field and scanned from day to day. |
| `RecordChecks_proofs` | What time, the regime, the spelling and a correction can change in a verdict, for any report. |
| `AnswerChecks`, `SftrAnswerChecks` | One operator per check on what comes back from the repository. |
| `AnswerRecords` | The fields of the rows of every such file, and the kind of value of each. |
| `CrossFileChecks` | The issues of the comparisons about one UTI. |
| `QualityIndicators`, `SftrQualityIndicators` | Population, counted rows and status of every indicator, and the business days. |
| `QualityPack` | Composes the six modules above over files whose next editions differ, row by row. |
| `QualityPack_proofs` | That checks, indicators and comparisons tell one story, for files of any length. |
| `DesktopServer` | Uploads, their blocking tasks, the directories, and the command line's dispatch to compare with. |
| `DesktopServer_proofs` | What a redirected client finds. |
| `SampleRecords` | Records TLC starts from, shared by two `MC` modules. |
| `MC*` | Constants for TLC. |

### How state and actions correspond to the code

**IssueSink.** `worker`, `todo` and `holder` are the rayon tasks, the vector a task
is pushing, and the mutex. `buffer`, `file`, `runs`, `dir` are the sink's fields: the
in-memory vector, the lines of `run-<k>`, the length of the vector of registered
runs, the temporary directory. `heap` and `pos` are the merge heap and the reader
positions. `RunCheck`, `LockSink`, `PushNext` (one iteration of `push_batch`, with
the spill it may trigger) and `UnlockSink` are `stream_checks_into`;
`FinishInMemory` and `FinishMerge` the two branches of `finish`; `NextInMemory`,
`NextMerged`, `Close` and `Abandon` the iterator and its drop. An issue is an opaque
value and `issue_cmp` is `Rank`, with ties. `FaultPoints` says which of four I/O
steps may fail; a failing spill leaves any prefix of the run it was writing.

**HistoryStore.** `scans` is the committed history in `scan_id` order, `writer` the
write lock of SQLite, `pending` the rows of an open transaction. `BeginPersist`,
`InsertRow` and `Commit` are `persist_*_batch`; `Abort` is an error or a kill at any
point, with SQLite's rollback (the id is given out again); `LoadPrior` and
`LoadLatest` are the queries, with the trimming of the keys where the code trims
them, the upper bound where the command passes one, and the failure beyond the
number of bind parameters. SQLite's locking, atomicity and visibility are taken as
given (marked external in the map).

**StoreMigrations.** One action per statement of `migrate`: the reads of
`load_applied` and `has_legacy_scans_table` are separate steps outside any
transaction, as in the code, so that another process can migrate in between. The
schema is two facts, one for each migration, because `m0001` is idempotent and
`m0002` is not.

**FeedbackWorkflow.** `rows` is the table, `Ingest`, `Resolve` and `Stale` the
writers; `ListFeedbacks`, `CountByReason`, `CountByUti`, `LookUp` and `WriteReport`
are the analytics command query by query, and every other command may run between
any two of them. The codes of a row are a list, as the reader pushes them: a row that
names a rule twice adds two to its count (`Mentions`), so what `count_feedbacks_by_reason`
returns is a number of mentions, not of rows.

**CommandPlans and ScanCommands.** A plan is a record: table written, table searched,
whether with an upper bound, latest snapshot or not, reports in their order,
attachments. One definition per command function; one interpreter for all.
`WriteFails` is a full disk (the file is there, truncated), `Fail` any `?`, panic
or kill.

**LifecycleChecks.** A batch is a sequence of rows reduced to the fields the checks
read. One operator per check, giving the set of keys it raises an issue for;
`Stored` is what a row has become when it is read back (timestamps in whole
seconds). `Scan` is persist, load, check; the reports may then fail to be written
(`lost`). Percentages are computed by the code in `f64`: exactly at the limit of
30 per cent, or of 50 per cent upwards, the model allows both outcomes. What a scan
compares with is what lies below its own id (`PriorRecords`, `PriorBatch`), so it can be
asked of a past scan too: `AsChecked` says that every scan raised what its checks say.

**RecordChecks.** The state is a record, the time of the scan and how many corrections
were made; the issues are a function of it. A text is a code and a form (plain, lower
case, padded), because the rules differ in exactly that: `eq_ignore_ascii_case`, `==`,
with or without `trim`. An amount is its sign, a magnitude and a scale; dates are days. Times are half hours,
because the code compares some durations exactly and others in whole hours or days,
truncated towards zero (`NumHours`, `NumDays`).
`EmirFields` and `SftrFields` are the fields of the two records that a check reads, and
`FieldType` what each may hold (`IsRecord`).
An issue keeps the id, the severity and the field it names; wording is left out. What a
correction may put into a field (`EmirValues`, `SftrValues`) includes a right value for each
field that an issue may name (`EmirCuresAssumption`, `SftrCuresAssumption`).

**AnswerChecks, CrossFileChecks, QualityIndicators.** Operators keep the names of the
functions (`compute_dqi_val_missing`, `compute_book_reconcile_issues`). An indicator is
the size of its population, the number it counts, and the rows it shows as evidence.
Business days are the week and a set of closed days.

**QualityPack.** `files` are the files at hand, one per layer. `Reread` (another value
in a row), `RepeatRow`, `NotReceived` and `DayPasses` are what a next edition may bring;
everything said about the files is a function of them and the day, as in the code. A file
is a sequence of rows of its layer (`AreFiles` of `AnswerRecords`): of each struct of
`model.rs` the fields that a check or an indicator reads, with a value of their kind.

**DesktopServer.** One action per `await` or file-system effect of `handlers::scan`:
`ReadPart`, `Refuse`, `MakeDirectory`, `SavePart`, `Dispatch`, `Finish`; `RunChecks` and
`WriteReport` are the blocking task. `Disconnect` drops the handler where it waits; the
task goes on. `Faults` bounds the file-system errors and panics. A file's contents are
a value and an issue says which registry found it in which contents, so that a report
about the wrong file is visible. `unsaved` is the set of files still to be saved; they are
saved in the order of their field names (`Pos`), as the code's map iterates. The registries and their inputs are those of the
server functions; `CommandIssues` and `CommandPacks` are written from the command functions
instead. The feedback checks are told apart, each by the type of answer it is about
(`FeedbackChecks`): the two about missing trades look up the firm's earlier reports, which
`opendqi emir feedback` takes from the store it must be given (`Stored`), and for which the
server passes an empty list. The auth.092 reader makes rejections and nothing else
(`AnswerTypes`, `docs/auth-messages/emir-auth092.md:89-94`), so neither of the two ever has
an answer to look at, and page and command show the same. `AlsoMissing` is a reader that
makes missing trades too: then they differ, and `SameAsCommandLine` is violated.

## 3. Runs

Every run but the two marked V must finish without error. A V run shows a
disagreement between the code and what its comments or docs say.

| Run | What it shows | Distinct states |
|---|---|---|
| `IssueSinkSpillFaults` | With spills that may fail while checks run: nothing is lost (`NothingLost`), the summary matches the rows (`SummaryMatchesReport`), the sink implements `IssueStream`, which includes that nothing is repeated (`ImplementsStream`), and every scan ends (`ScanEnds`) | 1,152 |
| `IssueSinkAnyFault` | With any of the four I/O steps failing the output is sorted (`OutputSorted`) | 4,842 |
| `IssueSinkResidual` V | A spill failing inside `finish` loses the residual | |
| `HistoryStore` | `ExactlyOneSeesTheOther`, `PriorViewIsHistory`, `LatestIsOneSnapshot`, refinement of `HistoryLog`, and every command ends (`AllEnd`) | 22,442 |
| `HistoryStorePadded` V | A key stored with blanks around it is never found again | |
| `StoreMigrations` | `OpenMeansCurrent`, `OnlyRacesFail`, `EventuallyOpen` from each of the four initial files | 22,994 |
| `FeedbackWorkflow` | `HistoryKept`, `OpenRowsUntouched`; what unsynchronised queries count lies between two states of the table (`CountsBetween`) | 894,530 |
| `ScanCommands` | `NeverItsOwnPrior`, `RepetitionSeesCommitted`, `OkMeansComplete`, `MailIsOwn` for all commands | 165,454 |
| `LifecycleChecks` | `SilentExactlyWhenLegal`, `NoSilentChange`, `DropRepeatsOnlyAfterEmpty`, `ErosionBounded`, `NoSilentDecline` | 317,660 |
| `RecordChecks` | EMIR and SFTR agree (`RegimesAgree`); spelling (`SpellingMatters`); issues can be cured where they point (`IssueNamesItsCure`); `TimeAlone` | 27,326 |
| `QualityPack` | Indicators against checks (`IndicatorsMatchChecks`), alarms against evidence (`AlarmsShowRows`), commands against each other (`OneStory`), warnings against scans (`WarnedMeansFlagged`), row order (`OrderIsIrrelevant`), ageing (`DaysOnlyAge`) | 9,521 |
| `DesktopServer` | `LinksWork`, `ReadAsUploaded`, `SameAsCommandLine`, and `Answered` for every client that stays | 97,783 |

Most properties relate two reads, two processes, or a state to the whole history
before it. `SilentExactlyWhenLegal` is the strongest of them: the incremental checks,
which see one batch and what the store gives back, against a definition of a legal
life that looks at all batches at once.

The properties of `RecordChecks` and `QualityPack` compare pieces of code that were
written apart and are meant to say the same. They name every exception: an exception in
a property is a difference the code has, stated so that a further one is found. The
comments at the properties, and [section 5](#5-findings), say which they are.

Type invariants are not listed in the runs, but for the sink's. Those of `IssueSink`,
`HistoryStore`, `StoreMigrations`, `ScanCommands`, `LifecycleChecks`, `RecordChecks`,
`QualityPack` and `DesktopServer` are proved for all constants, that of `FeedbackWorkflow` for
the table and the counters only.

### Bounds and why they are enough

* `IssueSink`: three checks with three, two and no issues, one tie in `Rank`, one
  severity override, a buffer of two. Spills then happen in the middle of a batch,
  at its end and across two batches; up to three runs are merged, with and without
  a residual; a spill can fail, be retried and fail again. The proofs lift the order
  and content results to all sizes.
* `HistoryStore`: two scans with a common key, a scan of an empty batch, and a
  snapshot scan that searches another table than it writes and exceeds the bind
  limit. Every property is about at most two scans plus what lies between.
* `StoreMigrations`: three processes and two kills. Two processes are needed for
  each race, the third runs in whatever state the race left.
* `FeedbackWorkflow`: three rows, two files, three days, two analytics runs.
  `MaxRows`, `MaxClock` and `MaxRuns` bound the state space.
* `ScanCommands`: every command twice in one directory with every combination of
  options, so that each step may fail in the first execution and be repeated; and
  the commands that persist, three at a time over one store.
* `LifecycleChecks`: three scans, which is the least with a scan between two others
  (a gap, an empty snapshot, a failed scan); 21 record batches and 16 snapshots
  about one trade next to another, 18 margin batches. Half seconds make the loss of
  fractions visible, a day has four of them. `MaxScans` is the bound.
* `RecordChecks`: `Corrections = 2` and `Steps = 3`, which counts the days that pass too,
  from one sample report of each regime that raises few issues. A correction may put any of
  the listed values into any field, so two of them lead into and out of rules about up to
  two fields, and change the action or asset class on the way. A maturity is "abnormal"
  after five days instead of 51 years, so that it is crossed; day 11 is a 29 February. The
  values of a field include a right one, a wrong one, a malformed one where the rules tell
  them apart (a currency of four letters), and none.
* `QualityPack`: `Changes = 2` from one edition of every layer, the days that pass included.
  Two changes are the least with which two rows compete, or a row and its companion differ
  at once; by `Weight`, a layer that no comparison reads changes once and alone. Tuesday to
  Wednesday, which is closed, to Thursday: both a business day and none pass. A report may
  come exactly at the limit of lateness, half an hour and an hour after it.
* `DesktopServer`: two requests, as interference is between two; the first takes each of 25
  forms (every operation, missing, blank, unknown and equally named parts), the second
  uses the same names meanwhile. `Faults = 1` anywhere, `BodyLimit = 3` files, one less
  than the largest form.

Deadlock is checked in every run but three: a report whose corrections and days are used
up (`RecordChecks`), files likewise (`QualityPack`), and two answered requests
(`DesktopServer`) have nothing left to do.

### Fairness

* `IssueSink`: weak fairness of each worker, of `finish` and of the iterator: rayon
  runs every task, and the report writer pulls until the end or an error. Weak
  fairness is enough for the mutex because a task takes it once.
* `HistoryStore`: weak fairness of each command's own steps. Aborts are not fair.
  A command that waits for the write lock either gets it or fails as busy.
* `StoreMigrations`: weak fairness of each process, which includes that a failed
  command is run again: that is the user, and `EventuallyOpen` says that running it
  again is all it takes.
* `DesktopServer`: weak fairness of each handler and of each blocking task: the runtime
  polls what can go on. Sending a form, leaving and faults are not fair.
* The other runs check safety only.

## 4. Theorems

Each is proved for all values of the constants that satisfy the assumptions of the
module, which TLC evaluates on each run. They are weak: sizes are numbers
(`SinkAssumption`, `StoreAssumption`, `MigrationsAssumption`, `WorkflowAssumption`,
`FaultsAssumption`, `LifecycleAssumption`), a command line is a sequence of the commands
there are (`CommandsAssumption`), a form is a sequence of parts and the field names are
in some order that begins with `file` (`FormsAssumption`, `FieldsInOrder`), rows are records
whose amounts and times are numbers or absent (`RowsAssumption`), a report is a record of its
regime with any value of its kind in every field (`RecordsAssumption`), a file of the pack is
a sequence of rows of its layer and a configured threshold is no less than zero
(`PackAssumption`, `thresholds.rs:14-17`). `EmirCuresAssumption` and `SftrCuresAssumption` say
which right values a correction may choose from; only `EveryIssueHasItsCure` rests on them.

| Theorem | What it says |
|---|---|
| `IssueSink_proofs!TypeCorrect` | every reachable state of the sink is well typed |
| `IssueSink_proofs!OutputAlwaysSorted` | the output is sorted whatever fails |
| `IssueSink_proofs!NothingTwice` | no issue is written twice, whatever fails |
| `IssueSink_proofs!NothingEverLost` | if `FaultPoints \subseteq {"spill"}`, a report read to its end has every issue |
| `IssueSink_proofs!SummaryIsTheReport` | and, by the same assumption, the summary counts the rows of the report |
| `IssueSink_proofs!SinkImplementsStream` | and the sink implements `IssueStream` |
| `Store_proofs!StoreTypeCorrect` | type correctness of the store |
| `Store_proofs!PriorViewCorrect` | a prior view is exactly the matching history before the scan |
| `Store_proofs!DuplicatesAreSeen` | if stored keys are trimmed, of two scans of a trade exactly the later sees the other |
| `Store_proofs!LatestIsAWholeScan` | the latest prior snapshot is one whole scan, the last below the id that has rows |
| `Store_proofs!StoreImplementsHistory` | transactions and queries row by row implement `HistoryLog` |
| `Store_proofs!MigrationsTypeCorrect` | type correctness of the migration pipeline |
| `Store_proofs!OpenStoreIsCurrent` | an open store has the current schema |
| `Store_proofs!OpenFailsOnlyInRaces` | opening fails only if another process wrote to the file meanwhile |
| `FeedbackWorkflow_proofs!OpenRowsNeverTouched` | an open row has the date it came in |
| `FeedbackWorkflow_proofs!FeedbackIsPermanent` | rows are never dropped, rewritten or reopened |
| `FeedbackWorkflow_proofs!CountsNeverContradict` | what three queries count, a row once for every time it names a rule, lies between two states of the table |
| `ScanCommands_proofs!CommandsTypeOK` | type correctness of the commands |
| `ScanCommands_proofs!NoBatchIsItsOwnPrior` | no command is compared with its own batch, also where its query has no bound |
| `ScanCommands_proofs!RepetitionComparesWithCommitted` | a repeated command sees what the failed one had committed |
| `ScanCommands_proofs!SuccessMeansComplete` | a command that succeeded left whole reports of its own |
| `ScanCommands_proofs!MailIsOfItsExecution` | an e-mail has the reports of its own execution |
| `LifecycleChecks_proofs!LifecycleTypeOK` | an issue names a check and a key some row has |
| `LifecycleChecks_proofs!RecordsSilentExactlyWhenLegal` | all scans are silent about a trade exactly when its life over all batches is legal |
| `LifecycleChecks_proofs!DropsReportedOnce` | a drop is repeated only after empty batches |
| `LifecycleChecks_proofs!ChangesReported` | no field changes in silence, whatever lies between |
| `LifecycleChecks_proofs!DeclinesReported` | no margin shrinks in silence, whatever lies between |
| `LifecycleChecks_proofs!ErosionHasAFloor` | n snapshots take no more than the n-th power of the limit in silence |
| `RecordChecks_proofs!RecordsTypeOK` | a report stays a record of its regime |
| `RecordChecks_proofs!OnlyAgeingChangesAVerdict` | a day changes few verdicts, and those in one direction |
| `RecordChecks_proofs!TheBooksAgree` | EMIR and SFTR rules agree on the fields both records have, but for two rules |
| `RecordChecks_proofs!SpellingIsSeenByFewRules` | how a code is written matters to the named rules only |
| `RecordChecks_proofs!EveryIssueHasItsCure` | an issue can be ended at the field it names, without another about that field, but for the named conflicts |
| `QualityPack_proofs!PackTypeCorrect` | the files stay files of rows of their layers |
| `QualityPack_proofs!WarningsAreFlagged` | a pre-submission warning names what the scan of the record flags, but for named differences |
| `QualityPack_proofs!IndicatorsCountFlagged` | an indicator counts the rows its check flags, but for named differences (a delay within an hour of its limit among them) |
| `QualityPack_proofs!FilesOnlyAge` | a day adds findings of age and lets the indicators of age grow, no others |
| `QualityPack_proofs!AlarmsAreEvident` | an amber or red indicator has rows to show |
| `QualityPack_proofs!RowsInAnyOrder` | reading the files backwards changes no figure, and no finding but where two rows compete |
| `QualityPack_proofs!CommandsTellOneStory` | scans, audits and the book do not contradict each other about a trade |
| `DesktopServer_proofs!ServerTypeOK` | type correctness of the server |
| `DesktopServer_proofs!RedirectedLinksWork` | behind each link of a page are whole reports |
| `DesktopServer_proofs!ReportsOfTheUpload` | the reports are about the files of the request |
| `DesktopServer_proofs!PageIsTheCommandLine` | the page shows what the command line says, but for the named differences; feedback too, whatever the command's store holds |

**The inductive invariants.** Each is a definition of its module, and holds as an
invariant of the runs above when TLC is given it (`ContentInv` and `TallyInv` only with
the fault points of `IssueSinkSpillFaults`); the runs list what follows from them.

* `OrderInv` (sink). That the output is sorted says nothing about the next issue.
  What carries it over is that every run is sorted, that the heap holds the first
  line not yet yielded of every run that is still read, and that every issue
  yielded is at most every head. Popping a least head keeps all three, and so do
  runs that disappear, which is why no fault can break the order.
* `ContentInv` (sink). Every pushed issue is in the buffer or in a registered run;
  after the seal, every line of a run is either written or still ahead of its
  reader. `JoinedPushed` shows that after the join everything was pushed. A fault
  in `finish` or in a reader breaks this, and `IssueSinkResidual` shows how.
* `OnceInv` (sink). The converse: an issue is in the buffer or on one line of one run,
  and not among what was yielded as long as a reader has it ahead. It needs no
  assumption on faults. With `TallyInv`, that the tallies are those of the issues
  pushed, it gives the summary: rows written are as many as issues pushed.
* `StoreInv` (store). An id is a position in the history, although the id of an
  aborted transaction is given out again; only the holder of the lock is writing;
  a committed scan is there once. `RowsInStable` then says that what lies below a
  position never changes, so a prior view stays right for ever. `LatestInv` adds that
  who has a snapshot has ended.
* `MigrationsInv` and `RacesInv` (schema). `schema_version` matches the schema, and a
  process that is about to commit is the only one and still has that version to apply;
  what an undisturbed process read is what the file says.
* `CountsInv` (feedback). The rows listed first are the first rows there are now, up to
  their status. The other two theorems use `OpenRowsUntouched` with the part of the type
  invariant that speaks of the table.
* `CommandsInv` (commands). A directory is one command's until it ends (`InTurn`), and the
  batches of one directory are committed in the order of the commands (`StoreOrder`), so
  what a repetition finds is older; the reports up to the next one are there, unless a
  later command wrote over them (`DiskOwned`, `WrittenSoFar`).
* `LifecycleInv` (cross-batch checks). `AsChecked` alone: every scan raised what its checks
  say of its batch and of the history below its id, which later scans do not touch
  (`HistoryStays`, `CheckedStays`). The properties are consequences of it in one state.
  `FlaggedIff` says what one scan says of a trade, and `LegalLife` is the conjunction of
  that over all scans. For snapshots, take the scans that still state the old value: the
  next scan with rows after the last of them was compared with it (`LeavingCompared`),
  and it either states another value or misses the trade. `ErosionHasAFloor` takes the
  first snapshot below the bound instead; that the powers it speaks of exist is
  `PowerExists`.
* `ServerInv` (desktop server). A request has a directory of its own (`OwnDirectory`), the
  files kept are the last ones given per field (`FilesAreSent`), those saved so far lie
  there under their names, the last in field order winning (`SavedAsKept`), what the task
  found is what these files say (`FoundInUploads`), and the reports written so far are
  whole (`ReportsAreWhole`).

**The record checks** need no invariant but the type: what they say is about one state and
the next. The work is in the number of checks.

* *Time*. Four EMIR checks and three SFTR ones take the hour of the scan; all others are the
  same set of issues before and after (`EmirTimedChecks`, `SftrTimedChecks`). Of these seven
  each moves in one direction, but for the EMIR check of a past maturity, which an
  announced termination ends; the latest maturity that is normal moves forward with the day
  unless that is a 29 February (`LimitMoves`).
* *Regimes*. For each group of checks, a lemma says which ids it can raise that are in
  either of the two books' shared rules (`EmirIssuesOfBoth`, `SftrIssuesOfBoth`), and
  `SharedChecksAgree` says that each of fourteen pairs of siblings finds the same, given
  equal values in the shared fields; two more need the action to be one both books know, or
  differ in severity (`OtherChecksAgree`).
* *Spelling*. Of two records that are `Alike` but for the forms of their codes, each group
  of checks raises the same ids but for the named ones; if also the same codes have blanks
  around them, but for `ExactRules`. A set of issues gained in one direction is the set
  lost in the other, so each lemma is stated for one direction.
* *Cures*. An issue is raised by a check that names its field (`EmirIssuesRaised`,
  `SftrIssuesRaised`), so correcting a field touches the verdict about it only through the
  few checks that name it. For most fields one value is right whatever else the report says
  (`FixedCure`); for seven EMIR fields and three SFTR ones the right value depends on others,
  such as the currency on the notional's (`EmirDependentCures`, `SftrDependentCures`), and
  where the rules leave none the case is one of the conflicts. A duplicate UTI is cured by
  one new to the file, a valuation by the day before the scan, which is why the proof
  needs that scans are daily (`EveryScanIsDaily`).

**The pack** needs no invariant but the type either; what makes its proofs long is that
everything is said of files of any length.

* *Two predicates for one thing* (`WarningsAreFlagged`, `IndicatorsCountFlagged`). For each
  layer, one lemma says which ids its registry can raise and when (`TsrIds`, `EmirTarIds`),
  and one per layer compares that with the indicator's own predicate, row by row (`TsrMirrors`).
* *Age* (`FilesOnlyAge`). A day later each measured age is the same or one business day more
  (`OneDayMore`), so what was older than a limit still is (`AgedTomorrow`); no other check or
  indicator looks at the day.
* *Evidence* (`AlarmsAreEvident`). A count without rows is zero (`ByRow`, `Evident`), and
  the status of zero is green by the signs of the thresholds (`QuietIndicator`). That none of
  four numbers is more than two standard deviations above their mean is `NoneFarAbove`,
  from a sum of squares split at one summand.
* *Order* (`RowsInAnyOrder`). A file read backwards is a permutation of it. Each figure is a
  cardinality or a sum over the rows, and the lemmas are for any permutation
  (`SameCount`, `SumReordered`). Sums need an induction over finite sets, which is a least
  counterexample here: `EverySubset` finds one, `SumStep` takes one summand away.
* *One story* (`CommandsTellOneStory`). All comparisons match trimmed UTIs (`KeyOfText`), and
  the row of a trade is the only one it has, or the last (`RowOfTrade`). From there the
  findings of audit, book and collateral audit are compared with those of the scans.

**The server** compares two dispatchers by unfolding both. Only feedback needs a reason: the
checks that have answers to look at are not those that look up earlier reports
(`FeedbackNeverLooksUp`), so the command's store changes nothing it says
(`CommandSaysTheSame`).

**The refinements.** Spilling, sorting and merging implement `IssueStream`: a push is an
`Accept`, the seal a `Seal`, a yielded head an `Emit` of a least issue not yet emitted, which
needs `OrderInv`, `ContentInv` and `OnceInv` together; every other step stutters. In the
store a commit is the step of `HistoryLog` that enters a scan, the last of the queries of
a scan is the one that looks at the log, and `StoreInv` says that it sees the log below
the scan's own entry although others have entered since.

**Only model-checked.**

* Liveness, the only properties of the passing runs without a theorem (`ScanEnds`, `AllEnd`, `EventuallyOpen`, `Answered`): the proof system has no
  rules for fairness and ENABLED.
* The proof system cannot do induction over data with the library's theorems, so no
  recursive operator is used in a module with proofs; where an induction is needed, it is
  a least counterexample (`FirstScan`, `PowerExists`, `EverySubset`).

## 5. Findings

1. **A failed last spill loses issues** (`IssueSinkResidual`, `sink.rs:193`). The
   comment above `spill` says the buffer is kept and `finish` "merges the residual
   from memory"; `finish` reads run files only. `summary.json` then counts more
   issues than `issues.csv` has.
2. **Padded keys are never found** (`HistoryStorePadded`, `load.rs:74`). Keys are
   trimmed before the search, and stored as read; the Parquet reader does not trim.

The other disagreements met while modelling are not runs of their own. Where a property
would otherwise fail because of one, it is an exception the property names.

*Store and feedback.*

* `count_feedbacks_by_reason` is a "count of feedback rows grouped by `reason_code`"
  (`load.rs:1049`), but counts the codes of each row, one that is listed twice twice
  (`load.rs:1086-1088`). `CountsBetween` speaks of mentions accordingly.
* `rejections.csv` is filtered to open *and* stale rows (`feedback.rs:299`), although the
  help of `stale` says "do not surface again"; and `resolve` and `stale` change every row
  that has another status (`load.rs:1041`), although `docs/history-store.md:120` allows only
  transitions from `open`.
* The latest prior snapshot is the latest one *that has rows* (`load.rs:620`): after a
  no-activity report the same trades are reported dropped by each further one
  (`DropRepeatsOnlyAfterEmpty` says exactly when).
* `docs/lifecycle-checks.md` has a valuation "strictly earlier" than the latest prior one
  flagged, but the prior one has lost its fraction of a second. `SilentExactlyWhenLegal`
  states legality to the second accordingly.

*Record checks* (`TimeAlone`, `IssueNamesItsCure`, `SpellingMatters`, `RegimesAgree`).

* On a 29 February `max_normal` falls back to today, so every later maturity is abnormal
  for that day (`abnormal_maturity.rs:32-36`).
* Three pairs of EMIR rules cannot be satisfied together in some records: the valuation of
  an uncleared swap must be at most a day old at the scan and not later than the report; its
  currency must be the notional's and the price's; a NEWT of a novation must and must not
  name its prior UTI. And while a notional, price or loan currency is malformed, the currency
  of the valuation or collateral must be equal to it and well-formed, so the issue about the
  one has no cure before the other.
* Two rules compare the action with its exact letters, and some twenty do not trim.
* `SFTR.CON.MODI_PRESERVES_UTI` says it mirrors the EMIR check and is its opposite
  (`sftr/parity.rs:309`).

*Answers and indicators* (`OneStory`, `IndicatorsMatchChecks`, `AlarmsShowRows`).

* `tr_audit.rs:27` does not count `LIVE` as outstanding, `tr_state/mod.rs` does, so a rejected
  trade listed as `LIVE` is not escalated (`docs/tr-audit.md:49`); the indicators have a third
  definition.
* `DQI_TIM_REPORTING_LATE` and its SFTR sibling compare the delay in whole hours
  (`tim_reporting_late.rs:42`, `tim_reporting_late_sftr.rs:43`), the check it rolls up the
  exact delay (`late_reporting.rs:33-34`): a report 24h30m late is flagged under a limit of
  24 hours and not counted, although `tim_reporting_late.rs:6-7` says "same threshold
  semantics". The indicator also takes a limit below zero for none, and measures from the
  execution where the check measures from the event. `TwoTimesOrPartOfAnHour` is the exception.
* `DQI_VAL_STALE` counts business days up to the day of the pack, `TST.STALE_VALUATION` calendar
  days up to the row's own date.
* The spike indicator cannot fire over four pairs, although four are its documented
  minimum. Over five an outlier can lie exactly on the limit, and whether it is counted is
  decided by the rounding of `f64`.
* The check of collateral below the loan compares the plain value, the indicator the value
  after the haircut; of a negative value a haircut takes away upwards, so that there the
  check may flag a row the indicator does not count.

*Desktop server* (`SameAsCommandLine`, `ReadAsUploaded`).

* A plain scan leaves out what the reader says of the file (`scan.rs:1115-1145`), which
  `docs/desktop-web-ui.md` does not list among the differences; a missing-collateral scan
  adds what the reader says of the companion report, and the command line's audit runs the
  lifecycle checks that need no store.
* `docs/desktop-web-ui.md:19-21` and the comments at `scan.rs:69-71` and `scan.rs:714-716`
  say that a feedback upload runs the format and namespace checks only, and that the
  `EMIR.FBK.*` checks remain command-line only. The server runs all four of them, over no
  earlier records (`scan.rs:739-741`), and `TR_REJECTED_UTI`, which looks nothing up, fires
  on the page for every rejected UTI, as on the command line. The two that would differ
  without a store never fire in either.
* Two files of one name are read as the one in the later field.

## 6. What is not modelled

* **Readers.** Field extraction, sequential and without shared state. What the
  models need of them (whether keys are trimmed, in which order rows come) is a
  parameter.
* **XSD validation** calls an external `xmllint`; its one report is in
  `CommandPlans`.
* **Python bindings** call the readers and checks in memory: no store, no spill,
  no order to get wrong.
* **Within the modelled parts**: the columns a mapping declares present (`MappingPresence`),
  which gate some indicators; texts below the level of a code (byte positions, Unicode);
  decimals beyond sign, magnitude and scale; the rounding of `f64` sums, means and standard
  deviations, which are exact here (at a tie, as of five pairs in the spike indicator, or in
  the last digits of a sum in another order, the code may differ); the shutdown of the desktop server, whose
  temporary root goes with the process.
* **Where the code promises nothing a property could state**: `feedback resolve` also takes
  rows of the UTI ingested after the user looked (`feedback.rs:168`); the four analytics
  reports are written in turn over those of the last run (`feedback.rs:277`); of a snapshot
  that has a UTI twice, the row inserted last is the prior one (`tr_state_lifecycle.rs:141`).
* **Data model, configuration, wording and layout of reports, SMTP, logging**: no
  behaviour that a property here is about.

## 7. Plan

Done: the sink with its abstract stream, the store with its abstract log, the
migrations, the feedback workflow, the commands, the cross-batch checks, the record
checks, the answers and comparisons with the data quality pack, the desktop server.

Every invariant and action property of the passing runs is proved, and so are both
refinements. Liveness stays with TLC.

What could follow:

1. *Bounded top-issues heap* of the HTML report against "the N greatest".
2. *Readers*: the state machine of an XML reader on well-formed sequences of events.
3. *Reports of a reused directory*: a scan without `--xsd` leaves the `xsd_errors.csv` of an
   earlier execution where it is (`emir.rs:869`), which no property covers.
4. *Batches beyond the limit of bind parameters* fail after their commit (`load.rs:67`). The
   store model has that step, and what it leaves behind is what any failure after a commit
   leaves (`RepetitionSeesCommitted`); no property says when a batch is small enough.
