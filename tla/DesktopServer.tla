----------------------------- MODULE DesktopServer -----------------------------
(***************************************************************************)
(* The local web UI: POST /api/scan reads the parts of a multipart form,   *)
(* saves the uploaded files into a directory of the scan, runs the checks  *)
(* on a blocking thread and redirects to a page that links three reports.  *)
(*                                                                         *)
(* Requests run concurrently and a client may go away; its handler is then *)
(* dropped where it waits, while the thread it started works on.           *)
(***************************************************************************)
EXTENDS Naturals, FiniteSets, Sequences, SequencesExt, Functions

CONSTANTS
    Posts,        \* the requests
    Forms,        \* post -> the forms its client may send: sequences of parts
    FieldOrder,   \* the file fields, in the order of a BTreeMap's keys
    Unreadable,   \* <<reader, content>>: the reader returns an error
    Silent,       \* contents a reader has nothing to say of (Parquet always)
    BodyLimit,    \* the bytes of a request body the web framework accepts
    Faults        \* file-system errors and panics that may happen

None == "none"
Empty == "no bytes"
File(stem, ext) == [stem |-> stem, ext |-> ext]

\* What the form carries: two text fields, and files (name, content).
Text(field, text) == [field |-> field, text |-> text]
Upload(field, name, content) == [field |-> field, name |-> name, content |-> content]

Fields == Range(FieldOrder)
Regimes == {"emir", "sftr"}
Operations ==
    {"scan", "tr-state-scan", "tr-activity-scan", "feedback", "recon-stats", "warnings",
     "mar-scan", "msr-scan", "missing-collateral", "validate", "book-reconcile", "tr-audit"}

ASSUME FieldsInOrder ==
    /\ Len(FieldOrder) \in Nat /\ DOMAIN FieldOrder = 1..Len(FieldOrder)
    /\ IsInjective(FieldOrder) /\ Len(FieldOrder) > 0 /\ FieldOrder[1] = "file"
    /\ Fields \cap {"regime", "operation"} = {}

\* A part of a file field has a content; the scan fields are told by their names.
ASSUME FormsAssumption ==
    \A p \in Posts : \A f \in Forms[p] :
        /\ Len(f) \in Nat /\ DOMAIN f = 1..Len(f)
        /\ \A i \in 1..Len(f) : f[i].field \in Fields => "content" \in DOMAIN f[i]

ASSUME FaultsAssumption == Faults \in Nat

\* A map after an insertion, which replaces what was there under the key.
With(map, key, value) == [k \in DOMAIN map \cup {key} |-> IF k = key THEN value ELSE map[k]]

\* A BTreeMap is read in the order of its keys.
Pos(f) == CHOOSE i \in 1..Len(FieldOrder) : FieldOrder[i] = f
FirstField(fields) == CHOOSE f \in fields : \A g \in fields : Pos(f) <= Pos(g)

Summary == File("summary", "json")
Issues  == File("issues", "csv")
Report  == File("report", "html")
Sidecar == File("scan_meta", "json")
Artifacts == <<Summary, Issues, Report>>

VARIABLES
    form,       \* the parts the client sends
    at,         \* how many of them the handler has read
    pc,         \* where the handler is
    regime, operation,   \* its locals, None while missing or invalid
    files,      \* field -> the last non-empty file part of that field
    dir,        \* the scan directory it made, None before
    unsaved,    \* fields whose file is still to be saved, in field order
    task,       \* the blocking task
    written,    \* how many reports it has written
    found,      \* the issues it collected, by the checks that report them
    answer,     \* what the client was answered
    connected,  \* the client is still there
    disk,       \* the scan directories, in the order they were made
    faults      \* faults left

handler == <<form, at, pc, regime, operation, files, dir, unsaved>>
vars == <<handler, task, written, found, answer, connected, disk, faults>>

Init ==
    /\ form = [p \in Posts |-> <<>>]
    /\ at = [p \in Posts |-> 0]
    /\ pc = [p \in Posts |-> "idle"]
    /\ regime = [p \in Posts |-> None]
    /\ operation = [p \in Posts |-> "scan"]
    /\ files = [p \in Posts |-> <<>>]
    /\ dir = [p \in Posts |-> 0]
    /\ unsaved = [p \in Posts |-> {}]
    /\ task = [p \in Posts |-> None]
    /\ written = [p \in Posts |-> 0]
    /\ found = [p \in Posts |-> {}]
    /\ answer = [p \in Posts |-> None]
    /\ connected = [p \in Posts |-> TRUE]
    /\ disk = <<>>
    /\ faults = Faults

Answer(p, a) ==
    /\ answer' = [answer EXCEPT ![p] = a]
    /\ pc' = [pc EXCEPT ![p] = "done"]

Fault == faults > 0 /\ faults' = faults - 1

----------------------------------------------------------------------------
(* Reading the form *)

Submit(p) ==
    /\ pc[p] = "idle"
    /\ \E f \in Forms[p] : form' = [form EXCEPT ![p] = f]
    /\ pc' = [pc EXCEPT ![p] = "reading"]
    /\ UNCHANGED <<at, regime, operation, files, dir, unsaved, task, written, found, answer, connected, disk, faults>>

CurrentPart(p) == form[p][at[p] + 1]

Parsed(text, allowed) == IF text \in allowed THEN text ELSE None

\* Only the bytes of file parts weigh: one unit each.
Weight(part) == IF "content" \in DOMAIN part /\ part.content # Empty THEN 1 ELSE 0
TooLarge(p) ==
    Cardinality({i \in 1..at[p] + 1 : Weight(form[p][i]) = 1}) > BodyLimit

\* An input left blank sends an empty part, which is not a file.
Keep(old, part) ==
    IF part.content = Empty THEN old
    ELSE With(old, part.field, [name |-> part.name, content |-> part.content])

ReadPart(p) ==
    /\ pc[p] = "reading" /\ at[p] < Len(form[p])
    /\ LET part == CurrentPart(p) IN
       IF TooLarge(p)
       THEN /\ Answer(p, "bad request")
            /\ UNCHANGED <<at, regime, operation, files>>
       ELSE
         /\ at' = [at EXCEPT ![p] = @ + 1]
         /\ CASE part.field = "regime" ->
                   /\ regime' = [regime EXCEPT ![p] = Parsed(part.text, Regimes)]
                   /\ UNCHANGED <<pc, answer, operation, files>>
              [] part.field = "operation" /\ part.text \in Operations ->
                   /\ operation' = [operation EXCEPT ![p] = part.text]
                   /\ UNCHANGED <<pc, answer, regime, files>>
              [] part.field = "operation" /\ part.text \notin Operations ->
                   /\ Answer(p, "bad request")
                   /\ UNCHANGED <<regime, operation, files>>
              [] part.field \in Fields ->
                   /\ files' = [files EXCEPT ![p] = Keep(@, part)]
                   /\ UNCHANGED <<pc, answer, regime, operation>>
              [] OTHER -> UNCHANGED <<pc, answer, regime, operation, files>>
    /\ UNCHANGED <<form, dir, unsaved, task, written, found, connected, disk, faults>>

FormRead(p) == pc[p] = "reading" /\ at[p] = Len(form[p])

Refuse(p) ==
    /\ FormRead(p)
    /\ regime[p] = None \/ DOMAIN files[p] = {}
    /\ Answer(p, "bad request")
    /\ UNCHANGED <<form, at, regime, operation, files, dir, unsaved, task, written, found, connected, disk, faults>>

\* Fault (a mutated form, as are the definitions marked Fault below): one
\* directory serves every scan of the process.
SharedDirectory == IF disk = <<>> THEN <<(<<>>)>> ELSE disk

\* new_scan_dir: the id is a fresh UUID.
NewDirectory == Append(disk, <<>>)

MakeDirectory(p) ==
    /\ FormRead(p)
    /\ regime[p] # None /\ DOMAIN files[p] # {}
    /\ \/ /\ disk' = NewDirectory
          /\ dir' = [dir EXCEPT ![p] = Len(disk')]
          /\ unsaved' = [unsaved EXCEPT ![p] = DOMAIN files[p]]
          /\ pc' = [pc EXCEPT ![p] = "saving"]
          /\ UNCHANGED <<answer, faults>>
       \/ Fault /\ Answer(p, "server error") /\ UNCHANGED <<disk, dir, unsaved>>
    /\ UNCHANGED <<form, at, regime, operation, files, task, written, found, connected>>

\* The directory with file n holding c; a file of that name is replaced.
Write(p, n, c) == disk' = [disk EXCEPT ![dir[p]] = With(@, n, c)]

SavePart(p) ==
    /\ pc[p] = "saving" /\ unsaved[p] # {}
    /\ LET field == FirstField(unsaved[p])
           part == files[p][field]
       IN
       \/ /\ Write(p, part.name, part.content)
          /\ unsaved' = [unsaved EXCEPT ![p] = @ \ {field}]
          /\ UNCHANGED <<pc, answer, faults>>
       \/ Fault /\ Answer(p, "server error") /\ UNCHANGED <<unsaved, disk>>
    /\ UNCHANGED <<form, at, regime, operation, files, dir, task, written, found, connected>>

Dispatch(p) ==
    /\ pc[p] = "saving" /\ unsaved[p] = {}
    /\ pc' = [pc EXCEPT ![p] = "waiting"]
    /\ task' = [task EXCEPT ![p] = "started"]
    /\ UNCHANGED <<form, at, regime, operation, files, dir, unsaved, written, found, answer, connected, disk, faults>>

----------------------------------------------------------------------------
(* What an operation reads, and the checks it runs over it *)

EmirOnly == {"feedback", "recon-stats", "warnings", "mar-scan", "msr-scan"}
Unsupported(op, r) == (r = "sftr" /\ op \in EmirOnly) \/ (r = "emir" /\ op = "missing-collateral")

\* The part a single-file operation takes: `file`, or else the first in field order.
Single(fields) == FirstField(fields)

\* The fields an operation must have.
Required(op, r, fields) ==
    CASE op = "book-reconcile"     -> {"file_book", "file_tsr", "file_mapping"}
      [] op = "tr-audit"           -> {"file_tar", "file_tsr"} \cup (IF r = "emir" THEN {"file_feedback"} ELSE {})
      [] op = "missing-collateral" -> {"file"}
      [] OTHER                     -> {Single(fields)}

\* Those it reads.
Used(op, r, fields) ==
    IF op = "missing-collateral" THEN {"file"} \cup ({"file_tsr"} \cap fields)
    ELSE Required(op, r, fields)

\* The extensions an operation takes its main file under, others being refused.
Accepts(op, ext) ==
    CASE op = "scan" -> ext \in {"xml", "parquet"}
      [] op \in {"book-reconcile", "tr-audit"} -> TRUE
      [] OTHER -> ext = "xml"

Reader(op, field, ext) ==
    CASE field = "file_book"    /\ op = "book-reconcile" -> "csv"
      [] field = "file_mapping" /\ op = "book-reconcile" -> "yaml"
      [] op = "scan" /\ ext = "parquet"                  -> "parquet"
      [] op = "validate"                                 -> "text"
      [] OTHER                                           -> "xml"

\* What a set of checks, or a reader, says of the files it is given.
Says(who, what) == [who |-> who, of |-> what]
ReaderSays(cs) == {Says("reader", <<c>>) : c \in cs \ Silent}

\* The registries the operations over one file run, but for the feedback's.
Packs(op) ==
    CASE op = "scan"             -> {"records"}
      [] op = "tr-state-scan"    -> {"tr_state"}
      [] op = "tr-activity-scan" -> {"tr_activity"}
      [] op = "recon-stats"      -> {"recon_stats", "reconciliation"}
      [] op = "warnings"         -> {"warnings", "warnings_counterparty", "warnings_transaction"}
      [] op = "mar-scan"         -> {"margin_activity"}
      [] op = "msr-scan"         -> {"margin_state"}
      [] op = "validate"         -> {"well-formedness"}

\* The feedback checks, each about the answers of one type; those about missing
\* trades look the trade up among the firm's earlier reports.
FeedbackChecks ==
    [TR_REJECTED_UTI                |-> "Rejected",
     TR_MISSING_BUT_NOT_SENT        |-> "Missing",
     TR_MISSING_DESPITE_SUBMISSION  |-> "Missing",
     TR_INACCURATE_REPORTED         |-> "Inaccurate"]
LooksUp(k) == FeedbackChecks[k] = "Missing"

\* Fault: the reader tells missing trades as well.
AlsoMissing == {"Rejected", "Missing"}

\* The types of the answers the reader makes of an auth.092 message: a
\* transaction is accepted, and left out, or rejected.
AnswerTypes == {"Rejected"}

\* What the feedback checks that have answers to look at say of content c beside
\* the earlier reports `prior`.
FeedbackSays(c, prior) ==
    {Says(k, IF LooksUp(k) THEN <<c>> \o prior ELSE <<c>>) :
        k \in {k \in DOMAIN FeedbackChecks : FeedbackChecks[k] \in AnswerTypes}}

AuditIssues(r, c) ==
    ReaderSays(Range(c))
    \cup {Says("records", <<c["file_tar"]>>), Says("tr_state", <<c["file_tsr"]>>),
          Says("tr_activity", <<c["file_tar"], c["file_tsr"]>>)}
    \cup (IF r = "emir"
          THEN FeedbackSays(c["file_feedback"], <<>>)
               \cup {Says("audit", <<c["file_tar"], c["file_tsr"], c["file_feedback"]>>)}
          ELSE {Says("audit", <<c["file_tar"], c["file_tsr"]>>)})

BookIssues(c) ==
    ReaderSays({c["file_tsr"]})
    \cup {Says("book", <<c["file_book"], c["file_mapping"], c["file_tsr"]>>)}

Companion(c) == IF "file_tsr" \in DOMAIN c THEN <<c["file_tsr"]>> ELSE <<>>

CollateralIssues(c) ==
    ReaderSays(Range(c)) \cup {Says("missing_collateral", <<c["file"]>> \o Companion(c))}

\* The server has no store: its feedback checks look up in nothing.
PackSays(op, c) ==
    IF op = "feedback" THEN FeedbackSays(c, <<>>) ELSE {Says(k, <<c>>) : k \in Packs(op)}

SingleIssues(op, c) ==
    PackSays(op, c)
    \cup (IF op \in {"scan", "validate"} THEN {} ELSE ReaderSays({c}))

\* What the server's run of op reports over contents c (field -> content).
ServerIssues(op, r, c) ==
    CASE op = "tr-audit"           -> AuditIssues(r, c)
      [] op = "book-reconcile"     -> BookIssues(c)
      [] op = "missing-collateral" -> CollateralIssues(c)
      [] OTHER                     -> UNION {SingleIssues(op, d) : d \in Range(c)}

----------------------------------------------------------------------------
(* The blocking task *)

MainField(op, fields) == IF op = "missing-collateral" THEN "file" ELSE Single(fields)

\* The file a field was saved to, as the task finds it.
OnDisk(p, f) == disk[dir[p]][files[p][f].name]

Rejected(p) ==
    LET op == operation[p]
        have == DOMAIN files[p]
        name(f) == files[p][f].name
    IN \/ Unsupported(op, regime[p])
       \/ ~ (Required(op, regime[p], have) \subseteq have)
       \/ ~ Accepts(op, name(MainField(op, have)).ext)
       \/ \E f \in Used(op, regime[p], have) :
             <<Reader(op, f, name(f).ext), OnDisk(p, f)>> \in Unreadable

\* Reads its files and runs the checks over them, or ends with an error.
RunChecks(p) ==
    /\ task[p] = "started"
    /\ IF Rejected(p)
       THEN task' = [task EXCEPT ![p] = "failed"] /\ UNCHANGED <<found, faults>>
       ELSE \/ /\ found' = [found EXCEPT ![p] =
                      ServerIssues(operation[p], regime[p],
                          [f \in Used(operation[p], regime[p], DOMAIN files[p]) |-> OnDisk(p, f)])]
               /\ task' = [task EXCEPT ![p] = "writing"]
               /\ UNCHANGED faults
            \/ Fault /\ task' = [task EXCEPT ![p] = "failed"] /\ UNCHANGED found
    /\ UNCHANGED <<handler, written, answer, connected, disk>>

\* Fault: a report that cannot be written is skipped.
SkipReport(p) == written' = [written EXCEPT ![p] = @ + 1] /\ UNCHANGED task

FailReport(p) == task' = [task EXCEPT ![p] = "failed"] /\ UNCHANGED written

Complete(p) == task[p] = "writing" /\ written[p] = Len(Artifacts)

\* finalize_artifacts: summary.json, issues.csv, report.html, in that order. A write
\* that fails may leave a part of the file.
WriteReport(p) ==
    /\ task[p] = "writing" /\ ~ Complete(p)
    /\ LET f == Artifacts[written[p] + 1] IN
       \/ /\ Write(p, f, [shows |-> found[p], whole |-> TRUE])
          /\ written' = [written EXCEPT ![p] = @ + 1]
          /\ UNCHANGED <<task, faults>>
       \/ /\ Fault /\ FailReport(p)
          /\ Write(p, f, [shows |-> found[p], whole |-> FALSE]) \/ UNCHANGED disk
    /\ UNCHANGED <<handler, found, answer, connected>>

----------------------------------------------------------------------------
(* Answering *)

\* Fault: the error of the task reaches nobody.
EndedWell(p) == Complete(p)

Ended(p) == Complete(p) \/ task[p] = "failed"

Finish(p) ==
    /\ pc[p] = "waiting" /\ Ended(p)
    /\ \/ /\ task[p] = "failed"
          /\ Answer(p, "server error") /\ UNCHANGED <<disk, faults>>
       \/ /\ Complete(p)
          /\ Write(p, Sidecar, [shows |-> found[p], whole |-> TRUE])
          /\ Answer(p, "redirect") /\ UNCHANGED faults
       \/ /\ Complete(p)
          /\ Fault /\ Answer(p, "server error")
          /\ \/ Write(p, Sidecar, [shows |-> {}, whole |-> FALSE])
             \/ UNCHANGED disk
    /\ UNCHANGED <<form, at, regime, operation, files, dir, unsaved, task, written, found, connected>>

\* The client goes away. The handler is dropped at its next await: while it
\* reads the form or waits for the task.
Disconnect(p) ==
    /\ connected[p] /\ pc[p] \in {"reading", "waiting"}
    /\ connected' = [connected EXCEPT ![p] = FALSE]
    /\ pc' = [pc EXCEPT ![p] = "done"]
    /\ UNCHANGED <<form, at, regime, operation, files, dir, unsaved, task, written, found, answer, disk, faults>>

----------------------------------------------------------------------------
\* GET /scans/{id}: the page of scan directory d, GET /scans/{id}/{file}: a file of it.
NotFound == [shows |-> {}, whole |-> FALSE]
ScanDownload(d, f) == IF d \in DOMAIN disk /\ f \in DOMAIN disk[d] THEN disk[d][f] ELSE NotFound
ScanResults(d) == ScanDownload(d, Sidecar)

Handle(p) ==
    \/ ReadPart(p) \/ Refuse(p) \/ MakeDirectory(p) \/ SavePart(p) \/ Dispatch(p) \/ Finish(p)
Task(p) == RunChecks(p) \/ WriteReport(p)
Next == \E p \in Posts : Submit(p) \/ Handle(p) \/ Task(p) \/ Disconnect(p)

\* A client that stays sends its form to the end, and the runtime runs every
\* handler and every blocking thread that can go on.
Fairness == \A p \in Posts : WF_vars(Handle(p)) /\ WF_vars(Task(p))

Spec == Init /\ [][Next]_vars /\ Fairness

----------------------------------------------------------------------------
(* What the command line says of the same files *)

\* The registries a command runs over its file when it is given no store. The
\* lifecycle and submission registries need one, or a profile.
CommandPacks(op) ==
    CASE op = "scan"             -> {"records"}
      [] op = "tr-state-scan"    -> {"tr_state"}
      [] op = "tr-activity-scan" -> {"tr_activity"}
      [] op = "mar-scan"         -> {"margin_activity"}
      [] op = "msr-scan"         -> {"margin_state"}
      [] op = "recon-stats"      -> {"recon_stats", "reconciliation"}
      [] op = "warnings"         -> {"warnings", "warnings_counterparty", "warnings_transaction"}

\* What `feedback`, which cannot run without a store, finds there.
Stored == <<"earlier reports">>

CommandSays(op, c) ==
    IF op = "feedback" THEN FeedbackSays(c, Stored) ELSE {Says(k, <<c>>) : k \in CommandPacks(op)}

\* `opendqi emir|sftr <op>` given the same files, no configuration, no XSD, and
\* no store but for `feedback`.
CommandIssues(op, r, c) ==
    CASE op = "tr-audit" ->
            ReaderSays(Range(c))
            \cup {Says("records", <<c["file_tar"]>>), Says("lifecycle", <<c["file_tar"]>>),
                  Says("tr_state", <<c["file_tsr"]>>),
                  Says("tr_activity", <<c["file_tar"], c["file_tsr"]>>)}
            \cup (IF r = "emir"
                  THEN FeedbackSays(c["file_feedback"], <<>>)
                       \cup {Says("audit", <<c["file_tar"], c["file_tsr"], c["file_feedback"]>>)}
                  ELSE {Says("audit", <<c["file_tar"], c["file_tsr"]>>)})
      [] op = "book-reconcile" ->
            ReaderSays({c["file_tsr"]})
            \cup {Says("book", <<c["file_book"], c["file_mapping"], c["file_tsr"]>>)}
      [] op = "missing-collateral" ->
            ReaderSays({c["file"]})
            \cup {Says("missing_collateral", <<c["file"]>> \o Companion(c))}
      [] OTHER -> ReaderSays(Range(c)) \cup UNION {CommandSays(op, d) : d \in Range(c)}

\* Where the two are known to differ: the server leaves out what the reader says
\* of the file of a plain scan and the checks against a history, and adds what
\* it says of a companion report.
OnlyCommand(op, c) ==
    CASE op = "scan"     -> ReaderSays(Range(c))
      [] op = "tr-audit" -> {Says("lifecycle", <<c["file_tar"]>>)}
      [] OTHER           -> {}
OnlyServer(op, c) ==
    IF op = "missing-collateral" THEN ReaderSays(Range(Companion(c)) \ {c["file"]}) ELSE {}

----------------------------------------------------------------------------
(* Properties *)

Redirected(p) == answer[p] = "redirect"

\* A client that is redirected finds the page, and behind each of its links the
\* whole report of the issues the page counts: handlers.rs scan writes the
\* sidecar only after the task has written all three.
LinksWork ==
    \A p \in Posts : Redirected(p) =>
        LET page == ScanResults(dir[p]) IN
        /\ page.whole
        /\ \A f \in Range(Artifacts) : ScanDownload(dir[p], f) = page

\* The files of a form as the client sees them: the last one given per field.
Sent(p, f) == {i \in DOMAIN form[p] : form[p][i].field = f /\ Weight(form[p][i]) = 1}
SentFields(p) == {f \in Fields : Sent(p, f) # {}}
LastSent(p, f) == form[p][CHOOSE i \in Sent(p, f) : \A j \in Sent(p, f) : j <= i]
SameName(p, f) == {g \in SentFields(p) : LastSent(p, g).name = LastSent(p, f).name}
LastField(fields) == CHOOSE f \in fields : \A g \in fields : Pos(g) <= Pos(f)

Uploaded(p) ==
    [f \in Used(operation[p], regime[p], SentFields(p)) |-> LastSent(p, f).content]
ReadFrom(p) == [f \in DOMAIN Uploaded(p) |-> LastSent(p, LastField(SameName(p, f))).content]

\* The reports are about the files of this request, each read in the part it was
\* given for; nothing of another request, no input left blank. Two files of one
\* name are both saved under it (handlers.rs:96): the last in field order is then
\* what every such part is read from.
ReadAsUploaded ==
    \A p \in Posts : Redirected(p) =>
        ScanResults(dir[p]).shows = ServerIssues(operation[p], regime[p], ReadFrom(p))

\* The page shows what the command line reports for the same files, but for the
\* differences OnlyCommand and OnlyServer name. The feedback of a file is the
\* same although the command looks up its store and the server (scan.rs:740) has
\* none: the two checks that would differ have nothing to look at as long as the
\* reader makes rejections only (AnswerTypes). The other checks of the family run
\* in both; docs/desktop-web-ui.md:19-21 leaves them to the command line.
SameAsCommandLine ==
    \A p \in Posts : Redirected(p) /\ operation[p] # "validate" =>
        LET c == ReadFrom(p)
            command == CommandIssues(operation[p], regime[p], c)
            server == ScanResults(dir[p]).shows
        IN /\ command \ server = OnlyCommand(operation[p], c)
           /\ server \ command = OnlyServer(operation[p], c)

\* Every request whose client stays is answered, whatever fails: the task's
\* errors and panics come back through its handle.
Answered == \A p \in Posts : (pc[p] = "reading") ~> (answer[p] # None \/ ~ connected[p])

----------------------------------------------------------------------------
(* What keeps the properties: the parts of their inductive invariant *)

TypeOK ==
    /\ form = [p \in Posts |-> form[p]] /\ files = [p \in Posts |-> files[p]]
    /\ found = [p \in Posts |-> found[p]]
    /\ at \in [Posts -> Nat]
    /\ pc \in [Posts -> {"idle", "reading", "saving", "waiting", "done"}]
    /\ regime \in [Posts -> Regimes \cup {None}] /\ operation \in [Posts -> Operations]
    /\ Len(disk) \in Nat /\ disk = [d \in 1..Len(disk) |-> disk[d]]
    /\ dir \in [Posts -> 0..Len(disk)]
    /\ unsaved \in [Posts -> SUBSET Fields]
    /\ task \in [Posts -> {None, "started", "writing", "failed"}]
    /\ written \in [Posts -> 0..Len(Artifacts)]
    /\ answer \in [Posts -> {None, "bad request", "server error", "redirect"}]
    /\ connected \in [Posts -> BOOLEAN]
    /\ faults \in Nat

\* A request has a directory of its own from the moment it saves its files, and
\* a task from the moment all of them are saved.
OwnDirectory ==
    \A p \in Posts :
        /\ pc[p] \in {"idle", "reading"} => dir[p] = 0
        /\ pc[p] \in {"idle", "reading", "saving"} => task[p] = None
        /\ pc[p] \in {"saving", "waiting"} \/ task[p] # None => dir[p] # 0
        /\ \A q \in Posts \ {p} : dir[p] # 0 => dir[p] # dir[q]

\* The files kept are the last ones given per field among the parts read.
SentBy(p, f) == {i \in 1..at[p] : form[p][i].field = f /\ Weight(form[p][i]) = 1}

FilesAreSent ==
    \A p \in Posts :
        /\ pc[p] # "idle" => form[p] \in Forms[p]
        /\ pc[p] = "idle" => form[p] = <<>>
        /\ at[p] <= Len(form[p]) /\ (dir[p] # 0 => at[p] = Len(form[p]))
        /\ DOMAIN files[p] = {f \in Fields : SentBy(p, f) # {}}
        /\ \A f \in DOMAIN files[p] : \E i \in SentBy(p, f) :
               /\ \A j \in SentBy(p, f) : j <= i
               /\ files[p][f] = [name |-> form[p][i].name, content |-> form[p][i].content]

\* Until the checks have read it, the directory holds the files saved so far, the
\* last in field order under a name that several have.
SavedAsKept ==
    \A p \in Posts : pc[p] = "saving" \/ task[p] = "started" =>
        LET saved == DOMAIN files[p] \ unsaved[p] IN
        /\ unsaved[p] \subseteq DOMAIN files[p] /\ (pc[p] # "saving" => unsaved[p] = {})
        /\ \A f \in saved, g \in unsaved[p] : Pos(f) < Pos(g)
        /\ \A f \in saved :
               /\ files[p][f].name \in DOMAIN disk[dir[p]]
               /\ \E g \in saved :
                      /\ files[p][g].name = files[p][f].name
                      /\ \A h \in saved : files[p][h].name = files[p][f].name => Pos(h) <= Pos(g)
                      /\ OnDisk(p, f) = files[p][g].content

\* What the task found is what the checks say of the files of the request.
FoundInUploads ==
    \A p \in Posts : task[p] = "writing" =>
        found[p] = ServerIssues(operation[p], regime[p], ReadFrom(p))

Shown(p, f) == f \in DOMAIN disk[dir[p]] /\ disk[dir[p]][f] = [shows |-> found[p], whole |-> TRUE]

\* The reports written so far are whole; a redirect follows the last of them.
ReportsAreWhole ==
    \A p \in Posts :
        /\ task[p] \in {None, "started"} => written[p] = 0
        /\ task[p] = "writing" => \A i \in 1..written[p] : Shown(p, Artifacts[i])
        /\ answer[p] # None => pc[p] = "done"
        /\ Redirected(p) => Complete(p) /\ Shown(p, Sidecar)

ServerInv ==
    /\ TypeOK /\ OwnDirectory /\ FilesAreSent /\ SavedAsKept /\ FoundInUploads /\ ReportsAreWhole
================================================================================
