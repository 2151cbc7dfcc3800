---------------------------- MODULE FeedbackWorkflow ----------------------------
(***************************************************************************)
(* The feedbacks table: `opendqi emir feedback` appends the TR's answers,  *)
(* `opendqi feedback resolve|stale` moves them through their statuses, and *)
(* `opendqi feedback analytics` reports on them with several queries that  *)
(* share no transaction, while the other commands run.                     *)
(*                                                                         *)
(* A row is an element of rows, feedback_id its position.  Time is in days.*)
(***************************************************************************)
EXTENDS Integers, Sequences, FiniteSets

CONSTANTS
    Uti,          \* UTIs of feedback rows, NoUti excluded
    NoUti,        \* a feedback without UTI
    Code,         \* rule and reason codes
    Kind,         \* feedback types
    Accepting,    \* the types that a later NEWT answers: rejected and missing
    Feedback,     \* Feedback: what a row says, [uti, kind, codes, reason], codes a list
    File,         \* feedback files: sequences over Feedback
    Threshold,    \* REPEATED_REJECTION_THRESHOLD
    MaxRows,      \* bound on the table
    MaxClock,     \* bound on time
    MaxRuns       \* bound on analytics runs

Status == {"open", "resolved", "stale"}

Report == <<"summary", "csv", "profile", "html">>

ASSUME WorkflowAssumption ==
    /\ NoUti \notin Uti
    /\ Feedback \subseteq [uti : Uti \union {NoUti}, kind : Kind, codes : Seq(Code), reason : Code]
    /\ File \subseteq Seq(Feedback)
    /\ Threshold \in Nat
    /\ MaxRows \in Nat /\ MaxClock \in Nat /\ MaxRuns \in Nat

VARIABLES
    rows,       \* the feedbacks table
    newts,      \* <<uti, reporting day>> of the NEWT rows of emir_records
    clock,
    pc,         \* of the analytics command
    all,        \* what its list_feedbacks returned
    causes,     \* what count_feedbacks_by_reason returned
    byUti,      \* what count_feedbacks_by_uti returned
    now,        \* its now_ts
    cursor,     \* the row it looks up next
    accepted,   \* rejected_then_accepted
    run,        \* how many analytics commands were started
    out         \* out[f]: the run that wrote report f, 0 when none did

tableVars == <<rows, newts, clock>>
analyticsVars == <<all, causes, byUti, now, cursor, accepted>>
vars == <<tableVars, pc, analyticsVars, run, out>>

Day == 0..MaxClock

Row == [fact : Feedback, status : Status, setAt : Day, ingestedAt : Day]

Stage == {"idle", "listed", "caused", "lookup"}

TypeOK ==
    /\ rows \in Seq(Row) /\ newts \subseteq Uti \X Day /\ clock \in Day
    /\ pc \in Stage \union {Report[k] : k \in 1..4}
    /\ all \in Seq(Row) /\ causes \in [Code -> Nat] /\ byUti \in [Uti \union {NoUti} -> Nat]
    /\ now \in Day /\ cursor \in Nat
    /\ accepted \in Seq([uti : Uti, rejected : Day, accepted : Day])
    /\ run \in 0..MaxRuns /\ out \in [{Report[k] : k \in 1..4} -> 0..MaxRuns]

NothingRead ==
    [all |-> <<>>, causes |-> [c \in Code |-> 0], byUti |-> [u \in Uti \union {NoUti} |-> 0],
     now |-> 0, cursor |-> 1, accepted |-> <<>>]

Init ==
    /\ rows = <<>> /\ newts = {} /\ clock = 0
    /\ pc = "idle"
    /\ all = NothingRead.all /\ causes = NothingRead.causes /\ byUti = NothingRead.byUti
    /\ now = NothingRead.now /\ cursor = NothingRead.cursor /\ accepted = NothingRead.accepted
    /\ run = 0 /\ out = [f \in {Report[k] : k \in 1..4} |-> 0]

----------------------------------------------------------------------------
\* The commands that write

Tick == clock < MaxClock /\ clock' = clock + 1
        /\ UNCHANGED <<rows, newts, pc, analyticsVars, run, out>>

NewRow(f) == [fact |-> f, status |-> "open", setAt |-> clock, ingestedAt |-> clock]

\* Fault (a mutated form, as are the definitions marked Fault below): a feedback
\* takes the place of the older ones of its UTI.
IngestReplaces(file) ==
    /\ Len(rows) + Len(file) <= MaxRows
    /\ rows' = SelectSeq(rows, LAMBDA r : \A k \in 1..Len(file) : file[k].uti # r.fact.uti)
               \o [k \in 1..Len(file) |-> NewRow(file[k])]
    /\ UNCHANGED <<newts, clock, pc, analyticsVars, run, out>>

\* persist_feedback_batch: one transaction, no upsert by UTI.
Ingest(file) ==
    /\ Len(rows) + Len(file) <= MaxRows
    /\ rows' = rows \o [k \in 1..Len(file) |-> NewRow(file[k])]
    /\ UNCHANGED <<newts, clock, pc, analyticsVars, run, out>>

\* Fault: the rows of the other UTIs get the new date.
UpdateDatesAll(u, target) ==
    /\ rows' = [k \in 1..Len(rows) |->
                   [rows[k] EXCEPT !.setAt = clock,
                                   !.status = IF rows[k].fact.uti = u THEN target ELSE @]]
    /\ UNCHANGED <<newts, clock, pc, analyticsVars, run, out>>

\* update_feedback_status: every row of the UTI that is not in that status yet.
\* A row without UTI never matches.
Update(u, target) ==
    /\ rows' = [k \in 1..Len(rows) |->
                   IF rows[k].fact.uti = u /\ rows[k].status # target
                   THEN [rows[k] EXCEPT !.status = target, !.setAt = clock]
                   ELSE rows[k]]
    /\ UNCHANGED <<newts, clock, pc, analyticsVars, run, out>>

Resolve(u) == Update(u, "resolved")
Stale(u)   == Update(u, "stale")

\* `opendqi emir scan` persisted a NEWT with this reporting timestamp.
ReportTrade(u, day) ==
    /\ day <= clock
    /\ newts' = newts \union {<<u, day>>}
    /\ UNCHANGED <<rows, clock, pc, analyticsVars, run, out>>

----------------------------------------------------------------------------
\* run_analytics

\* list_feedbacks(regime, None, None)
ListFeedbacks ==
    /\ pc = "idle" /\ run < MaxRuns
    /\ run' = run + 1
    /\ all' = rows
    /\ pc' = "listed"
    /\ UNCHANGED <<tableVars, causes, byUti, now, cursor, accepted, out>>

\* The rules an answer lists, as often as it lists them, or its reason when it
\* lists none.
CodesOf(f) == IF f.codes = <<>> THEN <<f.reason>> ELSE f.codes

Positions(f, c) == {j \in 1..Len(CodesOf(f)) : CodesOf(f)[j] = c}

\* The places of table S that name code c: a row, and a position in its list.
Mentions(c, S) == UNION {{k} \X Positions(S[k].fact, c) : k \in 1..Len(S)}

\* One is added for every element of a list, so that an answer that lists a rule
\* twice counts twice.
CountByReason ==
    /\ pc = "listed"
    /\ causes' = [c \in Code |-> Cardinality(Mentions(c, rows))]
    /\ pc' = "caused"
    /\ UNCHANGED <<tableVars, all, byUti, now, cursor, accepted, run, out>>

\* Fault: only the rows that are still open are counted by UTI.
CountOpenByUti ==
    /\ pc = "caused"
    /\ byUti' = [u \in Uti \union {NoUti} |->
                    Cardinality({k \in 1..Len(rows) : rows[k].fact.uti = u /\ rows[k].status = "open"})]
    /\ now' = clock
    /\ cursor' = 1 /\ accepted' = <<>>
    /\ pc' = "lookup"
    /\ UNCHANGED <<tableVars, all, causes, run, out>>

\* The last of the three queries, then now_ts.
CountByUti ==
    /\ pc = "caused"
    /\ byUti' = [u \in Uti \union {NoUti} |->
                    Cardinality({k \in 1..Len(rows) : rows[k].fact.uti = u})]
    /\ now' = clock
    /\ cursor' = 1 /\ accepted' = <<>>
    /\ pc' = "lookup"
    /\ UNCHANGED <<tableVars, all, causes, run, out>>

\* load_prior_emir for one rejected row: a NEWT reported after its ingestion.
LaterNewts(r) == {n \in newts : n[1] = r.fact.uti /\ n[2] > r.ingestedAt}

LookUp ==
    /\ pc = "lookup" /\ cursor <= Len(all)
    /\ LET r == all[cursor] IN
       IF r.fact.kind \in Accepting /\ r.fact.uti # NoUti /\ LaterNewts(r) # {}
       THEN \E n \in LaterNewts(r) :
                accepted' = Append(accepted, [uti |-> n[1], rejected |-> r.ingestedAt, accepted |-> n[2]])
       ELSE UNCHANGED accepted
    /\ cursor' = cursor + 1
    /\ UNCHANGED <<tableVars, pc, all, causes, byUti, now, run, out>>

\* The four reports, in this order, over those of an earlier run.
WriteReport(k) ==
    /\ \/ k = 1 /\ pc = "lookup" /\ cursor > Len(all)
       \/ k > 1 /\ pc = Report[k - 1]
    /\ out' = [out EXCEPT ![Report[k]] = run]
    /\ pc' = Report[k]
    /\ UNCHANGED <<tableVars, analyticsVars, run>>

\* The command ends: after its last report, or because a query or a write
\* failed, or the process was killed.
EndAnalytics ==
    /\ pc # "idle"
    /\ pc' = "idle"
    /\ all' = NothingRead.all /\ causes' = NothingRead.causes /\ byUti' = NothingRead.byUti
    /\ now' = NothingRead.now /\ cursor' = NothingRead.cursor /\ accepted' = NothingRead.accepted
    /\ UNCHANGED <<tableVars, run, out>>

Analytics == ListFeedbacks \/ CountByReason \/ CountByUti \/ LookUp
             \/ (\E k \in 1..4 : WriteReport(k)) \/ EndAnalytics

Next ==
    \/ Tick
    \/ \E file \in File : Ingest(file)
    \/ \E u \in Uti : Resolve(u) \/ Stale(u) \/ \E day \in Day : ReportTrade(u, day)
    \/ Analytics

Spec == Init /\ [][Next]_vars

----------------------------------------------------------------------------
\* What a report says, from what the run has read

Counted == pc \notin {"idle", "listed", "caused"}

RowsOf(u, S) == {k \in 1..Len(S) : S[k].fact.uti = u}

Repeated == {u \in Uti : byUti[u] >= Threshold}

----------------------------------------------------------------------------
\* Properties

\* A row is a permanent record of one answer of the TR: no command drops or
\* rewrites one, none is reopened, and a fresh feedback for a UTI that was
\* resolved before starts open whatever happened to the older rows.
HistoryKept ==
    [][/\ Len(rows') >= Len(rows)
       /\ \A k \in 1..Len(rows) :
              /\ rows'[k].fact = rows[k].fact /\ rows'[k].ingestedAt = rows[k].ingestedAt
              /\ rows'[k].status = "open" => rows[k] = rows'[k]
       /\ \A k \in (Len(rows) + 1)..Len(rows') : rows'[k].status = "open"]_vars

\* An open row was never touched, so the age of its status is its own age.
OpenRowsUntouched ==
    /\ \A k \in 1..Len(rows) : /\ rows[k].status = "open" => rows[k].setAt = rows[k].ingestedAt
                               /\ rows[k].ingestedAt <= rows[k].setAt
                               /\ rows[k].setAt <= clock
    /\ \A k \in 1..Len(all) : /\ all[k].status = "open" => all[k].setAt = all[k].ingestedAt
                              /\ all[k].setAt <= clock

\* The three queries share no transaction.  What they report of a UTI is at
\* least the rows listed for it and at most the rows it has now, and what they
\* report of a code lies between its mentions in the rows listed and those in the
\* rows there are now; so every UTI the list shows Threshold times is reported as
\* repeated, and with no ingestion in between the figures agree exactly.
CountsBetween ==
    Counted =>
        /\ \A u \in Uti \union {NoUti} :
               Cardinality(RowsOf(u, all)) <= byUti[u] /\ byUti[u] <= Cardinality(RowsOf(u, rows))
        /\ \A c \in Code :
               Cardinality(Mentions(c, all)) <= causes[c] /\ causes[c] <= Cardinality(Mentions(c, rows))
        /\ \A u \in Uti : Cardinality(RowsOf(u, all)) >= Threshold => u \in Repeated

\* Table T has the facts of table S and perhaps more rows.
Extends(T, S) == Len(S) <= Len(T) /\ \A k \in 1..Len(S) : S[k].fact = T[k].fact

CodesCounted ==
    \A c \in Code : /\ Cardinality(Mentions(c, all)) <= causes[c]
                    /\ causes[c] <= Cardinality(Mentions(c, rows))

UtisCounted ==
    \A u \in Uti \union {NoUti} : /\ Cardinality(RowsOf(u, all)) <= byUti[u]
                                  /\ byUti[u] <= Cardinality(RowsOf(u, rows))

\* What makes CountsBetween inductive: the rows listed are the first rows there are
\* now, up to their status, so that a count over a later table is not smaller.
CountsInv ==
    /\ causes \in [Code -> Nat] /\ byUti \in [Uti \union {NoUti} -> Nat]
    /\ pc # "idle" => Extends(rows, all)
    /\ pc \notin {"idle", "listed"} => CodesCounted
    /\ Counted => UtisCounted
================================================================================
