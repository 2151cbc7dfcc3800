------------------------------ MODULE ScanCommands ------------------------------
(***************************************************************************)
(* Executions of the commands of CommandPlans over one history store and   *)
(* the output directories given with --out.  Any step may fail, which ends *)
(* the command at once (the ? operator of main) and undoes nothing that    *)
(* was done before; a user may then run the command again.                 *)
(*                                                                         *)
(* HistoryStore has the transaction and the queries row by row; here a     *)
(* batch is one value, named by the execution that persisted it.           *)
(***************************************************************************)
EXTENDS CommandPlans, Integers, FiniteSets

CONSTANTS
    N,          \* bound on the executions, numbered in the order they are started
    Lines       \* what may be executed: sequences of [plan, dir, options], where
                \* options is the set of optional arguments to choose from

ASSUME CommandsAssumption ==
    /\ N \in Nat
    /\ \A l \in Lines :
           /\ Len(l) \in 0..N
           /\ \A e \in 1..Len(l) :
                  /\ l[e].plan \in StoreCommands \union FileCommands
                  /\ l[e].options \subseteq [store : BOOLEAN, xsd : BOOLEAN, mail : BOOLEAN]

VARIABLES
    line,       \* the commands that are executed
    opts,       \* per execution: its optional arguments [store, xsd, mail]
    pc,         \* per execution
    store,      \* the executions whose batch was committed, in order
    seen,       \* per execution: the batches its checks by UTI compare with
    latest,     \* per execution: the batch its snapshot checks compare with, or 0
    next,       \* per execution: index of the report it writes next
    disk,       \* disk[d][f]: the execution that wrote file f of directory d, and
                \* whether it was written to its end
    mailed      \* per execution: the files its e-mail carried

Exec == 1..Len(line)

vars == <<line, opts, pc, store, seen, latest, next, disk, mailed>>

PlanOf(e) == line[e].plan
DirOf(e)  == line[e].dir

\* The directories and the report names of the commands that are executed.
Dir  == {DirOf(e) : e \in Exec}
File == UNION {{PlanOf(e).files[k] : k \in 1..Len(PlanOf(e).files)} : e \in Exec}

Missing == [by |-> 0, whole |-> FALSE]

\* What lies under name f in directory d.
On(d, f) == IF f \in File THEN disk[d][f] ELSE Missing

Ended == {"ok", "failed"}

TypeOK ==
    /\ line \in Lines
    /\ opts \in [Exec -> [store : BOOLEAN, xsd : BOOLEAN, mail : BOOLEAN]]
    /\ pc \in [Exec -> {"new", "read", "open", "stored", "write", "mail"} \union Ended]
    /\ store \in Seq(Exec)
    /\ seen \in [Exec -> SUBSET Exec] /\ latest \in [Exec -> 0..N]
    /\ next \in [Exec -> Nat]
    /\ disk \in [Dir -> [File -> [by : 0..N, whole : BOOLEAN]]]
    /\ mailed \in [Exec -> SUBSET [file : File, by : 0..N]]

NoOptions == [store |-> FALSE, xsd |-> FALSE, mail |-> FALSE]

Init ==
    /\ line \in Lines
    /\ opts = [e \in Exec |-> NoOptions]
    /\ pc = [e \in Exec |-> "new"]
    /\ store = <<>>
    /\ seen = [e \in Exec |-> {}] /\ latest = [e \in Exec |-> 0]
    /\ next = [e \in Exec |-> 1]
    /\ disk = [d \in Dir |-> [f \in File |-> Missing]]
    /\ mailed = [e \in Exec |-> {}]

Goto(e, stage) == pc' = [pc EXCEPT ![e] = stage]

----------------------------------------------------------------------------
\* The arguments: a directory is given to one command at a time, while
\* commands with different directories run concurrently on one store.
Start(e) ==
    /\ pc[e] = "new"
    /\ \A d \in Exec : d < e /\ DirOf(d) = DirOf(e) => pc[d] \in Ended
    /\ \E o \in line[e].options :
           /\ PlanOf(e).store = "never" => ~o.store
           /\ PlanOf(e).store = "required" => o.store
           /\ o.xsd => "xsd_errors.csv" \in {PlanOf(e).files[k] : k \in 1..Len(PlanOf(e).files)}
           /\ o.mail => PlanOf(e).mail # {}
           /\ opts' = [opts EXCEPT ![e] = o]
    /\ Goto(e, "read")
    /\ UNCHANGED <<line, store, seen, latest, next, disk, mailed>>

\* Configuration, mapping and inputs; the checks of the batch itself.
ReadInputs(e) ==
    /\ pc[e] = "read"
    /\ Goto(e, IF opts[e].store THEN "open" ELSE "write")
    /\ UNCHANGED <<line, opts, store, seen, latest, next, disk, mailed>>

\* open_store and persist_*: one transaction.
Persist(e) ==
    /\ pc[e] = "open"
    /\ store' = IF PlanOf(e).table = None THEN store ELSE Append(store, e)
    /\ Goto(e, "stored")
    /\ UNCHANGED <<line, opts, seen, latest, next, disk, mailed>>

BatchesIn(table) == {k \in 1..Len(store) : PlanOf(store[k]).table = table}

PlaceOf(e) == CHOOSE k \in 1..Len(store) : store[k] = e

\* Fault (a mutated form, as are the definitions marked Fault below): the batch
\* just before its own is left out, too.
PriorOfOffByOne(e) ==
    {store[k] : k \in {j \in BatchesIn(PlanOf(e).key) : PlanOf(e).own => j < PlaceOf(e) - 1}}

\* load_prior_*: below its own scan_id, or i64::MAX when it searches a table
\* that is not its own.
PriorOf(e) ==
    {store[k] : k \in {j \in BatchesIn(PlanOf(e).key) : PlanOf(e).own => j < PlaceOf(e)}}

\* load_latest_prior_*
Earlier(e) == {k \in BatchesIn(PlanOf(e).table) : k < PlaceOf(e)}

LatestOf(e) ==
    IF PlanOf(e).latest /\ Earlier(e) # {}
    THEN store[CHOOSE k \in Earlier(e) : \A j \in Earlier(e) : j <= k]
    ELSE 0

\* The loads, the checks against what they return, and the seal of the sink.
LoadPriors(e) ==
    /\ pc[e] = "stored"
    /\ seen' = [seen EXCEPT ![e] = IF PlanOf(e).key = None THEN {} ELSE PriorOf(e)]
    /\ latest' = [latest EXCEPT ![e] = LatestOf(e)]
    /\ Goto(e, "write")
    /\ UNCHANGED <<line, opts, store, next, disk, mailed>>

\* xsd_errors.csv is the last report of the commands that have it.
LastReport(e) == Len(PlanOf(e).files) - (IF "xsd_errors.csv" \in {PlanOf(e).files[k] : k \in 1..Len(PlanOf(e).files)}
                                            /\ ~opts[e].xsd THEN 1 ELSE 0)

Put(e, whole) ==
    disk' = [disk EXCEPT ![DirOf(e)][PlanOf(e).files[next[e]]] = [by |-> e, whole |-> whole]]

\* File::create truncates what an earlier execution wrote under that name.
WriteReport(e) ==
    /\ pc[e] = "write" /\ next[e] <= LastReport(e)
    /\ Put(e, TRUE)
    /\ next' = [next EXCEPT ![e] = @ + 1]
    /\ UNCHANGED <<line, opts, pc, store, seen, latest, mailed>>

\* Fault: a write error is not propagated.
WriteFailsIgnored(e) ==
    /\ pc[e] = "write" /\ next[e] <= LastReport(e)
    /\ Put(e, FALSE)
    /\ next' = [next EXCEPT ![e] = @ + 1]
    /\ UNCHANGED <<line, opts, pc, store, seen, latest, mailed>>

\* The disk is full: the file is there, without its end.
WriteFails(e) ==
    /\ pc[e] = "write" /\ next[e] <= LastReport(e)
    /\ Put(e, FALSE)
    /\ Goto(e, "failed")
    /\ UNCHANGED <<line, opts, store, seen, latest, next, mailed>>

AllWritten(e) ==
    /\ pc[e] = "write" /\ next[e] > LastReport(e)
    /\ Goto(e, IF opts[e].mail THEN "mail" ELSE "ok")
    /\ UNCHANGED <<line, opts, store, seen, latest, next, disk, mailed>>

\* send_report_email reads the attachments back from the directory.
SendMail(e) ==
    /\ pc[e] = "mail"
    /\ IF \A f \in PlanOf(e).mail : On(DirOf(e), f) # Missing
       THEN /\ mailed' = [mailed EXCEPT ![e] =
                              {[file |-> f, by |-> On(DirOf(e), f).by] : f \in PlanOf(e).mail}]
            /\ Goto(e, "ok")
       ELSE Goto(e, "failed") /\ UNCHANGED mailed
    /\ UNCHANGED <<line, opts, store, seen, latest, next, disk>>

\* Any ? of the command, a panic, or a kill.
Fail(e) ==
    /\ pc[e] \notin {"new"} \union Ended
    /\ Goto(e, "failed")
    /\ UNCHANGED <<line, opts, store, seen, latest, next, disk, mailed>>

Step(e) == Start(e) \/ ReadInputs(e) \/ Persist(e) \/ LoadPriors(e)
           \/ WriteReport(e) \/ AllWritten(e) \/ SendMail(e)

Done == (\A e \in Exec : pc[e] \in Ended) /\ UNCHANGED vars

Next == (\E e \in Exec : Step(e) \/ WriteFails(e) \/ Fail(e)) \/ Done

Spec == Init /\ [][Next]_vars

----------------------------------------------------------------------------
\* Properties

FilesOf(e) == {PlanOf(e).files[k] : k \in 1..LastReport(e)}

Committed == {store[k] : k \in 1..Len(store)}

\* No check compares a batch with itself, also not when the search has no
\* upper bound on scan_id: else every NEWT would be its own duplicate.
NeverItsOwnPrior == \A e \in Exec : e \notin seen[e] /\ latest[e] # e

\* A failed command that had committed is a prior of its repetition, which is
\* why the repetition flags its NEWTs as duplicates; one that had not is not.
RepetitionSeesCommitted ==
    \A d, e \in Exec :
        /\ d < e /\ DirOf(d) = DirOf(e) /\ PlanOf(d) = PlanOf(e) /\ PlanOf(e).own
        /\ pc[e] \in {"write", "mail", "ok"} /\ opts[e].store
        => (d \in seen[e] <=> d \in Committed)

\* A command that succeeded left every report it has to write, whole, and none
\* of them is an earlier execution's, unless a later one used its directory.
OkMeansComplete ==
    \A e \in Exec : pc[e] = "ok" =>
        \A f \in FilesOf(e) :
            \/ disk[DirOf(e)][f] = [by |-> e, whole |-> TRUE]
            \/ disk[DirOf(e)][f].by > e

\* The e-mail attaches this execution's three reports: the mail step finds them
\* all, and never an older one that lay in the directory under that name.
MailIsOwn ==
    \A e \in Exec :
        /\ pc[e] = "mail" => \A f \in PlanOf(e).mail : On(DirOf(e), f) = [by |-> e, whole |-> TRUE]
        /\ pc[e] = "ok" /\ opts[e].mail => mailed[e] = {[file |-> f, by |-> e] : f \in PlanOf(e).mail}

----------------------------------------------------------------------------
(* What keeps the properties: the parts of their inductive invariant *)

Started(e) == pc[e] # "new"

\* A directory is one command's until it ends.
InTurn ==
    \A d, e \in Exec : d < e /\ DirOf(d) = DirOf(e) /\ Started(e) => pc[d] \in Ended

\* A batch is committed once, by an execution that is past its transaction;
\* those of one directory are committed in the order they were started.
StoreOrder ==
    /\ \A k \in 1..Len(store) : pc[store[k]] \notin {"new", "read", "open"}
    /\ \A j, k \in 1..Len(store) : store[j] = store[k] => j = k
    /\ \A j, k \in 1..Len(store) :
           j < k /\ DirOf(store[j]) = DirOf(store[k]) => store[j] < store[k]

\* Between its commit and its loads an execution that persists is in the store.
Stored == \A e \in Exec : pc[e] = "stored" /\ PlanOf(e).table # None => e \in Committed

\* What lies in a directory was written by executions that were given it.
DiskOwned ==
    \A d \in Dir, f \in File :
        disk[d][f].by # 0 =>
            /\ disk[d][f].by \in Exec
            /\ DirOf(disk[d][f].by) = d
            /\ Started(disk[d][f].by)

\* The reports of the first `next - 1` names are there, unless overwritten since.
WrittenSoFar ==
    \A e \in Exec :
        /\ pc[e] \in {"new", "read", "open", "stored"} => next[e] = 1
        /\ pc[e] \in {"mail", "ok"} => next[e] > LastReport(e)
        /\ pc[e] # "failed" =>
               \A k \in 1..Len(PlanOf(e).files) :
                   k < next[e] =>
                       \/ disk[DirOf(e)][PlanOf(e).files[k]] = [by |-> e, whole |-> TRUE]
                       \/ disk[DirOf(e)][PlanOf(e).files[k]].by > e

Mailed ==
    \A e \in Exec : pc[e] = "ok" /\ opts[e].mail =>
        mailed[e] = {[file |-> f, by |-> e] : f \in PlanOf(e).mail}

CommandsInv ==
    /\ TypeOK /\ InTurn /\ StoreOrder /\ Stored /\ NeverItsOwnPrior
    /\ RepetitionSeesCommitted /\ DiskOwned /\ WrittenSoFar /\ Mailed
================================================================================
