------------------------------- MODULE IssueSink -------------------------------
(***************************************************************************)
(* The streaming issue pipeline of a scan: rayon workers run the checks    *)
(* concurrently and push each check's batch, under one mutex, into a       *)
(* SortedIssueSink that spills sorted runs to disk; finish() seals it and  *)
(* a k-way merge hands the issues to the report writer.                    *)
(*                                                                         *)
(* An issue is an opaque value: issue_cmp is abstracted to Rank, in which  *)
(* two issues equal on the eight compared fields have equal ranks.  The    *)
(* in-memory buffer is a set, because nothing depends on arrival order     *)
(* before a sort; a run file is a sequence.                                *)
(***************************************************************************)
EXTENDS Integers, Sequences, FiniteSets

CONSTANTS
    Check,          \* the registered checks, one rayon task each
    Issue,          \* every issue the checks raise on this input
    Severity,
    Raises,         \* Raises[c]: the issues check c returns
    Rank,           \* position of an issue in the order issue_cmp
    BaseSeverity,   \* the severity the check gave the issue
    Overrides,      \* thresholds.severity_overrides: a function on some checks
    Nobody,         \* not a check: the mutex is free
    MaxInMemory,    \* buffer length that triggers a spill, already clamped to >= 1
    FaultPoints     \* the I/O steps that may fail, a subset of the four below

IOStep == {"spill",      \* create/write/flush of a run during the scan
           "residual",   \* the same, for the last run, inside finish()
           "open",       \* reopening a run inside finish()
           "read"}       \* reading the next line of a run

ASSUME SinkAssumption ==
    /\ Raises \in [Check -> SUBSET Issue]
    /\ \A c, d \in Check : c # d => Raises[c] \cap Raises[d] = {}
    /\ Rank \in [Issue -> Nat]
    /\ BaseSeverity \in [Issue -> Severity]
    /\ DOMAIN Overrides \subseteq Check
    /\ \A c \in DOMAIN Overrides : Overrides[c] \in Severity
    /\ Nobody \notin Check
    /\ MaxInMemory \in Nat \ {0}
    /\ FaultPoints \subseteq IOStep
    /\ IsFiniteSet(Issue)

VARIABLES
    worker,   \* per check: "queued" | "computed" | "pushing" | "done"
    todo,     \* per check: the issues of its batch not pushed yet
    holder,   \* the check holding the sink mutex, or Nobody
    buffer,   \* issues held in memory by the sink
    file,     \* file[k]: the lines of run-k on disk, complete or partial
    runs,     \* how many leading files are registered as runs
    dir,      \* whether the spill directory exists
    tally,    \* IssueAggregator.by_severity
    phase,    \* "scan" | "memory" | "merge" | "closed" | "abandoned"
    memory,   \* the sorted buffer of the no-spill path
    heap,     \* the runs that have a head loaded in the merge heap
    pos,      \* pos[r]: how many lines of run r were read
    output    \* the issues the iterator yielded so far

workerVars == <<worker, todo, holder>>
sinkVars   == <<buffer, file, runs, dir, tally>>
mergeVars  == <<memory, heap, pos, output>>
vars == <<workerVars, sinkVars, phase, mergeVars>>

----------------------------------------------------------------------------
\* issue_cmp and the data of a run

Sorted(s) == \A j, k \in 1..Len(s) : j <= k => Rank[s[j]] <= Rank[s[k]]

Elems(s) == {s[k] : k \in 1..Len(s)}

Injective(s) == \A j, k \in 1..Len(s) : s[j] = s[k] => j = k

\* The results of sort_unstable_by(issue_cmp) on the issues of S: ties in any order.
Sortings(S) ==
    {s \in [1..Cardinality(S) -> S] : Elems(s) = S /\ Injective(s) /\ Sorted(s)}

\* The severity an issue leaves push() with.
FinalSeverity(i) ==
    IF \E c \in DOMAIN Overrides : i \in Raises[c]
    THEN Overrides[CHOOSE c \in DOMAIN Overrides : i \in Raises[c]]
    ELSE BaseSeverity[i]

TypeOK ==
    /\ worker \in [Check -> {"queued", "computed", "pushing", "done"}]
    /\ todo \in [Check -> SUBSET Issue]
    /\ holder \in Check \union {Nobody}
    /\ buffer \in SUBSET Issue
    /\ file \in Seq(Seq(Issue))
    /\ runs \in 0..Len(file)
    /\ dir \in BOOLEAN
    /\ tally \in [Severity -> Nat]
    /\ phase \in {"scan", "memory", "merge", "closed", "abandoned"}
    /\ memory \in Seq(Issue)
    /\ heap \in SUBSET (1..runs)
    /\ pos \in Seq(Nat)
    /\ output \in Seq(Issue)

Init ==
    /\ worker = [c \in Check |-> "queued"]
    /\ todo = Raises
    /\ holder = Nobody
    /\ buffer = {} /\ file = <<>> /\ runs = 0 /\ dir = FALSE
    /\ tally = [s \in Severity |-> 0]
    /\ phase = "scan"
    /\ memory = <<>> /\ heap = {} /\ pos = <<>> /\ output = <<>>

----------------------------------------------------------------------------
\* SortedIssueSink

\* File::create truncates run-<runs>; what a failed attempt left is replaced.
WriteRunFile(lines) ==
    file' = [k \in 1..(runs + 1) |-> IF k <= runs THEN file[k] ELSE lines]

\* The attempt leaves a partial file behind.
SpillFails(b) ==
    /\ \E s \in Sortings(b), n \in 0..Cardinality(b) :
           WriteRunFile(SubSeq(s, 1, n))
    /\ UNCHANGED runs

SpillSucceeds(b) ==
    /\ \E s \in Sortings(b) : WriteRunFile(s)
    /\ runs' = runs + 1

\* Fault (a mutated form, as are the definitions marked Fault below): the buffer
\* is cleared although the spill failed.
SpillAlwaysClears(b, kept, step) ==
    \/ b = {} /\ kept = {} /\ UNCHANGED <<file, runs, dir>>
    \/ b # {} /\ kept = {} /\ dir' = TRUE /\ SpillSucceeds(b)
    \/ b # {} /\ kept = {} /\ dir' = TRUE /\ step \in FaultPoints /\ SpillFails(b)

\* spill() on a sink holding b: kept is what it holds afterwards, step says
\* which I/O step this is.
Spill(b, kept, step) ==
    \/ b = {} /\ kept = {} /\ UNCHANGED <<file, runs, dir>>
    \/ b # {} /\ kept = {} /\ dir' = TRUE /\ SpillSucceeds(b)
    \/ b # {} /\ kept = b /\ dir' = TRUE /\ step \in FaultPoints /\ SpillFails(b)

\* Fault: the aggregator sees the issue before its severity is overridden.
ObserveBase(i) == tally' = [tally EXCEPT ![BaseSeverity[i]] = @ + 1]

\* IssueAggregator::observe
Observe(i) == tally' = [tally EXCEPT ![FinalSeverity(i)] = @ + 1]

\* SortedIssueSink::push
Push(i) ==
    LET b == buffer \union {i} IN
    /\ Observe(i)
    /\ IF Cardinality(b) >= MaxInMemory
       THEN buffer' \in {{}, b} /\ Spill(b, buffer', "spill")
       ELSE buffer' = b /\ UNCHANGED <<file, runs, dir>>

----------------------------------------------------------------------------
\* stream_checks_into: the rayon workers

\* run(c), outside the lock; an empty batch never takes the lock.
RunCheck(c) ==
    /\ phase = "scan" /\ worker[c] = "queued"
    /\ worker' = [worker EXCEPT ![c] = IF Raises[c] = {} THEN "done" ELSE "computed"]
    /\ UNCHANGED <<todo, holder, sinkVars, phase, mergeVars>>

LockSink(c) ==
    /\ worker[c] = "computed" /\ holder = Nobody
    /\ holder' = c
    /\ worker' = [worker EXCEPT ![c] = "pushing"]
    /\ UNCHANGED <<todo, sinkVars, phase, mergeVars>>

\* One iteration of push_batch, under the lock.
PushNext(c) ==
    /\ worker[c] = "pushing"
    /\ \E i \in todo[c] :
           /\ todo' = [todo EXCEPT ![c] = @ \ {i}]
           /\ Push(i)
    /\ UNCHANGED <<worker, holder, phase, mergeVars>>

UnlockSink(c) ==
    /\ worker[c] = "pushing" /\ todo[c] = {}
    /\ worker' = [worker EXCEPT ![c] = "done"]
    /\ holder' = Nobody
    /\ UNCHANGED <<todo, sinkVars, phase, mergeVars>>

----------------------------------------------------------------------------
\* finish() and the SortedIssues iterator

AllJoined == \A c \in Check : worker[c] = "done"

\* finish() of a sink that never spilled: one in-memory sort.  The sink is
\* dropped on return, and with it a spill directory left by failed attempts.
FinishInMemory ==
    /\ phase = "scan" /\ AllJoined /\ runs = 0
    /\ memory' \in Sortings(buffer)
    /\ buffer' = {} /\ dir' = FALSE /\ file' = <<>>
    /\ phase' = "memory"
    /\ UNCHANGED <<workerVars, runs, tally, heap, pos, output>>

\* Fault: runs numbered from 0 on disk are opened with those numbers.
OpenRunsFromZero(n) ==
    /\ heap' = 0..(n - 1)
    /\ pos' = [r \in 1..n |-> 1]

\* Opening every run and loading its first line.  A run that does not open is
\* skipped; a read error looks like the end of the file.  A registered run is
\* never empty.
OpenRuns(n) ==
    /\ \E opened \in SUBSET (1..n), loaded \in SUBSET (1..n) :
           /\ loaded \subseteq opened
           /\ "open" \in FaultPoints \/ opened = 1..n
           /\ "read" \in FaultPoints \/ loaded = opened
           /\ heap' = loaded
    /\ pos' = [r \in 1..n |-> IF r \in heap' THEN 1 ELSE 0]

\* Fault: finish() merges the runs and forgets the residual.
FinishWithoutResidual ==
    /\ phase = "scan" /\ AllJoined /\ runs > 0
    /\ buffer' = {} /\ UNCHANGED <<file, runs, dir>>
    /\ OpenRuns(runs')
    /\ phase' = "merge"
    /\ UNCHANGED <<workerVars, tally, memory, output>>

\* finish() of a sink that spilled: the residual becomes the last run.  The
\* sink is consumed, so a residual whose spill failed is dropped with it.
FinishMerge ==
    /\ phase = "scan" /\ AllJoined /\ runs > 0
    /\ \E kept \in {{}, buffer} : Spill(buffer, kept, "residual")
    /\ buffer' = {}
    /\ OpenRuns(runs')
    /\ phase' = "merge"
    /\ UNCHANGED <<workerVars, tally, memory, output>>

NextInMemory ==
    /\ phase = "memory" /\ Len(output) < Len(memory)
    /\ output' = Append(output, memory[Len(output) + 1])
    /\ UNCHANGED <<workerVars, sinkVars, phase, memory, heap, pos>>

HeadOf(r) == file[r][pos[r]]

\* Fault: Rust's max-heap with the comparison not reversed.
IsBottom(r) == r \in heap /\ \A q \in heap : Rank[HeadOf(r)] >= Rank[HeadOf(q)]

\* BinaryHeap::pop: least by issue_cmp, the lower run first on ties.
IsTop(r) ==
    /\ r \in heap
    /\ \A q \in heap : \/ Rank[HeadOf(r)] < Rank[HeadOf(q)]
                       \/ Rank[HeadOf(r)] = Rank[HeadOf(q)] /\ r <= q

\* read_issue on run r after its head was popped.
Refill(r) ==
    \/ /\ pos[r] < Len(file[r])
       /\ pos' = [pos EXCEPT ![r] = @ + 1]
       /\ UNCHANGED heap
    \/ /\ pos[r] = Len(file[r]) \/ "read" \in FaultPoints
       /\ heap' = heap \ {r}
       /\ UNCHANGED pos

NextMerged ==
    /\ phase = "merge"
    /\ \E r \in 1..runs :
           /\ IsTop(r)
           /\ output' = Append(output, HeadOf(r))
           /\ Refill(r)
    /\ UNCHANGED <<workerVars, sinkVars, phase, memory>>

\* Dropping the iterator removes the spill directory and every run in it.
DropIterator(last) ==
    /\ phase' = last
    /\ dir' = FALSE
    /\ UNCHANGED <<workerVars, buffer, file, runs, tally, mergeVars>>

\* Fault: a sink that spilled never reports its end.
ExhaustedInMemory == phase = "memory" /\ Len(output) = Len(memory)

Exhausted == \/ phase = "memory" /\ Len(output) = Len(memory)
             \/ phase = "merge" /\ heap = {}

Close == Exhausted /\ DropIterator("closed")

\* The report writer fails and drops the iterator half way.
Abandon == phase \in {"memory", "merge"} /\ DropIterator("abandoned")

\* The scan is over.
Done == phase \in {"closed", "abandoned"} /\ UNCHANGED vars

Worker(c) == RunCheck(c) \/ LockSink(c) \/ PushNext(c) \/ UnlockSink(c)

Finish == FinishInMemory \/ FinishMerge

Iterate == NextInMemory \/ NextMerged \/ Close

Next == (\E c \in Check : Worker(c)) \/ Finish \/ Iterate \/ Abandon \/ Done

Spec == Init /\ [][Next]_vars

\* rayon runs every task, a task holds the mutex for one finite batch, and the
\* report writer keeps pulling.  Weak fairness is enough for the mutex: each
\* task takes it once, so in the end nobody else does.
Fairness ==
    /\ \A c \in Check : WF_vars(Worker(c))
    /\ WF_vars(Finish)
    /\ WF_vars(Iterate)

FairSpec == Spec /\ Fairness

----------------------------------------------------------------------------
\* Properties

Pushed == UNION {Raises[c] \ todo[c] : c \in Check}

AllIssues == UNION {Raises[c] : c \in Check}

Written == Elems(output)

\* issues.csv is written in the order of issue_cmp, whatever the check
\* scheduling, the spills and the I/O failures were.
OutputSorted == Sorted(output)

\* When the iterator says "no more", every issue of every check was yielded.
NothingLost == phase = "closed" => Written = AllIssues

CountOf(s) == Cardinality({k \in 1..Len(output) : FinalSeverity(output[k]) = s})

\* summary.json, tallied at push time, counts per severity exactly the rows
\* that issues.csv holds once it was written to its end.
SummaryMatchesReport == phase = "closed" => \A s \in Severity : tally[s] = CountOf(s)

\* What makes OutputSorted inductive: runs are sorted and not empty, and the
\* heap holds the least line not yielded of every run that is still read.
OrderInv ==
    /\ \A k \in 1..runs : Len(file[k]) > 0 /\ Sorted(file[k])
    /\ Sorted(memory)
    /\ OutputSorted
    /\ phase # "scan" => AllJoined
    /\ phase = "scan" => output = <<>>
    /\ phase = "memory" =>
         Len(output) <= Len(memory) /\ \A k \in 1..Len(output) : output[k] = memory[k]
    /\ phase = "merge" =>
         /\ Len(pos) = runs
         /\ \A r \in heap : pos[r] \in 1..Len(file[r])
         /\ \A r \in heap, k \in 1..Len(output) : Rank[output[k]] <= Rank[HeadOf(r)]

InRuns == UNION {Elems(file[k]) : k \in 1..runs}

\* What makes NothingLost inductive, when a spill fails only during the scan:
\* every issue is in its batch, in the buffer, in a run, or written.
ContentInv ==
    /\ \A c \in Check : /\ todo[c] \subseteq Raises[c]
                        /\ worker[c] = "done" => todo[c] = {}
                        /\ worker[c] \in {"queued", "computed"} => todo[c] = Raises[c]
    /\ phase = "scan" => buffer \union InRuns = Pushed
    /\ phase = "memory" => Elems(memory) = AllIssues
    /\ phase = "merge" =>
         /\ InRuns = AllIssues
         /\ \A r \in 1..runs : \A j \in 1..Len(file[r]) :
                file[r][j] \in Written \/ (r \in heap /\ pos[r] <= j)
         /\ Written \subseteq AllIssues
    /\ NothingLost

\* What makes the stream free of duplicates, whatever fails: an issue is in the
\* buffer or on one line of one run, and what the merge has yielded is not on a line
\* it will still read.
OnceInv ==
    /\ \A c \in Check : todo[c] \subseteq Raises[c]
    /\ \A k \in 1..runs : Injective(file[k])
    /\ \A j, k \in 1..runs : j # k => Elems(file[j]) \cap Elems(file[k]) = {}
    /\ phase = "scan" => buffer \union InRuns \subseteq Pushed /\ buffer \cap InRuns = {}
    /\ phase = "memory" => Injective(memory)
    /\ phase = "merge" => \A r \in heap : \A j \in pos[r]..Len(file[r]) : file[r][j] \notin Written
    /\ Injective(output)

\* What makes SummaryMatchesReport inductive: the tally is of the issues pushed.
TallyInv == \A s \in Severity : tally[s] = Cardinality({i \in Pushed : FinalSeverity(i) = s})

\* Every scan comes to an end, closed unless the writer gave up.
ScanEnds == <>(phase \in {"closed", "abandoned"})

\* The pipeline implements the issue stream its callers rely on.
Stream == INSTANCE IssueStream WITH
    accepted <- Pushed,
    emitted  <- output,
    stage    <- CASE phase = "scan" -> "collect"
                  [] phase \in {"memory", "merge"} -> "emit"
                  [] OTHER -> phase

ImplementsStream == Stream!AbstractSpec
================================================================================
