---------------------------- MODULE IssueSink_proofs ----------------------------
(***************************************************************************)
(* Theorems about IssueSink, for every set of checks and issues, every     *)
(* order Rank with ties, every MaxInMemory and every set of fault points.  *)
(***************************************************************************)
EXTENDS IssueSink, TLAPS, FiniteSetTheorems, SequenceTheorems

LEMMA SortingsType ==
    ASSUME NEW S \in SUBSET Issue, NEW s \in Sortings(S)
    PROVE  /\ s \in Seq(Issue) /\ Len(s) = Cardinality(S)
           /\ Elems(s) = S /\ Injective(s) /\ Sorted(s)
           /\ S # {} => Len(s) > 0
<1>1. IsFiniteSet(S)
  BY SinkAssumption, FS_Subset
<1>2. Cardinality(S) \in Nat
  BY <1>1, FS_CardinalityType
<1>3. s \in [1..Cardinality(S) -> Issue]
  BY DEF Sortings
<1>4. s \in Seq(Issue) /\ Len(s) = Cardinality(S)
  BY <1>2, <1>3
<1>5. S # {} => Cardinality(S) > 0
  BY <1>1, <1>2, FS_EmptySet
<1> QED BY <1>4, <1>5 DEF Sortings

LEMMA PrefixType ==
    ASSUME NEW s \in Seq(Issue), NEW n \in 0..Len(s)
    PROVE  SubSeq(s, 1, n) \in Seq(Issue)
  OBVIOUS

\* What a spill leaves, whatever its outcome.
LEMMA SpillEffect ==
    ASSUME NEW b \in SUBSET Issue, NEW kept, NEW step,
           file \in Seq(Seq(Issue)), runs \in 0..Len(file), dir \in BOOLEAN,
           Spill(b, kept, step)
    PROVE  /\ kept \in SUBSET Issue /\ kept \in {{}, b}
           /\ file' \in Seq(Seq(Issue)) /\ runs' \in 0..Len(file')
           /\ dir' \in BOOLEAN
           /\ runs' \in {runs, runs + 1}
           /\ \A k \in 1..runs : file'[k] = file[k]
           /\ runs' = runs => kept = b
           /\ runs' = runs + 1 =>
                /\ kept = {} /\ b # {}
                /\ file'[runs + 1] \in Sortings(b)
<1>1. CASE b = {} /\ kept = {} /\ UNCHANGED <<file, runs, dir>>
  BY <1>1
<1>2. CASE b # {} /\ kept = {} /\ dir' = TRUE /\ SpillSucceeds(b)
  <2>1. PICK s \in Sortings(b) : WriteRunFile(s)
    BY <1>2 DEF SpillSucceeds
  <2>2. s \in Seq(Issue)
    BY SortingsType
  <2>3. file' \in Seq(Seq(Issue)) /\ Len(file') = runs + 1
    BY <2>1, <2>2 DEF WriteRunFile
  <2>4. file'[runs + 1] = s /\ \A k \in 1..runs : file'[k] = file[k]
    BY <2>1 DEF WriteRunFile
  <2> QED BY <1>2, <2>3, <2>4 DEF SpillSucceeds
<1>3. CASE b # {} /\ kept = b /\ dir' = TRUE /\ step \in FaultPoints /\ SpillFails(b)
  <2>1. PICK s \in Sortings(b), n \in 0..Cardinality(b) : WriteRunFile(SubSeq(s, 1, n))
    BY <1>3 DEF SpillFails
  <2>2. SubSeq(s, 1, n) \in Seq(Issue)
    BY SortingsType, PrefixType
  <2>3. file' \in Seq(Seq(Issue)) /\ Len(file') = runs + 1
    BY <2>1, <2>2 DEF WriteRunFile
  <2>4. \A k \in 1..runs : file'[k] = file[k]
    BY <2>1 DEF WriteRunFile
  <2> QED BY <1>3, <2>3, <2>4 DEF SpillFails
<1> QED BY <1>1, <1>2, <1>3 DEF Spill

----------------------------------------------------------------------------
\* Type correctness

LEMMA FinalSeverityType ==
    ASSUME NEW i \in Issue
    PROVE  FinalSeverity(i) \in Severity
  BY SinkAssumption DEF FinalSeverity

LEMMA FinishMergeType ==
    ASSUME TypeOK, FinishMerge
    PROVE  TypeOK'
<1>1. PICK kept \in {{}, buffer} : Spill(buffer, kept, "residual")
  BY DEF FinishMerge
<1>2. /\ file' \in Seq(Seq(Issue)) /\ runs' \in 0..Len(file') /\ dir' \in BOOLEAN
  <2> buffer \in SUBSET Issue /\ file \in Seq(Seq(Issue)) /\ runs \in 0..Len(file)
      /\ dir \in BOOLEAN
    BY DEF TypeOK
  <2> QED BY <1>1, SpillEffect, Zenon
<1>3. heap' \in SUBSET (1..runs') /\ pos' \in Seq(Nat)
  BY <1>2 DEF FinishMerge, OpenRuns
<1> QED BY <1>2, <1>3 DEF FinishMerge, TypeOK, workerVars

LEMMA PushNextType ==
    ASSUME TypeOK, NEW c \in Check, PushNext(c)
    PROVE  TypeOK'
<1>1. PICK i \in todo[c] : todo' = [todo EXCEPT ![c] = @ \ {i}] /\ Push(i)
  BY DEF PushNext
<1>2. i \in Issue /\ todo' \in [Check -> SUBSET Issue]
  BY <1>1 DEF TypeOK
<1>3. tally' \in [Severity -> Nat]
  BY <1>1, <1>2, FinalSeverityType DEF Push, Observe, TypeOK
<1> DEFINE b == buffer \union {i}
<1>4. b \in SUBSET Issue
  BY <1>2 DEF TypeOK
<1>5. /\ buffer' \in SUBSET Issue
      /\ file' \in Seq(Seq(Issue)) /\ runs' \in 0..Len(file') /\ dir' \in BOOLEAN
      /\ runs' >= runs
  <2>1. CASE Cardinality(b) >= MaxInMemory
    <3>1. Spill(b, buffer', "spill")
      BY <1>1, <2>1 DEF Push
    <3> HIDE DEF b
    <3>2. file \in Seq(Seq(Issue)) /\ runs \in 0..Len(file) /\ dir \in BOOLEAN
      BY DEF TypeOK
    <3>3. runs' \in {runs, runs + 1}
      BY <1>4, <3>1, <3>2, SpillEffect, Zenon
    <3>4. runs' >= runs
      <4> runs \in Nat
        BY DEF TypeOK
      <4> QED BY <3>3
    <3> QED BY <1>4, <3>1, <3>2, <3>4, SpillEffect, Zenon
  <2>2. CASE ~(Cardinality(b) >= MaxInMemory)
    BY <1>1, <1>4, <2>2 DEF Push, TypeOK
  <2> QED BY <2>1, <2>2
<1>6. heap' \in SUBSET (1..runs')
  BY <1>5 DEF PushNext, mergeVars, TypeOK
<1> QED BY <1>2, <1>3, <1>5, <1>6 DEF PushNext, mergeVars, TypeOK

LEMMA NextMergedType ==
    ASSUME TypeOK, OrderInv, NextMerged
    PROVE  TypeOK'
<1>1. PICK r \in 1..runs : IsTop(r) /\ output' = Append(output, HeadOf(r)) /\ Refill(r)
  BY DEF NextMerged
<1>2. r \in heap /\ Len(pos) = runs /\ pos[r] \in 1..Len(file[r]) /\ file[r] \in Seq(Issue)
  BY <1>1 DEF IsTop, OrderInv, NextMerged, TypeOK
<1>3. HeadOf(r) \in Issue
  BY <1>2 DEF HeadOf
<1>4. output' \in Seq(Issue)
  BY <1>1, <1>3 DEF TypeOK
<1>5. heap' \in SUBSET (1..runs) /\ pos' \in Seq(Nat)
  <2>1. pos \in [1..runs -> Nat] /\ runs \in Nat /\ pos \in Seq(Nat)
    BY <1>2, LenProperties DEF TypeOK
  <2>2. pos' \in [1..runs -> Nat]
    BY <1>1, <2>1 DEF Refill
  <2>3. heap' \in SUBSET (1..runs)
    BY <1>1 DEF Refill, TypeOK
  <2> QED BY <2>1, <2>2, <2>3
<1> QED BY <1>4, <1>5 DEF NextMerged, workerVars, sinkVars, TypeOK

LEMMA TypeStep ==
    ASSUME TypeOK, OrderInv, [Next]_vars
    PROVE  TypeOK'
<1>1. ASSUME NEW c \in Check, Worker(c) PROVE TypeOK'
  <2>1. CASE RunCheck(c)
    BY <2>1 DEF RunCheck, sinkVars, mergeVars, TypeOK
  <2>2. CASE LockSink(c)
    BY <2>2 DEF LockSink, sinkVars, mergeVars, TypeOK
  <2>3. CASE PushNext(c)
    BY <2>3, PushNextType
  <2>4. CASE UnlockSink(c)
    BY <2>4 DEF UnlockSink, sinkVars, mergeVars, TypeOK
  <2> QED BY <1>1, <2>1, <2>2, <2>3, <2>4 DEF Worker
<1>2. CASE FinishInMemory
  <2>1. buffer \in SUBSET Issue
    BY DEF TypeOK
  <2>2. memory' \in Seq(Issue)
    BY <1>2, <2>1, SortingsType DEF FinishInMemory
  <2>3. file' \in Seq(Seq(Issue)) /\ runs' = 0 /\ runs' \in 0..Len(file') /\ heap' = heap
    BY <1>2 DEF FinishInMemory
  <2> QED BY <1>2, <2>2, <2>3 DEF FinishInMemory, workerVars, TypeOK
<1>3. CASE FinishMerge
  BY <1>3, FinishMergeType
<1>4. CASE NextInMemory
  <2>1. output' \in Seq(Issue)
    BY <1>4 DEF NextInMemory, TypeOK
  <2> QED BY <1>4, <2>1 DEF NextInMemory, workerVars, sinkVars, TypeOK
<1>5. CASE NextMerged
  BY <1>5, NextMergedType
<1>6. CASE Close \/ Abandon
  BY <1>6 DEF Close, Abandon, DropIterator, workerVars, mergeVars, TypeOK
<1>7. CASE UNCHANGED vars
  BY <1>7 DEF vars, workerVars, sinkVars, mergeVars, TypeOK
<1> QED BY <1>1, <1>2, <1>3, <1>4, <1>5, <1>6, <1>7 DEF Next, Finish, Iterate, Done

----------------------------------------------------------------------------
\* Order

LEMMA EmptySorted == Sorted(<<>>)
  BY DEF Sorted

LEMMA SortedAppend ==
    ASSUME NEW s \in Seq(Issue), NEW i \in Issue, Sorted(s),
           \A k \in 1..Len(s) : Rank[s[k]] <= Rank[i]
    PROVE  Sorted(Append(s, i))
  BY SinkAssumption DEF Sorted

LEMMA FinishInMemoryOrder ==
    ASSUME TypeOK, OrderInv, FinishInMemory
    PROVE  OrderInv'
<1>1. buffer \in SUBSET Issue
  BY DEF TypeOK
<1>2. Sorted(memory') /\ memory' \in Seq(Issue)
  BY <1>1, SortingsType DEF FinishInMemory
<1>3. output' = <<>> /\ Sorted(output') /\ runs' = 0 /\ phase' = "memory"
  BY EmptySorted DEF FinishInMemory, OrderInv
<1>4. AllJoined'
  BY DEF FinishInMemory, AllJoined, workerVars
<1> QED BY <1>2, <1>3, <1>4 DEF OrderInv, OutputSorted

LEMMA FinishMergeOrder ==
    ASSUME TypeOK, OrderInv, FinishMerge
    PROVE  OrderInv'
<1>1. PICK kept \in {{}, buffer} : Spill(buffer, kept, "residual")
  BY DEF FinishMerge
<1>2. /\ runs \in Nat /\ runs' \in {runs, runs + 1}
      /\ \A k \in 1..runs : file'[k] = file[k]
      /\ runs' = runs + 1 => buffer # {} /\ file'[runs + 1] \in Sortings(buffer)
      /\ buffer \in SUBSET Issue
  <2> buffer \in SUBSET Issue /\ file \in Seq(Seq(Issue)) /\ runs \in 0..Len(file)
      /\ dir \in BOOLEAN
    BY DEF TypeOK
  <2> runs \in Nat
    BY DEF TypeOK
  <2> QED BY <1>1, SpillEffect, Zenon
<1>3. \A k \in 1..runs' : Len(file'[k]) > 0 /\ Sorted(file'[k])
  <2> TAKE k \in 1..runs'
  <2>1. CASE k \in 1..runs
    BY <1>2, <2>1 DEF OrderInv
  <2>2. CASE k = runs + 1 /\ runs' = runs + 1
    BY <1>2, <2>2, SortingsType
  <2> QED BY <1>2, <2>1, <2>2
<1>4. /\ Len(pos') = runs' /\ heap' \subseteq 1..runs'
      /\ \A r \in heap' : pos'[r] = 1
  BY <1>2 DEF FinishMerge, OpenRuns
<1>5. \A r \in heap' : pos'[r] \in 1..Len(file'[r])
  <2> TAKE r \in heap'
  <2>1. file'[r] \in Seq(Issue)
    BY <1>4, FinishMergeType DEF TypeOK
  <2> QED BY <1>3, <1>4, <2>1
<1>6. output' = <<>> /\ Sorted(output') /\ Sorted(memory') /\ phase' = "merge"
  BY EmptySorted DEF FinishMerge, OrderInv
<1>7. AllJoined'
  BY DEF FinishMerge, AllJoined, workerVars
<1> QED BY <1>3, <1>4, <1>5, <1>6, <1>7 DEF OrderInv, OutputSorted

LEMMA PushNextOrder ==
    ASSUME TypeOK, OrderInv, NEW c \in Check, PushNext(c), phase = "scan"
    PROVE  OrderInv'
<1>1. PICK i \in todo[c] : Push(i)
  BY DEF PushNext
<1> DEFINE b == buffer \union {i}
<1>2. b \in SUBSET Issue
  BY <1>1 DEF TypeOK
<1>3. \A k \in 1..runs' : Len(file'[k]) > 0 /\ Sorted(file'[k])
  <2>1. CASE Cardinality(b) >= MaxInMemory
    <3>1. Spill(b, buffer', "spill")
      BY <1>1, <2>1 DEF Push
    <3> HIDE DEF b
    <3>2. /\ runs \in Nat /\ runs' \in {runs, runs + 1}
          /\ \A k \in 1..runs : file'[k] = file[k]
          /\ runs' = runs + 1 => b # {} /\ file'[runs + 1] \in Sortings(b)
      <4> file \in Seq(Seq(Issue)) /\ runs \in 0..Len(file) /\ dir \in BOOLEAN
        BY DEF TypeOK
      <4> runs \in Nat
        BY DEF TypeOK
      <4> QED BY <1>2, <3>1, SpillEffect, Zenon
    <3> TAKE k \in 1..runs'
    <3>3. CASE k \in 1..runs
      BY <3>2, <3>3 DEF OrderInv
    <3>4. CASE k = runs + 1 /\ runs' = runs + 1
      BY <1>2, <3>2, <3>4, SortingsType
    <3> QED BY <3>2, <3>3, <3>4
  <2>2. CASE ~(Cardinality(b) >= MaxInMemory)
    BY <1>1, <2>2 DEF Push, OrderInv
  <2> QED BY <2>1, <2>2
<1> QED BY <1>3 DEF PushNext, mergeVars, OrderInv, OutputSorted

LEMMA NextInMemoryOrder ==
    ASSUME TypeOK, OrderInv, NextInMemory
    PROVE  OrderInv'
<1> DEFINE n == Len(output) + 1
<1>1. /\ output \in Seq(Issue) /\ memory \in Seq(Issue)
      /\ n \in 1..Len(memory) /\ output' = Append(output, memory[n])
      /\ \A k \in 1..Len(output) : output[k] = memory[k]
      /\ phase' = "memory" /\ memory' = memory
  <2>1. output \in Seq(Issue) /\ memory \in Seq(Issue)
    BY DEF TypeOK
  <2>2. Len(output) \in Nat /\ Len(memory) \in Nat
    BY <2>1
  <2>3. Len(output) < Len(memory) /\ phase = "memory"
    BY DEF NextInMemory
  <2>4. n \in 1..Len(memory)
    BY <2>2, <2>3
  <2>5. \A k \in 1..Len(output) : output[k] = memory[k]
    BY <2>3 DEF OrderInv
  <2> QED BY <2>1, <2>4, <2>5 DEF NextInMemory
<1>2. \A k \in 1..Len(output) : Rank[output[k]] <= Rank[memory[n]]
  BY <1>1 DEF OrderInv, Sorted
<1>3. Sorted(output')
  BY <1>1, <1>2, SortedAppend DEF OrderInv, OutputSorted
<1>4. Len(output') <= Len(memory') /\ \A k \in 1..Len(output') : output'[k] = memory'[k]
  BY <1>1
<1>5. AllJoined'
  BY DEF NextInMemory, OrderInv, AllJoined, workerVars
<1> QED BY <1>1, <1>3, <1>4, <1>5 DEF NextInMemory, sinkVars, OrderInv, OutputSorted

LEMMA NextMergedOrder ==
    ASSUME TypeOK, OrderInv, NextMerged
    PROVE  OrderInv'
<1>1. PICK r \in 1..runs : IsTop(r) /\ output' = Append(output, HeadOf(r)) /\ Refill(r)
  BY DEF NextMerged
<1>2. /\ Len(pos) = runs /\ runs \in Nat /\ pos \in Seq(Nat) /\ heap \subseteq 1..runs
      /\ output \in Seq(Issue) /\ file \in Seq(Seq(Issue)) /\ runs \in 0..Len(file)
      /\ phase' = "merge" /\ file' = file /\ runs' = runs /\ memory' = memory
  BY DEF OrderInv, NextMerged, TypeOK, sinkVars
<1>3. /\ r \in heap
      /\ \A q \in heap : pos[q] \in 1..Len(file[q]) /\ file[q] \in Seq(Issue)
      /\ \A q \in heap, k \in 1..Len(output) : Rank[output[k]] <= Rank[HeadOf(q)]
  <2>1. \A q \in heap : file[q] \in Seq(Issue)
    BY <1>2
  <2> QED BY <1>1, <1>2, <2>1 DEF OrderInv, NextMerged, IsTop
<1>4. \A q \in heap : HeadOf(q) \in Issue
  BY <1>3 DEF HeadOf
<1>5. \A q \in heap : Rank[HeadOf(r)] <= Rank[HeadOf(q)]
  BY <1>1, <1>4, SinkAssumption DEF IsTop
<1>6. Sorted(output')
  BY <1>1, <1>2, <1>3, <1>4, SortedAppend DEF OrderInv, OutputSorted
<1>7. \A q \in heap, k \in 1..Len(output') : Rank[output'[k]] <= Rank[HeadOf(q)]
  BY <1>1, <1>2, <1>3, <1>4, <1>5
<1>8. /\ Len(pos') = runs /\ heap' \subseteq heap
      /\ \A q \in heap' : pos'[q] \in 1..Len(file[q]) /\ pos'[q] \in {pos[q], pos[q] + 1}
      /\ \A q \in heap' : pos'[q] >= pos[q]
  <2>1. pos \in [1..runs -> Nat] /\ r \in 1..runs
    BY <1>1, <1>2, LenProperties
  <2>2. CASE pos[r] < Len(file[r]) /\ pos' = [pos EXCEPT ![r] = @ + 1] /\ heap' = heap
    <3>1. \A q \in heap : pos'[q] = IF q = r THEN pos[q] + 1 ELSE pos[q]
      BY <1>2, <2>1, <2>2
    <3>2. Len(pos') = runs
      BY <1>2, <2>1, <2>2
    <3>3. \A q \in heap : pos[q] \in Nat /\ Len(file[q]) \in Nat
      BY <1>3
    <3>4. ASSUME NEW q \in heap
          PROVE  pos'[q] \in 1..Len(file[q]) /\ pos'[q] \in {pos[q], pos[q] + 1}
                 /\ pos'[q] >= pos[q]
      <4>1. pos[q] \in 1..Len(file[q]) /\ pos[q] \in Nat /\ Len(file[q]) \in Nat
        BY <1>3, <3>3
      <4>2. CASE q = r
        BY <2>2, <3>1, <4>1, <4>2
      <4>3. CASE q # r
        BY <3>1, <4>1, <4>3
      <4> QED BY <4>2, <4>3
    <3> QED BY <2>2, <3>2, <3>4
  <2>3. CASE heap' = heap \ {r} /\ pos' = pos
    BY <1>2, <1>3, <2>3
  <2> QED BY <1>1, <2>2, <2>3 DEF Refill
<1>9. \A q \in heap' : HeadOf(q)' \in Issue /\ Rank[HeadOf(q)] <= Rank[HeadOf(q)']
  <2> TAKE q \in heap'
  <2>1. Sorted(file[q]) /\ file[q] \in Seq(Issue) /\ pos[q] \in 1..Len(file[q])
    BY <1>2, <1>3, <1>8 DEF OrderInv
  <2>2. pos'[q] \in 1..Len(file[q]) /\ pos'[q] >= pos[q]
    BY <1>8
  <2>3. Rank[file[q][pos[q]]] <= Rank[file[q][pos'[q]]]
    BY <2>1, <2>2 DEF Sorted
  <2> QED BY <1>2, <2>1, <2>2, <2>3 DEF HeadOf
<1>10. \A q \in heap', k \in 1..Len(output') : Rank[output'[k]] <= Rank[HeadOf(q)']
  <2> TAKE q \in heap', k \in 1..Len(output')
  <2>1. HeadOf(r) \in Issue
    BY <1>3, <1>4
  <2>2. output' \in Seq(Issue)
    BY <1>1, <1>2, <2>1
  <2>3. output'[k] \in Issue
    BY <2>2
  <2>4. q \in heap /\ HeadOf(q) \in Issue /\ HeadOf(q)' \in Issue
    BY <1>4, <1>8, <1>9
  <2>5. Rank[output'[k]] <= Rank[HeadOf(q)] /\ Rank[HeadOf(q)] <= Rank[HeadOf(q)']
    BY <1>7, <1>9, <2>4
  <2> QED BY <2>3, <2>4, <2>5, SinkAssumption
<1>11. AllJoined'
  BY DEF NextMerged, OrderInv, AllJoined, workerVars
<1> QED BY <1>2, <1>6, <1>8, <1>10, <1>11 DEF OrderInv, OutputSorted, HeadOf

LEMMA OrderStep ==
    ASSUME TypeOK, OrderInv, [Next]_vars
    PROVE  OrderInv'
<1>0. ASSUME NEW c \in Check, RunCheck(c) \/ LockSink(c) \/ UnlockSink(c)
      PROVE phase = "scan"
  BY <1>0 DEF RunCheck, LockSink, UnlockSink, OrderInv, AllJoined
<1>1. ASSUME NEW c \in Check, RunCheck(c) \/ LockSink(c) \/ UnlockSink(c)
      PROVE OrderInv'
  BY <1>0, <1>1 DEF RunCheck, LockSink, UnlockSink, sinkVars, mergeVars, OrderInv, OutputSorted,
              HeadOf
<1>2. ASSUME NEW c \in Check, PushNext(c) PROVE OrderInv'
  <2>1. phase = "scan"
    BY <1>2 DEF PushNext, OrderInv, AllJoined
  <2> QED BY <1>2, <2>1, PushNextOrder
<1>3. CASE FinishInMemory
  BY <1>3, FinishInMemoryOrder
<1>4. CASE FinishMerge
  BY <1>4, FinishMergeOrder
<1>5. CASE NextInMemory
  BY <1>5, NextInMemoryOrder
<1>6. CASE NextMerged
  BY <1>6, NextMergedOrder
<1>7. CASE Close \/ Abandon
  BY <1>7 DEF Close, Exhausted, Abandon, DropIterator, workerVars, mergeVars, OrderInv,
              OutputSorted, AllJoined
<1>8. CASE UNCHANGED vars
  BY <1>8 DEF vars, workerVars, sinkVars, mergeVars, OrderInv, OutputSorted, HeadOf, AllJoined
<1> QED BY <1>1, <1>2, <1>3, <1>4, <1>5, <1>6, <1>7, <1>8
        DEF Next, Worker, Finish, Iterate, Done

LEMMA InitInv == Init => TypeOK /\ OrderInv
<1> SUFFICES ASSUME Init PROVE TypeOK /\ OrderInv
  OBVIOUS
<1>1. TypeOK
  <2>1. tally \in [Severity -> Nat] /\ worker \in [Check -> {"queued"}]
    BY DEF Init
  <2>2. file \in Seq(Seq(Issue)) /\ runs \in 0..Len(file) /\ heap \in SUBSET (1..runs)
        /\ pos \in Seq(Nat) /\ memory \in Seq(Issue) /\ output \in Seq(Issue)
    BY DEF Init
  <2> QED BY <2>1, <2>2, SinkAssumption DEF Init, TypeOK
<1>2. OrderInv
  BY EmptySorted DEF Init, OrderInv, OutputSorted
<1> QED BY <1>1, <1>2

\* Every reachable state is well typed, whatever I/O steps fail.
THEOREM TypeCorrect == Spec => []TypeOK
<1>1. TypeOK /\ OrderInv /\ [Next]_vars => (TypeOK /\ OrderInv)'
  BY TypeStep, OrderStep
<1> QED BY InitInv, <1>1, PTL DEF Spec

\* issues.csv is written in the order of issue_cmp for every input, buffer bound
\* and scheduling, and whatever spill, open or read fails: sink.rs promises never
\* to misorder, and the merge keeps that promise.
THEOREM OutputAlwaysSorted == Spec => []OutputSorted
<1>1. TypeOK /\ OrderInv /\ [Next]_vars => (TypeOK /\ OrderInv)'
  BY TypeStep, OrderStep
<1>2. OrderInv => OutputSorted
  BY DEF OrderInv
<1> QED BY InitInv, <1>1, <1>2, PTL DEF Spec

----------------------------------------------------------------------------
\* Content: only the spills of the scan itself may fail

\* After the join every issue has been pushed.
LEMMA JoinedPushed ==
    ASSUME ContentInv, AllJoined
    PROVE  Pushed = AllIssues
  BY SinkAssumption DEF ContentInv, AllJoined, Pushed, AllIssues

LEMMA PushNextContent ==
    ASSUME TypeOK, OrderInv, ContentInv, NEW c \in Check, PushNext(c)
    PROVE  ContentInv'
<1>1. PICK i \in todo[c] : todo' = [todo EXCEPT ![c] = @ \ {i}] /\ Push(i)
  BY DEF PushNext
<1> DEFINE b == buffer \union {i}
<1>2. /\ todo \in [Check -> SUBSET Issue] /\ i \in Raises[c]
      /\ b \in SUBSET Issue
      /\ phase = "scan" /\ phase' = "scan" /\ worker' = worker /\ worker[c] = "pushing"
  BY <1>1 DEF TypeOK, ContentInv, OrderInv, AllJoined, PushNext
<1>3. Pushed' = Pushed \union {i}
  <2>1. \A d \in Check : todo'[d] = IF d = c THEN todo[c] \ {i} ELSE todo[d]
    BY <1>1, <1>2
  <2>2. Raises[c] \ todo'[c] = (Raises[c] \ todo[c]) \union {i}
    BY <1>1, <1>2, <2>1
  <2>3. \A d \in Check : d # c => Raises[d] \ todo'[d] = Raises[d] \ todo[d]
    BY <2>1
  <2> QED BY <2>2, <2>3 DEF Pushed
<1>4. buffer' \union InRuns' = b \union InRuns
  <2>1. CASE Cardinality(b) >= MaxInMemory
    <3>1. Spill(b, buffer', "spill")
      BY <1>1, <2>1 DEF Push
    <3> HIDE DEF b
    <3>2. /\ runs \in Nat /\ runs' \in {runs, runs + 1}
          /\ \A k \in 1..runs : file'[k] = file[k]
          /\ runs' = runs => buffer' = b
          /\ runs' = runs + 1 => buffer' = {} /\ file'[runs + 1] \in Sortings(b)
      <4> file \in Seq(Seq(Issue)) /\ runs \in 0..Len(file) /\ dir \in BOOLEAN
        BY DEF TypeOK
      <4> runs \in Nat /\ b \in SUBSET Issue
        BY <1>2 DEF TypeOK
      <4> QED BY <3>1, SpillEffect, Zenon
    <3>3. CASE runs' = runs
      BY <3>2, <3>3 DEF InRuns
    <3>4. CASE runs' = runs + 1
      <4>1. Elems(file'[runs + 1]) = b
        BY <1>2, <3>2, <3>4, SortingsType
      <4>2. 1..runs' = 1..runs \union {runs + 1}
        BY <3>2, <3>4
      <4>3. \A k \in 1..runs : Elems(file'[k]) = Elems(file[k])
        BY <3>2
      <4>4. InRuns' = InRuns \union b
        BY <4>1, <4>2, <4>3 DEF InRuns
      <4> QED BY <3>2, <3>4, <4>4
    <3> QED BY <3>2, <3>3, <3>4
  <2>2. CASE ~(Cardinality(b) >= MaxInMemory)
    BY <1>1, <2>2 DEF Push, InRuns
  <2> QED BY <2>1, <2>2
<1>5. buffer' \union InRuns' = Pushed'
  BY <1>2, <1>3, <1>4 DEF ContentInv
<1>6. \A d \in Check : todo'[d] \subseteq Raises[d] /\ worker'[d] = "done" => todo'[d] = {}
  BY <1>1, <1>2 DEF ContentInv
<1>7. \A d \in Check : worker'[d] \in {"queued", "computed"} => todo'[d] = Raises[d]
  BY <1>1, <1>2 DEF ContentInv
<1>8. \A d \in Check : todo'[d] \subseteq Raises[d]
  BY <1>1, <1>2 DEF ContentInv
<1> QED BY <1>2, <1>5, <1>6, <1>7, <1>8 DEF ContentInv, NothingLost

LEMMA FinishInMemoryContent ==
    ASSUME TypeOK, ContentInv, FinishInMemory
    PROVE  ContentInv'
<1>1. Pushed = AllIssues
  BY JoinedPushed DEF FinishInMemory
<1>2. buffer \in SUBSET Issue /\ InRuns = {}
  BY DEF TypeOK, FinishInMemory, InRuns
<1>3. Elems(memory') = AllIssues
  BY <1>1, <1>2, SortingsType DEF FinishInMemory, ContentInv
<1> QED BY <1>3 DEF FinishInMemory, workerVars, ContentInv, NothingLost, AllIssues

LEMMA FinishMergeContent ==
    ASSUME TypeOK, OrderInv, ContentInv, FinishMerge, FaultPoints \subseteq {"spill"}
    PROVE  ContentInv'
<1>1. PICK kept \in {{}, buffer} : Spill(buffer, kept, "residual")
  BY DEF FinishMerge
<1>2. /\ runs \in Nat /\ runs' \in {runs, runs + 1} /\ buffer \in SUBSET Issue
      /\ \A k \in 1..runs : file'[k] = file[k]
      /\ runs' = runs => kept = buffer
      /\ runs' = runs + 1 => kept = {} /\ file'[runs + 1] \in Sortings(buffer)
  <2> buffer \in SUBSET Issue /\ file \in Seq(Seq(Issue)) /\ runs \in 0..Len(file)
      /\ dir \in BOOLEAN
    BY DEF TypeOK
  <2> runs \in Nat
    BY DEF TypeOK
  <2> QED BY <1>1, SpillEffect, Zenon
<1>3. InRuns' = buffer \union InRuns
  <2>1. CASE runs' = runs
    <3>1. buffer = {}
      BY <1>1, <1>2, <2>1 DEF Spill, SpillSucceeds
    <3> QED BY <1>2, <2>1, <3>1 DEF InRuns
  <2>2. CASE runs' = runs + 1
    <3>1. Elems(file'[runs + 1]) = buffer
      BY <1>2, <2>2, SortingsType
    <3>2. 1..runs' = 1..runs \union {runs + 1}
      BY <1>2, <2>2
    <3>3. \A k \in 1..runs : Elems(file'[k]) = Elems(file[k])
      BY <1>2
    <3> QED BY <3>1, <3>2, <3>3 DEF InRuns
  <2> QED BY <1>2, <2>1, <2>2
<1>4. InRuns' = AllIssues
  BY <1>3, JoinedPushed DEF FinishMerge, ContentInv
<1>5. heap' = 1..runs' /\ \A r \in 1..runs' : pos'[r] = 1
  BY DEF FinishMerge, OpenRuns
<1>6. \A r \in 1..runs' : \A j \in 1..Len(file'[r]) : r \in heap' /\ pos'[r] <= j
  <2> TAKE r \in 1..runs'
  <2>1. file'[r] \in Seq(Issue)
    BY FinishMergeType DEF TypeOK
  <2> QED BY <1>5, <2>1
<1>7. output' = <<>> /\ phase' = "merge"
  BY DEF FinishMerge, OrderInv
<1>8. Written' = {}
  BY <1>7 DEF Written, Elems
<1> QED BY <1>4, <1>6, <1>7, <1>8
        DEF FinishMerge, workerVars, ContentInv, NothingLost, AllIssues

LEMMA NextMergedContent ==
    ASSUME TypeOK, OrderInv, ContentInv, NextMerged, FaultPoints \subseteq {"spill"}
    PROVE  ContentInv'
<1>1. PICK r \in 1..runs : IsTop(r) /\ output' = Append(output, HeadOf(r)) /\ Refill(r)
  BY DEF NextMerged
<1>2. /\ Len(pos) = runs /\ runs \in Nat /\ pos \in Seq(Nat) /\ heap \subseteq 1..runs
      /\ output \in Seq(Issue) /\ file \in Seq(Seq(Issue)) /\ runs <= Len(file)
      /\ phase = "merge" /\ phase' = "merge" /\ file' = file /\ runs' = runs
  BY DEF OrderInv, NextMerged, TypeOK, sinkVars
<1>3. r \in heap /\ pos[r] \in 1..Len(file[r]) /\ file[r] \in Seq(Issue)
  BY <1>1, <1>2 DEF OrderInv, IsTop
<1>4. Written' = Written \union {HeadOf(r)}
  BY <1>1, <1>2, <1>3 DEF Written, Elems, HeadOf
<1>5. HeadOf(r) \in AllIssues
  BY <1>2, <1>3 DEF HeadOf, ContentInv, InRuns, Elems
<1>6. pos \in [1..runs -> Nat]
  BY <1>2, LenProperties
<1>7. ASSUME NEW q \in 1..runs, NEW j \in 1..Len(file[q])
      PROVE  file[q][j] \in Written' \/ (q \in heap' /\ pos'[q] <= j)
  <2>1. file[q][j] \in Written \/ (q \in heap /\ pos[q] <= j)
    BY <1>2, <1>7 DEF ContentInv
  <2>2. CASE file[q][j] \in Written
    BY <1>4, <2>2
  <2>3. CASE q \in heap /\ pos[q] <= j /\ q # r
    BY <1>1, <1>6, <2>3 DEF Refill
  <2>4. CASE q \in heap /\ pos[q] <= j /\ q = r
    <3>1. CASE j = pos[r]
      BY <1>4, <2>4, <3>1 DEF HeadOf
    <3>2. CASE j # pos[r]
      <4>1. pos[r] + 1 <= j /\ pos[r] < Len(file[r])
        BY <1>3, <2>4, <3>2
      <4>2. pos' = [pos EXCEPT ![r] = @ + 1] /\ heap' = heap
        BY <1>1, <4>1 DEF Refill
      <4> QED BY <1>6, <2>4, <4>1, <4>2
    <3> QED BY <3>1, <3>2
  <2> QED BY <2>1, <2>2, <2>3, <2>4
<1>8. InRuns' = AllIssues /\ Written' \subseteq AllIssues
  BY <1>2, <1>4, <1>5 DEF ContentInv, InRuns
<1> QED BY <1>2, <1>7, <1>8
        DEF NextMerged, workerVars, ContentInv, NothingLost, AllIssues

LEMMA CloseContent ==
    ASSUME TypeOK, OrderInv, ContentInv, Close
    PROVE  ContentInv'
<1>1. Written = AllIssues
  <2>1. CASE phase = "memory" /\ Len(output) = Len(memory)
    BY <2>1 DEF OrderInv, ContentInv, Written, Elems
  <2>2. CASE phase = "merge" /\ heap = {}
    <3>1. InRuns \subseteq Written
      BY <2>2 DEF ContentInv, InRuns, Elems
    <3> QED BY <2>2, <3>1 DEF ContentInv
  <2> QED BY <2>1, <2>2 DEF Close, Exhausted
<1>2. output' = output /\ phase' = "closed"
  BY DEF Close, DropIterator, mergeVars
<1>3. Written' = AllIssues
  BY <1>1, <1>2 DEF Written
<1> QED BY <1>2, <1>3 DEF Close, DropIterator, workerVars, ContentInv, NothingLost, AllIssues

LEMMA ContentStep ==
    ASSUME TypeOK, OrderInv, ContentInv, [Next]_vars, FaultPoints \subseteq {"spill"}
    PROVE  ContentInv'
<1>1. ASSUME NEW c \in Check, RunCheck(c) \/ LockSink(c) \/ UnlockSink(c)
      PROVE  ContentInv'
  <2>1. phase = "scan" /\ phase' = "scan" /\ todo' = todo /\ buffer' = buffer
        /\ file' = file /\ runs' = runs
    BY <1>1 DEF RunCheck, LockSink, UnlockSink, sinkVars, OrderInv, AllJoined
  <2>2. \A d \in Check : /\ worker'[d] = "done" => todo[d] = {}
                         /\ worker'[d] \in {"queued", "computed"} => todo[d] = Raises[d]
    BY <1>1 DEF RunCheck, LockSink, UnlockSink, ContentInv, TypeOK
  <2> QED BY <2>1, <2>2 DEF ContentInv, NothingLost, Pushed, InRuns
<1>2. ASSUME NEW c \in Check, PushNext(c) PROVE ContentInv'
  BY <1>2, PushNextContent
<1>3. CASE FinishInMemory
  BY <1>3, FinishInMemoryContent
<1>4. CASE FinishMerge
  BY <1>4, FinishMergeContent
<1>5. CASE NextInMemory
  BY <1>5 DEF NextInMemory, workerVars, ContentInv, NothingLost, AllIssues
<1>6. CASE NextMerged
  BY <1>6, NextMergedContent
<1>7. CASE Close
  BY <1>7, CloseContent
<1>8. CASE Abandon
  BY <1>8 DEF Abandon, DropIterator, workerVars, ContentInv, NothingLost
<1>9. CASE UNCHANGED vars
  BY <1>9 DEF vars, workerVars, sinkVars, mergeVars, ContentInv, NothingLost, Pushed, InRuns,
              AllIssues, Written
<1> QED BY <1>1, <1>2, <1>3, <1>4, <1>5, <1>6, <1>7, <1>8, <1>9
        DEF Next, Worker, Finish, Iterate, Done

\* If the disk fails only while checks still run, every issue of every check is
\* in issues.csv once the iterator was read to its end: the retained buffer of a
\* failed spill is retried or sorted in memory, as the comment of spill() says.
THEOREM NothingEverLost ==
    ASSUME FaultPoints \subseteq {"spill"}
    PROVE  Spec => []NothingLost
<1>1. Init => ContentInv
  BY DEF Init, ContentInv, NothingLost, Pushed, InRuns
<1>2. TypeOK /\ OrderInv /\ ContentInv /\ [Next]_vars => (TypeOK /\ OrderInv /\ ContentInv)'
  BY TypeStep, OrderStep, ContentStep
<1>3. ContentInv => NothingLost
  BY DEF ContentInv
<1> QED BY InitInv, <1>1, <1>2, <1>3, PTL DEF Spec

----------------------------------------------------------------------------
\* Nothing twice: any I/O step may fail

LEMMA InjectiveAppend ==
    ASSUME NEW s \in Seq(Issue), NEW i \in Issue, Injective(s), i \notin Elems(s)
    PROVE  Injective(Append(s, i)) /\ Elems(Append(s, i)) = Elems(s) \union {i}
<1>1. Len(Append(s, i)) = Len(s) + 1 /\ Append(s, i)[Len(s) + 1] = i
  OBVIOUS
<1>2. \A k \in 1..Len(s) : Append(s, i)[k] = s[k] /\ s[k] # i
  BY DEF Elems
<1>3. 1..(Len(s) + 1) = 1..Len(s) \union {Len(s) + 1}
  BY LenProperties
<1> QED BY <1>1, <1>2, <1>3 DEF Injective, Elems

\* What was pushed before an issue of check c is pushed, and after it.
LEMMA PushNextPushed ==
    ASSUME TypeOK, NEW c \in Check, NEW i \in todo[c],
           \A d \in Check : todo[d] \subseteq Raises[d],
           todo' = [todo EXCEPT ![c] = @ \ {i}]
    PROVE  /\ i \in Issue /\ i \notin Pushed /\ Pushed' = Pushed \union {i}
           /\ \A d \in Check : todo'[d] \subseteq Raises[d]
<1>1. i \in Issue /\ todo \in [Check -> SUBSET Issue] /\ i \in Raises[c]
  BY DEF TypeOK
<1>2. \A d \in Check : todo'[d] = IF d = c THEN todo[c] \ {i} ELSE todo[d]
  BY <1>1
<1>3. ASSUME NEW d \in Check PROVE i \notin Raises[d] \ todo[d]
  BY <1>1, SinkAssumption
<1>4. Raises[c] \ todo'[c] = (Raises[c] \ todo[c]) \union {i}
  BY <1>1, <1>2
<1>5. \A d \in Check : d # c => Raises[d] \ todo'[d] = Raises[d] \ todo[d]
  BY <1>2
<1> QED BY <1>1, <1>2, <1>3, <1>4, <1>5 DEF Pushed

\* A spill that writes the issues of b to a run moves them, one that fails leaves
\* them where they were.
LEMMA SpillOnce ==
    ASSUME TypeOK, NEW b \in SUBSET Issue, NEW kept, NEW step, Spill(b, kept, step),
           \A k \in 1..runs : Injective(file[k]),
           \A j, k \in 1..runs : j # k => Elems(file[j]) \cap Elems(file[k]) = {},
           b \cap InRuns = {}
    PROVE  /\ \A k \in 1..runs' : Injective(file'[k])
           /\ \A j, k \in 1..runs' : j # k => Elems(file'[j]) \cap Elems(file'[k]) = {}
           /\ kept \union InRuns' \subseteq b \union InRuns
           /\ kept \cap InRuns' = {}
<1>1. /\ runs \in Nat /\ runs' \in {runs, runs + 1} /\ kept \in {{}, b}
      /\ \A k \in 1..runs : file'[k] = file[k]
      /\ runs' = runs + 1 => kept = {} /\ file'[runs + 1] \in Sortings(b)
  <2> file \in Seq(Seq(Issue)) /\ runs \in 0..Len(file) /\ dir \in BOOLEAN
    BY DEF TypeOK
  <2> runs \in Nat
    BY DEF TypeOK
  <2> QED BY SpillEffect, Zenon
<1>2. CASE runs' = runs
  <2>1. InRuns' = InRuns
    BY <1>1, <1>2 DEF InRuns
  <2> QED BY <1>1, <1>2, <2>1
<1>3. CASE runs' = runs + 1
  <2>1. Elems(file'[runs + 1]) = b /\ Injective(file'[runs + 1])
    BY <1>1, <1>3, SortingsType
  <2>2. 1..runs' = 1..runs \union {runs + 1}
    BY <1>1, <1>3
  <2>3. \A k \in 1..runs : Elems(file'[k]) = Elems(file[k]) /\ Injective(file'[k])
    BY <1>1
  <2>4. InRuns' = InRuns \union b
    BY <2>1, <2>2, <2>3 DEF InRuns
  <2>5. \A k \in 1..runs : b \cap Elems(file[k]) = {}
    BY DEF InRuns
  <2>6. \A j, k \in 1..runs' : j # k => Elems(file'[j]) \cap Elems(file'[k]) = {}
    BY <2>1, <2>2, <2>3, <2>5
  <2> QED BY <1>1, <1>3, <2>1, <2>2, <2>3, <2>4, <2>6
<1> QED BY <1>1, <1>2, <1>3

LEMMA PushNextOnce ==
    ASSUME TypeOK, OrderInv, OnceInv, NEW c \in Check, PushNext(c)
    PROVE  OnceInv'
<1>1. PICK i \in todo[c] : todo' = [todo EXCEPT ![c] = @ \ {i}] /\ Push(i)
  BY DEF PushNext
<1> DEFINE b == buffer \union {i}
<1>2. /\ i \in Issue /\ i \notin Pushed /\ Pushed' = Pushed \union {i}
      /\ \A d \in Check : todo'[d] \subseteq Raises[d]
  BY <1>1, PushNextPushed DEF OnceInv
<1>3. phase = "scan" /\ phase' = "scan" /\ output' = output
  BY DEF PushNext, OrderInv, AllJoined, mergeVars
<1>4. b \in SUBSET Issue /\ b \cap InRuns = {} /\ b \union InRuns \subseteq Pushed'
  BY <1>2, <1>3 DEF OnceInv, TypeOK
<1>5. /\ \A k \in 1..runs : Injective(file[k])
      /\ \A j, k \in 1..runs : j # k => Elems(file[j]) \cap Elems(file[k]) = {}
  BY DEF OnceInv
<1>6. /\ \A k \in 1..runs' : Injective(file'[k])
      /\ \A j, k \in 1..runs' : j # k => Elems(file'[j]) \cap Elems(file'[k]) = {}
      /\ buffer' \union InRuns' \subseteq b \union InRuns
      /\ buffer' \cap InRuns' = {}
  <2>1. CASE Cardinality(b) >= MaxInMemory
    <3>1. Spill(b, buffer', "spill")
      BY <1>1, <2>1 DEF Push
    <3> HIDE DEF b
    <3> QED BY <1>4, <1>5, <3>1, SpillOnce
  <2>2. CASE ~(Cardinality(b) >= MaxInMemory)
    <3>1. buffer' = b /\ UNCHANGED <<file, runs>>
      BY <1>1, <2>2 DEF Push
    <3>2. InRuns' = InRuns
      BY <3>1 DEF InRuns
    <3> QED BY <1>4, <1>5, <3>1, <3>2
  <2> QED BY <2>1, <2>2
<1> QED BY <1>2, <1>3, <1>4, <1>6 DEF OnceInv

LEMMA FinishOnce ==
    ASSUME TypeOK, OrderInv, OnceInv, Finish
    PROVE  OnceInv'
<1>1. /\ buffer \in SUBSET Issue /\ phase = "scan" /\ output = <<>> /\ output' = output
      /\ todo' = todo
  BY DEF TypeOK, Finish, FinishInMemory, FinishMerge, OrderInv, workerVars
<1>2. Injective(output') /\ Written' = {}
  BY <1>1 DEF Injective, Written, Elems
<1>3. CASE FinishInMemory
  <2>1. Injective(memory') /\ runs' = 0 /\ phase' = "memory"
    BY <1>1, <1>3, SortingsType DEF FinishInMemory
  <2> QED BY <1>1, <1>2, <2>1 DEF OnceInv
<1>4. CASE FinishMerge
  <2>1. PICK kept \in {{}, buffer} : Spill(buffer, kept, "residual")
    BY <1>4 DEF FinishMerge
  <2>2. /\ \A k \in 1..runs' : Injective(file'[k])
        /\ \A j, k \in 1..runs' : j # k => Elems(file'[j]) \cap Elems(file'[k]) = {}
    BY <1>1, <2>1, SpillOnce DEF OnceInv
  <2>3. phase' = "merge"
    BY <1>4 DEF FinishMerge
  <2> QED BY <1>1, <1>2, <2>2, <2>3 DEF OnceInv
<1> QED BY <1>3, <1>4 DEF Finish

\* The next line of memory is not one of those yielded.
LEMMA NextInMemoryFresh ==
    ASSUME TypeOK, OrderInv, OnceInv, NextInMemory
    PROVE  LET i == memory[Len(output) + 1] IN
           /\ i \in Issue /\ i \in Elems(memory) /\ i \notin Written
           /\ output' = Append(output, i)
<1>1. /\ output \in Seq(Issue) /\ memory \in Seq(Issue)
      /\ Len(output) \in Nat /\ Len(memory) \in Nat
      /\ Len(output) < Len(memory) /\ phase = "memory"
  BY DEF TypeOK, NextInMemory
<1>2. Len(output) + 1 \in 1..Len(memory)
  BY <1>1
<1>3. \A k \in 1..Len(output) : output[k] = memory[k] /\ k \in 1..Len(memory)
  BY <1>1 DEF OrderInv
<1>4. \A k \in 1..Len(output) : memory[k] # memory[Len(output) + 1]
  <2> SUFFICES ASSUME NEW k \in 1..Len(output), memory[k] = memory[Len(output) + 1] PROVE FALSE
    OBVIOUS
  <2>1. k = Len(output) + 1
    BY <1>1, <1>2, <1>3 DEF OnceInv, Injective
  <2> QED BY <1>1, <2>1
<1> QED BY <1>1, <1>2, <1>3, <1>4 DEF NextInMemory, Written, Elems

\* Nor is the head that the heap yields, which is then not read again.
LEMMA NextMergedFresh ==
    ASSUME TypeOK, OrderInv, OnceInv, NEW r \in 1..runs, IsTop(r), phase = "merge"
    PROVE  /\ HeadOf(r) \in Issue /\ HeadOf(r) \in InRuns /\ HeadOf(r) \notin Written
           /\ r \in heap /\ pos[r] \in 1..Len(file[r]) /\ file[r] \in Seq(Issue)
<1>1. r \in heap /\ pos[r] \in 1..Len(file[r]) /\ file[r] \in Seq(Issue)
  BY DEF IsTop, OrderInv, TypeOK
<1>2. pos[r] \in pos[r]..Len(file[r])
  BY <1>1
<1> QED BY <1>1, <1>2 DEF OnceInv, HeadOf, InRuns, Elems

LEMMA NextMergedOnce ==
    ASSUME TypeOK, OrderInv, OnceInv, NextMerged
    PROVE  OnceInv'
<1>1. PICK r \in 1..runs : IsTop(r) /\ output' = Append(output, HeadOf(r)) /\ Refill(r)
  BY DEF NextMerged
<1>2. /\ Len(pos) = runs /\ runs \in Nat /\ pos \in Seq(Nat) /\ heap \subseteq 1..runs
      /\ output \in Seq(Issue) /\ file \in Seq(Seq(Issue)) /\ runs <= Len(file)
      /\ phase = "merge" /\ phase' = "merge" /\ UNCHANGED <<file, runs, todo>>
  BY DEF OrderInv, NextMerged, TypeOK, sinkVars, workerVars
<1>3. /\ HeadOf(r) \in Issue /\ HeadOf(r) \notin Written
      /\ r \in heap /\ pos[r] \in 1..Len(file[r])
  BY <1>1, <1>2, NextMergedFresh
<1>4. Injective(output') /\ Written' = Written \union {HeadOf(r)}
  BY <1>1, <1>2, <1>3, InjectiveAppend DEF OnceInv, Written
<1>5. pos \in [1..runs -> Nat]
  BY <1>2, LenProperties
<1>6. ASSUME NEW q \in heap', NEW j \in pos'[q]..Len(file[q])
      PROVE  file[q][j] \notin Written'
  <2>1. q \in heap /\ q \in 1..runs /\ file[q] \in Seq(Issue)
    <3>1. q \in heap /\ q \in 1..runs
      BY <1>1, <1>2, <1>6 DEF Refill
    <3>2. Len(file) \in Nat /\ q \in 1..Len(file)
      BY <1>2, <3>1
    <3> QED BY <1>2, <3>1, <3>2
  <2>2. /\ pos[q] \in 1..Len(file[q]) /\ Len(file[q]) \in Nat
        /\ \A n \in pos[q]..Len(file[q]) : file[q][n] \notin Written
    BY <1>2, <2>1 DEF OrderInv, OnceInv
  <2>3. CASE q = r
    <3>1. pos'[r] = pos[r] + 1
      BY <1>1, <1>3, <1>5, <1>6, <2>3 DEF Refill
    <3>2. j \in pos[r]..Len(file[r]) /\ j # pos[r] /\ j \in 1..Len(file[r])
      BY <1>6, <2>2, <2>3, <3>1
    <3>3. file[r][j] # file[r][pos[r]]
      BY <1>2, <1>3, <3>2 DEF OnceInv, Injective
    <3> QED BY <1>4, <2>2, <2>3, <3>2, <3>3 DEF HeadOf
  <2>4. CASE q # r
    <3>1. pos'[q] = pos[q]
      BY <1>1, <1>5, <2>1, <2>4 DEF Refill
    <3>2. j \in pos[q]..Len(file[q]) /\ j \in 1..Len(file[q])
      BY <1>6, <2>2, <3>1
    <3>3. file[q][j] \in Elems(file[q]) /\ HeadOf(r) \in Elems(file[r])
      BY <1>3, <3>2 DEF Elems, HeadOf
    <3>4. file[q][j] # HeadOf(r)
      BY <1>2, <2>1, <2>4, <3>3 DEF OnceInv
    <3> QED BY <1>4, <2>2, <3>2, <3>4
  <2> QED BY <2>3, <2>4
<1> QED BY <1>2, <1>4, <1>6 DEF OnceInv

\* A step that moves no issue.
LEMMA QuietOnce ==
    ASSUME OnceInv, UNCHANGED <<todo, buffer, file, runs, phase, memory, heap, pos, output>>
    PROVE  OnceInv'
<1>1. Pushed' = Pushed /\ InRuns' = InRuns /\ Written' = Written
  BY DEF Pushed, InRuns, Written
<1> QED BY <1>1 DEF OnceInv

LEMMA OnceStep ==
    ASSUME TypeOK, OrderInv, OnceInv, [Next]_vars
    PROVE  OnceInv'
<1>1. ASSUME NEW c \in Check, RunCheck(c) \/ LockSink(c) \/ UnlockSink(c)
      PROVE  OnceInv'
  <2>1. UNCHANGED <<todo, sinkVars, phase, mergeVars>>
    BY <1>1 DEF RunCheck, LockSink, UnlockSink
  <2> QED BY <2>1, QuietOnce DEF sinkVars, mergeVars
<1>2. ASSUME NEW c \in Check, PushNext(c) PROVE OnceInv'
  BY <1>2, PushNextOnce
<1>3. CASE Finish
  BY <1>3, FinishOnce
<1>4. CASE NextInMemory
  <2>1. Injective(output')
    <3> DEFINE i == memory[Len(output) + 1]
    <3>1. i \in Issue /\ i \notin Written /\ output' = Append(output, i)
      BY <1>4, NextInMemoryFresh
    <3>2. output \in Seq(Issue) /\ Injective(output)
      BY DEF TypeOK, OnceInv
    <3> HIDE DEF i
    <3> QED BY <3>1, <3>2, InjectiveAppend DEF Written
  <2> QED BY <1>4, <2>1 DEF NextInMemory, workerVars, sinkVars, OnceInv
<1>5. CASE NextMerged
  BY <1>5, NextMergedOnce
<1>6. CASE Close \/ Abandon
  BY <1>6 DEF Close, Abandon, DropIterator, workerVars, mergeVars, OnceInv
<1>7. CASE UNCHANGED vars
  BY <1>7, QuietOnce DEF vars, workerVars, sinkVars, mergeVars
<1> QED BY <1>1, <1>2, <1>3, <1>4, <1>5, <1>6, <1>7 DEF Next, Worker, Iterate, Done

LEMMA InitOnce == Init => OnceInv
  BY DEF Init, OnceInv, InRuns, Injective

\* No issue is written twice to issues.csv, whatever I/O step fails: the buffer that
\* a failed spill retains is not also read back from the file that spill left.
THEOREM NothingTwice == Spec => []Injective(output)
<1>1. TypeOK /\ OrderInv /\ OnceInv /\ [Next]_vars => (TypeOK /\ OrderInv /\ OnceInv)'
  BY TypeStep, OrderStep, OnceStep
<1>2. OnceInv => Injective(output)
  BY DEF OnceInv
<1> QED BY InitInv, InitOnce, <1>1, <1>2, PTL DEF Spec

----------------------------------------------------------------------------
\* The counts of summary.json

LEMMA PushNextTally ==
    ASSUME TypeOK, OnceInv, TallyInv, NEW c \in Check, PushNext(c)
    PROVE  TallyInv'
<1>1. PICK i \in todo[c] : todo' = [todo EXCEPT ![c] = @ \ {i}] /\ Push(i)
  BY DEF PushNext
<1>2. i \in Issue /\ i \notin Pushed /\ Pushed' = Pushed \union {i}
  BY <1>1, PushNextPushed DEF OnceInv
<1>3. /\ tally \in [Severity -> Nat] /\ FinalSeverity(i) \in Severity
      /\ tally' = [tally EXCEPT ![FinalSeverity(i)] = @ + 1]
  BY <1>1, <1>2, FinalSeverityType DEF TypeOK, Push, Observe
<1>4. Pushed \in SUBSET Issue
  BY SinkAssumption DEF Pushed
<1>5. ASSUME NEW s \in Severity
      PROVE  tally'[s] = Cardinality({j \in Pushed' : FinalSeverity(j) = s})
  <2> DEFINE Old == {j \in Pushed : FinalSeverity(j) = s}
             New == {j \in Pushed' : FinalSeverity(j) = s}
  <2>1. IsFiniteSet(Old) /\ tally[s] = Cardinality(Old) /\ i \notin Old
    BY <1>2, <1>4, SinkAssumption, FS_Subset DEF TallyInv
  <2>2. CASE FinalSeverity(i) = s
    <3>1. New = Old \union {i}
      BY <1>2, <2>2
    <3>2. tally'[s] = tally[s] + 1
      BY <1>3, <2>2
    <3> HIDE DEF Old, New
    <3> QED BY <2>1, <3>1, <3>2, FS_AddElement DEF New
  <2>3. CASE FinalSeverity(i) # s
    <3>1. New = Old
      BY <1>2, <2>3
    <3>2. tally'[s] = tally[s]
      BY <1>3, <2>3
    <3> HIDE DEF Old
    <3> QED BY <2>1, <3>1, <3>2
  <2> QED BY <2>2, <2>3
<1> QED BY <1>5 DEF TallyInv

LEMMA TallyStep ==
    ASSUME TypeOK, OnceInv, TallyInv, [Next]_vars
    PROVE  TallyInv'
<1>1. ASSUME NEW c \in Check, PushNext(c) PROVE TallyInv'
  BY <1>1, PushNextTally
<1>2. ASSUME UNCHANGED <<todo, tally>> PROVE TallyInv'
  <2>1. Pushed' = Pushed
    BY <1>2 DEF Pushed
  <2> QED BY <1>2, <2>1 DEF TallyInv
<1>3. ASSUME NEW c \in Check, RunCheck(c) \/ LockSink(c) \/ UnlockSink(c) PROVE TallyInv'
  BY <1>2, <1>3 DEF RunCheck, LockSink, UnlockSink, sinkVars
<1>4. CASE Finish \/ Iterate \/ Abandon \/ UNCHANGED vars
  BY <1>2, <1>4 DEF Finish, FinishInMemory, FinishMerge, Iterate, NextInMemory, NextMerged,
                    Close, Abandon, DropIterator, workerVars, sinkVars, vars
<1> QED BY <1>1, <1>3, <1>4 DEF Next, Worker, Done

\* Counting the lines of a sequence without duplicates is counting its elements.
LEMMA CountElems ==
    ASSUME NEW q \in Seq(Issue), Injective(q), NEW s
    PROVE  Cardinality({k \in 1..Len(q) : FinalSeverity(q[k]) = s})
             = Cardinality({i \in Elems(q) : FinalSeverity(i) = s})
<1> DEFINE Lines == {k \in 1..Len(q) : FinalSeverity(q[k]) = s}
           Found == {i \in Elems(q) : FinalSeverity(i) = s}
           f == [k \in Lines |-> q[k]]
<1>1. IsFiniteSet(Lines)
  <2>1. IsFiniteSet(1..Len(q))
    BY LenProperties, FS_Interval
  <2> QED BY <2>1, FS_Subset
<1>2. f \in Bijection(Lines, Found)
  <2>1. f \in [Lines -> Found]
    BY DEF Elems
  <2>2. \A j, k \in Lines : f[j] = f[k] => j = k
    BY DEF Injective
  <2>3. \A i \in Found : \E k \in Lines : f[k] = i
    BY DEF Elems
  <2> QED BY <2>1, <2>2, <2>3 DEF Bijection, Injection, Surjection, IsInjective
<1> HIDE DEF f, Lines, Found
<1>3. ExistsBijection(Lines, Found)
  BY <1>2 DEF ExistsBijection
<1>4. Cardinality(Found) = Cardinality(Lines)
  BY <1>1, <1>3, FS_Bijection
<1> QED BY <1>4 DEF Lines, Found

\* What holds once the iterator said "no more".
LEMMA ClosedFacts ==
    ASSUME OrderInv, ContentInv, phase # "scan"
    PROVE  Pushed = AllIssues
  BY JoinedPushed DEF OrderInv

\* summary.json and issues.csv agree per severity whenever the report was written to
\* its end, severity overrides, spills and retried spills included: the counts are
\* taken at push time and never from the report.
THEOREM SummaryIsTheReport ==
    ASSUME FaultPoints \subseteq {"spill"}
    PROVE  Spec => []SummaryMatchesReport
<1>1. Init => ContentInv /\ TallyInv
  <2> SUFFICES ASSUME Init PROVE ContentInv /\ TallyInv
    OBVIOUS
  <2>1. Pushed = {} /\ ContentInv
    BY DEF Init, ContentInv, NothingLost, Pushed, InRuns
  <2>2. TallyInv
    BY <2>1, FS_EmptySet DEF Init, TallyInv
  <2> QED BY <2>1, <2>2
<1>2. TypeOK /\ OrderInv /\ OnceInv /\ ContentInv /\ TallyInv /\ [Next]_vars
        => (TypeOK /\ OrderInv /\ OnceInv /\ ContentInv /\ TallyInv)'
  BY TypeStep, OrderStep, OnceStep, ContentStep, TallyStep
<1>3. TypeOK /\ OrderInv /\ OnceInv /\ ContentInv /\ TallyInv => SummaryMatchesReport
  <2> SUFFICES ASSUME TypeOK, OrderInv, OnceInv, ContentInv, TallyInv, phase = "closed",
                      NEW s \in Severity
               PROVE  tally[s] = CountOf(s)
    BY DEF SummaryMatchesReport
  <2>1. Elems(output) = Pushed
    BY ClosedFacts DEF ContentInv, NothingLost, Written
  <2>2. output \in Seq(Issue) /\ Injective(output)
    BY DEF TypeOK, OnceInv
  <2> QED BY <2>1, <2>2, CountElems DEF CountOf, TallyInv
<1> QED BY InitInv, InitOnce, <1>1, <1>2, <1>3, PTL DEF Spec

----------------------------------------------------------------------------
\* The sink implements the stream of IssueStream

StageBar ==
    CASE phase = "scan" -> "collect"
      [] phase \in {"memory", "merge"} -> "emit"
      [] OTHER -> phase

LEMMA PushAccepts ==
    ASSUME TypeOK, OrderInv, OnceInv, NEW c \in Check, PushNext(c)
    PROVE  \E i \in Issue : Stream!Accept(i)
<1>1. PICK i \in todo[c] : todo' = [todo EXCEPT ![c] = @ \ {i}]
  BY DEF PushNext
<1>2. i \in Issue /\ i \notin Pushed /\ Pushed' = Pushed \union {i}
  BY <1>1, PushNextPushed DEF OnceInv
<1>3. phase = "scan" /\ UNCHANGED <<phase, output>>
  BY DEF PushNext, OrderInv, AllJoined, mergeVars
<1> QED BY <1>2, <1>3 DEF Stream!Accept

LEMMA FinishSeals ==
    ASSUME TypeOK, Finish
    PROVE  Stream!Seal
<1>1. phase = "scan" /\ phase' \in {"memory", "merge"} /\ UNCHANGED <<todo, output>>
  BY DEF Finish, FinishInMemory, FinishMerge, workerVars
<1>2. Pushed' = Pushed
  BY <1>1 DEF Pushed
<1> QED BY <1>1, <1>2 DEF Stream!Seal

LEMMA NextInMemoryEmits ==
    ASSUME TypeOK, OrderInv, OnceInv, ContentInv, NextInMemory
    PROVE  \E i \in Issue : Stream!Emit(i)
<1> DEFINE n == Len(output) + 1
           i == memory[n]
<1>1. i \in Issue /\ i \in Elems(memory) /\ i \notin Written /\ output' = Append(output, i)
  BY NextInMemoryFresh
<1>2. /\ phase = "memory" /\ UNCHANGED <<phase, todo>> /\ Elems(memory) = Pushed
      /\ memory \in Seq(Issue) /\ output \in Seq(Issue)
      /\ Len(output) \in Nat /\ Len(memory) \in Nat /\ Len(output) < Len(memory)
  BY ClosedFacts DEF NextInMemory, ContentInv, workerVars, TypeOK
<1>3. Pushed' = Pushed
  BY <1>2 DEF Pushed
<1>4. ASSUME NEW j \in Pushed \ Written PROVE Rank[i] <= Rank[j]
  <2>1. PICK k \in 1..Len(memory) : memory[k] = j
    BY <1>2 DEF Elems
  <2>2. k \notin 1..Len(output)
    BY <1>2, <2>1 DEF OrderInv, Written, Elems
  <2>3. n <= k /\ n \in 1..Len(memory)
    BY <1>2, <2>1, <2>2
  <2> QED BY <2>1, <2>3 DEF OrderInv, Sorted
<1>5. Stream!Emitted = Written
  BY DEF Stream!Emitted, Written, Elems
<1> HIDE DEF i
<1> QED BY <1>1, <1>2, <1>3, <1>4, <1>5 DEF Stream!Emit

LEMMA NextMergedEmits ==
    ASSUME TypeOK, OrderInv, OnceInv, ContentInv, NextMerged
    PROVE  \E i \in Issue : Stream!Emit(i)
<1>1. PICK r \in 1..runs : IsTop(r) /\ output' = Append(output, HeadOf(r))
  BY DEF NextMerged
<1>2. phase = "merge" /\ UNCHANGED <<phase, todo>> /\ Pushed = InRuns /\ InRuns = AllIssues
  BY ClosedFacts DEF NextMerged, ContentInv, workerVars
<1>3. /\ HeadOf(r) \in Issue /\ HeadOf(r) \in InRuns /\ HeadOf(r) \notin Written
      /\ r \in heap
  BY <1>1, <1>2, NextMergedFresh
<1>4. Pushed' = Pushed
  BY <1>2 DEF Pushed
<1>5. ASSUME NEW j \in Pushed \ Written PROVE Rank[HeadOf(r)] <= Rank[j]
  <2>0. PICK q \in 1..runs : j \in Elems(file[q])
    BY <1>2 DEF InRuns
  <2>1. PICK m \in 1..Len(file[q]) : j = file[q][m]
    BY <2>0 DEF Elems
  <2>2. q \in heap /\ pos[q] <= m
    BY <1>2, <2>1 DEF ContentInv
  <2>3. file[q] \in Seq(Issue) /\ pos[q] \in 1..Len(file[q]) /\ Sorted(file[q])
    BY <1>2, <2>2 DEF OrderInv, TypeOK
  <2>4. HeadOf(q) \in Issue /\ j \in Issue /\ Rank[HeadOf(q)] <= Rank[j]
    BY <2>1, <2>2, <2>3 DEF Sorted, HeadOf
  <2>5. Rank[HeadOf(r)] <= Rank[HeadOf(q)]
    BY <1>1, <1>3, <2>2, <2>4, SinkAssumption DEF IsTop
  <2> QED BY <1>3, <2>4, <2>5, SinkAssumption
<1>6. Stream!Emitted = Written
  BY DEF Stream!Emitted, Written, Elems
<1> QED BY <1>1, <1>2, <1>3, <1>4, <1>5, <1>6 DEF Stream!Emit

LEMMA CloseExhausts ==
    ASSUME TypeOK, OrderInv, ContentInv, Close
    PROVE  Stream!Exhaust
<1>1. phase \in {"memory", "merge"} /\ phase' = "closed" /\ UNCHANGED <<todo, output>>
  BY DEF Close, Exhausted, DropIterator, workerVars, mergeVars
<1>2. Pushed' = Pushed /\ Pushed = AllIssues
  BY <1>1, ClosedFacts DEF Pushed
<1>3. Written = AllIssues
  <2>1. Written' = AllIssues'
    BY <1>1, CloseContent DEF ContentInv, NothingLost
  <2> QED BY <1>1, <2>1 DEF Written, AllIssues
<1>4. Stream!Emitted = Written
  BY DEF Stream!Emitted, Written, Elems
<1> QED BY <1>1, <1>2, <1>3, <1>4 DEF Stream!Exhaust

LEMMA StreamStep ==
    TypeOK /\ OrderInv /\ OnceInv /\ ContentInv /\ [Next]_vars
      => [Stream!AbstractNext]_<<Pushed, output, StageBar>>
<1> SUFFICES ASSUME TypeOK, OrderInv, OnceInv, ContentInv, [Next]_vars
             PROVE  Stream!AbstractNext \/ UNCHANGED <<Pushed, output, StageBar>>
  OBVIOUS
<1>1. ASSUME UNCHANGED <<todo, phase, output>> PROVE UNCHANGED <<Pushed, output, StageBar>>
  BY <1>1 DEF Pushed, StageBar
<1>2. ASSUME NEW c \in Check, RunCheck(c) \/ LockSink(c) \/ UnlockSink(c)
      PROVE  UNCHANGED <<Pushed, output, StageBar>>
  BY <1>1, <1>2 DEF RunCheck, LockSink, UnlockSink, mergeVars
<1>3. ASSUME NEW c \in Check, PushNext(c) PROVE Stream!AbstractNext
  BY <1>3, PushAccepts DEF Stream!AbstractNext
<1>4. CASE Finish
  BY <1>4, FinishSeals DEF Stream!AbstractNext
<1>5. CASE Iterate
  BY <1>5, NextInMemoryEmits, NextMergedEmits, CloseExhausts DEF Iterate, Stream!AbstractNext
<1>6. CASE Abandon
  <2>1. /\ phase \in {"memory", "merge"} /\ phase' = "abandoned" /\ UNCHANGED <<todo, output>>
    BY <1>6 DEF Abandon, DropIterator, workerVars, mergeVars
  <2>2. Pushed' = Pushed
    BY <2>1 DEF Pushed
  <2> QED BY <2>1, <2>2 DEF Stream!Abandon, Stream!AbstractNext
<1>7. CASE UNCHANGED vars
  BY <1>1, <1>7 DEF vars, workerVars, mergeVars
<1> QED BY <1>2, <1>3, <1>4, <1>5, <1>6, <1>7 DEF Next, Worker, Done

\* Workers, mutex, spills, runs and heap together are what callers of the sink rely on:
\* issues go in one by one, and after the seal come out each once and least first.
THEOREM SinkImplementsStream ==
    ASSUME FaultPoints \subseteq {"spill"}
    PROVE  Spec => ImplementsStream
<1>1. Init => ContentInv /\ Stream!AbstractInit
  <2> SUFFICES ASSUME Init PROVE ContentInv /\ Stream!AbstractInit
    OBVIOUS
  <2>1. Pushed = {}
    BY DEF Init, Pushed
  <2> QED BY <2>1 DEF Init, ContentInv, NothingLost, InRuns, Stream!AbstractInit
<1>2. TypeOK /\ OrderInv /\ OnceInv /\ ContentInv /\ [Next]_vars
        => (TypeOK /\ OrderInv /\ OnceInv /\ ContentInv)'
  BY TypeStep, OrderStep, OnceStep, ContentStep
<1>3. TypeOK /\ OrderInv /\ OnceInv /\ ContentInv /\ [Next]_vars
        => [Stream!AbstractNext]_(Stream!avars)
  BY StreamStep DEF StageBar, Stream!avars
<1> QED BY InitInv, InitOnce, <1>1, <1>2, <1>3, PTL DEF Spec, ImplementsStream, Stream!AbstractSpec
================================================================================
