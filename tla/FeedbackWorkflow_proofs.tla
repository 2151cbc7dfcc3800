------------------------ MODULE FeedbackWorkflow_proofs ------------------------
(***************************************************************************)
(* Theorems about FeedbackWorkflow for any feedback files, any number of   *)
(* rows and any interleaving of the commands.                              *)
(***************************************************************************)
EXTENDS FeedbackWorkflow, TLAPS, FiniteSetTheorems

TableOK == rows \in Seq(Row) /\ all \in Seq(Row) /\ clock \in Day

Inv == TableOK /\ OpenRowsUntouched

\* The steps that write the table, one lemma each.

LEMMA IngestRows ==
    ASSUME Inv, NEW file \in File, Ingest(file)
    PROVE  /\ rows' \in Seq(Row) /\ Len(rows') = Len(rows) + Len(file)
           /\ \A k \in 1..Len(rows) : rows'[k] = rows[k]
           /\ \A k \in (Len(rows) + 1)..Len(rows') :
                  rows'[k].status = "open" /\ rows'[k].setAt = clock /\ rows'[k].ingestedAt = clock
<1> DEFINE new == [k \in 1..Len(file) |-> NewRow(file[k])]
<1>1. file \in Seq(Feedback) /\ Len(file) \in Nat /\ rows \in Seq(Row) /\ Len(rows) \in Nat
  BY WorkflowAssumption DEF Inv, TableOK
<1>2. \A k \in 1..Len(file) : file[k] \in Feedback
  BY <1>1
<1>3. \A k \in 1..Len(file) : new[k] \in Row
  BY <1>2 DEF NewRow, Row, Status, Inv, TableOK
<1>4. new \in Seq(Row) /\ Len(new) = Len(file)
  BY <1>1, <1>3
<1>5. rows' = rows \o new
  BY DEF Ingest
<1> HIDE DEF new
<1>6. rows' \in Seq(Row) /\ Len(rows') = Len(rows) + Len(file)
  BY <1>1, <1>4, <1>5
<1>7. \A k \in 1..Len(rows) : rows'[k] = rows[k]
  BY <1>1, <1>4, <1>5
<1>8. \A k \in (Len(rows) + 1)..Len(rows') : rows'[k] = new[k - Len(rows)] /\ k - Len(rows) \in 1..Len(file)
  BY <1>1, <1>4, <1>5, <1>6
<1>9. \A j \in 1..Len(file) :
          new[j].status = "open" /\ new[j].setAt = clock /\ new[j].ingestedAt = clock
  BY DEF new, NewRow
<1> QED BY <1>6, <1>7, <1>8, <1>9

LEMMA UpdateRows ==
    ASSUME Inv, NEW u \in Uti, NEW target \in Status \ {"open"}, Update(u, target)
    PROVE  /\ rows' \in Seq(Row) /\ Len(rows') = Len(rows)
           /\ \A k \in 1..Len(rows) :
                  \/ rows'[k] = rows[k]
                  \/ /\ rows'[k].fact = rows[k].fact /\ rows'[k].ingestedAt = rows[k].ingestedAt
                     /\ rows'[k].status = target /\ rows[k].status # target
                     /\ rows'[k].setAt = clock
<1>1. rows \in Seq(Row) /\ Len(rows) \in Nat /\ clock \in Day
  BY DEF Inv, TableOK
<1>2. \A k \in 1..Len(rows) : rows[k] \in Row
  BY <1>1
<1>3. \A k \in 1..Len(rows) : [rows[k] EXCEPT !.status = target, !.setAt = clock] \in Row
  BY <1>1, <1>2 DEF Row
<1>4. rows' = [k \in 1..Len(rows) |->
                  IF rows[k].fact.uti = u /\ rows[k].status # target
                  THEN [rows[k] EXCEPT !.status = target, !.setAt = clock]
                  ELSE rows[k]]
  BY DEF Update
<1>5. rows' \in Seq(Row) /\ Len(rows') = Len(rows)
  <2>1. rows' \in [1..Len(rows) -> Row]
    BY <1>2, <1>3, <1>4
  <2> QED BY <1>1, <2>1
<1>6. ASSUME NEW k \in 1..Len(rows), rows[k].fact.uti = u, rows[k].status # target
      PROVE  /\ rows'[k].fact = rows[k].fact /\ rows'[k].ingestedAt = rows[k].ingestedAt
             /\ rows'[k].status = target /\ rows'[k].setAt = clock
  BY <1>2, <1>4, <1>6 DEF Row
<1> QED BY <1>4, <1>5, <1>6

\* Every other step leaves the table alone and lets time pass.
LEMMA OtherSteps ==
    ASSUME Tick \/ Analytics \/ (\E u \in Uti, day \in Day : ReportTrade(u, day)) \/ UNCHANGED vars
    PROVE  UNCHANGED rows
  BY DEF Tick, Analytics, ReportTrade, ListFeedbacks, CountByReason, CountByUti, LookUp,
         WriteReport, EndAnalytics, tableVars, vars

LEMMA InvStep == Inv /\ [Next]_vars => Inv'
<1> SUFFICES ASSUME Inv, [Next]_vars PROVE Inv'
  OBVIOUS
<1>1. /\ rows \in Seq(Row) /\ all \in Seq(Row) /\ clock \in Nat
      /\ MaxClock \in Nat /\ Len(rows) \in Nat
      /\ \A k \in 1..Len(rows) : rows[k] \in Row
  BY WorkflowAssumption DEF Inv, TableOK, Day
<1>2. CASE \E file \in File : Ingest(file)
  <2>1. PICK file \in File : Ingest(file)
    BY <1>2
  <2>2. UNCHANGED <<clock, all>>
    BY <2>1 DEF Ingest, analyticsVars
  <2>3. /\ rows' \in Seq(Row) /\ Len(rows') \in Nat
        /\ \A k \in 1..Len(rows) : rows'[k] = rows[k]
        /\ \A k \in (Len(rows) + 1)..Len(rows') :
               rows'[k].status = "open" /\ rows'[k].setAt = clock /\ rows'[k].ingestedAt = clock
    BY <2>1, IngestRows
  <2>4. \A k \in 1..Len(rows') : k \in 1..Len(rows) \/ k \in (Len(rows) + 1)..Len(rows')
    BY <1>1, <2>3
  <2> QED BY <1>1, <2>2, <2>3, <2>4 DEF Inv, TableOK, OpenRowsUntouched
<1>3. CASE \E u \in Uti : Resolve(u) \/ Stale(u)
  <2>1. PICK u \in Uti, target \in Status \ {"open"} : Update(u, target)
    BY <1>3 DEF Resolve, Stale, Status
  <2>2. UNCHANGED <<clock, all>>
    BY <2>1 DEF Update, analyticsVars
  <2>3. \A k \in 1..Len(rows) : rows[k].ingestedAt <= clock
    BY <1>1 DEF Inv, OpenRowsUntouched, Row, Day
  <2>4. /\ rows' \in Seq(Row) /\ Len(rows') = Len(rows)
        /\ \A k \in 1..Len(rows) :
               \/ rows'[k] = rows[k]
               \/ /\ rows'[k].ingestedAt = rows[k].ingestedAt /\ rows'[k].setAt = clock
                  /\ rows'[k].status # "open"
    BY <2>1, UpdateRows
  <2> QED BY <1>1, <2>2, <2>3, <2>4 DEF Inv, TableOK, OpenRowsUntouched
<1>4. CASE Tick
  <2>1. UNCHANGED <<rows, all>> /\ clock' = clock + 1 /\ clock' \in Day
    BY <1>1, <1>4 DEF Tick, analyticsVars, Day
  <2> \A r \in Row : r.setAt \in Nat
    BY <1>1 DEF Row, Day
  <2>2. \A k \in 1..Len(rows) : rows[k].setAt \in Nat
    BY <1>1
  <2>3. \A k \in 1..Len(all) : all[k].setAt \in Nat
    BY <1>1
  <2> QED BY <1>1, <2>1, <2>2, <2>3 DEF Inv, TableOK, OpenRowsUntouched
<1>5. CASE ListFeedbacks
  <2>1. UNCHANGED <<rows, clock>> /\ all' = rows
    BY <1>5 DEF ListFeedbacks, tableVars
  <2> QED BY <2>1 DEF Inv, TableOK, OpenRowsUntouched
<1>6. CASE EndAnalytics
  <2>1. UNCHANGED <<rows, clock>> /\ all' = <<>>
    BY <1>6 DEF EndAnalytics, tableVars, NothingRead
  <2> QED BY <2>1 DEF Inv, TableOK, OpenRowsUntouched
<1>7. CASE \/ CountByReason \/ CountByUti \/ LookUp \/ (\E k \in 1..4 : WriteReport(k))
           \/ (\E u \in Uti, day \in Day : ReportTrade(u, day)) \/ UNCHANGED vars
  <2>1. UNCHANGED <<rows, clock, all>>
    BY <1>7 DEF CountByReason, CountByUti, LookUp, WriteReport, ReportTrade,
                tableVars, analyticsVars, vars
  <2> QED BY <2>1 DEF Inv, TableOK, OpenRowsUntouched
<1> QED BY <1>2, <1>3, <1>4, <1>5, <1>6, <1>7 DEF Next, Analytics

LEMMA InitInv == Init => Inv
<1> SUFFICES ASSUME Init PROVE Inv
  OBVIOUS
<1>1. rows = <<>> /\ all = <<>> /\ clock = 0
  BY DEF Init, NothingRead
<1> QED BY <1>1, WorkflowAssumption DEF Inv, TableOK, OpenRowsUntouched, Day

\* An open row still carries the day it came in, and no status is set in the
\* future, in the table and in every list an analytics run works on.
THEOREM OpenRowsNeverTouched == Spec => []OpenRowsUntouched
<1>1. Inv => OpenRowsUntouched
  BY DEF Inv
<1> QED BY InitInv, InvStep, <1>1, PTL DEF Spec

KeepsHistory ==
    /\ Len(rows') >= Len(rows)
    /\ \A k \in 1..Len(rows) :
           /\ rows'[k].fact = rows[k].fact /\ rows'[k].ingestedAt = rows[k].ingestedAt
           /\ rows'[k].status = "open" => rows[k] = rows'[k]
    /\ \A k \in (Len(rows) + 1)..Len(rows') : rows'[k].status = "open"

LEMMA StepKeepsHistory == Inv /\ [Next]_vars => [KeepsHistory]_vars
<1> SUFFICES ASSUME Inv, Next PROVE KeepsHistory \/ UNCHANGED rows
  <2>1. UNCHANGED rows /\ Inv => KeepsHistory
    BY DEF Inv, TableOK, KeepsHistory
  <2> QED BY <2>1
<1>1. rows \in Seq(Row) /\ Len(rows) \in Nat
  BY DEF Inv, TableOK
<1>2. CASE \E file \in File : Ingest(file)
  <2>1. PICK file \in File : Ingest(file)
    BY <1>2
  <2>2. file \in Seq(Feedback) /\ Len(file) \in Nat
    BY WorkflowAssumption
  <2>3. Len(rows') = Len(rows) + Len(file)
    BY <2>1, IngestRows
  <2>4. /\ \A k \in 1..Len(rows) : rows'[k] = rows[k]
        /\ \A k \in (Len(rows) + 1)..Len(rows') : rows'[k].status = "open"
    BY <2>1, IngestRows
  <2> QED BY <1>1, <2>2, <2>3, <2>4 DEF KeepsHistory
<1>3. CASE \E u \in Uti : Resolve(u) \/ Stale(u)
  <2>1. PICK u \in Uti, target \in Status \ {"open"} : Update(u, target)
    BY <1>3 DEF Resolve, Stale, Status
  <2>2. /\ Len(rows') = Len(rows)
        /\ \A k \in 1..Len(rows) :
               \/ rows'[k] = rows[k]
               \/ /\ rows'[k].fact = rows[k].fact /\ rows'[k].ingestedAt = rows[k].ingestedAt
                  /\ rows'[k].status # "open"
    BY <2>1, UpdateRows
  <2> QED BY <1>1, <2>2 DEF KeepsHistory
<1>4. CASE Tick \/ Analytics \/ (\E u \in Uti, day \in Day : ReportTrade(u, day))
  BY <1>4, OtherSteps
<1> QED BY <1>2, <1>3, <1>4 DEF Next

\* No command drops, rewrites or reopens a row, and new rows start open.
THEOREM FeedbackIsPermanent == Spec => HistoryKept
<1>1. Inv /\ [Next]_vars => [KeepsHistory]_vars
  BY StepKeepsHistory
<1> QED BY InitInv, InvStep, <1>1, PTL DEF Spec, HistoryKept, KeepsHistory

----------------------------------------------------------------------------
\* The counts of an analytics run

\* Every row lists finitely many codes, so a table mentions each finitely often.
LEMMA FiniteMentions ==
    ASSUME NEW S \in Seq(Row), NEW c
    PROVE  IsFiniteSet(Mentions(c, S))
<1> DEFINE Of(k) == {k} \X Positions(S[k].fact, c)
           Parts == {Of(k) : k \in 1..Len(S)}
<1>1. Len(S) \in Nat /\ IsFiniteSet(1..Len(S))
  BY FS_Interval
<1>2. ASSUME NEW k \in 1..Len(S)
      PROVE  IsFiniteSet(Of(k))
  <2>1. S[k].fact \in Feedback
    <3>1. S[k] \in Row
      BY <1>1
    <3> QED BY <3>1 DEF Row
  <2>2. CodesOf(S[k].fact) \in Seq(Code)
    BY <2>1, WorkflowAssumption DEF CodesOf
  <2>3. Len(CodesOf(S[k].fact)) \in Nat /\ IsFiniteSet(1..Len(CodesOf(S[k].fact)))
    BY <2>2, FS_Interval
  <2>4. IsFiniteSet(Positions(S[k].fact, c))
    BY <2>3, FS_Subset DEF Positions
  <2> QED BY <2>4, FS_Singleton, FS_Product
<1>3. IsFiniteSet(Parts)
  <2> HIDE DEF Of
  <2>1. [k \in 1..Len(S) |-> Of(k)] \in Surjection(1..Len(S), Parts)
    BY DEF Surjection
  <2> QED BY <1>1, <2>1, FS_Surjection
<1>4. \A P \in Parts : IsFiniteSet(P)
  BY <1>2
<1> QED BY <1>3, <1>4, FS_UNION DEF Mentions

\* Every count over the larger table is at least the one over the smaller.
LEMMA CountsGrow ==
    ASSUME NEW S \in Seq(Row), NEW T \in Seq(Row), Extends(T, S), NEW x
    PROVE  /\ Cardinality(RowsOf(x, S)) \in Nat /\ Cardinality(RowsOf(x, T)) \in Nat
           /\ Cardinality(RowsOf(x, S)) <= Cardinality(RowsOf(x, T))
           /\ Cardinality(Mentions(x, S)) \in Nat /\ Cardinality(Mentions(x, T)) \in Nat
           /\ Cardinality(Mentions(x, S)) <= Cardinality(Mentions(x, T))
<1>1. Len(S) \in Nat /\ Len(T) \in Nat /\ Len(S) <= Len(T)
  BY DEF Extends
<1>2. IsFiniteSet(1..Len(S)) /\ IsFiniteSet(1..Len(T))
  BY <1>1, FS_Interval
<1>3. RowsOf(x, S) \subseteq 1..Len(S) /\ RowsOf(x, T) \subseteq 1..Len(T)
  BY DEF RowsOf
<1>4. /\ IsFiniteSet(RowsOf(x, S)) /\ IsFiniteSet(RowsOf(x, T))
      /\ IsFiniteSet(Mentions(x, S)) /\ IsFiniteSet(Mentions(x, T))
  BY <1>2, <1>3, FS_Subset, FiniteMentions
<1>5. RowsOf(x, S) \subseteq RowsOf(x, T)
  BY <1>1 DEF RowsOf, Extends
<1>6. Mentions(x, S) \subseteq Mentions(x, T)
  <2>1. \A k \in 1..Len(S) : k \in 1..Len(T) /\ S[k].fact = T[k].fact
    BY <1>1 DEF Extends
  <2> QED BY <2>1 DEF Mentions
<1> QED BY <1>4, <1>5, <1>6, FS_Subset, FS_CardinalityType

\* The commands that write only add rows or change their status.
LEMMA WritersCount ==
    ASSUME Inv, CountsInv, KeepsHistory, rows' \in Seq(Row), UNCHANGED <<pc, all, causes, byUti>>
    PROVE  CountsInv'
<1>1. rows \in Seq(Row) /\ all \in Seq(Row) /\ Extends(rows', rows)
  BY DEF Inv, TableOK, KeepsHistory, Extends
<1>2. Extends(rows, all) => Extends(rows', all)
  BY <1>1 DEF Extends
<1>3. CodesCounted => CodesCounted'
  <2> SUFFICES ASSUME CodesCounted, NEW c \in Code
               PROVE  causes[c] <= Cardinality(Mentions(c, rows'))
    BY DEF CodesCounted
  <2>1. /\ Cardinality(Mentions(c, rows)) \in Nat /\ Cardinality(Mentions(c, rows')) \in Nat
        /\ Cardinality(Mentions(c, rows)) <= Cardinality(Mentions(c, rows'))
    BY <1>1, CountsGrow
  <2> QED BY <2>1 DEF CountsInv, CodesCounted
<1>4. UtisCounted => UtisCounted'
  <2> SUFFICES ASSUME UtisCounted, NEW u \in Uti \union {NoUti}
               PROVE  byUti[u] <= Cardinality(RowsOf(u, rows'))
    BY DEF UtisCounted
  <2>1. /\ Cardinality(RowsOf(u, rows)) \in Nat /\ Cardinality(RowsOf(u, rows')) \in Nat
        /\ Cardinality(RowsOf(u, rows)) <= Cardinality(RowsOf(u, rows'))
    BY <1>1, CountsGrow
  <2> QED BY <2>1 DEF CountsInv, UtisCounted
<1> QED BY <1>2, <1>3, <1>4 DEF CountsInv, Counted

LEMMA AnalyticsCount ==
    ASSUME Inv, CountsInv, Analytics
    PROVE  CountsInv'
<1>1. rows \in Seq(Row) /\ all \in Seq(Row) /\ rows' = rows /\ Extends(rows, rows)
  BY OtherSteps DEF Inv, TableOK, Extends
<1>2. CASE ListFeedbacks
  BY <1>1, <1>2 DEF ListFeedbacks, CountsInv, Counted
<1>3. CASE CountByReason
  <2>1. /\ pc = "listed" /\ pc' = "caused" /\ UNCHANGED <<all, byUti>>
        /\ causes' = [c \in Code |-> Cardinality(Mentions(c, rows))]
    BY <1>3 DEF CountByReason
  <2>2. \A c \in Code : /\ Cardinality(Mentions(c, rows)) \in Nat
                        /\ Cardinality(Mentions(c, all)) <= Cardinality(Mentions(c, rows))
    BY <1>1, <2>1, CountsGrow DEF CountsInv
  <2> QED BY <1>1, <2>1, <2>2 DEF CountsInv, CodesCounted, Counted
<1>4. CASE CountByUti
  <2>1. /\ pc = "caused" /\ pc' = "lookup" /\ UNCHANGED <<all, causes>>
        /\ byUti' = [u \in Uti \union {NoUti} |-> Cardinality(RowsOf(u, rows))]
    BY <1>4 DEF CountByUti, RowsOf
  <2>2. \A u \in Uti \union {NoUti} :
            /\ Cardinality(RowsOf(u, rows)) \in Nat
            /\ Cardinality(RowsOf(u, all)) <= Cardinality(RowsOf(u, rows))
    BY <1>1, <2>1, CountsGrow DEF CountsInv
  <2> QED BY <1>1, <2>1, <2>2 DEF CountsInv, CodesCounted, UtisCounted
<1>5. CASE LookUp \/ \E k \in 1..4 : WriteReport(k)
  <2>1. UNCHANGED <<all, causes, byUti>>
    BY <1>5 DEF LookUp, WriteReport, analyticsVars
  <2>2. Counted
    BY <1>5 DEF LookUp, WriteReport, Report, Counted
  <2> QED BY <1>1, <2>1, <2>2 DEF CountsInv, CodesCounted, UtisCounted, Counted
<1>6. CASE EndAnalytics
  BY <1>6 DEF EndAnalytics, NothingRead, CountsInv, Counted
<1> QED BY <1>2, <1>3, <1>4, <1>5, <1>6 DEF Analytics

LEMMA CountsStep == Inv /\ CountsInv /\ [Next]_vars => CountsInv'
<1> SUFFICES ASSUME Inv, CountsInv, [Next]_vars PROVE CountsInv'
  OBVIOUS
<1>1. CASE Analytics
  BY <1>1, AnalyticsCount
<1>2. CASE \/ Tick \/ (\E file \in File : Ingest(file)) \/ (\E u \in Uti : Resolve(u) \/ Stale(u))
           \/ (\E u \in Uti, day \in Day : ReportTrade(u, day))
  <2>1. UNCHANGED <<pc, all, causes, byUti>>
    BY <1>2 DEF Tick, Ingest, Resolve, Stale, Update, ReportTrade, analyticsVars
  <2>2. rows' \in Seq(Row)
    BY InvStep DEF Inv, TableOK
  <2>3. KeepsHistory
    <3>1. CASE vars' = vars
      BY <3>1 DEF vars, tableVars, Inv, TableOK, KeepsHistory
    <3> QED BY <3>1, StepKeepsHistory
  <2> QED BY <2>1, <2>2, <2>3, WritersCount
<1>3. CASE UNCHANGED vars
  BY <1>3 DEF vars, tableVars, analyticsVars, CountsInv, CodesCounted, UtisCounted, Counted
<1> QED BY <1>1, <1>2, <1>3 DEF Next

LEMMA CountsAreBetween ==
    ASSUME Inv, CountsInv
    PROVE  CountsBetween
<1>1. ASSUME Counted, NEW u \in Uti, Cardinality(RowsOf(u, all)) >= Threshold
      PROVE  u \in Repeated
  <2>1. all \in Seq(Row) /\ Extends(all, all)
    BY DEF Inv, TableOK, Extends
  <2>2. Cardinality(RowsOf(u, all)) \in Nat /\ byUti[u] \in Nat /\ Threshold \in Nat
    BY <2>1, CountsGrow, WorkflowAssumption DEF CountsInv
  <2> QED BY <1>1, <2>2 DEF CountsInv, UtisCounted, Repeated
<1>2. Counted => pc \notin {"idle", "listed"}
  BY DEF Counted
<1> QED BY <1>1, <1>2 DEF CountsInv, CodesCounted, UtisCounted, CountsBetween

LEMMA InitCounts == Init => CountsInv
  BY DEF Init, NothingRead, CountsInv, Counted

\* list_feedbacks, count_feedbacks_by_reason and count_feedbacks_by_uti see the table
\* at three moments, yet their figures never contradict each other: each lies between
\* what was listed and what there is now, and no repeated rejection is missed.
THEOREM CountsNeverContradict == Spec => []CountsBetween
<1>1. Inv /\ CountsInv => CountsBetween
  BY CountsAreBetween
<1> QED BY InitInv, InvStep, InitCounts, CountsStep, <1>1, PTL DEF Spec
================================================================================
