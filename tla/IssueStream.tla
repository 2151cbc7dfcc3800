------------------------------ MODULE IssueStream ------------------------------
(***************************************************************************)
(* What the issue pipeline of a scan promises its caller: every issue that *)
(* was pushed comes out exactly once, in the order of issue_cmp, and only  *)
(* after the sink was sealed.  IssueSink implements it.                    *)
(***************************************************************************)
EXTENDS Integers, Sequences

CONSTANTS Issue, Rank

VARIABLES accepted,   \* the issues pushed so far
          emitted,    \* the issues handed to the report writer, in order
          stage       \* "collect" | "emit" | "closed"

avars == <<accepted, emitted, stage>>

Emitted == {emitted[k] : k \in 1..Len(emitted)}

AbstractInit == accepted = {} /\ emitted = <<>> /\ stage = "collect"

Accept(i) ==
    /\ stage = "collect" /\ i \notin accepted
    /\ accepted' = accepted \union {i}
    /\ UNCHANGED <<emitted, stage>>

Seal == stage = "collect" /\ stage' = "emit" /\ UNCHANGED <<accepted, emitted>>

Emit(i) ==
    /\ stage = "emit" /\ i \in accepted \ Emitted
    /\ \A j \in accepted \ Emitted : Rank[i] <= Rank[j]
    /\ emitted' = Append(emitted, i)
    /\ UNCHANGED <<accepted, stage>>

\* The reader may stop early (a report writer that fails drops the iterator);
\* a reader that was told "no more" has seen everything.
Exhaust == stage = "emit" /\ Emitted = accepted /\ stage' = "closed"
           /\ UNCHANGED <<accepted, emitted>>

Abandon == stage = "emit" /\ stage' = "abandoned"
           /\ UNCHANGED <<accepted, emitted>>

AbstractNext == \/ \E i \in Issue : Accept(i) \/ Emit(i)
                \/ Seal \/ Exhaust \/ Abandon

AbstractSpec == AbstractInit /\ [][AbstractNext]_avars
================================================================================
