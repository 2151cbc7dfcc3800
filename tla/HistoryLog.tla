------------------------------- MODULE HistoryLog -------------------------------
(***************************************************************************)
(* What the history store promises to the scans that share it: a scan's    *)
(* batch enters the history at once and whole, and the prior view a scan   *)
(* gets is the history before its own entry.  HistoryStore implements it.  *)
(***************************************************************************)
EXTENDS Integers, Sequences

CONSTANTS Scan, View(_, _)

VARIABLES log,    \* the scans in the history, oldest first
          view    \* per scan: the prior views it was given, at most one

Position(s) == CHOOSE k \in 1..Len(log) : log[k] = s

LogInit == log = <<>> /\ view = [s \in Scan |-> {}]

Enter(s) == /\ \A k \in 1..Len(log) : log[k] # s
            /\ log' = Append(log, s)
            /\ UNCHANGED view

Look(s) == /\ \E k \in 1..Len(log) : log[k] = s
           /\ view[s] = {}
           /\ view' = [view EXCEPT ![s] = {View(s, SubSeq(log, 1, Position(s) - 1))}]
           /\ UNCHANGED log

LogNext == \E s \in Scan : Enter(s) \/ Look(s)

LogSpec == LogInit /\ [][LogNext]_<<log, view>>
================================================================================
