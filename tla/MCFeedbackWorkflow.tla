-------------------------- MODULE MCFeedbackWorkflow --------------------------
(* One UTI, two feedback files (one of two rows, one of a row without UTI);  *)
(* the rejection lists one rule twice.                                       *)
EXTENDS FeedbackWorkflow

MCUti == {"U1"}
MCCode == {"VAL01", "VAL02"}
MCKind == {"rejected", "inaccurate"}
Rejected == [uti |-> "U1", kind |-> "rejected", codes |-> <<"VAL01", "VAL02", "VAL01">>, reason |-> "VAL01"]
Inaccurate == [uti |-> "U1", kind |-> "inaccurate", codes |-> <<>>, reason |-> "VAL02"]
Unnamed == [uti |-> "none", kind |-> "rejected", codes |-> <<>>, reason |-> "VAL01"]
MCFeedback == {Rejected, Inaccurate, Unnamed}
MCFile == {<<Rejected, Inaccurate>>, <<Unnamed>>}
MCAccepting == {"rejected"}
================================================================================
