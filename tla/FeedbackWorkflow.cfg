\* Ingestion, status changes and a scan run while two analytics commands do.
SPECIFICATION Spec
CONSTANTS
    Uti <- MCUti
    NoUti = "none"
    Code <- MCCode
    Kind <- MCKind
    Accepting <- MCAccepting
    Feedback <- MCFeedback
    File <- MCFile
    Threshold = 2
    MaxRows = 3
    MaxClock = 2
    MaxRuns = 2
INVARIANTS OpenRowsUntouched CountsBetween
PROPERTIES HistoryKept
