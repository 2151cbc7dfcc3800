\* Spills may fail during the scan: the sink implements the issue stream and ends.
SPECIFICATION FairSpec
CONSTANTS
    i1 = i1
    i2 = i2
    i3 = i3
    i4 = i4
    i5 = i5
    CHECK_A = CHECK_A
    CHECK_B = CHECK_B
    CHECK_C = CHECK_C
    Check <- MCCheck
    Issue <- MCIssue
    Severity <- MCSeverity
    Raises <- MCRaises
    Rank <- MCRank
    BaseSeverity <- MCBaseSeverity
    Overrides <- MCOverrides
    Nobody = Nobody
    MaxInMemory = 2
    FaultPoints = {"spill"}
INVARIANTS TypeOK NothingLost SummaryMatchesReport
PROPERTIES ImplementsStream ScanEnds
