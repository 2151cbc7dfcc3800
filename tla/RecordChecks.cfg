CONSTANTS
    MaxReportingDelay = 24
    AbnormalMaturityDays = 5
    LeapDays = {11}
    PlaceholderDates = {99}
    NfcThreshold <- MCNfcThreshold
    ImThreshold = 8
    EmirReports <- MCEmirReports
    SftrReports <- MCSftrReports
    EmirValues <- MCEmirValues
    SftrValues <- MCSftrValues
    RestOfFile <- MCRestOfFile
    Start = 500
    Corrections = 2
    Steps = 3
SPECIFICATION Spec
INVARIANTS RegimesAgree SpellingMatters IssueNamesItsCure
PROPERTIES TimeAlone
CHECK_DEADLOCK FALSE
