CONSTANTS
    MaxReportingDelay = 24
    AbnormalMaturityDays = 50
    LeapDays = {}
    PlaceholderDates = {99}
    NfcThreshold <- MCNfcThreshold
    ImThreshold = 8
    MaxValuationAge = 1
    MinPairing = 85
    MinReconciled = 70
    MaxUnpaired = 5
    MaxWarned <- MCMaxWarned
    MaxCollateralAge = 1
    Holidays = {16}
    Configured <- MCConfigured
    Regimes = {"EMIR", "SFTR"}
    Editions <- MCEditions
    Values <- MCValues
    Profile <- MCProfile
    Start = 15
    Changes = 2
    Weight <- MCWeight
SPECIFICATION Spec
INVARIANTS IndicatorsMatchChecks AlarmsShowRows OneStory WarnedMeansFlagged OrderIsIrrelevant DaysOnlyAge
CHECK_DEADLOCK FALSE
