\* Three processes open the same store, in each of its four initial states.
SPECIFICATION FairMigrations
CONSTANTS
    p1 = p1
    p2 = p2
    p3 = p3
    Unlocked = Unlocked
    Process <- MCProcess
    MaxCrashes = 2
INVARIANTS OpenMeansCurrent OnlyRacesFail
PROPERTIES EventuallyOpen
