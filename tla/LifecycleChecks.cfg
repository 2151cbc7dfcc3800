\* Three scans over one store, of every kind, some of which fail.
SPECIFICATION Spec
CONSTANTS
    U1 = U1
    U2 = U2
    None = None
    Batches <- MCBatches
    Second = 2
    Day = 4
    MaxDelay = 4
    MaxScans = 3
INVARIANTS SilentExactlyWhenLegal NoSilentChange DropRepeatsOnlyAfterEmpty ErosionBounded NoSilentDecline
