\* The key of one record is stored with white space around it.
SPECIFICATION Spec
CONSTANTS
    e1 = e1
    e2 = e2
    e3 = e3
    t1 = t1
    r1 = r1
    r2 = r2
    q1 = q1
    q2 = q2
    NoOne = NoOne
    Empty = ""
    Record <- MCRecord
    Text <- MCText
    Trim <- MCTrim
    Scan <- MCScan
    KeyOf <- MCKeyOfPadded
    Batch <- MCBatch
    Table <- MCTable
    KeyTable <- MCKeyTable
    MaxBinds = 2
INVARIANTS ExactlyOneSeesTheOther
