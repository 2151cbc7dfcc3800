\* Every command twice in one directory, and three commands over one store, failing
\* anywhere.
SPECIFICATION Spec
CONSTANTS
    d1 = d1
    d2 = d2
    N = 3
    Lines <- MCLines
INVARIANTS NeverItsOwnPrior RepetitionSeesCommitted OkMeansComplete MailIsOwn
