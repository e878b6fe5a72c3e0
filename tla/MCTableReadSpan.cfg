SPECIFICATION Spec
CONSTANTS
    Opener = opener
    Closers = {c1, c2}
    Askers = {a1}
    Users = {u1, u2}
    MaxBytes = 26
    MaxColumns = 4
INVARIANT TypeOK
INVARIANT FailedOpenHoldsNothing
INVARIANT OneCleanup
INVARIANT CleanupOrder
INVARIANT BoundedReads
INVARIANT NoAnswerOnceInvalid
PROPERTY CloseReturns
PROPERTY CancelEndsTransaction
CHECK_DEADLOCK FALSE
