SPECIFICATION SessionSpec
CONSTANTS
    Opener = opener
    Closers = {c1}
    Askers = {}
    Users = {u1}
    MaxBytes = 8
    MaxColumns = 1
INVARIANT SessionTypeOK
INVARIANT NoStaleValue
INVARIANT NoContextLeak
INVARIANT NativeClosedOnce
PROPERTY SpanSafety
PROPERTY ReadsReturn
PROPERTY AbandonedReaderEnds
PROPERTY CloseReturns
CHECK_DEADLOCK FALSE
