SPECIFICATION Spec
CONSTANTS
    Names = {"t", "t_new"}
    Columns = {"a", "b", "c"}
    IndexNames = {"ix"}
    Rows = {"r"}
    None = None
    Callers = {p1, p2}
    Tables = {"t"}
    Scratch <- ScratchNames
    Requests <- MixedRequests
    InitCatalogs <- OnFiles
    MaxCalls = 2
    Wal = TRUE
    Faults = {"begin", "statement", "commit"}
INVARIANT TypeOK
PROPERTY AtomicSpec
CHECK_DEADLOCK FALSE
