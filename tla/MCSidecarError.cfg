SPECIFICATION Spec
CONSTANTS
    Names = {"t", "t_new"}
    Columns = {"a", "b", "c"}
    IndexNames = {"ix"}
    Rows = {"r"}
    None = None
    Callers = {p1}
    Tables = {"t"}
    Scratch <- ScratchNames
    Requests <- MarkerRequests
    InitCatalogs <- OnEmpty
    MaxCalls = 2
    Wal = FALSE
    Faults = {"bestEffort"}
PROPERTY AtomicSpec
CHECK_DEADLOCK FALSE
