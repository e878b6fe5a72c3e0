SPECIFICATION Spec
CONSTANTS
    Names = {"t", "t_new"}
    Columns = {"a", "b", "c"}
    IndexNames = {"ix"}
    Rows = {"r"}
    None = None
    Callers = {p1, p2}
    Tables = {"t"}
    Scratch <- ScratchNames
    Requests <- AlterRequests
    InitCatalogs <- OnRows
    MaxCalls = 3
    Wal = FALSE
    Faults = {"statement", "bestEffort", "commit"}
PROPERTY AlterKeepsTheRest
PROPERTY LocksReleased
PROPERTY CallsReturn
CHECK_DEADLOCK FALSE
