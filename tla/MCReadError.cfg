SPECIFICATION Spec
CONSTANTS
    Names = {"t", "t_new"}
    Columns = {"a", "b", "c"}
    IndexNames = {"ix"}
    Rows = {"r"}
    None = None
    Callers = {p1}
    Tables = {"t"}
    Scratch <- ScratchNames
    Requests <- AlterRequests
    InitCatalogs <- OnFiles
    MaxCalls = 1
    Wal = FALSE
    Faults = {"read"}
PROPERTY AlterKeepsTheRest
CHECK_DEADLOCK FALSE
