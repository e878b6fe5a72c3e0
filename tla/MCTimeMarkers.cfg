SPECIFICATION Spec
CONSTANTS
    Names = {"t", "t_new"}
    Columns = {"a", "b", "c"}
    IndexNames = {"ix"}
    Rows = {"r"}
    None = None
    Callers = {p1}
    Tables = {"t"}
    Scratch <- ScratchNames
    Requests <- MarkerRequests
    InitCatalogs <- OnEmpty
    MaxCalls = 6
    Wal = FALSE
    Faults = {}
INVARIANT DescribedAsDeclared
PROPERTY CreateRoundTrips
CHECK_DEADLOCK FALSE
