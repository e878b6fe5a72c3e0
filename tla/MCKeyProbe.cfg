SPECIFICATION ReaderSpec
CONSTANTS
    Names <- MCNames
    Fold <- MCFold
    Empty = ""
    Nil = Nil
    Conns = {c1}
    Calls = {r1}
    Readers = {r1}
    Nobody = Nobody
    NoConn = NoConn
    Requests <- ProbesOfUsers
    Catalogs <- OneCatalog
    MaxCommits = 0
    MaxFaults = 1
INVARIANT FaultIsReported
CHECK_DEADLOCK FALSE
