SPECIFICATION ReaderSpec
CONSTANTS
    Names <- MCNames
    Fold <- MCFold
    Empty = ""
    Nil = Nil
    Conns = {c1, c2}
    Calls = {r1}
    Readers = {r1}
    Nobody = Nobody
    NoConn = NoConn
    Requests <- AllRequests
    Catalogs <- AllCatalogs
    MaxCommits = 1
    MaxFaults = 1
SYMMETRY AnyConn
INVARIANT QuietReadIsExact
INVARIANT OneConnectionEach
INVARIANT ReturnedHoldsNothing
INVARIANT OtherFaultsAreReported
INVARIANT OneCommitIsCoherent
CHECK_DEADLOCK FALSE
