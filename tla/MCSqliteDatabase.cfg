SPECIFICATION DatabaseSpec
CONSTANTS
    Names <- MCNames
    Fold <- MCFold
    Empty = ""
    Nil = Nil
    Conns = {c1}
    Calls = {r1, k1}
    Readers = {r1}
    Nobody = Nobody
    NoConn = NoConn
    Requests <- SharedRequests
    Catalogs <- OneCatalog
    MaxCommits = 0
    MaxFaults = 1
    MaxRows = 1
    Checkers = {k1}
    Settings = {TRUE, FALSE}
    Violations = {"check", "foreignKey"}
    MaxCheckFaults = 1
INVARIANT DatabaseTypeOK
INVARIANT OneOwnerOneConn
INVARIANT ClosingEitherClosesBoth
INVARIANT EofIsComplete
INVARIANT SettingRestored
INVARIANT NilMeansSound
PROPERTY NoPoolWithoutHandle
PROPERTY ServedUnlessCursorsHoldAll
PROPERTY ClosedPoolDrains
CHECK_DEADLOCK FALSE
