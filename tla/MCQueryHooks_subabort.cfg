SPECIFICATION HooksSpec
CONSTANTS
    Backends = {b1}
    Exporter = exporter
    NoPid = NoPid
    MaxTrackedQueries = 1
    Queries = {q1}
    Tracked = {q1}
    NoQuery = NoQuery
    Events = {"subabort"}
    MaxExitCallbacks = 1
SYMMETRY Symmetry
INVARIANT
    QueryDescIsLive
