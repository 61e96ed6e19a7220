SPECIFICATION HooksSpec
CONSTANTS
    Backends = {b1}
    Exporter = exporter
    NoPid = NoPid
    MaxTrackedQueries = 1
    Queries = {q1, q2}
    Tracked = {q1}
    NoQuery = NoQuery
    Events = {}
    MaxExitCallbacks = 1
SYMMETRY Symmetry
INVARIANT
    ShownHasEntry
