SPECIFICATION HooksSpec
CONSTANTS
    Backends = {b1, b2}
    Exporter = exporter
    NoPid = NoPid
    MaxTrackedQueries = 1
    Queries = {q1}
    Tracked = {q1}
    NoQuery = NoQuery
    Events = {}
    MaxExitCallbacks = 1
SYMMETRY Symmetry
INVARIANTS
    HooksTypeOK
    ShownHasEntry
PROPERTY Spec
