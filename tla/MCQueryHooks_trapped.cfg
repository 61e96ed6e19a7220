SPECIFICATION HooksSpec
CONSTANTS
    Backends = {b1}
    Exporter = exporter
    NoPid = NoPid
    MaxTrackedQueries = 1
    Queries = {q1, q2}
    Tracked = {q1, q2}
    NoQuery = NoQuery
    Events = {"handler_error"}
    MaxExitCallbacks = 1
SYMMETRY Symmetry
INVARIANT
    NeverWaitsForItself
