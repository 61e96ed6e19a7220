SPECIFICATION ScrapeSpec
CONSTANTS
    Backends = {b1, b2}
    Exporter = reader
    NoPid = NoPid
    MaxTrackedQueries = 1
    Queries = {q1}
    Tracked = {q1}
    NoQuery = NoQuery
    Events = {}
    MaxExitCallbacks = 1
SYMMETRY Symmetry
CONSTRAINT UntilOverwritten
INVARIANT LineIsOfItsBackend
