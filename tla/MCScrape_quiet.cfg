SPECIFICATION ScrapeSpec
CONSTANTS
    Backends = {b1, b2}
    Exporter = reader
    NoPid = NoPid
    MaxTrackedQueries = 2
    Queries = {q1}
    Tracked = {q1}
    NoQuery = NoQuery
    Events = {"walk_error"}
    MaxExitCallbacks = 1
SYMMETRY Symmetry
CONSTRAINT WhileQuiet
INVARIANTS
    ScrapeTypeOK
    QuietQueryIsShown
