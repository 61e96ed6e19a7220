SPECIFICATION HooksSpec
CONSTANTS
    Backends = {b1}
    Exporter = exporter
    NoPid = NoPid
    MaxTrackedQueries = 2
    Queries = {q1, q2, q3}
    Tracked = {q1, q2}
    NoQuery = NoQuery
    Events = {"reload", "subabort", "walk_error", "handler_error"}
    MaxExitCallbacks = 2
SYMMETRY Symmetry
INVARIANTS
    EntryDescribesOneQuery
    
    QueryDescSurvivesErrors
    EntryMeansRunning
    RegistersOnce
CHECK_DEADLOCK FALSE
