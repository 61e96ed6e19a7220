SPECIFICATION Spec
CONSTANTS
    Backends = {b1, b2, b3}
    Exporter = exporter
    NoPid = NoPid
    MaxTrackedQueries = 2
SYMMETRY Symmetry
INVARIANT OneBackendPerSlot
