SPECIFICATION FairSpec
CONSTANTS
    Backends = {b1, b2}
    Exporter = exporter
    NoPid = NoPid
    MaxTrackedQueries = 2
INVARIANTS
    TypeOK
    ExclusiveIsAlone
    OneSlotPerBackend
    GoneOwnsNothing
    EntryIsOwned
PROPERTIES
    OnlyOwnerReleases
    ImplementsAllocator
    HoldersLetGo
