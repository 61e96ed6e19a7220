SPECIFICATION TextSpec
CONSTANTS
    InitialSize = 5
    Reserve = 3
    MaxOutput = 15
    HeaderSize = 2
    EntrySize = 1
    NodeSize = 2
    MaxTrackedQueries = 2
    MaxQueryTextLen = 3
    MaxNodesPerQuery = 1
    w1 = w1
    w2 = w2
    Writers = {w1, w2}
    NUL = NUL
    a = a
    q = q
    Plain = {a}
    Special = {q}
    Sources <- MCSources
SYMMETRY MCSymmetry
INVARIANTS
    OffsetInBuffer
    ReturnedIsTerminated
    GrowsWhenNeeded
    ReadsStayInText
PROPERTIES
    QuietReadIsExact
