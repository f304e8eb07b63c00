\* The comment at cursor.go:32 against the code.
CONSTANTS
    s1 = s1
    c1 = c1
    c2 = c2
    Streams <- MCStreams
    Modulus = 4
    ChunkSize = 2
    Offered <- MCOffered
    Timestamp <- MCTimestamp
    ReplayChunk = 2
    StableLength = 12
    Savers <- TwoClients
    Cursors <- MCCursors
    TrafficChoices <- InOrder
    Kinds <- CursorKinds
    MaxWork = 4
    MaxCrashes = 0
    Torn = Torn
SPECIFICATION ReplaySpec
INVARIANT
    SaveIsAtomic
CHECK_DEADLOCK FALSE
