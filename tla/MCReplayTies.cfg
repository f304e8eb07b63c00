\* The comment at replay.go:128 against the code.
CONSTANTS
    s1 = s1
    c1 = c1
    c2 = c2
    Streams <- MCStreams
    Modulus = 4
    ChunkSize = 2
    Offered <- MCOffered
    Timestamp <- MCTimestamp
    ReplayChunk = 2
    StableLength = 12
    Savers <- OneClient
    Cursors <- MCCursors
    TrafficChoices <- Ties
    Kinds <- CursorKinds
    MaxWork = 4
    MaxCrashes = 0
    Torn = Torn
SPECIFICATION ReplaySpec
PROPERTY
    ResumeOnlyNew
CHECK_DEADLOCK FALSE
