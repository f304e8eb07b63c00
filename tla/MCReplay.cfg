\* Two clients, requests that fail or overlap, and a crash.
CONSTANTS
    s1 = s1
    c1 = c1
    c2 = c2
    Streams <- MCStreams
    Modulus = 4
    ChunkSize = 2
    Offered <- MCOffered
    Timestamp <- MCTimestamp
    ReplayChunk = 2
    StableLength = 2
    Savers <- TwoClients
    Cursors <- MCCursors
    TrafficChoices <- MoreOrLess
    Kinds <- AllKinds
    MaxWork = 5
    MaxCrashes = 1
    Torn = Torn
SPECIFICATION ReplaySpec
SYMMETRY ClientSymmetry
INVARIANTS
    ReplayTypeOK
    SkipsNothing
    CursorReadable
    OutputsInTimeOrder
PROPERTIES
    FinishedPutOutAll
    ResumeContinues
CHECK_DEADLOCK FALSE
