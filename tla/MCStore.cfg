\* Chunks of two packets: six IDs fill three of them.
CONSTANTS
    s1 = s1
    s2 = s2
    Streams <- MCStreams
    Modulus = 4
    ChunkSize = 2
    Offered <- MCOffered
SPECIFICATION StoreSpec
INVARIANTS
    StoreTypeOK
    IndexesAgree
    SinceIsExactDelta
    SegmentsTile
PROPERTIES
    ImplementsLog
