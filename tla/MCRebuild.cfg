\* Two rebuilds at a time, each up to twice, while packets arrive.
CONSTANTS
    s1 = s1
    s2 = s2
    tcp = tcp
    udp = udp
    r1 = r1
    r2 = r2
    Streams <- MCStreams
    Modulus = 4
    ChunkSize = 2
    Header <- MCHeader
    Protos <- MCProtos
    MaxPort = 3
    Keyword <- MCKeyword
    Offered <- MCOffered
    Rebuilders <- MCRebuilders
    MaxRounds = 2
SPECIFICATION SearchSpec
INVARIANTS
    RebuildTypeOK
    HistoryWithinVersion
    QuiescentIndexComplete
    SearchIsExact
    SearchMatchesFilter
PROPERTIES
    VersionNeverDecreases
    RebuildCatchesUp
