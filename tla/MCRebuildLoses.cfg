\* The comment at rebuild.go:18 against the code.
CONSTANTS
    s1 = s1
    s2 = s2
    tcp = tcp
    udp = udp
    r1 = r1
    r2 = r2
    Streams <- MCStreams
    Modulus = 4
    ChunkSize = 2
    Header <- MCHeader
    Protos <- MCProtos
    MaxPort = 3
    Keyword <- MCKeyword
    Offered <- MCOffered
    Rebuilders <- OneRebuilder
    MaxRounds = 1
SPECIFICATION SearchSpec
PROPERTIES
    NothingWrittenIsLost
