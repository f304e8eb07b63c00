\* Three streams and two windows; every kind of fragment a source can hand out.
CONSTANTS
    s1 = s1
    s2 = s2
    s3 = s3
    Streams <- MCStreams
    Modulus = 4
    Limit = 2
    Arrivals <- MCArrivals
    MaxFed = 4
SPECIFICATION HistorySpec
INVARIANTS
    AsmTypeOK
    NoOrphanWindow
    ActiveWindowsBounded
    AggregatesAreOneDatagram
    ReassembledIsWhole
    NoFragmentTwice
PROPERTIES
    HeldIsNeverLost
