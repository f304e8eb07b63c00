\* The comment at assembler.go:16 against the code.
CONSTANTS
    s1 = s1
    s2 = s2
    s3 = s3
    Streams <- MCStreams
    Modulus = 4
    Limit = 2
    Arrivals <- MCArrivals
    MaxFed = 4
SPECIFICATION HistorySpec
INVARIANT
    AcceptedNeverVanishes
