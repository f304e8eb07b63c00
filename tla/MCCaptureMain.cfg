\* main.go with -pcap and no web session: one Process over mixed traffic.
CONSTANTS
    s1 = s1
    main = main
    web = web
    demo = demo
    Streams <- MCStreams
    Modulus = 4
    ChunkSize = 2
    Limit = 2
    Processors <- Main
    Runners <- None
    AssemblerChoices <- Always
    Arrivals <- Traffic
    Offered <- Traffic
    MaxFed = 4
    Window = 2
    MaxTime = 2
SPECIFICATION CaptureSpec
INVARIANTS
    CaptureTypeOK
PROPERTIES
    SessionsEnd
