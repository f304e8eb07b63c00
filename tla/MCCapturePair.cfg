\* Process of main and Run of the web server share every component.
CONSTANTS
    s1 = s1
    main = main
    web = web
    demo = demo
    Streams <- MCStreams
    Modulus = 4
    ChunkSize = 2
    Limit = 2
    Processors <- Main
    Runners <- Web
    AssemblerChoices <- Either
    Arrivals <- PairTraffic
    Offered <- PairTraffic
    MaxFed = 3
    Window = 1
    MaxTime = 0
SPECIFICATION CaptureSpec
INVARIANTS
    EveryPacketCounted
    KeysHeldForAReason
    CleanEndHoldsNothing
PROPERTIES
    CountedIsStored
