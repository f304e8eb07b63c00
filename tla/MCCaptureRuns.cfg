\* The demo and two starts of the web server call Run; stops at any moment.
CONSTANTS
    s1 = s1
    demo = demo
    web1 = web1
    web2 = web2
    Nobody = Nobody
    Streams <- MCStreams
    Modulus = 4
    ChunkSize = 2
    Limit = 2
    Processors <- None
    Runners <- MCRunners
    Demo = demo
    Webs <- MCWebs
    LiveKey = s1
    LivePayload <- APayload
    LiveLimit = 3
    AssemblerChoices <- Always
    Arrivals <- FileTraffic
    Offered <- FileTraffic
    MaxFed = 1
    Window = 1
    MaxTime = 0
SPECIFICATION ControlSpec
INVARIANTS
    RunIsExclusive
    WebRunIsTracked
    StopIsPrompt
    LiveStoresAll
PROPERTIES
    StartedEnds
