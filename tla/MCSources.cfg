\* Process of main and the Runs of the web server read one FileSource.
CONSTANTS
    s1 = s1
    main = main
    web = web
    Nobody = Nobody
    Streams <- MCStreams
    Modulus = 4
    FileLists <- MCFileLists
    Processors <- Main
    Runners <- Web
    MaxRuns = 2
    MaxMeetings = 1
SPECIFICATION SourceSpec
INVARIANTS
    SourceTypeOK
    AloneReadsAll
    AloneIsTidy
PROPERTIES
    ReadersFinish
CHECK_DEADLOCK FALSE
