\* run() of the three processes, two requests at a time per server.
SPECIFICATION FairSpec
CONSTANTS
    serve = serve
    mint = mint
    downstream = downstream
    Programs <- MCPrograms
    MaxRequests = 2
INVARIANTS
    TypeOK
    NoSenderBlocks
    QuietAfterReturn
    GracePeriod
    CleanExit

    
\* run returns.
CHECK_DEADLOCK FALSE
