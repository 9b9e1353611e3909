CONSTANTS
    MaxThreads = 1
    Conn = {"c1", "c2", "c3"}
    WatchStaticFiles = TRUE
SPECIFICATION FairSpec
INVARIANTS
    TypeOK
    RingIsLive
    ReturnsAfterAll
    FailureGivesBack
PROPERTIES
    EveryClientIsHandled
