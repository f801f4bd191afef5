CONSTANTS
    None = None
    t1 = t1
    t2 = t2
    Threads <- TwoThreads
SPECIFICATION FairSpec
INVARIANTS
    LoadedBeforeUse
    HandshakeClean
    OnceDone
    ConfiguredOrNone
    WaitsAnswered
PROPERTIES
    CallsAdvance
    CallsReturn
CHECK_DEADLOCK FALSE
