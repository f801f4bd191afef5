CONSTANTS
    main = main
    loader = loader
    Threads <- TwoThreads
    Main = main
    Capacity = 2
    Limit = 2
    MaxEmits = 6
    WritesMayFail = TRUE
SPECIFICATION Spec
INVARIANTS
    DroppedExplicit
CHECK_DEADLOCK FALSE
