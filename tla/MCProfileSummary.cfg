CONSTANTS
    main = main
    loader = loader
    Threads <- TwoThreads
    Main = main
    Capacity = 2
    Limit = 2
    MaxEmits = 4
    WritesMayFail = TRUE
SPECIFICATION SummarySpec
INVARIANTS
    GapsReported
    CleanLogAccounts
PROPERTIES
    ImplementsLog
    AcceptedWritten
CHECK_DEADLOCK FALSE
