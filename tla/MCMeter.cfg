CONSTANTS
    main = main
    loader = loader
    level = level
    menu = menu
    startup = startup
    Threads <- TwoThreads
    Main = main
    Durations <- ThreeDurations
    Scenes <- TwoScenes
    Scene = level
    Startup = startup
    Percent = 50
    Last = 1
    MaxStops = 3
SPECIFICATION RowSpec
INVARIANTS
    RowAccounts
    SamplesKept
    MaximumKept
    BinsCovered
