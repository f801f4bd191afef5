CONSTANTS
    s1 = s1
    s2 = s2
    quiet = quiet
    loud = loud
    Systems <- TwoSystems
    Blocks <- TwoBlocks
    Silence = quiet
    Buffers = 2
    NextMod = 4
    CounterMod = 2
    Faults <- AllFaults
SPECIFICATION FairSpec
PROPERTIES
    StopJoins
    CloseReleases
