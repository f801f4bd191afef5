CONSTANTS
    s1 = s1
    s2 = s2
    quiet = quiet
    loud = loud
    Systems <- TwoSystems
    Blocks <- TwoBlocks
    Silence = quiet
    Buffers = 4
    NextMod = 8
    CounterMod = 2
    Faults <- AllFaults
SPECIFICATION Spec
SYMMETRY SystemSymmetry
INVARIANTS
    ExclusiveOwner
    NoOverwrite
    HeldMemory
    CleanFailure
    PendingMirrorsDevice
    Accounting
PROPERTIES
    ImplementsStream
