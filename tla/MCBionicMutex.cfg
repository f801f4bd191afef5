CONSTANTS
    None = None
    t1 = t1
    t2 = t2
    p1 = p1
    p2 = p2
    a1 = a1
    a2 = a2
    Threads <- TwoThreads
    Words <- TwoWords
    Natives <- TwoNatives
    MaxDepth = 2
SPECIFICATION Spec
SYMMETRY Symmetry
INVARIANTS
    MutualExclusion
    RightMutex
    NoLeak
CHECK_DEADLOCK FALSE
