CONSTANTS
    N = 3
    Fresh <- LastFresh
    MaxVersion = 2
    MaxRuns = 4
    MaxTampers = 2
SPECIFICATION Spec
INVARIANTS
    Resumable
CHECK_DEADLOCK FALSE
