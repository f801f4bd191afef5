CONSTANTS
    N = 3
    Fresh <- LastFresh
    MaxVersion = 2
    MaxRuns = 4
    MaxTampers = 2
SPECIFICATION Spec
INVARIANTS
    FinishedIsCoherent
    LeftoversPreserved
PROPERTIES
    CompletedUntouched
CHECK_DEADLOCK FALSE
