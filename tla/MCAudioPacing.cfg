CONSTANTS
    Ring = 4
    Duration = 2
    Slack = 19
    TimeMod = 128
    Boot = 6
    MaxTime = 60
SPECIFICATION PacingSpec
INVARIANTS
    SleepBounded
    RateBounded
CHECK_DEADLOCK FALSE
