CONSTANTS
    Scheduled = {1, 2, 3}
    Once = {4}
    Cases <- Planned
    Levels = {100, 150}
    Minute = 1
    MaxTime = 18
    MaxRequests = 2
SPECIFICATION Spec
CHECK_DEADLOCK FALSE
INVARIANTS
    UsageKept
    NothingRepeats
    EveryRunTakesPlace
    DelayKept
    PauseKept
