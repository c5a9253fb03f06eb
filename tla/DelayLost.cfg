CONSTANTS
    Scheduled = {1, 2, 3}
    Once = {4}
    Cases <- Runtime
    Levels = {100}
    Minute = 1
    MaxTime = 18
    MaxRequests = 0
SPECIFICATION Spec
CHECK_DEADLOCK FALSE
INVARIANTS
    DelayKept
