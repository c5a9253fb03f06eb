SPECIFICATION FairSpec
CONSTANTS
    o1 = o1
    o2 = o2
    Hand = Hand
    c1 = c1
    Scheduler = Scheduler
    NoThread = NoThread
    Occ = {o1, o2}
    OccStart <- AtOnce
    OccEnd <- OneShort
    Client = {c1}
    RunLog = TRUE
    RunEntries = 1
    Weather = FALSE
    Keep = 0
    MaxTime = 1
    MaxEntries = 3
    MaxRequests = 1
    MaxCrashes = 1
INVARIANTS
    StoredIsCurrent
    StoredModeFits
PROPERTIES
    StopsAreStored
    RepeatedIfForgotten
CHECK_DEADLOCK FALSE
