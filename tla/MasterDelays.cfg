CONSTANTS
    r1 = r1
    r2 = r2
    r3 = r3
    Runs = {r1, r2, r3}
    Start <- MCStart
    Length <- MCLength
    Needs <- MCNeeds
    Options <- Settings
    Floor = 1
    MaxTime = 8
    MaxRequests = 3
SPECIFICATION Spec
CHECK_DEADLOCK FALSE
PROPERTIES
    MasterServes
    MasterRests
