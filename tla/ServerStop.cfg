SPECIFICATION FairSpec
CHECK_DEADLOCK FALSE
CONSTANTS
    s1 = s1
    c1 = c1
    c2 = c2
    NoOne = NoOne
    Absent = Absent
    Restored = Restored
    Station = {s1}
    Command = {c1, c2}
    Kind <- MCPower
    Service = FALSE
    MaxStray = 1
INVARIANTS
    SafeWhenStopped
    StoppedIsStored
    RestoredStays
PROPERTY
    CommandsEnd
