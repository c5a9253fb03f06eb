CONSTANTS
    u1 = u1
    InitialSensors <- OneSensor
    Storages = {"database", "both"}
    Limit = 2
    Capacity = 2
    BatchSize = 2
    MaxRecords = 3
    MaxClears = 1
    MaxReads = 1
    MaxCrashes = 1
    MaxFailures = 1
SPECIFICATION FairSpec
CHECK_DEADLOCK FALSE
INVARIANTS
    AcceptedKept
    ClearedStaysGone
    ReadExact
PROPERTIES
    OutboxDrains
