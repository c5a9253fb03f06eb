SPECIFICATION FairSpec
CONSTANTS
    Nothing = Nothing
    Modes <- ModesInUse
    Callers <- TimerAndSave
    MaxChanges = 2
    MaxCrashes = 2
    MaxFailures = 1
    MaxDamage = 1
INVARIANTS
    CrashKeepsSettings
    SavedIsStored
    EmergencyKeepsSettings
PROPERTIES
    EventuallySaved
    KeepsPromise
CHECK_DEADLOCK FALSE
