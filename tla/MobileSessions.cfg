SPECIFICATION SessionsSpec
CHECK_DEADLOCK FALSE
SYMMETRY Alike
CONSTANTS
    d1 = d1
    t1 = t1
    t2 = t2
    t3 = t3
    t4 = t4
    None = None
    Token = {t1, t2, t3, t4}
    Device = {d1}
    Grace = 1
    Lifetime = 3
    AccessLife = 2
    MaxHandlers = 2
    MaxTime = 4
INVARIANTS
    EndedStaysEnded
    RetryWorks
    RecoveredOnce
    PushOnlyToPaired
