SPECIFICATION FairSpec
CONSTANTS
    s1 = s1
    s2 = s2
    s3 = s3
    m1 = m1
    m2 = m2
    o1 = o1
    o2 = o2
    r1 = r1
    k1 = k1
    NoStation = NoStation
    NoUid = NoUid
    c1 = c1
    Station = {s1, s2, s3, m1, m2}
    MasterStation <- MCTwoMasters
    IgnoreRain = {s2}
    UsesMaster <- MCUsesFirst
    ByProgram = {s1}
    MasterRelay = TRUE
    Occ = {o1, o2}
    OccStation <- MCOccStation
    OccStart <- MCOccStart
    OccEnd <- MCOccEndLate
    ControlMaster <- MCControlSecond
    OnceId = {r1}
    OnceStation <- MCOnceStation
    OnceLength <- MCOnceLength
    RunNow = {r1}
    ManualId = {k1}
    Client = {c1}
    Interleave = TRUE
    LegacyApi = TRUE
    MaxTime = 2
    MaxRequests = 1
INVARIANTS
    OpenIsTracked
PROPERTIES
    MastersFollowRuns
    OutputsTimeOut
    RainClosesStations
