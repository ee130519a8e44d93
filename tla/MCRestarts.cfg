CONSTANTS
    s1 = s1
    s2 = s2
    l1 = l1
    l2 = l2
    Submissions <- MCSubmissions
    External <- MCSecond
    Lanes <- MCLanes
    Adopted <- MCAdopted
    MaxSession = 2
    Unusable <- MCOne
    DiskFails = FALSE
    d1 = d1
    d2 = d2
    e1 = e1
    v1 = v1
    v2 = v2
    f1 = f1
    f2 = f2
    g1 = g1
    g2 = g2
    t1 = t1
    t2 = t2
    p1 = p1
    p2 = p2
    PushDevices = {d1, d2}
    PushEvents = {e1}
    MaxPushToken = 2
    SeenLimit = 1
    MaxArrivals = 2
    MaxPushRestarts = 1
    PushDiskFails = FALSE
    Releases = {v1, v2}
    RuntimeFiles = {f1, f2}
    PackageFiles = {g1}
    None = None
    Malformed = Malformed
    MaxInstalls = 2
    MaxPublished = 1
    Terminals = {t1, t2}
    Pids = {p1, p2}
    NoPid = NoPid
    MaxToken = 2
    MaxBorn = 2

SPECIFICATION RestartsSpec

INVARIANTS
    PushAsAsked
    InstallIsSound
    LauncherIsSound

PROPERTIES
    AcceptedStays
    
    RestartsProgress
CHECK_DEADLOCK FALSE
