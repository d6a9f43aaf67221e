SPECIFICATION MCSpec
CONSTANTS
    Parts = {"queue", "cursors", "setup", "plan"}
    Servers = {s1, s2}
    Users = {c1, c2}
    Clis = {c1, c2}
    QueueOnly = {c2}
    db = db
    other = other
    Files = {db}
    Db = db
    Nobody = nobody
    Latest = 2
    Job = job
    CliFile <- MCCliFile
    MaxClaims = 1
    MaxFaults = 1
    Callers = {a, b, c}
    Chunks = 3
    MaxOpen = 1
    MaxHandles = 1
    NoCaller = nocaller
    util = util
    mkfm = mkfm
    setup = setup
    diag = diag
    clidrv = clidrv
    Assets <- MCAssets
    Util = util
    Diag = diag
    SetupClass = setup
    Mkfm = mkfm
    Ids = {A, B}
    MaxRuns = 2
    SetupFaults = 2
    t1 = t1
    t2 = t2
    t3 = t3
    t4 = t4
    Targets = {t1, t2, t3, t4}
    Triggers = {t2, t4}
    Name <- MCName
    Interval <- MCInterval
    TickSecs = 1
    MaxWorkers = 2
    FullShare = 50
    MaxShift = 3
    MaxCycle = 2
    Never = never
CHECK_DEADLOCK FALSE
INVARIANTS TypesOK NamedServerListens RunsAtMostOnce  OneThreadPerResult
    PagesInOrder ZeroMeansInstalled SlotsAreUsed PriorityIsKept 
PROPERTY QueuedIsTaken
