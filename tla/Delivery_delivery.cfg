SPECIFICATION MCSpec
CONSTANTS
    k1 = k1
    k2 = k2
    k3 = k3
    v1 = v1
    v2 = v2
    Null = Null
    Keys = {k1, k2}
    Values = {v1, v2}
    Parts = {"delta", "full", "publish", "mass", "validate"}
    Packages <- MCPackages
    PerPoll = 2
    MaxPackages = 3
    MaxFaults = 2
    ScanKeys = {k1, k2, k3}
    NoRow = norow
    Images <- MCImages
    MaxScans = 3
    FullFaults = 2
    LogKeys = {k1}
    Subs = {s1, s2}
    Drivers = {d1, d2}
    Writers = {w1}
    First = {s1}
    Deduped = {s2}
    MaxSeq = 3
    MaxCreates = 1
    Tables <- MCTables
    Limits = {1, 2}
    Days <- MCDays
    PerPackage = 1
    MaxAttempts = 2
    MaxLoads = 2
    LoadFaults = 2
    RowKeys = {"k", "l"}
    Prints = {"p", "q"}
    MaxRows = 2
    SampleRows = 1
CHECK_DEADLOCK FALSE
INVARIANTS TypesOK CountsPastCopies OneOwed CleanEndTookAll TargetIsOneScan 
    EachValueInOnePortion  
PROPERTIES DeliversInOrder OwedIsMerged
