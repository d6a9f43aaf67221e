SPECIFICATION Spec
CONSTANTS
    Executor = {e1, e2}
    LastKey = 2
    Safety = 1
    Late = 0
    LeaseTtl = 0
    MaxCycle = 1
    LoadTypes = {"D", "F", "L", "I"}
    Default = "L"
    AllowEmptyReload = TRUE
    Overrun = TRUE
    MaxClock = 4
    MaxRun = 2
    MaxFaults = 1
    MaxChanges = 1
    MaxFail = 0
SYMMETRY Symmetry
CHECK_DEADLOCK FALSE
INVARIANTS LogReplaysTarget SpentSeedHasPosition
PROPERTY WatermarkForward
CONSTRAINT OneRowOrOneExecutor
