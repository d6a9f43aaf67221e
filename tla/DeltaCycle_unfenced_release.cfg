SPECIFICATION Spec
CONSTANTS
    Executor = {e1, e2}
    LastKey = 1
    Safety = 1
    Late = 0
    LeaseTtl = 0
    MaxCycle = 1
    LoadTypes = {"D"}
    Default = "D"
    AllowEmptyReload = FALSE
    Overrun = FALSE
    MaxClock = 4
    MaxRun = 3
    MaxFaults = 0
    MaxChanges = 0
    MaxFail = 1
SYMMETRY Symmetry
CHECK_DEADLOCK FALSE
PROPERTY ReleaseLeavesOtherOwner
