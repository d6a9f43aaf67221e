SPECIFICATION MCSpec
CONSTANTS
    Executor = {e1, e2}
    LastKey = 1
    Safety = 1
    Late = 1
    LeaseTtl = 0
    MaxCycle = 1
    LoadTypes = {"D"}
    Default = "D"
    AllowEmptyReload = FALSE
    Overrun = FALSE
    MaxClock = 4
    MaxRun = 3
    MaxFaults = 1
    MaxChanges = 1
    MaxFail = 0
    Kinds = {"DATE", "DATETIME", "NUMC", "INT4"}
    MaxRows <- MCRows
    MaxGone = 1
    MaxNow = 4
    Day = 2
    SafetySecs = 1
    SafetyUnits = 1
    Skew = 1
    Base = 2
    Width = 3
    NoValue = none
SYMMETRY Symmetry
CHECK_DEADLOCK FALSE
INVARIANTS TypesOK NoRowBelowFloorMissing LiveStageKept CycleTakesAll
PROPERTIES TargetNeverGoesBack TargetKeepsRows PositionMovesForward
