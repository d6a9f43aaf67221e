SPECIFICATION MCFairSpec
CONSTANTS
    Keys = {k1}
    Values = {v1, v2}
    Null = Null
    Txns = {t1}
    Sessions = {s1}
    Modes = {"IMAGE_IUD"}
    Slice = 1
    MaxChanges = 3
    MaxFaults = 1
CHECK_DEADLOCK FALSE
PROPERTY CatchesUp
