SPECIFICATION MCSpec
CONSTANTS
    Keys = {k1, k2}
    Values = {v1, v2}
    Null = Null
    Txns = {t1, t2}
    Sessions = {s1}
    Modes = {"KEYS_IUD"}
    Slice = 2
    MaxChanges = 2
    MaxFaults = 0
CHECK_DEADLOCK FALSE
INVARIANT NoChangeIsLost
