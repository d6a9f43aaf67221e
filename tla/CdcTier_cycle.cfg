SPECIFICATION MCSpec
CONSTANTS
    Keys = {k1, k2}
    Values = {v1, v2}
    Null = Null
    Txns = {t1}
    Sessions = {s1}
    Modes = {"KEYS_IUD"}
    Slice = 1
    MaxChanges = 3
    MaxFaults = 1
SYMMETRY Symmetry
CHECK_DEADLOCK FALSE
INVARIANTS TypeOK NoChangeIsLost LogReplaysTarget
