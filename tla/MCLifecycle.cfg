SPECIFICATION McSpec
CONSTANTS
    p1 = p1
    p2 = p2
    pw1 = pw1
    pw2 = pw2
    Proc = {p1, p2}
    Password = {pw1, pw2}
    Options <- McOptions
    MaxKeys = 3
    MaxInits = 2
    MaxFaults = 2
    Exclusive = FALSE
CHECK_DEADLOCK FALSE
INVARIANTS MasterKeyRemains Openable
PROPERTIES AppendOnlyKept
