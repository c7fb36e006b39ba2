CONSTANTS
    p1 = p1
    p2 = p2
    p3 = p3
    p4 = p4
    a = a
    b = b
    c = c
    t = t
    u = u
    Blob = {a, b, c, t, u}
    TreeBlob = {t, u}
    Plain = {b}
    Length <- MCLength
    Inputs <- AllInputs
    Now = 2
    MaxCount = 3
    MinIndexLen = 3
    TargetSize = 3
    MinPercent = 90
    MaxPercent = 110
    NoTime = NoTime
    Infinite = 1000000
SPECIFICATION RunSpec
INVARIANTS KeepsPromise OptionsKept UsedBlobsKept
CHECK_DEADLOCK FALSE
