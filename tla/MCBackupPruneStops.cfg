SPECIFICATION Spec
CONSTANTS
    Blob = {x1}
    PackId = {p1, p2}
    IndexId = {i1, i2, i3}
    Backup = {b1}
    KeepDelete = 2
    MaxBackup = 1
    MaxPrune = 0
    MaxTime = 2
SYMMETRY Symmetry
CHECK_DEADLOCK FALSE
INVARIANTS
    KnownBlobsAvailable
