SPECIFICATION Spec
CONSTANTS
    TreeIds = {t1}
    DataIds = {d1}
    PackId = {p1, p2}
    IndexId = {i1, i2}
    QueueLen = 1
    MaxSends = 2
    MaxRuns = 2
CHECK_DEADLOCK FALSE
INVARIANTS
    PipelineInv
PROPERTIES
    ImplementsBackup
    ThreadsEnd
