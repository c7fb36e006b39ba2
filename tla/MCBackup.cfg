CONSTANTS
    Inputs <- SomeParents
    InFlight = 2
    WalkInputs <- ApartInputs
    MaxDepth = 2
SPECIFICATION BackupSpec
INVARIANTS EntriesExact SnapshotFaithful SnapshotStored CanceledNotSaved
PROPERTY BackupEnds
CHECK_DEADLOCK FALSE
