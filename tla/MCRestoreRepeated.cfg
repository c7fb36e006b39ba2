SPECIFICATION RestoreSpec
CONSTANTS
    Inputs <- McRepeated
    PackOf <- McPackOf
    Threads = 2
    Capacity = 1
    MayCancel = TRUE
CHECK_DEADLOCK FALSE
INVARIANTS Restored
