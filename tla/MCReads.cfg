CONSTANTS
    t1 = t1
    t2 = t2
    t3 = t3
    t4 = t4
    t5 = t5
    Subtrees <- McSubtrees
    RootLists <- McRoots
    BadTrees <- McBad
    Loader = {l1, l2}
    Dirs = {h1}
    Times = {0, 1}
    Content <- McContent
    Data <- McData
    Size <- McSize
    Offsets = {0, 3, 6}
    Sizes = {3}
    Units = {1, 2}
    Readers = {r1}
    MaxSnaps = 3
    MaxReads = 2
    Inputs <- McInputs
    PackOf <- McPackOf
    Threads = 2
    Capacity = 1
    MayCancel = TRUE
SPECIFICATION ReadsSpec
INVARIANTS StreamedExactly ReadsOneVersion  Restored PacksWarm TimesRestored
PROPERTIES StreamEnds RestoreEnds
CHECK_DEADLOCK FALSE
