CONSTANTS
    m1 = m1
    m2 = m2
    p1 = p1
    d1 = d1
    Meta = {m1, m2}
    TreePack = {p1}
    DataPack = {d1}
    Proc = {q1, q2}
    Full = 2
    StartHot <- Truncated
    StartCold <- Complete
    Exclusive = TRUE
    t1 = t1
    t2 = t2
    u1 = u1
    u2 = u2
    q1 = q1
    q2 = q2
    f1 = f1
    f2 = f2
    Inode = {i1, i2, i3, i4}
    NoInode = NoInode
    NoFile = NoFile
SYMMETRY Symmetric
SPECIFICATION StorageSpec
INVARIANTS ListedReadable ReadsGood
PROPERTY RepairRestores
CHECK_DEADLOCK FALSE
