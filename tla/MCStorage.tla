----------------------------- MODULE MCStorage -----------------------------
(***************************************************************************)
(* The layers of the storage that keep copies of files, one at a time: a   *)
(* hot/cold repository, and the cache in two ways.  Either the threads of  *)
(* one process read, write and remove a file, or threads of two processes  *)
(* also clean up.                                                          *)
(***************************************************************************)
EXTENDS HotCold, TLC

CONSTANTS m1, m2, p1, d1,           \* files of the hot/cold repository
          t1, t2, u1, u2,           \* threads
          q1, q2,                   \* processes
          Inode, NoInode, NoFile, f1, f2

VARIABLES layer,                    \* which of them
          repo, name, tmp, data, th, raced \* see CachedBackend

\* One file is truncated in the hot part; the others have not been written yet.
Truncated == [f \in File |-> IF f = m1 THEN Full - 1 ELSE 0]
Complete == [f \in File |-> IF f = m1 THEN Full ELSE 0]

Shared == INSTANCE CachedBackend WITH
    Thread <- {t1, t2}, Process <- {q1}, Of <- [t \in {t1, t2} |-> q1], File <- {f1}, Chunks <- 2,
    Ops <- [t \in {t1, t2} |-> {"read_full", "read_partial", "write", "remove"}], MaxOps <- 3

Cleaned == INSTANCE CachedBackend WITH
    Thread <- {u1, u2}, Process <- {q1, q2}, Of <- [t \in {u1, u2} |-> IF t = u1 THEN q1 ELSE q2],
    File <- {f1, f2}, Chunks <- 2, MaxOps <- 2,
    Ops <- [t \in {u1, u2} |-> IF t = u1 THEN {"read_full", "write", "remove"} ELSE {"read_partial", "list"}]

\* What the theorems about the cache take for granted
ASSUME McCacheAssumption == Shared!CacheConstants /\ Cleaned!CacheConstants

cacheVars == <<repo, name, tmp, data, th, raced>>

HotColdIdle == hot = StartHot /\ cold = StartCold /\ born = {} /\ op = [p \in Proc |-> Idle] /\ rep = NoRepair
CacheIdle == repo = <<>> /\ name = <<>> /\ tmp = <<>> /\ data = <<>> /\ th = <<>> /\ raced = {}

StorageInit ==
    \/ layer = "hotcold" /\ Init /\ CacheIdle
    \/ layer = "shared" /\ Shared!Init /\ HotColdIdle
    \/ layer = "cleaned" /\ Cleaned!Init /\ HotColdIdle

StorageNext ==
    \/ layer = "hotcold" /\ Next /\ UNCHANGED <<layer, cacheVars>>
    \/ layer = "shared" /\ Shared!Next /\ UNCHANGED <<layer, vars>>
    \/ layer = "cleaned" /\ Cleaned!Next /\ UNCHANGED <<layer, vars>>

StorageSpec == StorageInit /\ [][StorageNext]_<<layer, vars, cacheVars>>

Symmetric == Permutations(Inode) \cup Permutations({t1, t2})

\* What CachedBackend returns is what the file contains: in both ways of using it, the
\* cache never answers with a file that is incomplete, not even one left by a killed
\* process or one whose writing has failed; unless two threads have written the file at
\* once although each of them followed the rules of the locks.
ReadsGood == (layer = "shared" => Shared!ReadsGood) /\ (layer = "cleaned" => Cleaned!ReadsGood)

\* Locking prevents parallel write access on cache files (the comment at cache.rs:36).
WritesExclude == layer = "shared" => Shared!WritesExclude

CacheGood == (layer = "shared" => Shared!CacheInv) /\ (layer = "cleaned" => Cleaned!CacheInv)
=============================================================================
