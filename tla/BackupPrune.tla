---------------------------- MODULE BackupPrune ----------------------------
(***************************************************************************)
(* The lock-free protocol by which `backup`, `forget` and `prune` share    *)
(* one repository.                                                         *)
(*                                                                         *)
(* A repository is a set of immutable files: packs (blobs), index files    *)
(* (which packs exist, and which are marked for deletion since when) and   *)
(* snapshots (which blobs must be restorable).  No command takes a lock.   *)
(*                                                                         *)
(*   backup  loads the index, writes packs with the blobs the index does   *)
(*           not have, then index files for these packs, then the snapshot *)
(*   forget  removes snapshots                                             *)
(*   prune   reads the index, then the snapshots, then the list of packs;  *)
(*           writes the packs it repacks and new index files in which the  *)
(*           packs without used blobs are marked for deletion; removes the *)
(*           old index files; deletes packs marked at least keep_delete ago*)
(*                                                                         *)
(* Any number of backups run concurrently with each other and with one     *)
(* prune; all of them may stop at any point, by an error or a crash.       *)
(*                                                                         *)
(* Abstractions.  Trees and file contents are both blobs and a snapshot is *)
(* the set of all blobs reachable from it.  A listing is one step: the     *)
(* files it names are immutable, and reading a file which another process  *)
(* has removed in the meantime is an error, i.e. a step of BackupAbort or  *)
(* PruneAbort.  Sizes, and with them the limits which choose between       *)
(* keeping and repacking a used pack or an index file, are left open: both *)
(* are possible for every pack and every index file.  Prune's option       *)
(* instant_delete, which needs exclusive access, is not part of this       *)
(* module.  A file id that no file and no process mentions any more stands *)
(* for a new one: the ids are hashes of encrypted contents.                *)
(***************************************************************************)
EXTENDS Integers, PrunePromise

CONSTANTS Blob,        \* the blobs, by content hash
          PackId,      \* ids of pack files
          IndexId,     \* ids of index files
          Backup,      \* the processes running `backup`
          KeepDelete,  \* PruneOptions::keep_delete
          MaxBackup,   \* longest time from a backup loading the index to its end
          MaxPrune,    \* longest time a prune takes from start to end
          MaxTime      \* bound: the clock stops here

ASSUME TimeAssumption ==
    KeepDelete \in Nat /\ MaxBackup \in Nat /\ MaxPrune \in Nat /\ MaxTime \in Nat

VARIABLES
    now,        \* the clock all processes read
    packs,      \* packs[p]: the blobs in pack file p; {} if there is no such file
    index,      \* index[i]: index file i; EmptyIndex if there is no such file
    snapshots,  \* the snapshots, each the set of blobs it needs
    bk,         \* bk[b]: the state of backup process b
    pr,         \* the state of the prune process
    stale       \* history: has a prune gone by a stale mark (see StaleChoice)?

vars == <<now, packs, index, snapshots, bk, pr, stale>>

Time == 0 .. MaxTime

(***************************************************************************)
(* Index files.  An entry of `packs_to_delete` carries the time of its     *)
(* mark; the entries prune makes for packs it finds in no index file have  *)
(* an empty blob list (full = FALSE).                                      *)
(***************************************************************************)
Mark == [pack : PackId, full : BOOLEAN, time : Time]
IndexFile == [packs : SUBSET PackId, marked : SUBSET Mark]
EmptyIndex == [packs |-> {}, marked |-> {}]

NormalIn(ids) == UNION {index[i].packs : i \in ids}
MarksIn(ids) == UNION {index[i].marked : i \in ids}
PacksOf(marks) == {m.pack : m \in marks}

Stored == {p \in PackId : packs[p] # {}}

\* The index a command works with: the blobs of the unmarked packs.
LoadedBlobs == BlobsIn(NormalIn(IndexId), packs)

(***************************************************************************)
(* Processes                                                               *)
(***************************************************************************)
IdleBackup == [pc |-> "idle", start |-> 0, need |-> {}, miss |-> {}, known |-> {}, pend |-> {}]

BackupState == [pc : {"idle", "running"}, start : Time,
                need : SUBSET Blob,       \* the blobs of the snapshot to be
                miss : SUBSET Blob,       \* those of them the loaded index did not have
                known : SUBSET Blob,      \* blobs in the loaded index or in own index files
                pend : SUBSET PackId]     \* own packs not yet in an index file

IdlePrune == [pc |-> "idle", start |-> 0, read |-> {}, used |-> {}, copy |-> {},
              from |-> {}, newPacks |-> {}, newMarks |-> {}, old |-> {}, rm |-> {}]

PruneState == [pc : {"idle", "index", "used", "write", "rmindex", "rmpacks"},
               start : Time,
               read : SUBSET IndexId,     \* index files the plan is based on
               used : SUBSET Blob,        \* blobs used by the snapshots it listed
               copy : SUBSET Blob,        \* blobs still to be repacked
               from : SUBSET PackId,      \* the packs they are read from
               newPacks : SUBSET PackId,  \* still to be written to `packs`
               newMarks : SUBSET Mark,    \* still to be written to `packs_to_delete`
               old : SUBSET IndexId,      \* index files to remove
               rm : SUBSET PackId]        \* packs to delete

TypeOK ==
    /\ now \in Time
    /\ packs \in [PackId -> SUBSET Blob]
    /\ index \in [IndexId -> IndexFile]
    /\ snapshots \subseteq SUBSET Blob
    /\ bk \in [Backup -> BackupState]
    /\ pr \in PruneState
    /\ stale \in BOOLEAN

Running(b) == bk[b].pc = "running"

\* Ids that no file and no process mentions.
FreshIndex == {i \in IndexId : index[i] = EmptyIndex /\ i \notin pr.read \cup pr.old}
FreshPack ==
    {p \in PackId : /\ packs[p] = {}
                    /\ p \notin NormalIn(IndexId) \cup PacksOf(MarksIn(IndexId))
                    /\ \A b \in Backup : p \notin bk[b].pend
                    /\ p \notin pr.from \cup pr.newPacks \cup PacksOf(pr.newMarks) \cup pr.rm}

Init ==
    /\ now = 0
    /\ packs = [p \in PackId |-> {}]
    /\ index = [i \in IndexId |-> EmptyIndex]
    /\ snapshots = {}
    /\ bk = [b \in Backup |-> IdleBackup]
    /\ pr = IdlePrune
    /\ stale = FALSE

(***************************************************************************)
(* Time passes, but no process outlives its deadline.                      *)
(***************************************************************************)
Tick ==
    /\ now < MaxTime
    /\ \A b \in Backup : Running(b) => now < bk[b].start + MaxBackup
    /\ pr.pc # "idle" => now < pr.start + MaxPrune
    /\ now' = now + 1
    /\ UNCHANGED <<packs, index, snapshots, bk, pr, stale>>

-----------------------------------------------------------------------------
(***************************************************************************)
(* backup                                                                  *)
(***************************************************************************)

\* Load the index, which knows the unmarked packs only; the source decides
\* which blobs the snapshot will need.
BackupLoad(b) ==
    /\ bk[b].pc = "idle"
    /\ \E need \in (SUBSET Blob) \ {{}} :
          bk' = [bk EXCEPT ![b] = [pc |-> "running", start |-> now, need |-> need,
                                   miss |-> need \ LoadedBlobs, known |-> LoadedBlobs,
                                   pend |-> {}]]
    /\ UNCHANGED <<now, packs, index, snapshots, pr, stale>>

\* The packer writes a pack of blobs which the loaded index does not have.  A blob
\* may be packed twice: packs are checked against each other only when written.
BackupWritePack(b) ==
    /\ Running(b)
    /\ \E p \in FreshPack, new \in (SUBSET bk[b].miss) \ {{}} :
          /\ packs' = [packs EXCEPT ![p] = new]
          /\ bk' = [bk EXCEPT ![b].pend = @ \cup {p}]
    /\ UNCHANGED <<now, index, snapshots, pr, stale>>

\* The indexer saves an index file with packs that have been written.
BackupWriteIndex(b) ==
    /\ Running(b)
    /\ \E i \in FreshIndex, ps \in (SUBSET bk[b].pend) \ {{}} :
          /\ index' = [index EXCEPT ![i] = [packs |-> ps, marked |-> {}]]
          /\ bk' = [bk EXCEPT ![b] = [bk[b] EXCEPT !.pend = bk[b].pend \ ps,
                                               !.known = bk[b].known \cup BlobsIn(ps, packs)]]
    /\ UNCHANGED <<now, packs, snapshots, pr, stale>>

\* The snapshot is saved after the packers and the indexer are finalized.
BackupSave(b) ==
    /\ Running(b)
    /\ bk[b].pend = {}
    /\ bk[b].need \subseteq bk[b].known
    /\ snapshots' = snapshots \cup {bk[b].need}
    /\ bk' = [bk EXCEPT ![b] = IdleBackup]
    /\ UNCHANGED <<now, packs, index, pr, stale>>

\* A crash, an error, a cancellation; or the end of a backup that does not
\* save a snapshot identical to its parent.
BackupAbort(b) ==
    /\ Running(b)
    /\ bk' = [bk EXCEPT ![b] = IdleBackup]
    /\ UNCHANGED <<now, packs, index, snapshots, pr, stale>>

\* forget: remove a snapshot.
Forget ==
    /\ \E s \in snapshots : snapshots' = snapshots \ {s}
    /\ UNCHANGED <<now, packs, index, bk, pr, stale>>

-----------------------------------------------------------------------------
(***************************************************************************)
(* prune: planning                                                         *)
(***************************************************************************)
PruneReadIndex ==
    /\ pr.pc = "idle"
    /\ pr' = [pr EXCEPT !.pc = "index", !.start = now,
                        !.read = {i \in IndexId : index[i] # EmptyIndex}]
    /\ UNCHANGED <<now, packs, index, snapshots, bk, stale>>

\* Collect the blobs used by the snapshots that exist at this moment.
PruneFindUsed ==
    /\ pr.pc = "index"
    /\ pr' = [pr EXCEPT !.pc = "used", !.used = UNION snapshots]
    /\ UNCHANGED <<now, packs, index, snapshots, bk, stale>>

\* The packs in the index files read: the ones listed as unmarked anywhere, and
\* the ones that are only marked.
PlanNormal == NormalIn(pr.read)
PlanMarked == PacksOf(MarksIn(pr.read)) \ PlanNormal

\* If index files have several marks for a pack, the one read first counts.
MarkChoices == {c \in [PlanMarked -> MarksIn(pr.read)] : \A p \in PlanMarked : c[p].pack = p}

\* Such a choice is stale if a pack has a newer mark, or one with its blob list
\* where the choice has none.  Packs get two marks only when a prune stops while
\* it is removing index files.
StaleChoice(c) ==
    \E p \in PlanMarked : \E m \in MarksIn(pr.read) :
        m.pack = p /\ (m.time > c[p].time \/ (m.full /\ ~c[p].full))

\* The blobs the planner sees in a pack, given the marks it took.
SeenBlobs(c) == [p \in PlanNormal \cup PlanMarked |->
                    IF p \in PlanNormal \/ c[p].full THEN packs[p] ELSE {}]

\* Mutant of Expired: keep_delete is ignored.
ExpiredAtOnce(c) == PlanMarked

Expired(c) == {p \in PlanMarked : now - KeepDelete >= c[p].time}

\* Mutant of Unmodified: an index file with packs to delete is left as it is.
UnmodifiedByDelete(i, keptIds, plan, c) ==
    /\ index[i].packs \subseteq plan.keep
    /\ PacksOf(index[i].marked) \subseteq plan.keepMarked \cup plan.delete

\* An index file that need not be rebuilt: all its packs stay as they are and
\* none is listed elsewhere as well.
Unmodified(i, keptIds, plan, c) ==
    /\ index[i].packs \subseteq plan.keep
    /\ \A m \in index[i].marked : m.pack \in plan.keepMarked /\ c[m.pack] = m
    /\ \A j \in keptIds \ {i} :
          /\ index[j].packs \cap index[i].packs = {}
          /\ PacksOf(index[j].marked) \cap PacksOf(index[i].marked) = {}

\* The index files to rebuild: all that must be, and any of the others (index
\* files which are too small), but not a single one merely for its size.
OldIndexes(plan, c) ==
    {old \in SUBSET pr.read :
        /\ \A i \in pr.read \ old : Unmodified(i, pr.read \ old, plan, c)
        /\ ~(\E i \in pr.read : old = {i} /\ \A j \in pr.read : Unmodified(j, pr.read, plan, c))}

MarkNow(ps, full) == [pack : ps, full : {full}, time : {now}]

\* The to-dos of all packs, as far as they are a matter of choice: a marked pack
\* that is not recovered is deleted when its mark has expired.
PlanOf(c, keep, repack, recover) ==
    [keep |-> keep, repack |-> repack, markDelete |-> PlanNormal \ (keep \cup repack),
     recover |-> recover, delete |-> Expired(c) \ recover,
     keepMarked |-> PlanMarked \ (recover \cup Expired(c))]

\* The packs found on the backend and in no index file.
Unreferenced == Stored \ (PlanNormal \cup PlanMarked)

\* Mutant of Work: marks that stay are not carried over to the new index files.
WorkForgetsMarks(plan, c, old) ==
    IF old = {} THEN IdlePrune
    ELSE [pr EXCEPT !.pc = "write", !.read = {}, !.old = old, !.rm = plan.delete,
                    !.copy = (pr.used \cap BlobsIn(plan.repack, packs))
                                \ BlobsIn(plan.keep \cup plan.recover, packs),
                    !.from = plan.repack,
                    !.newPacks = (plan.keep \ NormalIn(pr.read \ old)) \cup plan.recover,
                    !.newMarks = MarkNow(plan.repack \cup plan.markDelete, TRUE)
                                   \cup MarkNow(Unreferenced, FALSE)]

\* The plan as the work of the executing half, when `old` are the index files to
\* rebuild.  Without any there is nothing to do.
Work(plan, c, old) ==
    IF old = {} THEN IdlePrune
    ELSE [pc |-> "write", start |-> pr.start, read |-> {}, used |-> pr.used,
          copy |-> (pr.used \cap BlobsIn(plan.repack, packs))
                      \ BlobsIn(plan.keep \cup plan.recover, packs),
          from |-> plan.repack,
          newPacks |-> (plan.keep \ NormalIn(pr.read \ old)) \cup plan.recover,
          newMarks |-> MarkNow(plan.repack \cup plan.markDelete, TRUE)
                         \cup MarkNow(Unreferenced, FALSE)
                         \cup ({c[p] : p \in plan.keepMarked} \ MarksIn(pr.read \ old)),
          old |-> old,
          rm |-> plan.delete]

\* The packs are listed and every pack gets its to-do; the packs to keep, repack
\* or recover must exist.
PruneDecide ==
    /\ pr.pc = "used"
    /\ \E c \in MarkChoices :
       \E keep \in SUBSET PlanNormal, repack \in SUBSET PlanNormal, recover \in SUBSET PlanMarked :
          LET plan == PlanOf(c, keep, repack, recover)
          IN /\ PlanOK(PlanNormal, PlanMarked, SeenBlobs(c), pr.used, Expired(c), plan)
             /\ keep \cup repack \cup recover \subseteq Stored
             /\ \E old \in OldIndexes(plan, c) : pr' = Work(plan, c, old)
             /\ stale' = (stale \/ StaleChoice(c))
    /\ UNCHANGED <<now, packs, index, snapshots, bk>>

-----------------------------------------------------------------------------
(***************************************************************************)
(* prune: execution                                                        *)
(***************************************************************************)

\* A pack with blobs to be repacked is written.
PruneWritePack ==
    /\ pr.pc = "write"
    /\ \E p \in FreshPack, new \in (SUBSET pr.copy) \ {{}} :
          /\ new \subseteq BlobsIn(pr.from, packs)
          /\ packs' = [packs EXCEPT ![p] = new]
          /\ pr' = [pr EXCEPT !.copy = @ \ new, !.newPacks = @ \cup {p}]
    /\ UNCHANGED <<now, index, snapshots, bk, stale>>

\* The indexer saves an index file with entries added to it so far.
PruneWriteIndex ==
    /\ pr.pc = "write"
    /\ \E i \in FreshIndex, ps \in SUBSET pr.newPacks, ms \in SUBSET pr.newMarks :
          /\ ps # {} \/ ms # {}
          /\ index' = [index EXCEPT ![i] = [packs |-> ps, marked |-> ms]]
          /\ pr' = [pr EXCEPT !.newPacks = @ \ ps, !.newMarks = @ \ ms]
    /\ UNCHANGED <<now, packs, snapshots, bk, stale>>

\* Mutant of PruneWritten: does not wait for the repacking to finish.
WrittenTooEarly ==
    /\ pr.pc = "write"
    /\ pr.newPacks = {} /\ pr.newMarks = {}
    /\ pr' = [pr EXCEPT !.pc = "rmindex"]
    /\ UNCHANGED <<now, packs, index, snapshots, bk, stale>>

\* All packs and index files are written: go on to removing.
PruneWritten ==
    /\ pr.pc = "write"
    /\ pr.copy = {} /\ pr.newPacks = {} /\ pr.newMarks = {}
    /\ pr' = [pr EXCEPT !.pc = "rmindex"]
    /\ UNCHANGED <<now, packs, index, snapshots, bk, stale>>

\* Old index files are removed in any order (delete_list is parallel) ...
PruneRemoveIndex ==
    /\ pr.pc = "rmindex"
    /\ \E i \in pr.old :
          /\ index' = [index EXCEPT ![i] = EmptyIndex]
          /\ pr' = [pr EXCEPT !.old = @ \ {i},
                              !.pc = IF pr.old = {i} THEN "rmpacks" ELSE "rmindex"]
    /\ UNCHANGED <<now, packs, snapshots, bk, stale>>

\* ... and only then the packs to delete.
PruneRemovePack ==
    /\ pr.pc = "rmpacks"
    /\ \E p \in pr.rm :
          /\ packs' = [packs EXCEPT ![p] = {}]
          /\ pr' = [pr EXCEPT !.rm = @ \ {p}]
    /\ UNCHANGED <<now, index, snapshots, bk, stale>>

PruneDone ==
    /\ pr.pc = "rmpacks" /\ pr.rm = {}
    /\ pr' = IdlePrune
    /\ UNCHANGED <<now, packs, index, snapshots, bk, stale>>

\* A crash or an error, at any point: all in memory is lost.
PruneAbort ==
    /\ pr.pc # "idle"
    /\ pr' = IdlePrune
    /\ UNCHANGED <<now, packs, index, snapshots, bk, stale>>

-----------------------------------------------------------------------------
BackupNext(b) == BackupLoad(b) \/ BackupWritePack(b) \/ BackupWriteIndex(b)
                   \/ BackupSave(b) \/ BackupAbort(b)
PruneNext == PruneReadIndex \/ PruneFindUsed \/ PruneDecide \/ PruneWritePack
               \/ PruneWriteIndex \/ PruneWritten \/ PruneRemoveIndex
               \/ PruneRemovePack \/ PruneDone \/ PruneAbort

Next == Tick \/ Forget \/ PruneNext \/ \E b \in Backup : BackupNext(b)

Spec == Init /\ [][Next]_vars
-----------------------------------------------------------------------------
(***************************************************************************)
(* Properties                                                              *)
(***************************************************************************)

\* A blob is available if some stored pack has it and prune can find it there:
\* the pack is listed as unmarked, or marked together with its blob list.
Listed(p) == \/ p \in NormalIn(IndexId)
             \/ \E m \in MarksIn(IndexId) : m.pack = p /\ m.full
Available(x) == \E p \in Stored : x \in packs[p] /\ Listed(p)

\* No blob of a saved snapshot is ever lost, whatever backups, forgets and
\* prunes run concurrently and wherever they stop: it is in a pack that exists
\* and that prune either keeps or can recover (prune_repository deletes packs,
\* PackToDo::Recover brings marked ones back).  The exception is that a prune
\* has gone by a stale mark, which RecentMarksKept is about.
SnapshotsRecoverable == ~stale => \A s \in snapshots : \A x \in s : Available(x)

\* The blobs a running backup does not upload because its loaded index had them
\* (Archiver: `!self.index.has_data`) stay available until it ends: the packs a
\* concurrent prune marked meanwhile are not deleted under it, unless a prune has
\* gone by a stale mark.
KnownBlobsAvailable == ~stale => \A b \in Backup : \A x \in bk[b].known : Available(x)

\* Index files never refer to a pack that does not exist: packs are written
\* before the index files that list them and deleted after these are removed.
IndexedPacksExist == NormalIn(IndexId) \cup PacksOf(MarksIn(IndexId)) \subseteq Stored

\* Once prune has replaced the index, every blob it found in use can be loaded
\* by every command, i.e. is in an existing pack listed as unmarked: marked
\* packs with used blobs have been recovered and repacked blobs are indexed.
PruneRestoresUsed == pr.pc = "rmpacks" => pr.used \subseteq LoadedBlobs

\* The packs prune is about to delete are in no index file and are not
\* packs a running backup will still write to one.
DeletedPacksUnreferenced ==
    pr.pc = "rmpacks" =>
        /\ pr.rm \cap (NormalIn(IndexId) \cup PacksOf(MarksIn(IndexId))) = {}
        /\ \A b \in Backup : pr.rm \cap bk[b].pend = {}

\* A pack which is marked more recently than keep_delete ago is not deleted within
\* this prune run (the promise of PruneOptions::keep_delete), even if an index
\* file left over from an earlier prune still has an older mark for it.
RecentMarksKept ==
    [][\A p \in pr'.rm \ pr.rm : \A m \in MarksIn(IndexId) :
           m.pack = p => now - KeepDelete >= m.time]_vars

\* The delay that makes two-phase deletion safe: a mark carries the time its
\* prune decided, so the prune that made it and the prune that evaluates it
\* both count, in addition to the age of the index a backup works with.
SafeDelay == KeepDelete > MaxBackup + 2 * MaxPrune

-----------------------------------------------------------------------------
(***************************************************************************)
(* The inductive invariant behind the safety properties, for a keep_delete *)
(* that is long enough.  It looks at two indexes: the one on the backend,  *)
(* and the one there will be when the running prune has written and        *)
(* removed everything it has planned.                                      *)
(***************************************************************************)
PlannedNormal == NormalIn(IndexId \ pr.old) \cup pr.newPacks
PlannedMarks == MarksIn(IndexId \ pr.old) \cup pr.newMarks
PlannedListed(p) == \/ p \in PlannedNormal
                    \/ \E m \in PlannedMarks : m.pack = p /\ m.full

\* A prune that does not go by a stale mark sees the blobs of p and a mark which
\* is not older than t.
Recent(p, marks, t) == \E m \in marks : m.pack = p /\ m.full /\ m.time >= t
StaysSince(p, t) ==
    /\ p \in NormalIn(IndexId) \/ Recent(p, MarksIn(IndexId), t)
    /\ p \in PlannedNormal \/ Recent(p, PlannedMarks, t)

\* p keeps the blob x in the index, now and when the running prune is through.
Holds(p, x) == x \in packs[p] /\ p \notin pr.rm /\ Listed(p) /\ PlannedListed(p)

Deadlines ==
    /\ \A b \in Backup : Running(b) => bk[b].start <= now /\ now <= bk[b].start + MaxBackup
    /\ pr.pc # "idle" => pr.start <= now /\ now <= pr.start + MaxPrune

IdleIsClean ==
    /\ \A b \in Backup : ~Running(b) => bk[b].known = {} /\ bk[b].pend = {}
    /\ pr.pc \in {"idle", "index", "used"} =>
          /\ pr.copy = {} /\ pr.from = {} /\ pr.newPacks = {} /\ pr.newMarks = {}
          /\ pr.old = {} /\ pr.rm = {}
    /\ pr.pc \in {"rmindex", "rmpacks"} => pr.copy = {} /\ pr.newPacks = {} /\ pr.newMarks = {}
    /\ pr.pc = "rmpacks" => pr.old = {}

MentionedPacksExist ==
    /\ IndexedPacksExist
    /\ \A b \in Backup : bk[b].pend \subseteq Stored
    /\ pr.newPacks \cup PacksOf(pr.newMarks) \cup pr.rm \subseteq Stored

\* What prune will delete is mentioned by nobody else.
RemovedUnmentioned ==
    /\ \A b \in Backup : pr.rm \cap bk[b].pend = {}
    /\ pr.rm \cap NormalIn(IndexId) = {}
    /\ pr.rm \cap (PlannedNormal \cup PacksOf(PlannedMarks)) = {}
    /\ pr.newPacks \cap PacksOf(pr.newMarks) = {}

\* A mark on a pack that a running backup has yet to index is not older than
\* this backup, and while prune plans, the packs and marks it has not read are
\* the work of backups which ran after it started.
MarksFollowBackups ==
    /\ \A b \in Backup : \A m \in MarksIn(IndexId) \cup pr.newMarks :
          m.pack \in bk[b].pend => bk[b].start <= m.time
    /\ pr.pc \in {"index", "used"} =>
          /\ \A i \in IndexId \ pr.read : index[i].marked = {}
          /\ \A p \in NormalIn(IndexId) \ NormalIn(pr.read) : \A m \in MarksIn(IndexId) :
                m.pack = p => pr.start <= m.time + MaxBackup

\* Every unmarked pack of an index file that prune replaces stays unmarked or
\* is marked by this very prune.
ReplacedPacksStay ==
    \A p \in NormalIn(pr.old) :
        PlannedListed(p) /\ (p \in PlannedNormal \/ Recent(p, PlannedMarks, pr.start))

KnownBlobsHeld ==
    \A b \in Backup : \A x \in bk[b].known :
        \E p \in PackId : Holds(p, x) /\ StaysSince(p, bk[b].start - MaxPrune)

SnapshotBlobsHeld ==
    \A s \in snapshots : \A x \in s :
        \E p \in PackId :
            /\ Holds(p, x)
            /\ pr.pc = "used" /\ x \notin pr.used =>
                  StaysSince(p, pr.start - MaxPrune - MaxBackup)

UsedBlobsIndexed ==
    pr.pc \in {"write", "rmindex", "rmpacks"} =>
        \A x \in pr.used \ pr.copy :
            \E p \in PlannedNormal \ pr.rm : x \in packs[p]

IInv ==
    /\ TypeOK /\ Deadlines /\ IdleIsClean /\ MentionedPacksExist /\ RemovedUnmentioned
    /\ MarksFollowBackups /\ ReplacedPacksStay /\ UsedBlobsIndexed
    /\ ~stale => KnownBlobsHeld /\ SnapshotBlobsHeld
=============================================================================
