------------------------------ MODULE PruneRun ------------------------------
(***************************************************************************)
(* The executing half of `prune` (prune_repository in                      *)
(* crates/core/src/commands/prune.rs) on the exact plan of PrunePlan, with *)
(* the options instant_delete and early_delete_index, which BackupPrune    *)
(* leaves out because they need exclusive access to the repository.  Prune *)
(* may stop at every point; what it finds on the backend the next time     *)
(* must still hold all used blobs.                                         *)
(***************************************************************************)
EXTENDS PrunePlan

\* Index files list existing packs only; a new pack has an id of its own.  They need not
\* agree on the blobs of a pack: marks that prune makes of packs in no index file list none.
ASSUME RunAssumption ==
    \A family \in DOMAIN Inputs : \A input \in Inputs[family] :
        LET listed == {e.entry : e \in UNION {SectionOf(input.files, s) : s \in SectionName}}
        IN /\ \A e \in listed : e.id \in input.stored
           /\ \A new \in SUBSET Blob : new \notin input.stored

VARIABLES
    step,     \* the step of prune_repository
    disk,     \* the packs on the backend: [id, blobs]
    old,      \* the index files of the plan that still exist
    written,  \* the entries of the index files written by this prune
    unsaved,  \* the entries in the indexer
    copy,     \* blobs still to be repacked
    rmData,   \* data_packs_remove
    rmTree    \* tree_packs_remove

runVars == <<step, disk, old, written, unsaved, copy, rmData, rmTree>>

\* An entry of an index file: section, pack id and the blobs it tells.
Entry(s, p, blobs) == [section |-> s, id |-> p, blobs |-> blobs]
FileEntries(i) ==
    UNION {{Entry(s, in.files[i][s][k].id, ToSet(in.files[i][s][k].blobs)) :
               k \in DOMAIN in.files[i][s]} : s \in SectionName}
IndexEntries == (UNION {FileEntries(i) : i \in old}) \cup written

AllEntries == UNION {FileEntries(i) : i \in DOMAIN in.files}

\* A pack has the blobs that index files tell of it.
DiskPack(p) == [id |-> p, blobs |-> UNION {e.blobs : e \in {f \in AllEntries : f.id = p}}]

RunInit ==
    /\ Init
    /\ step = "plan"
    /\ disk = {DiskPack(p) : p \in in.stored}
    /\ old = DOMAIN in.files
    /\ written = {} /\ unsaved = {} /\ copy = {} /\ rmData = {} /\ rmTree = {}

Plan ==
    /\ step = "plan"
    /\ Planning
    /\ UNCHANGED runVars

Instant == in.opts.instant_delete
Early == in.opts.early_delete_index /\ Instant

\* `be.delete_list`: the files go one after the other, in any order.
RemovePack(p) == disk' = {d \in disk : d.id # p}

\* If the caller executes the plan, packs in no index file are deleted at once ...
DeleteUnref ==
    /\ step = "plan" /\ pc = "planned" /\ in.execute /\ Instant
    /\ \E p \in unref : unref' = unref \ {p} /\ RemovePack(p)
    /\ UNCHANGED <<in, pc, plan, dirty, undecided, count, cand, resize, stats, volume, forced,
                   keepIds, rebuild, step, old, written, unsaved, copy, rmData, rmTree>>

\* ... or given to the indexer, with an empty list of blobs.
StartRun ==
    /\ step = "plan" /\ pc = "planned" /\ in.execute
    /\ Instant => unref = {}
    /\ unsaved' = {Entry("packs_to_delete", p, {}) : p \in unref}
    /\ step' = IF rebuild = {} THEN "done" ELSE IF Early THEN "early" ELSE "rebuild"
    /\ UNCHANGED <<vars, disk, old, written, copy, rmData, rmTree>>

\* What the rebuilt index says about the packs.
NewEntries(packs) ==
    {Entry("packs", p, ToSet(plan[p].blobs)) : p \in packs \cap WithTodo({"Keep", "Recover"})}
      \cup (IF Instant THEN {}
            ELSE {Entry("packs_to_delete", p, ToSet(plan[p].blobs)) :
                     p \in packs \ WithTodo({"Keep", "Recover", "Delete"})})

Removable(packs) ==
    packs \cap (IF Instant THEN DOMAIN plan \ WithTodo({"Keep", "Recover"}) ELSE WithTodo({"Delete"}))

\* The packs of the index files to process get their new entries; blobs which
\* occur in several repacked packs are copied once.
Rebuild ==
    /\ step = "rebuild"
    /\ LET packs == UNION {PacksOfFile(i) : i \in rebuild}
       IN /\ unsaved' = unsaved \cup NewEntries(packs)
          /\ copy' = keepIds \cap BlobsOf(packs \cap WithTodo({"Repack"}))
          /\ rmData' = {p \in Removable(packs) : TypeOf(plan[p].blobs) = "data"}
          /\ rmTree' = {p \in Removable(packs) : TypeOf(plan[p].blobs) = "tree"}
    /\ step' = "copy"
    /\ UNCHANGED <<vars, disk, old, written>>

\* A repacker writes a pack with blobs of its type and gives it to the indexer.
CopyBlobs ==
    /\ step = "copy"
    /\ \E new \in (SUBSET copy) \ {{}} :
          /\ new \subseteq TreeBlob \/ new \cap TreeBlob = {}
          /\ \A x \in new : \E d \in disk : x \in d.blobs /\ d.id \in Todo("Repack")
          /\ disk' = disk \cup {[id |-> new, blobs |-> new]}
          /\ unsaved' = unsaved \cup {Entry("packs", new, new)}
          /\ copy' = copy \ new
    /\ UNCHANGED <<vars, step, old, written, rmData, rmTree>>

\* The indexer saves what it has been given so far when that is enough or old enough,
\* which can happen amid the rebuilding loop.
SaveIndexer ==
    /\ step = "copy"
    /\ \E saved \in (SUBSET unsaved) \ {{}} :
          /\ written' = written \cup saved
          /\ unsaved' = unsaved \ saved
    /\ UNCHANGED <<vars, step, disk, old, copy, rmData, rmTree>>

\* Mutant of FinalizeRun: the indexer is not saved.
FinalizeForgets ==
    /\ step = "copy" /\ copy = {}
    /\ unsaved' = {}
    /\ step' = IF Early THEN "packs" ELSE "index"
    /\ UNCHANGED <<vars, disk, old, written, copy, rmData, rmTree>>

FinalizeRun ==
    /\ step = "copy" /\ copy = {}
    /\ written' = written \cup unsaved
    /\ unsaved' = {}
    /\ step' = IF Early THEN "packs" ELSE "index"
    /\ UNCHANGED <<vars, disk, old, copy, rmData, rmTree>>

\* The old index files are removed, after the new ones are written or early.
RemoveIndex ==
    /\ step \in {"early", "index"}
    /\ \/ \E i \in old \cap rebuild : old' = old \ {i} /\ UNCHANGED step
       \/ /\ old \cap rebuild = {}
          /\ step' = IF step = "early" THEN "rebuild" ELSE "packs"
          /\ UNCHANGED old
    /\ UNCHANGED <<vars, disk, written, unsaved, copy, rmData, rmTree>>

\* Data packs are removed before tree packs.
RemovePacks ==
    /\ step = "packs"
    /\ \/ \E p \in rmData : /\ RemovePack(p) /\ rmData' = rmData \ {p}
                            /\ UNCHANGED <<rmTree, step>>
       \/ /\ rmData = {}
          /\ \E p \in rmTree : RemovePack(p) /\ rmTree' = rmTree \ {p}
          /\ UNCHANGED <<rmData, step>>
       \/ /\ rmData = {} /\ rmTree = {} /\ step' = "done"
          /\ UNCHANGED <<disk, rmData, rmTree>>
    /\ UNCHANGED <<vars, old, written, unsaved, copy>>

\* An error or a crash.
Stop ==
    /\ step \notin {"plan", "done", "stopped"}
    /\ step' = "stopped"
    /\ unsaved' = {}
    /\ UNCHANGED <<vars, disk, old, written, copy, rmData, rmTree>>

RunNext == Plan \/ DeleteUnref \/ StartRun \/ Rebuild \/ CopyBlobs \/ SaveIndexer
             \/ FinalizeRun \/ RemoveIndex \/ RemovePacks \/ Stop
RunSpec == RunInit /\ [][RunNext]_<<vars, runVars>>

-----------------------------------------------------------------------------
(***************************************************************************)
(* Properties                                                              *)
(***************************************************************************)
OnDisk(x) == \E d \in disk : x \in d.blobs
ListedAs(x, sections) ==
    \E e \in IndexEntries, d \in disk : e.section \in sections /\ e.id = d.id /\ x \in e.blobs

\* Once prune has found all used blobs in the index it may stop anywhere: each of them
\* is in an existing pack which the index lists.  If old index files are removed early it
\* is at least in an existing pack, from which the index can be repaired (the warning of
\* early_delete_index).
UsedBlobsSurvive ==
    pc \notin {"new", "count", "error"} =>
        \A x \in in.used : IF Early THEN OnDisk(x) ELSE ListedAs(x, SectionName)

\* When prune is done, every used blob can be loaded, i.e. is listed in `packs`.
UsedBlobsLoadable == step = "done" => \A x \in in.used : ListedAs(x, {"packs"})

\* Index files list only existing packs: the entry goes before the pack.
EntriesExist == \A e \in IndexEntries : \E d \in disk : d.id = e.id

\* The steps of prune_repository are in an order in which prune may stop after each of
\* them: no used blob is lost or hidden, no index file lists a pack that is gone, and
\* once prune is done all used blobs can be loaded.
UsedBlobsKept == UsedBlobsSurvive /\ UsedBlobsLoadable /\ EntriesExist

\* instant_delete "also removes all files already marked for deletion": nothing
\* is left that the index does not list as in use.
InstantLeavesNothing ==
    step = "done" /\ Instant =>
        /\ \A e \in IndexEntries : e.section = "packs"
        /\ \A d \in disk : \E e \in IndexEntries : e.id = d.id

\* All options are kept at once: no more is repacked than max_repack allows, no more
\* left unused than max_unused allows, young packs and those that are not cacheable
\* stay, marked packs come back only if they are needed, and instant_delete leaves
\* nothing behind.
OptionsKept ==
    RecoveredForReason /\ RepackLimited /\ UnusedLimited /\ YoungPacksKept /\ InstantLeavesNothing
=============================================================================
