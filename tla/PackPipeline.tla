---------------------------- MODULE PackPipeline ----------------------------
(***************************************************************************)
(* The threads by which one `backup` turns blobs into packs and index      *)
(* files: two Packers (one for tree blobs, one for data blobs), each with  *)
(* the writer thread of its Actor, and the Indexer they share.             *)
(*                                                                         *)
(*   archiver --send--> [in] --early check--> [work] --RawPacker::add_raw  *)
(*     --> {open} --save--> [out] --send--> [files] --write_bytes-->       *)
(*     [done] --Indexer::add--> indexer.file --save--> an index file       *)
(*                                                                         *)
(* Each arrow is a step of another thread; a bracketed stage is a bounded  *)
(* channel.  Writes fail at any point, the archiver gives up at any point, *)
(* the process dies at any point.  A saved snapshot must nevertheless find *)
(* every blob in a written pack that is listed in a written index file.    *)
(*                                                                         *)
(* The pipeline is shown to implement the backup of BackupPrune, with tree *)
(* and data blobs told apart.                                              *)
(*                                                                         *)
(* Abstractions.  A blob is its id, a pack the set of ids in it.  A pack   *)
(* or index file is saved once it is large or old enough, i.e. at any time.*)
(* The chain of readahead threads between two filters is one channel.      *)
(***************************************************************************)
EXTENDS Naturals, Sequences, SequencesExt, FiniteSets, PrunePromise

CONSTANTS TreeIds,   \* ids of the tree blobs a source can have
          DataIds,   \* ids of its data blobs
          PackId,    \* ids of pack files
          IndexId,   \* ids of index files
          QueueLen,  \* capacity of every channel
          MaxSends,  \* bound: blobs sent to one packer by one backup
          MaxRuns    \* bound: backups after one another

ASSUME BoundAssumption ==
    /\ QueueLen \in Nat \ {0} /\ MaxSends \in Nat /\ MaxRuns \in Nat

VARIABLES
    packs,      \* packs[p]: the blobs in pack file p; {} if there is no such file
    index,      \* index[i]: the packs listed in index file i; {} if there is none
    snapshots,  \* the snapshots, each a set of blobs
    archiver,   \* the thread that reads the source and drives the packers
    packer,     \* packer[t]: the Packer of blob type t and its Actor
    indexer     \* the Indexer shared by both

vars == <<packs, index, snapshots, archiver, packer, indexer>>

BlobType == {"tree", "data"}
Ids(t) == IF t = "tree" THEN TreeIds ELSE DataIds
Blob == UNION {{t} \X Ids(t) : t \in BlobType}

\* The blobs of a pack with these ids which the packer of type t writes.
Blobs(t, ids) == {t} \X ids

\* What a thread hands on: a pack that has been written, or the error.
Failed == [ok |-> FALSE]
Written(p) == [ok |-> TRUE, pack |-> p]

IdlePacker == [in |-> <<>>, work |-> <<>>, open |-> {}, out |-> {}, files |-> <<>>,
               done |-> <<>>, dropped |-> FALSE, closed |-> FALSE,
               status |-> "running", writer |-> "running"]

AnyId == TreeIds \cup DataIds
IdQueue == Seq(AnyId)
FileQueue == Seq(SUBSET AnyId)
DoneQueue == Seq({Failed} \cup {Written(p) : p \in PackId})

PackerState ==
    [in : IdQueue,                            \* ids sent to the packer thread
     work : IdQueue,                          \* ids that passed the early check
     open : SUBSET AnyId,                     \* ids in the BasicPacker
     out : SUBSET AnyId,                      \* pack that waits for the Actor; locks raw_packer
     files : FileQueue,                       \* packs sent to the Actor
     done : DoneQueue,                        \* the writer's results, in order
     dropped : BOOLEAN,                       \* the archiver's sender is gone
     closed : BOOLEAN,                        \* the Actor's sender is gone
     status : {"running", "ok", "err"},       \* result of the packer thread
     writer : {"running", "ok", "err"}]       \* result of the Actor's thread

IdleArchiver == [pc |-> "idle", runs |-> 0, need |-> {}, loaded |-> {}, sent |-> {},
                 sends |-> [t \in BlobType |-> 0], own |-> {}]

ArchiverState ==
    [pc : {"idle", "archive", "data", "root", "tree", "index", "save", "failed"},
     runs : 0 .. MaxRuns,
     need : SUBSET Blob,      \* the blobs of the source
     loaded : SUBSET Blob,    \* the blobs of the loaded index
     sent : SUBSET Blob,      \* the blobs given to the packers
     sends : [BlobType -> 0 .. MaxSends],
     own : SUBSET PackId]     \* history: the packs this backup has written

EmptyIndexer == [file |-> {}, indexed |-> {}]
IndexerState == [file : SUBSET PackId, indexed : SUBSET AnyId]

TypeOK ==
    /\ packs \in [PackId -> SUBSET Blob]
    /\ index \in [IndexId -> SUBSET PackId]
    /\ snapshots \subseteq SUBSET Blob
    /\ archiver \in ArchiverState
    /\ packer \in [BlobType -> PackerState]
    /\ indexer \in IndexerState

Init ==
    /\ packs = [p \in PackId |-> {}]
    /\ index = [i \in IndexId |-> {}]
    /\ snapshots = {}
    /\ archiver = IdleArchiver
    /\ packer = [t \in BlobType |-> IdlePacker]
    /\ indexer = EmptyIndexer

Stored == {p \in PackId : packs[p] # {}}
Indexed == UNION {index[i] : i \in IndexId}
IndexedBlobs == BlobsIn(Indexed, packs)

-----------------------------------------------------------------------------
(***************************************************************************)
(* The archiver                                                            *)
(***************************************************************************)

\* A backup loads the index and creates the indexer and the packers.
Start ==
    /\ archiver.pc = "idle" /\ archiver.runs < MaxRuns
    /\ \E need \in (SUBSET Blob) \ {{}} :
          archiver' = [IdleArchiver EXCEPT !.pc = "archive", !.runs = archiver.runs + 1,
                                           !.need = need, !.loaded = IndexedBlobs]
    /\ packer' = [t \in BlobType |-> IdlePacker]
    /\ indexer' = EmptyIndexer
    /\ UNCHANGED <<packs, index, snapshots>>

\* Mutant of Ends: the result of the thread does not matter.
EndsAnyhow(t) == packer[t].status # "running"

\* The packer thread of t has ended as it should.
Ends(t) == packer[t].status = "ok"

\* The archiver once it has sent blob id to the packer of t.
Sending(t, id) == [archiver EXCEPT !.sent = @ \cup {<<t, id>>}, !.sends[t] = @ + 1]

\* Blobs which the loaded index does not have are sent, the same blob possibly
\* several times.  Data is sent while the source is read, trees also after that
\* (the root).  When the packer thread has failed, what is sent is lost or the
\* sender gets an error, which for data only skips the file.
Send(t) ==
    /\ archiver.pc \in (IF t = "data" THEN {"archive"} ELSE {"archive", "root"})
    /\ archiver.sends[t] < MaxSends
    /\ \E id \in Ids(t) :
          /\ <<t, id>> \in archiver.need \ archiver.loaded
          /\ \/ /\ packer[t].status = "running" /\ Len(packer[t].in) < QueueLen
                /\ packer' = [packer EXCEPT ![t].in = Append(@, id)]
             \/ /\ packer[t].status = "err"
                /\ UNCHANGED packer
          /\ archiver' = Sending(t, id)
    /\ UNCHANGED <<packs, index, snapshots, indexer>>

AllSent(t) == \A id \in Ids(t) : <<t, id>> \in archiver.need \ archiver.loaded
                                    => <<t, id>> \in archiver.sent

\* FileArchiver::finalize: close the channel and wait for the packer thread.
FinalizeData ==
    /\ archiver.pc = "archive"
    /\ AllSent("data")
    /\ packer' = [packer EXCEPT !["data"].dropped = TRUE]
    /\ archiver' = [archiver EXCEPT !.pc = "data"]
    /\ UNCHANGED <<packs, index, snapshots, indexer>>

DataFinalized ==
    /\ archiver.pc = "data" /\ Ends("data")
    /\ archiver' = [archiver EXCEPT !.pc = "root"]
    /\ UNCHANGED <<packs, index, snapshots, packer, indexer>>

\* TreeArchiver::finalize, after the root tree has been sent.
FinalizeTree ==
    /\ archiver.pc = "root"
    /\ AllSent("tree")
    /\ packer' = [packer EXCEPT !["tree"].dropped = TRUE]
    /\ archiver' = [archiver EXCEPT !.pc = "tree"]
    /\ UNCHANGED <<packs, index, snapshots, indexer>>

TreeFinalized ==
    /\ archiver.pc = "tree" /\ Ends("tree")
    /\ archiver' = [archiver EXCEPT !.pc = "index"]
    /\ UNCHANGED <<packs, index, snapshots, packer, indexer>>

\* Indexer::save: an index file with all packs added so far, if there are any.
SaveIndex ==
    \/ /\ indexer.file = {}
       /\ UNCHANGED index
    \/ /\ indexer.file # {}
       /\ \E i \in IndexId : /\ index[i] = {}
                             /\ index' = [index EXCEPT ![i] = indexer.file]

\* Indexer::finalize
FinalizeIndexer ==
    /\ archiver.pc = "index"
    /\ SaveIndex
    /\ archiver' = [archiver EXCEPT !.pc = "save"]
    /\ indexer' = EmptyIndexer
    /\ UNCHANGED <<packs, snapshots, packer>>

\* The snapshot is saved, unless it is identical to the parent.
SaveSnapshot ==
    /\ archiver.pc = "save"
    /\ snapshots' \in {snapshots, snapshots \cup {archiver.need}}
    /\ archiver' = [IdleArchiver EXCEPT !.runs = archiver.runs]
    /\ packer' = [t \in BlobType |-> IdlePacker]
    /\ UNCHANGED <<packs, index, indexer>>

\* The archiver returns an error: a packer's, that of a write of its own, one of
\* the source, or a cancellation.  Its packers are dropped, their threads go on.
Fail ==
    /\ archiver.pc \notin {"idle", "failed"}
    /\ archiver' = [archiver EXCEPT !.pc = "failed"]
    /\ packer' = [t \in BlobType |-> [packer[t] EXCEPT !.dropped = TRUE]]
    /\ UNCHANGED <<packs, index, snapshots, indexer>>

\* The process ends, or dies, with all its threads.
Exit ==
    /\ archiver.pc # "idle"
    /\ archiver' = [IdleArchiver EXCEPT !.runs = archiver.runs]
    /\ packer' = [t \in BlobType |-> IdlePacker]
    /\ indexer' = EmptyIndexer
    /\ UNCHANGED <<packs, index, snapshots>>

-----------------------------------------------------------------------------
(***************************************************************************)
(* The packer thread                                                       *)
(***************************************************************************)
Active(t) == archiver.pc # "idle" /\ packer[t].status = "running"

\* `has` of the Indexer: ids of both blob types are looked up in one set.
IndexerHas(id) == id \in indexer.indexed

\* The early check for blobs that are packed already; waits for raw_packer.
EarlyCheck(t) ==
    /\ Active(t) /\ packer[t].in # <<>> /\ packer[t].out = {}
    /\ Len(packer[t].work) < QueueLen
    /\ LET id == Head(packer[t].in)
           had == IndexerHas(id) \/ id \in packer[t].open
       IN packer' = [packer EXCEPT
                        ![t] = [packer[t] EXCEPT !.in = Tail(@),
                                                 !.work = IF had THEN @ ELSE Append(@, id)]]
    /\ UNCHANGED <<packs, index, snapshots, archiver, indexer>>

\* RawPacker::add_raw after the second check; the pack is taken if it is full or
\* old enough.
AddRaw(t) ==
    /\ Active(t) /\ packer[t].work # <<>> /\ packer[t].out = {}
    /\ LET id == Head(packer[t].work)
           open == IF IndexerHas(id) THEN packer[t].open ELSE packer[t].open \cup {id}
       IN \/ packer' = [packer EXCEPT ![t] = [packer[t] EXCEPT !.work = Tail(@), !.open = open]]
          \/ /\ ~IndexerHas(id)
             /\ packer' = [packer EXCEPT ![t] = [packer[t] EXCEPT !.work = Tail(@), !.open = {},
                                                                 !.out = open]]
    /\ UNCHANGED <<packs, index, snapshots, archiver, indexer>>

\* Mutant of SendFile: a failed writer is not noticed.
SendsForever(t) ==
    /\ Active(t) /\ packer[t].out # {}
    /\ packer[t].writer = "running" /\ Len(packer[t].files) < QueueLen
    /\ packer' = [packer EXCEPT
                     ![t] = [packer[t] EXCEPT !.out = {}, !.files = Append(@, packer[t].out)]]
    /\ UNCHANGED <<packs, index, snapshots, archiver, indexer>>

\* Actor::send: blocks while the channel is full, fails if the writer has failed.
SendFile(t) ==
    /\ Active(t) /\ packer[t].out # {}
    /\ \/ /\ packer[t].writer = "running" /\ Len(packer[t].files) < QueueLen
          /\ packer' = [packer EXCEPT
                           ![t] = [packer[t] EXCEPT !.out = {}, !.files = Append(@, packer[t].out)]]
       \/ /\ packer[t].writer = "err"
          /\ packer' = [packer EXCEPT ![t] = [packer[t] EXCEPT !.out = {}, !.status = "err"]]
    /\ UNCHANGED <<packs, index, snapshots, archiver, indexer>>

\* process_data or the encryption of the header fails.
PackError(t) ==
    /\ Active(t) /\ packer[t].work # <<>>
    /\ packer' = [packer EXCEPT ![t].status = "err"]
    /\ UNCHANGED <<packs, index, snapshots, archiver, indexer>>

\* Mutant of FinalizeRaw: what is left in the open pack is not saved.
FinalizeDropsRest(t) ==
    /\ Active(t) /\ packer[t].dropped
    /\ packer[t].in = <<>> /\ packer[t].work = <<>> /\ packer[t].out = {}
    /\ \/ /\ ~packer[t].closed
          /\ packer' = [packer EXCEPT ![t] = [packer[t] EXCEPT !.closed = TRUE, !.open = {}]]
       \/ /\ packer[t].closed /\ packer[t].writer # "running"
          /\ packer' = [packer EXCEPT ![t].status = packer[t].writer]
    /\ UNCHANGED <<packs, index, snapshots, archiver, indexer>>

\* RawPacker::finalize: save what is left, close the Actor, take over its result.
FinalizeRaw(t) ==
    /\ Active(t) /\ packer[t].dropped
    /\ packer[t].in = <<>> /\ packer[t].work = <<>> /\ packer[t].out = {}
    /\ \/ /\ packer[t].open # {}
          /\ packer' = [packer EXCEPT ![t] = [packer[t] EXCEPT !.open = {}, !.out = packer[t].open]]
       \/ /\ packer[t].open = {} /\ ~packer[t].closed
          /\ packer' = [packer EXCEPT ![t].closed = TRUE]
       \/ /\ packer[t].closed /\ packer[t].writer # "running"
          /\ packer' = [packer EXCEPT ![t].status = packer[t].writer]
    /\ UNCHANGED <<packs, index, snapshots, archiver, indexer>>

\* A packer thread that failed drops its Actor when the Packer is dropped too.
DropActor(t) ==
    /\ archiver.pc # "idle"
    /\ packer[t].status = "err" /\ packer[t].dropped /\ ~packer[t].closed
    /\ packer' = [packer EXCEPT ![t].closed = TRUE]
    /\ UNCHANGED <<packs, index, snapshots, archiver, indexer>>

-----------------------------------------------------------------------------
(***************************************************************************)
(* The writer thread                                                       *)
(***************************************************************************)
WriterActive(t) == archiver.pc # "idle" /\ packer[t].writer = "running"

FreshPack == {p \in PackId : packs[p] = {}}

\* FileWriterHandle::process: write the next pack, or fail.
PackWritten(t, p) ==
    /\ packs' = [packs EXCEPT ![p] = Blobs(t, Head(packer[t].files))]
    /\ packer' = [packer EXCEPT ![t] = [packer[t] EXCEPT !.files = Tail(@),
                                                        !.done = Append(@, Written(p))]]
    /\ archiver' = [archiver EXCEPT !.own = @ \cup {p}]

PackFailed(t) ==
    /\ packer' = [packer EXCEPT ![t] = [packer[t] EXCEPT !.files = Tail(@),
                                                        !.done = Append(@, Failed)]]
    /\ UNCHANGED <<packs, archiver>>

\* A failure does not keep the thread from going on with the next pack.
WriteFile(t) ==
    /\ WriterActive(t) /\ packer[t].files # <<>> /\ Len(packer[t].done) < QueueLen
    /\ (\E p \in FreshPack : PackWritten(t, p)) \/ PackFailed(t)
    /\ UNCHANGED <<index, snapshots, indexer>>

\* The indexer with pack p and its blobs.
Added(p) == [file |-> indexer.file \cup {p},
             indexed |-> indexer.indexed \cup {b[2] : b \in packs[p]}]

\* FileWriterHandle::index, i.e. Indexer::add_with: remember the pack and its
\* blobs; if there are enough or they are old enough, save the index file.
AddToIndexer(t) ==
    /\ WriterActive(t) /\ packer[t].done # <<>> /\ Head(packer[t].done).ok
    /\ LET p == Head(packer[t].done).pack
       IN \/ /\ indexer' = Added(p)
             /\ packer' = [packer EXCEPT ![t].done = Tail(@)]
             /\ UNCHANGED index
          \/ /\ \E i \in IndexId : index[i] = {} /\ index' = [index EXCEPT ![i] = Added(p).file]
             /\ indexer' = [Added(p) EXCEPT !.file = {}]
             /\ packer' = [packer EXCEPT ![t].done = Tail(@)]
          \/ /\ indexer' = Added(p)
             /\ packer' = [packer EXCEPT ![t].writer = "err"]
             /\ UNCHANGED index
    /\ UNCHANGED <<packs, snapshots, archiver>>

\* The first failed write ends the writer thread; what is left is dropped.
WriterFails(t) ==
    /\ WriterActive(t) /\ packer[t].done # <<>> /\ ~Head(packer[t].done).ok
    /\ packer' = [packer EXCEPT ![t].writer = "err"]
    /\ UNCHANGED <<packs, index, snapshots, archiver, indexer>>

WriterEnds(t) ==
    /\ WriterActive(t) /\ packer[t].closed
    /\ packer[t].files = <<>> /\ packer[t].done = <<>>
    /\ packer' = [packer EXCEPT ![t].writer = "ok"]
    /\ UNCHANGED <<packs, index, snapshots, archiver, indexer>>

-----------------------------------------------------------------------------
Archive == Start \/ FinalizeData \/ DataFinalized \/ FinalizeTree \/ TreeFinalized
             \/ FinalizeIndexer \/ SaveSnapshot \/ Fail \/ Exit \/ \E t \in BlobType : Send(t)
Pack(t) == EarlyCheck(t) \/ AddRaw(t) \/ SendFile(t) \/ PackError(t) \/ FinalizeRaw(t) \/ DropActor(t)
Write(t) == WriteFile(t) \/ AddToIndexer(t) \/ WriterFails(t) \/ WriterEnds(t)

Next == Archive \/ \E t \in BlobType : Pack(t) \/ Write(t)

\* The threads run, and the calls they make return.
Fairness ==
    /\ \A t \in BlobType : WF_vars(Pack(t)) /\ WF_vars(Write(t))

Spec == Init /\ [][Next]_vars /\ Fairness

-----------------------------------------------------------------------------
(***************************************************************************)
(* Properties                                                              *)
(***************************************************************************)

\* Every blob of a saved snapshot is, with its type, in a pack which is listed in
\* an index file: what Packer::add and the finalizing of the packers promise.
SavedBlobsStored == \A s \in snapshots : s \subseteq IndexedBlobs

\* A blob that is taken for one of the other type with the same id, since the
\* Indexer keeps the ids of both in one set.
Mistaken(b) == \E c \in IndexedBlobs : c # b /\ c[2] = b[2]

\* Nothing else keeps a blob of a saved snapshot out of the index, whatever failed
\* before: a packer that has lost a blob does not finalize (Packer::finalize,
\* Archiver::archive).
SnapshotsComplete == \A s \in snapshots : \A b \in s \ IndexedBlobs : Mistaken(b)

\* Index files list, and the indexer remembers, only packs which have been
\* written (Actor: `process` before `index`).
IndexSound == Indexed \cup indexer.file \subseteq Stored

\* The ids the indexer reports as indexed belong to packs which are or will be
\* listed: dropping them from the pipeline loses nothing while it succeeds.
DedupSound ==
    indexer.indexed \subseteq {b[2] : b \in BlobsIn(Indexed \cup indexer.file, packs)}

-----------------------------------------------------------------------------
(***************************************************************************)
(* Why these hold: where a blob may be on its way, and what the results of *)
(* the threads say about it.                                               *)
(***************************************************************************)

\* The ids a packer holds, and the packs its writer has yet to hand to the Indexer.
Waiting(t) == ToSet(packer[t].in) \cup ToSet(packer[t].work) \cup packer[t].open
                \cup packer[t].out \cup UNION ToSet(packer[t].files)
DonePacks(t) == {p \in PackId : Written(p) \in ToSet(packer[t].done)}

\* A packer that has failed, or whose writer is about to.
Lost(t) == packer[t].status = "err" \/ packer[t].writer = "err"
             \/ Failed \in ToSet(packer[t].done)

\* What a packer holds is missing in the loaded index, and it writes no empty pack.
HoldsMissing == \A t \in BlobType :
    /\ Blobs(t, Waiting(t)) \subseteq archiver.need \ archiver.loaded
    /\ {} \notin ToSet(packer[t].files)

\* A packer that is not lost has every id it was given, or the id is in a pack
\* which it or the indexer will list, or which is listed.
SentHeld == \A t \in BlobType : Lost(t) \/
    \A id \in Ids(t) : <<t, id>> \in archiver.sent =>
        \/ id \in Waiting(t)
        \/ \E b \in BlobsIn(Indexed \cup indexer.file \cup DonePacks(t), packs) : b[2] = id

\* The packs of this backup exist, and are listed or on their way to the index.
OwnOnTheWay ==
    /\ archiver.own \subseteq
           Stored \cap (Indexed \cup indexer.file \cup DonePacks("tree") \cup DonePacks("data"))
    /\ indexer.file \subseteq archiver.own \ Indexed
    /\ \A t \in BlobType : DonePacks(t) \subseteq archiver.own

\* The Indexer gets every pack once: a writer that still runs has packs which no
\* one else has.
DoneOnce ==
    /\ DonePacks("tree") \cap DonePacks("data") = {}
    /\ \A t \in BlobType : packer[t].writer = "running" =>
          /\ DonePacks(t) \cap (Indexed \cup indexer.file) = {}
          /\ \A i, j \in DOMAIN packer[t].done :
                packer[t].done[i] = packer[t].done[j] /\ packer[t].done[i].ok => i = j

\* A thread that ends well leaves nothing behind.
EndsClean == \A t \in BlobType :
    /\ packer[t].status = "ok" => packer[t].writer = "ok" /\ packer[t].closed
    /\ packer[t].writer = "ok" =>
          packer[t].closed /\ packer[t].files = <<>> /\ packer[t].done = <<>>
    /\ packer[t].closed /\ packer[t].status # "err" =>
          /\ packer[t].dropped
          /\ packer[t].in = <<>> /\ packer[t].work = <<>>
          /\ packer[t].open = {} /\ packer[t].out = {}

\* What the archiver has finalized when it goes on.
Finalized ==
    /\ archiver.pc \in {"idle", "archive"} => ~packer["data"].dropped
    /\ archiver.pc \in {"idle", "archive", "data", "root"} => ~packer["tree"].dropped
    /\ archiver.pc \in {"data", "root", "tree", "index", "save"} => AllSent("data")
    /\ archiver.pc \in {"root", "tree", "index", "save"} => packer["data"].status = "ok"
    /\ archiver.pc \in {"tree", "index", "save"} => AllSent("tree")
    /\ archiver.pc \in {"index", "save"} => packer["tree"].status = "ok"
    /\ archiver.pc = "save" => indexer.file = {}
    /\ archiver.loaded \subseteq IndexedBlobs

\* The part of the invariant that is inductive whatever the ids are.
HandedOn == TypeOK /\ IndexSound /\ DedupSound /\ HoldsMissing /\ SentHeld /\ OwnOnTheWay
              /\ DoneOnce /\ EndsClean /\ Finalized

\* Together: what is saved is complete, because until then every blob is somewhere
\* in the pipeline, or the packer that lost it cannot end well (Packer::finalize).
PipelineInv == HandedOn /\ SnapshotsComplete

\* Once the channel of a packer is closed, its thread and its writer come to an
\* end, so that Packer::finalize returns and a dropped packer leaks no thread.
ThreadsEnd ==
    \A t \in BlobType :
        []<>(packer[t].dropped => packer[t].status # "running" /\ packer[t].writer # "running")

-----------------------------------------------------------------------------
(***************************************************************************)
(* The pipeline implements the one backup process of BackupPrune: a writer *)
(* step is BackupWritePack, a saved index file BackupWriteIndex, and the   *)
(* snapshot is saved only when these have covered it.  A backup ends when  *)
(* its process does.                                                       *)
(***************************************************************************)
Process == "backup"
IdleBackup == [pc |-> "idle", start |-> 0, need |-> {}, miss |-> {}, known |-> {}, pend |-> {}]
RunningBackup ==
    [pc |-> "running", start |-> 0, need |-> archiver.need,
     miss |-> archiver.need \ archiver.loaded, known |-> IndexedBlobs,
     pend |-> archiver.own \ Indexed]
IdlePrune == [pc |-> "idle", start |-> 0, read |-> {}, used |-> {}, copy |-> {},
              from |-> {}, newPacks |-> {}, newMarks |-> {}, old |-> {}, rm |-> {}]

IndexFiles == [i \in IndexId |-> [packs |-> index[i], marked |-> {}]]
Backups == [b \in {Process} |-> IF archiver.pc = "idle" THEN IdleBackup ELSE RunningBackup]

BP == INSTANCE BackupPrune WITH
         Backup <- {Process}, KeepDelete <- 0, MaxBackup <- 0, MaxPrune <- 0, MaxTime <- 0,
         stale <- FALSE, now <- 0, index <- IndexFiles, bk <- Backups, pr <- IdlePrune

\* The one step that is not the abstract backup's: a snapshot is saved although a
\* blob it needs was dropped for one of the other type with the same id.
SavesMistaken ==
    /\ Backups[Process].pc = "running" /\ Backups[Process].pend = {}
    /\ archiver.need \ IndexedBlobs # {}
    /\ \A b \in archiver.need \ IndexedBlobs : Mistaken(b)
    /\ snapshots' = snapshots \cup {archiver.need}
    /\ Backups' = [Backups EXCEPT ![Process] = IdleBackup]
    /\ UNCHANGED <<packs, IndexFiles>>

\* Every behaviour of the threads is, but for such a step, one of the backup that
\* BackupPrune composes with forget, prune and other backups.
ImplementsBackup == BP!Init /\ [][BP!Next \/ SavesMistaken]_(BP!vars)
=============================================================================
