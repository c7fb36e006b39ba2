------------------------- MODULE BackupPruneProofs -------------------------
(***************************************************************************)
(* Machine-checked proofs about BackupPrune: its type invariant, and, for  *)
(* a keep_delete that is long enough, that no blob of a snapshot and none  *)
(* that a running backup relies on is lost while every prune goes by the   *)
(* newest marks.                                                           *)
(*                                                                         *)
(* The argument is the inductive invariant IInv of BackupPrune.  After the *)
(* facts about index files below there is one lemma per action, and in it  *)
(* one step per conjunct of IInv.                                          *)
(***************************************************************************)
EXTENDS BackupPrune, TLAPS

-----------------------------------------------------------------------------
(* Type correctness                                                        *)

\* What the planner computes from a well-typed repository is well-typed.
LEMMA PlanTypes ==
    ASSUME TypeOK
    PROVE  /\ PlanNormal \subseteq PackId
           /\ PlanMarked \subseteq PackId
           /\ \A ids \in SUBSET IndexId : NormalIn(ids) \subseteq PackId /\ MarksIn(ids) \subseteq Mark
           /\ Stored \subseteq PackId
           /\ \A ps \in SUBSET PackId : BlobsIn(ps, packs) \subseteq Blob
           /\ \A ps \in SUBSET PackId, f \in BOOLEAN : MarkNow(ps, f) \subseteq Mark
<1> USE DEF TypeOK, IndexFile
<1>1. \A ids \in SUBSET IndexId : NormalIn(ids) \subseteq PackId /\ MarksIn(ids) \subseteq Mark
  BY DEF NormalIn, MarksIn
<1>2. PlanNormal \subseteq PackId
  BY <1>1 DEF PlanNormal, PruneState
<1>3. PlanMarked \subseteq PackId
  BY <1>1 DEF PlanMarked, PacksOf, PruneState, Mark
<1>4. \A ps \in SUBSET PackId : BlobsIn(ps, packs) \subseteq Blob
  BY DEF BlobsIn
<1>5. \A ps \in SUBSET PackId, f \in BOOLEAN : MarkNow(ps, f) \subseteq Mark
  BY DEF MarkNow, Mark
<1> QED BY <1>1, <1>2, <1>3, <1>4, <1>5 DEF Stored

\* The empty repository is well-typed.
LEMMA TypeInit == Init => TypeOK
<1>1. Init => stale \in BOOLEAN
  BY DEF Init
<1>2. Init => TypeOK \/ stale \notin BOOLEAN
  BY TimeAssumption DEF Init, TypeOK, Time, IndexFile, EmptyIndex, BackupState, IdleBackup, PruneState, IdlePrune
<1> QED BY <1>1, <1>2

\* Every step of every process keeps the state well-typed.
LEMMA TypeNext == TypeOK /\ [Next]_vars => TypeOK'
<1> SUFFICES ASSUME TypeOK, [Next]_vars PROVE TypeOK'
  OBVIOUS
<1> USE TimeAssumption DEF TypeOK
<1>1. CASE Tick
  BY <1>1 DEF Tick, Time
<1>2. CASE Forget
  BY <1>2 DEF Forget
<1>3. ASSUME NEW b \in Backup, BackupNext(b) PROVE TypeOK'
  <2>1. CASE BackupLoad(b)
    BY <2>1, PlanTypes DEF BackupLoad, BackupState, LoadedBlobs
  <2>2. CASE BackupWritePack(b)
    BY <2>2 DEF BackupWritePack, BackupState, FreshPack
  <2>3. CASE BackupWriteIndex(b)
    <3>1. PICK i \in FreshIndex, ps \in (SUBSET bk[b].pend) \ {{}} :
             /\ index' = [index EXCEPT ![i] = [packs |-> ps, marked |-> {}]]
             /\ bk' = [bk EXCEPT ![b] = [bk[b] EXCEPT !.pend = bk[b].pend \ ps,
                                               !.known = bk[b].known \cup BlobsIn(ps, packs)]]
      BY <2>3 DEF BackupWriteIndex
    <3>2. bk[b] \in BackupState /\ ps \subseteq PackId /\ BlobsIn(ps, packs) \subseteq Blob
      BY PlanTypes DEF BackupState
    <3>3. bk' \in [Backup -> BackupState]
      BY <3>1, <3>2 DEF BackupState
    <3>4. index' \in [IndexId -> IndexFile]
      BY <3>1, <3>2 DEF IndexFile, FreshIndex
    <3> QED BY <2>3, <3>3, <3>4 DEF BackupWriteIndex
  <2>4. CASE BackupSave(b)
    BY <2>4 DEF BackupSave, BackupState, IdleBackup, Time
  <2>5. CASE BackupAbort(b)
    BY <2>5 DEF BackupAbort, BackupState, IdleBackup, Time
  <2> QED BY <1>3, <2>1, <2>2, <2>3, <2>4, <2>5 DEF BackupNext
<1>4. CASE PruneNext
  <2>1. CASE PruneReadIndex
    BY <2>1 DEF PruneReadIndex, PruneState
  <2>2. CASE PruneFindUsed
    BY <2>2 DEF PruneFindUsed, PruneState
  <2>3. CASE PruneDecide
    <3>1. PICK c \in MarkChoices, keep \in SUBSET PlanNormal, repack \in SUBSET PlanNormal,
                recover \in SUBSET PlanMarked :
             /\ stale' = (stale \/ StaleChoice(c))
             /\ \E old \in OldIndexes(PlanOf(c, keep, repack, recover), c) :
                   pr' = Work(PlanOf(c, keep, repack, recover), c, old)
      BY <2>3 DEF PruneDecide
    <3>2. PICK old \in OldIndexes(PlanOf(c, keep, repack, recover), c) :
             pr' = Work(PlanOf(c, keep, repack, recover), c, old)
      BY <3>1
    <3>0. stale' \in BOOLEAN
      BY <3>1 DEF StaleChoice
    <3>3. CASE old = {}
      <4>1. IdlePrune \in PruneState
        BY DEF IdlePrune, PruneState, Time
      <4> QED BY <2>3, <3>0, <3>2, <3>3, <4>1 DEF PruneDecide, Work
    <3>4. CASE old # {}
      <4>1. old \subseteq IndexId
        BY DEF OldIndexes, PruneState
      <4>2. \A p \in PlanMarked : c[p] \in Mark
        BY PlanTypes DEF MarkChoices, PruneState
      <4>3. /\ keep \subseteq PackId /\ repack \subseteq PackId /\ recover \subseteq PackId
            /\ PlanNormal \subseteq PackId /\ Expired(c) \subseteq PackId
            /\ Unreferenced \subseteq PackId
        BY PlanTypes DEF Expired, Unreferenced
      <4>4. /\ MarkNow(repack \cup (PlanNormal \ (keep \cup repack)), TRUE) \subseteq Mark
            /\ MarkNow(Unreferenced, FALSE) \subseteq Mark
        BY <4>3, PlanTypes
      <4>5. BlobsIn(repack, packs) \subseteq Blob
        BY <4>3, PlanTypes
      <4>6. pr'.newMarks \subseteq Mark
        BY <3>2, <3>4, <4>2, <4>4 DEF Work, PlanOf
      <4>7. /\ pr'.copy \subseteq Blob /\ pr'.from \subseteq PackId /\ pr'.newPacks \subseteq PackId
            /\ pr'.old \subseteq IndexId /\ pr'.rm \subseteq PackId
            /\ pr'.pc = "write" /\ pr'.start = pr.start /\ pr'.read = {} /\ pr'.used = pr.used
        BY <3>2, <3>4, <4>1, <4>3, <4>5 DEF Work, PlanOf
      <4>8. pr' = [pc |-> pr'.pc, start |-> pr'.start, read |-> pr'.read, used |-> pr'.used,
                   copy |-> pr'.copy, from |-> pr'.from, newPacks |-> pr'.newPacks,
                   newMarks |-> pr'.newMarks, old |-> pr'.old, rm |-> pr'.rm]
        BY <3>2, <3>4 DEF Work
      <4>9. pr' \in PruneState
        BY <4>6, <4>7, <4>8 DEF PruneState
      <4> QED BY <2>3, <3>0, <4>9 DEF PruneDecide
    <3> QED BY <3>3, <3>4
  <2>4. CASE PruneWritePack
    <3>1. PICK p \in FreshPack, new \in (SUBSET pr.copy) \ {{}} :
             /\ packs' = [packs EXCEPT ![p] = new]
             /\ pr' = [pr EXCEPT !.copy = @ \ new, !.newPacks = @ \cup {p}]
      BY <2>4 DEF PruneWritePack
    <3>2. p \in PackId /\ new \subseteq Blob
      BY DEF FreshPack, PruneState
    <3>3. packs' \in [PackId -> SUBSET Blob]
      BY <3>1, <3>2
    <3>4. pr' \in PruneState
      BY <3>1, <3>2 DEF PruneState
    <3> QED BY <2>4, <3>3, <3>4 DEF PruneWritePack
  <2>5. CASE PruneWriteIndex
    <3>1. PICK i \in FreshIndex, ps \in SUBSET pr.newPacks, ms \in SUBSET pr.newMarks :
             /\ index' = [index EXCEPT ![i] = [packs |-> ps, marked |-> ms]]
             /\ pr' = [pr EXCEPT !.newPacks = @ \ ps, !.newMarks = @ \ ms]
      BY <2>5 DEF PruneWriteIndex
    <3>2. ps \subseteq PackId /\ ms \subseteq Mark
      BY DEF PruneState
    <3>3. index' \in [IndexId -> IndexFile]
      BY <3>1, <3>2 DEF IndexFile
    <3>4. pr' \in PruneState
      BY <3>1 DEF PruneState
    <3> QED BY <2>5, <3>3, <3>4 DEF PruneWriteIndex
  <2>6. CASE PruneWritten
    BY <2>6 DEF PruneWritten, PruneState
  <2>7. CASE PruneRemoveIndex
    <3>1. PICK i \in pr.old :
             /\ index' = [index EXCEPT ![i] = EmptyIndex]
             /\ pr' = [pr EXCEPT !.old = @ \ {i},
                                 !.pc = IF pr.old = {i} THEN "rmpacks" ELSE "rmindex"]
      BY <2>7 DEF PruneRemoveIndex
    <3>2. index' \in [IndexId -> IndexFile]
      BY <3>1 DEF IndexFile, EmptyIndex
    <3>3. pr' \in PruneState
      BY <3>1 DEF PruneState
    <3> QED BY <2>7, <3>2, <3>3 DEF PruneRemoveIndex
  <2>8. CASE PruneRemovePack
    BY <2>8 DEF PruneRemovePack, PruneState
  <2>9. CASE PruneDone
    BY <2>9 DEF PruneDone, PruneState, IdlePrune, Time
  <2>10. CASE PruneAbort
    BY <2>10 DEF PruneAbort, PruneState, IdlePrune, Time
  <2> QED BY <1>4, <2>1, <2>2, <2>3, <2>4, <2>5, <2>6, <2>7, <2>8, <2>9, <2>10 DEF PruneNext
<1>5. CASE UNCHANGED vars
  BY <1>5 DEF vars
<1> QED BY <1>1, <1>2, <1>3, <1>4, <1>5 DEF Next

\* The repository, the backups and prune keep to their types, for every choice
\* of the constants and whether or not the delay is safe.
THEOREM TypeCorrect == Spec => []TypeOK
<1>1. Init => TypeOK
  BY TypeInit
<1>2. TypeOK /\ [Next]_vars => TypeOK'
  BY TypeNext
<1> QED BY <1>1, <1>2, PTL DEF Spec

-----------------------------------------------------------------------------
(* Index files, packs and the plan of a running prune                      *)

\* Membership in the unions the model is written with.
LEMMA InDefs ==
    /\ \A ids, p : p \in NormalIn(ids) <=> \E i \in ids : p \in index[i].packs
    /\ \A ids, m : m \in MarksIn(ids) <=> \E i \in ids : m \in index[i].marked
    /\ \A ms, p : p \in PacksOf(ms) <=> \E m \in ms : m.pack = p
    /\ \A ps, bs, x : x \in BlobsIn(ps, bs) <=> \E p \in ps : x \in bs[p]
<1>1. \A ids, p : p \in NormalIn(ids) <=> \E i \in ids : p \in index[i].packs
  BY DEF NormalIn
<1>2. \A ids, m : m \in MarksIn(ids) <=> \E i \in ids : m \in index[i].marked
  BY DEF MarksIn
<1>3. \A ms, p : p \in PacksOf(ms) <=> \E m \in ms : m.pack = p
  BY DEF PacksOf
<1>4. \A ps, bs, x : x \in BlobsIn(ps, bs) <=> \E p \in ps : x \in bs[p]
  BY DEF BlobsIn
<1> QED BY <1>1, <1>2, <1>3, <1>4

\* A step that writes no index file changes no set computed from them.
LEMMA SameIndex ==
    ASSUME UNCHANGED index
    PROVE  \A ids : NormalIn(ids)' = NormalIn(ids) /\ MarksIn(ids)' = MarksIn(ids)
BY DEF NormalIn, MarksIn


\* A new index file adds its entries and leaves the files prune has read, and
\* the ones it will remove, alone.
LEMMA NewIndex ==
    ASSUME TypeOK, NEW i \in FreshIndex, NEW ps, NEW ms,
           index' = [index EXCEPT ![i] = [packs |-> ps, marked |-> ms]],
           pr'.old = pr.old, pr'.read = pr.read
    PROVE  /\ NormalIn(IndexId)' = NormalIn(IndexId) \cup ps
           /\ MarksIn(IndexId)' = MarksIn(IndexId) \cup ms
           /\ NormalIn(IndexId \ pr.old)' = NormalIn(IndexId \ pr.old) \cup ps
           /\ MarksIn(IndexId \ pr.old)' = MarksIn(IndexId \ pr.old) \cup ms
           /\ NormalIn(pr.old)' = NormalIn(pr.old)
           /\ NormalIn(pr.read)' = NormalIn(pr.read)
<1> USE DEF NormalIn, MarksIn
<1>1. /\ i \in IndexId /\ i \notin pr.old /\ i \notin pr.read
      /\ pr.old \subseteq IndexId /\ pr.read \subseteq IndexId
      /\ index[i].packs = {} /\ index[i].marked = {}
  BY DEF FreshIndex, EmptyIndex, TypeOK, PruneState
<1>2. /\ index'[i].packs = ps /\ index'[i].marked = ms
      /\ \A j \in IndexId \ {i} : index'[j] = index[j]
  BY <1>1 DEF TypeOK
<1>3. NormalIn(IndexId)' = NormalIn(IndexId) \cup ps
  BY <1>1, <1>2
<1>4. MarksIn(IndexId)' = MarksIn(IndexId) \cup ms
  BY <1>1, <1>2
<1>5. NormalIn(IndexId \ pr.old)' = NormalIn(IndexId \ pr.old) \cup ps
  BY <1>1, <1>2
<1>6. MarksIn(IndexId \ pr.old)' = MarksIn(IndexId \ pr.old) \cup ms
  BY <1>1, <1>2
<1>7. NormalIn(pr.old)' = NormalIn(pr.old)
  BY <1>1, <1>2
<1>8. NormalIn(pr.read)' = NormalIn(pr.read)
  BY <1>1, <1>2
<1> QED BY <1>3, <1>4, <1>5, <1>6, <1>7, <1>8

\* Removing an old index file does not change what prune has planned.
LEMMA OldIndex ==
    ASSUME TypeOK, NEW i \in pr.old,
           index' = [index EXCEPT ![i] = EmptyIndex],
           pr'.old = pr.old \ {i}
    PROVE  /\ NormalIn(IndexId)' \subseteq NormalIn(IndexId)
           /\ MarksIn(IndexId)' \subseteq MarksIn(IndexId)
           /\ NormalIn(IndexId)' \subseteq NormalIn(IndexId \ pr.old)'
                                              \cup NormalIn(pr.old)'
           /\ NormalIn(IndexId \ pr.old) \subseteq NormalIn(IndexId)'
           /\ MarksIn(IndexId \ pr.old) \subseteq MarksIn(IndexId)'
           /\ NormalIn(IndexId \ pr.old)' = NormalIn(IndexId \ pr.old)
           /\ MarksIn(IndexId \ pr.old)' = MarksIn(IndexId \ pr.old)
           /\ NormalIn(pr.old)' \subseteq NormalIn(pr.old)
<1> USE DEF NormalIn, MarksIn
<1>1. /\ i \in IndexId /\ pr.old \subseteq IndexId
      /\ index'[i].packs = {} /\ index'[i].marked = {}
      /\ \A j \in IndexId \ {i} : index'[j] = index[j]
  BY DEF EmptyIndex, TypeOK, PruneState
<1>2. NormalIn(IndexId)' \subseteq NormalIn(IndexId)
  BY <1>1
<1>3. MarksIn(IndexId)' \subseteq MarksIn(IndexId)
  BY <1>1
<1>4. NormalIn(IndexId \ pr.old) \subseteq NormalIn(IndexId)'
  BY <1>1
<1>5. MarksIn(IndexId \ pr.old) \subseteq MarksIn(IndexId)'
  BY <1>1
<1>6. NormalIn(IndexId \ pr.old)' = NormalIn(IndexId \ pr.old)
  BY <1>1
<1>7. MarksIn(IndexId \ pr.old)' = MarksIn(IndexId \ pr.old)
  BY <1>1
<1>8. NormalIn(pr.old)' \subseteq NormalIn(pr.old)
  BY <1>1
<1>9. NormalIn(IndexId)' \subseteq NormalIn(IndexId \ pr.old)' \cup NormalIn(pr.old)'
  BY <1>1
<1> QED BY <1>2, <1>3, <1>4, <1>5, <1>6, <1>7, <1>8, <1>9

\* Steps that leave the index and prune's work alone leave the plan alone.
LEMMA SamePlan ==
    ASSUME UNCHANGED index,
           pr'.old = pr.old, pr'.newPacks = pr.newPacks, pr'.newMarks = pr.newMarks
    PROVE  /\ \A ids : NormalIn(ids)' = NormalIn(ids) /\ MarksIn(ids)' = MarksIn(ids)
           /\ NormalIn(pr.old)' = NormalIn(pr.old)
           /\ PlannedNormal' = PlannedNormal /\ PlannedMarks' = PlannedMarks
           /\ \A p : Listed(p)' <=> Listed(p)
           /\ \A p : PlannedListed(p)' <=> PlannedListed(p)
           /\ \A p, t : StaysSince(p, t) => StaysSince(p, t)'
<1>1. \A ids : NormalIn(ids)' = NormalIn(ids) /\ MarksIn(ids)' = MarksIn(ids)
  BY SameIndex
<1>2. /\ NormalIn(pr.old)' = NormalIn(pr.old)
      /\ NormalIn(IndexId \ pr.old)' = NormalIn(IndexId \ pr.old)
      /\ MarksIn(IndexId \ pr.old)' = MarksIn(IndexId \ pr.old)
  BY DEF NormalIn, MarksIn
<1>3. PlannedNormal' = PlannedNormal /\ PlannedMarks' = PlannedMarks
  BY <1>2 DEF PlannedNormal, PlannedMarks
<1>4. \A p : Listed(p)' <=> Listed(p)
  BY <1>1 DEF Listed
<1>5. \A p : PlannedListed(p)' <=> PlannedListed(p)
  BY <1>3 DEF PlannedListed
<1>6. \A p, t : StaysSince(p, t) => StaysSince(p, t)'
  BY <1>1, <1>3 DEF StaysSince, Recent
<1> QED BY <1>1, <1>2, <1>3, <1>4, <1>5, <1>6

\* If the packs stay as well, every blob stays where it is.
LEMMA SameRepo ==
    ASSUME UNCHANGED <<packs, index>>,
           pr'.old = pr.old, pr'.newPacks = pr.newPacks, pr'.newMarks = pr.newMarks,
           pr'.rm = pr.rm
    PROVE  /\ \A ids : NormalIn(ids)' = NormalIn(ids) /\ MarksIn(ids)' = MarksIn(ids)
           /\ NormalIn(pr.old)' = NormalIn(pr.old)
           /\ Stored' = Stored
           /\ PlannedNormal' = PlannedNormal /\ PlannedMarks' = PlannedMarks
           /\ \A p : PlannedListed(p)' <=> PlannedListed(p)
           /\ \A p, x : Holds(p, x) => Holds(p, x)'
           /\ \A p, t : StaysSince(p, t) => StaysSince(p, t)'
BY SamePlan DEF Holds, Stored

-----------------------------------------------------------------------------
(* One lemma per action: it preserves IInv                                 *)

\* The clock: only the deadlines depend on it.
LEMMA TickStep ==
    ASSUME IInv, Tick, TypeOK' PROVE IInv'
<1> USE DEF IInv, Tick
<1>1. Deadlines'
  BY TimeAssumption DEF Deadlines, Running, TypeOK, BackupState, PruneState, Time
<1>2. IdleIsClean'
  BY DEF IdleIsClean, Running
<1>3. MentionedPacksExist' /\ RemovedUnmentioned'
  BY SameRepo DEF MentionedPacksExist, RemovedUnmentioned, IndexedPacksExist, PacksOf
<1>4. MarksFollowBackups'
  BY SameRepo DEF MarksFollowBackups
<1>5. ReplacedPacksStay'
  BY SameRepo DEF ReplacedPacksStay, Recent
<1>6. ~stale' => KnownBlobsHeld' /\ SnapshotBlobsHeld'
  BY SameRepo DEF KnownBlobsHeld, SnapshotBlobsHeld
<1>7. UsedBlobsIndexed'
  BY SameRepo DEF UsedBlobsIndexed
<1> QED BY <1>1, <1>2, <1>3, <1>4, <1>5, <1>6, <1>7

\* Removing a snapshot only removes obligations.
LEMMA ForgetStep ==
    ASSUME IInv, Forget, TypeOK' PROVE IInv'
<1> USE DEF IInv, Forget
<1>1. Deadlines' /\ IdleIsClean'
  BY DEF Deadlines, Running, IdleIsClean
<1>3. MentionedPacksExist' /\ RemovedUnmentioned'
  BY SameRepo DEF MentionedPacksExist, RemovedUnmentioned, IndexedPacksExist, PacksOf
<1>4. MarksFollowBackups'
  BY SameRepo DEF MarksFollowBackups
<1>5. ReplacedPacksStay'
  BY SameRepo DEF ReplacedPacksStay, Recent
<1>6. ~stale' => KnownBlobsHeld' /\ SnapshotBlobsHeld'
  BY SameRepo DEF KnownBlobsHeld, SnapshotBlobsHeld
<1>7. UsedBlobsIndexed'
  BY SameRepo DEF UsedBlobsIndexed
<1> QED BY <1>1, <1>3, <1>4, <1>5, <1>6, <1>7

\* BackupLoad: the blobs of the loaded index are in packs that a running prune
\* either keeps or marks itself.
LEMMA BackupLoadStep ==
    ASSUME IInv, NEW b \in Backup, BackupLoad(b), TypeOK' PROVE IInv'
<1> USE DEF IInv
<1>0. PICK need \in (SUBSET Blob) \ {{}} :
         bk' = [bk EXCEPT ![b] = [pc |-> "running", start |-> now, need |-> need,
                                   miss |-> need \ LoadedBlobs, known |-> LoadedBlobs,
                                   pend |-> {}]]
  BY DEF BackupLoad
<1>a. /\ bk'[b].pc = "running" /\ bk'[b].start = now /\ bk'[b].known = LoadedBlobs
      /\ bk'[b].pend = {}
      /\ \A a \in Backup \ {b} : bk'[a] = bk[a]
      /\ UNCHANGED <<now, packs, index, snapshots, pr, stale>>
  BY <1>0 DEF TypeOK, BackupLoad
<1>1. Deadlines'
  BY <1>a, TimeAssumption DEF Deadlines, Running, TypeOK, BackupState, Time
<1>2. IdleIsClean'
  BY <1>a DEF IdleIsClean, Running
<1>3. MentionedPacksExist' /\ RemovedUnmentioned'
  BY <1>a, SameRepo DEF MentionedPacksExist, RemovedUnmentioned, IndexedPacksExist, PacksOf
<1>4. MarksFollowBackups'
  BY <1>a, SameRepo DEF MarksFollowBackups
<1>5. ReplacedPacksStay'
  BY <1>a, SameRepo DEF ReplacedPacksStay, Recent
<1>6. ~stale' => SnapshotBlobsHeld'
  BY <1>a, SameRepo DEF SnapshotBlobsHeld
<1>7. UsedBlobsIndexed'
  BY <1>a, SameRepo DEF UsedBlobsIndexed
<1>8. ASSUME ~stale' PROVE KnownBlobsHeld'
  <2>1. ASSUME NEW x \in LoadedBlobs
        PROVE  \E p \in PackId : Holds(p, x) /\ StaysSince(p, now - MaxPrune)
    <3>1. PICK p \in NormalIn(IndexId) : x \in packs[p]
      BY <2>1 DEF LoadedBlobs, BlobsIn
    <3>2. p \in PackId /\ p \notin pr.rm /\ Listed(p)
      BY <3>1 DEF MentionedPacksExist, IndexedPacksExist, Stored, RemovedUnmentioned, Listed
    <3>3. CASE p \in PlannedNormal
      BY <3>1, <3>2, <3>3 DEF Holds, PlannedListed, StaysSince
    <3>4. CASE p \notin PlannedNormal
      <4>1. p \in NormalIn(pr.old)
        BY <3>1, <3>4, InDefs DEF PlannedNormal
      <4>2. pr.pc # "idle"
        BY <4>1, InDefs DEF IdleIsClean
      <4>3. PlannedListed(p) /\ Recent(p, PlannedMarks, pr.start)
        BY <3>4, <4>1 DEF ReplacedPacksStay
      <4>4. Recent(p, PlannedMarks, now - MaxPrune)
        BY <4>2, <4>3, TimeAssumption DEF Recent, Deadlines, TypeOK, PruneState, Mark, Time, PlannedMarks, MarksIn, IndexFile
      <4> QED BY <3>1, <3>2, <4>3, <4>4 DEF Holds, StaysSince
    <3> QED BY <3>3, <3>4
  <2> QED BY <1>8, <1>a, <2>1, SameRepo DEF KnownBlobsHeld
<1> QED BY <1>1, <1>2, <1>3, <1>4, <1>5, <1>6, <1>7, <1>8

\* A new pack disturbs nothing: its id is mentioned nowhere.
LEMMA NewPack ==
    ASSUME TypeOK, NEW p \in FreshPack, NEW new \in (SUBSET Blob) \ {{}},
           packs' = [packs EXCEPT ![p] = new]
    PROVE  /\ p \in PackId /\ packs'[p] = new
           /\ \A q \in PackId : q # p => packs'[q] = packs[q]
           /\ \A q \in PackId : \A x : x \in packs[q] => x \in packs'[q]
           /\ Stored' = Stored \cup {p}
           /\ p \notin Stored
BY DEF FreshPack, Stored, TypeOK

\* BackupWritePack writes a pack nobody mentions.
LEMMA BackupWritePackStep ==
    ASSUME IInv, NEW b \in Backup, BackupWritePack(b), TypeOK' PROVE IInv'
<1> USE DEF IInv
<1>0. PICK p \in FreshPack, new \in (SUBSET bk[b].miss) \ {{}} :
          /\ packs' = [packs EXCEPT ![p] = new]
          /\ bk' = [bk EXCEPT ![b].pend = @ \cup {p}]
  BY DEF BackupWritePack
<1>a. /\ bk'[b].pc = bk[b].pc /\ bk'[b].start = bk[b].start /\ bk'[b].known = bk[b].known
      /\ bk'[b].pend = bk[b].pend \cup {p}
      /\ \A a \in Backup \ {b} : bk'[a] = bk[a]
      /\ UNCHANGED <<now, index, snapshots, pr, stale>>
      /\ bk[b].pc = "running"
  BY <1>0 DEF TypeOK, BackupWritePack, BackupState, Running
<1>b. new \in (SUBSET Blob) \ {{}}
  BY DEF TypeOK, BackupState
<1>c. /\ p \in PackId /\ p \notin Stored /\ Stored' = Stored \cup {p}
      /\ \A q \in PackId : \A x : x \in packs[q] => x \in packs'[q]
  BY <1>0, <1>b, NewPack
<1>d. /\ \A ids : NormalIn(ids)' = NormalIn(ids) /\ MarksIn(ids)' = MarksIn(ids)
      /\ NormalIn(pr.old)' = NormalIn(pr.old)
      /\ PlannedNormal' = PlannedNormal /\ PlannedMarks' = PlannedMarks
      /\ \A q : Listed(q)' <=> Listed(q)
      /\ \A q : PlannedListed(q)' <=> PlannedListed(q)
      /\ \A q, t : StaysSince(q, t) => StaysSince(q, t)'
  BY <1>a, SamePlan
<1>e. \A q \in PackId : \A x : Holds(q, x) => Holds(q, x)'
  BY <1>a, <1>c, <1>d DEF Holds
<1>1. Deadlines' /\ IdleIsClean'
  BY <1>a DEF Deadlines, IdleIsClean, Running
<1>3. MentionedPacksExist'
  BY <1>a, <1>c, <1>d DEF MentionedPacksExist, IndexedPacksExist, PacksOf
<1>4. RemovedUnmentioned'
  BY <1>a, <1>d DEF RemovedUnmentioned, FreshPack, PacksOf
<1>5. MarksFollowBackups'
  <2>1. \A m \in MarksIn(IndexId) \cup pr.newMarks : m.pack # p
    BY InDefs DEF FreshPack
  <2> QED BY <1>a, <1>d, <2>1 DEF MarksFollowBackups
<1>6. ReplacedPacksStay'
  BY <1>a, <1>d DEF ReplacedPacksStay, Recent
<1>7. ~stale' => KnownBlobsHeld'
  BY <1>a, <1>d, <1>e DEF KnownBlobsHeld
<1>8. ~stale' => SnapshotBlobsHeld'
  BY <1>a, <1>d, <1>e DEF SnapshotBlobsHeld
<1>9. UsedBlobsIndexed'
  <2>1. PlannedNormal \subseteq PackId
    BY DEF MentionedPacksExist, IndexedPacksExist, PlannedNormal, NormalIn, Stored
  <2> QED BY <1>a, <1>c, <1>d, <2>1 DEF UsedBlobsIndexed
<1> QED BY <1>1, <1>3, <1>4, <1>5, <1>6, <1>7, <1>8, <1>9

\* BackupWriteIndex: the packs it lists are pending, so nobody removes them.
LEMMA BackupWriteIndexStep ==
    ASSUME IInv, NEW b \in Backup, BackupWriteIndex(b), TypeOK' PROVE IInv'
<1> USE DEF IInv
<1>0. PICK i \in FreshIndex, ps \in (SUBSET bk[b].pend) \ {{}} :
          /\ index' = [index EXCEPT ![i] = [packs |-> ps, marked |-> {}]]
          /\ bk' = [bk EXCEPT ![b] = [bk[b] EXCEPT !.pend = bk[b].pend \ ps,
                                               !.known = bk[b].known \cup BlobsIn(ps, packs)]]
  BY DEF BackupWriteIndex
<1>a. /\ bk'[b].pc = bk[b].pc /\ bk'[b].start = bk[b].start
      /\ bk'[b].known = bk[b].known \cup BlobsIn(ps, packs)
      /\ bk'[b].pend = bk[b].pend \ ps
      /\ \A a \in Backup \ {b} : bk'[a] = bk[a]
      /\ UNCHANGED <<now, packs, snapshots, pr, stale>>
      /\ bk[b].pc = "running"
      /\ ps \subseteq bk[b].pend
  <2>1. bk[b] \in BackupState /\ b \in DOMAIN bk
    BY DEF TypeOK
  <2>2. /\ bk'[b] = [bk[b] EXCEPT !.pend = bk[b].pend \ ps, !.known = bk[b].known \cup BlobsIn(ps, packs)]
        /\ \A a \in Backup \ {b} : bk'[a] = bk[a]
    BY <1>0, <2>1 DEF TypeOK
  <2>3. /\ bk'[b].pc = bk[b].pc /\ bk'[b].start = bk[b].start
        /\ bk'[b].known = bk[b].known \cup BlobsIn(ps, packs)
        /\ bk'[b].pend = bk[b].pend \ ps
    BY <2>1, <2>2 DEF BackupState
  <2> QED  BY <1>0, <2>2, <2>3 DEF BackupWriteIndex, Running
<1>b. /\ NormalIn(IndexId)' = NormalIn(IndexId) \cup ps
      /\ MarksIn(IndexId)' = MarksIn(IndexId)
      /\ NormalIn(pr.old)' = NormalIn(pr.old)
      /\ NormalIn(pr.read)' = NormalIn(pr.read)
      /\ PlannedNormal' = PlannedNormal \cup ps
      /\ PlannedMarks' = PlannedMarks
  <2>1. /\ NormalIn(IndexId)' = NormalIn(IndexId) \cup ps
        /\ MarksIn(IndexId)' = MarksIn(IndexId) \cup {}
        /\ NormalIn(IndexId \ pr.old)' = NormalIn(IndexId \ pr.old) \cup ps
        /\ MarksIn(IndexId \ pr.old)' = MarksIn(IndexId \ pr.old) \cup {}
        /\ NormalIn(pr.old)' = NormalIn(pr.old)
        /\ NormalIn(pr.read)' = NormalIn(pr.read)
    BY <1>0, <1>a, NewIndex
  <2>2. PlannedNormal' = PlannedNormal \cup ps
    BY <1>a, <2>1 DEF PlannedNormal
  <2>3. PlannedMarks' = PlannedMarks
    BY <1>a, <2>1 DEF PlannedMarks
  <2> QED BY <2>1, <2>2, <2>3
<1>c. \A p, x : Holds(p, x) => Holds(p, x)'
  BY <1>a, <1>b DEF Holds, Listed, PlannedListed
<1>d. \A p, t : StaysSince(p, t) => StaysSince(p, t)'
  BY <1>a, <1>b DEF StaysSince, Recent
<1>1. Deadlines' /\ IdleIsClean'
  BY <1>a DEF Deadlines, IdleIsClean, Running
<1>3. MentionedPacksExist'
  BY <1>a, <1>b DEF MentionedPacksExist, IndexedPacksExist, PacksOf, Stored
<1>4. RemovedUnmentioned'
  BY <1>a, <1>b DEF RemovedUnmentioned, PacksOf
<1>5. MarksFollowBackups'
  <2>1. \A a \in Backup : \A m \in (MarksIn(IndexId) \cup pr.newMarks)' :
          m.pack \in bk'[a].pend => bk'[a].start <= m.time
    BY <1>a, <1>b DEF MarksFollowBackups
  <2>2. ASSUME pr.pc \in {"index", "used"}
        PROVE  \A j \in IndexId \ pr.read : index'[j].marked = {}
    BY <1>0, <2>2 DEF MarksFollowBackups, FreshIndex, TypeOK
  <2>3. ASSUME pr.pc \in {"index", "used"}, NEW p \in NormalIn(IndexId)' \ NormalIn(pr.read)',
               NEW m \in MarksIn(IndexId), m.pack = p
        PROVE  pr.start <= m.time + MaxBackup
    <3>1. CASE p \in ps
      <4>1. bk[b].start <= m.time
        BY <1>a, <2>3, <3>1 DEF MarksFollowBackups
      <4>2. pr.start <= now /\ now <= bk[b].start + MaxBackup
        BY <1>a, <2>3 DEF Deadlines, Running
      <4>3. m.time \in Int /\ bk[b].start \in Int /\ now \in Int /\ pr.start \in Int
        BY <2>3 DEF TypeOK, BackupState, PruneState, Time, MarksIn, IndexFile, Mark
      <4> QED BY <4>1, <4>2, <4>3, TimeAssumption
    <3>2. CASE p \notin ps
      BY <1>b, <2>3, <3>2 DEF MarksFollowBackups
    <3> QED BY <3>1, <3>2
  <2> QED BY <1>a, <1>b, <2>1, <2>2, <2>3 DEF MarksFollowBackups
<1>6. ReplacedPacksStay'
  BY <1>a, <1>b DEF ReplacedPacksStay, Recent, PlannedListed
<1>7. ASSUME ~stale' PROVE KnownBlobsHeld'
  <2>1. ASSUME NEW p \in ps, NEW x \in packs[p], NEW t
        PROVE  p \in PackId /\ Holds(p, x)' /\ StaysSince(p, t)'
    BY <1>a, <1>b, <2>1 DEF Holds, StaysSince, Listed, PlannedListed, RemovedUnmentioned, TypeOK, BackupState
  <2>2. ASSUME NEW x \in BlobsIn(ps, packs)
        PROVE  \E p \in PackId : Holds(p, x)' /\ StaysSince(p, bk[b].start - MaxPrune)'
    <3>1. PICK p \in ps : x \in packs[p]
      BY <2>2, InDefs
    <3> QED BY <2>1, <3>1
  <2> QED BY <1>7, <1>a, <1>c, <1>d, <2>2 DEF KnownBlobsHeld
<1>8. ~stale' => SnapshotBlobsHeld'
  BY <1>a, <1>c, <1>d DEF SnapshotBlobsHeld
<1>9. UsedBlobsIndexed'
  <2> QED BY <1>a, <1>b, InDefs DEF UsedBlobsIndexed, RemovedUnmentioned
<1> QED BY <1>1, <1>3, <1>4, <1>5, <1>6, <1>7, <1>8, <1>9

\* BackupSave: what the backup knows is held at least as firmly as a snapshot
\* needs.
LEMMA BackupSaveStep ==
    ASSUME IInv, NEW b \in Backup, BackupSave(b), TypeOK' PROVE IInv'
<1> USE DEF IInv
<1>a. /\ bk'[b] = IdleBackup
      /\ \A a \in Backup \ {b} : bk'[a] = bk[a]
      /\ UNCHANGED <<now, packs, index, pr, stale>>
      /\ bk[b].pc = "running" /\ bk[b].need \subseteq bk[b].known
      /\ snapshots' = snapshots \cup {bk[b].need}
  BY DEF TypeOK, BackupSave, Running
<1>1. Deadlines' /\ IdleIsClean'
  BY <1>a DEF Deadlines, IdleIsClean, Running, IdleBackup
<1>3. MentionedPacksExist' /\ RemovedUnmentioned'
  BY <1>a, SameRepo DEF MentionedPacksExist, RemovedUnmentioned, IndexedPacksExist, PacksOf, IdleBackup
<1>4. MarksFollowBackups'
  BY <1>a, SameRepo DEF MarksFollowBackups, IdleBackup
<1>5. ReplacedPacksStay'
  BY <1>a, SameRepo DEF ReplacedPacksStay, Recent
<1>6. ~stale' => KnownBlobsHeld'
  BY <1>a, SameRepo DEF KnownBlobsHeld, IdleBackup
<1>7. ASSUME ~stale' PROVE SnapshotBlobsHeld'
  <2>1. ASSUME NEW x \in bk[b].need
        PROVE  \E p \in PackId : /\ Holds(p, x)
                                 /\ pr.pc = "used" => StaysSince(p, pr.start - MaxPrune - MaxBackup)
    <3>1. PICK p \in PackId : Holds(p, x) /\ StaysSince(p, bk[b].start - MaxPrune)
      BY <1>7, <1>a, <2>1 DEF KnownBlobsHeld
    <3>2. ASSUME pr.pc = "used" PROVE StaysSince(p, pr.start - MaxPrune - MaxBackup)
      <4>1. pr.start - MaxPrune - MaxBackup <= bk[b].start - MaxPrune
        BY <1>a, <3>2, TimeAssumption DEF Deadlines, Running, TypeOK, BackupState, PruneState, Time
      <4>2. \A m \in MarksIn(IndexId) \cup PlannedMarks : m.time \in Int
        BY DEF MarksIn, PlannedMarks, TypeOK, PruneState, IndexFile, Mark, Time
      <4>3. bk[b].start - MaxPrune \in Int /\ pr.start - MaxPrune - MaxBackup \in Int
        BY TimeAssumption DEF TypeOK, BackupState, PruneState, Time
      <4> QED BY <3>1, <4>1, <4>2, <4>3 DEF StaysSince, Recent
    <3> QED BY <3>1, <3>2
  <2> QED BY <1>7, <1>a, <2>1, SameRepo DEF SnapshotBlobsHeld
<1>8. UsedBlobsIndexed'
  BY <1>a, SameRepo DEF UsedBlobsIndexed
<1> QED BY <1>1, <1>3, <1>4, <1>5, <1>6, <1>7, <1>8

\* BackupAbort only removes obligations.
LEMMA BackupAbortStep ==
    ASSUME IInv, NEW b \in Backup, BackupAbort(b), TypeOK' PROVE IInv'
<1> USE DEF IInv
<1>a. /\ bk'[b] = IdleBackup
      /\ \A a \in Backup \ {b} : bk'[a] = bk[a]
      /\ UNCHANGED <<now, packs, index, snapshots, pr, stale>>
  BY DEF TypeOK, BackupAbort, Running
<1>1. Deadlines' /\ IdleIsClean'
  BY <1>a DEF Deadlines, IdleIsClean, Running, IdleBackup
<1>3. MentionedPacksExist' /\ RemovedUnmentioned'
  BY <1>a, SameRepo DEF MentionedPacksExist, RemovedUnmentioned, IndexedPacksExist, PacksOf, IdleBackup
<1>4. MarksFollowBackups'
  BY <1>a, SameRepo DEF MarksFollowBackups, IdleBackup
<1>5. ReplacedPacksStay'
  BY <1>a, SameRepo DEF ReplacedPacksStay, Recent
<1>6. ~stale' => KnownBlobsHeld'
  BY <1>a, SameRepo DEF KnownBlobsHeld, IdleBackup
<1>7. ~stale' => SnapshotBlobsHeld'
  BY <1>a, SameRepo DEF SnapshotBlobsHeld
<1>8. UsedBlobsIndexed'
  BY <1>a, SameRepo DEF UsedBlobsIndexed
<1> QED BY <1>1, <1>3, <1>4, <1>5, <1>6, <1>7, <1>8

\* PruneReadIndex: at this moment all packs and marks are read.
LEMMA PruneReadIndexStep ==
    ASSUME IInv, PruneReadIndex, TypeOK' PROVE IInv'
<1> USE DEF IInv
<1>a. /\ pr.pc = "idle" /\ pr'.pc = "index" /\ pr'.start = now
      /\ pr'.read = {i \in IndexId : index[i] # EmptyIndex}
      /\ pr'.copy = pr.copy /\ pr'.from = pr.from /\ pr'.newPacks = pr.newPacks
      /\ pr'.newMarks = pr.newMarks /\ pr'.old = pr.old /\ pr'.rm = pr.rm
      /\ UNCHANGED <<now, packs, index, snapshots, bk, stale>>
  BY DEF PruneReadIndex, TypeOK, PruneState
<1>1. Deadlines' /\ IdleIsClean'
  BY <1>a, TimeAssumption DEF Deadlines, IdleIsClean, Running, TypeOK, Time
<1>3. MentionedPacksExist' /\ RemovedUnmentioned'
  BY <1>a, SameRepo DEF MentionedPacksExist, RemovedUnmentioned, IndexedPacksExist, PacksOf
<1>4. MarksFollowBackups'
  <2>1. \A i \in IndexId \ pr'.read : index[i].marked = {} /\ index[i].packs = {}
    BY <1>a DEF EmptyIndex
  <2>2. NormalIn(IndexId) \subseteq NormalIn(pr'.read)
    BY <2>1, InDefs
  <2> QED BY <1>a, <2>1, <2>2, SameIndex DEF MarksFollowBackups
<1>5. ReplacedPacksStay'
  BY <1>a, InDefs, SameRepo DEF ReplacedPacksStay, IdleIsClean
<1>6. ~stale' => KnownBlobsHeld' /\ SnapshotBlobsHeld'
  BY <1>a, SameRepo DEF KnownBlobsHeld, SnapshotBlobsHeld
<1>7. UsedBlobsIndexed'
  BY <1>a DEF UsedBlobsIndexed
<1> QED BY <1>1, <1>3, <1>4, <1>5, <1>6, <1>7

\* PruneFindUsed: at this moment all blobs of snapshots are used.
LEMMA PruneFindUsedStep ==
    ASSUME IInv, PruneFindUsed, TypeOK' PROVE IInv'
<1> USE DEF IInv
<1>a. /\ pr.pc = "index" /\ pr'.pc = "used" /\ pr'.used = UNION snapshots
      /\ pr'.start = pr.start /\ pr'.read = pr.read
      /\ pr'.copy = pr.copy /\ pr'.from = pr.from /\ pr'.newPacks = pr.newPacks
      /\ pr'.newMarks = pr.newMarks /\ pr'.old = pr.old /\ pr'.rm = pr.rm
      /\ UNCHANGED <<now, packs, index, snapshots, bk, stale>>
  BY DEF PruneFindUsed, TypeOK, PruneState
<1>1. Deadlines' /\ IdleIsClean'
  BY <1>a DEF Deadlines, IdleIsClean, Running
<1>3. MentionedPacksExist' /\ RemovedUnmentioned'
  BY <1>a, SameRepo DEF MentionedPacksExist, RemovedUnmentioned, IndexedPacksExist, PacksOf
<1>4. MarksFollowBackups'
  <2>1. NormalIn(pr.read)' = NormalIn(pr.read)
    BY <1>a DEF NormalIn
  <2> QED BY <1>a, <2>1, SameRepo DEF MarksFollowBackups
<1>5. ReplacedPacksStay'
  BY <1>a, InDefs, SameRepo DEF ReplacedPacksStay, IdleIsClean
<1>6. ~stale' => KnownBlobsHeld' /\ SnapshotBlobsHeld'
  BY <1>a, SameRepo DEF KnownBlobsHeld, SnapshotBlobsHeld
<1>7. UsedBlobsIndexed'
  BY <1>a DEF UsedBlobsIndexed
<1> QED BY <1>1, <1>3, <1>4, <1>5, <1>6, <1>7

\* PruneWritePack moves blobs from `copy` to a new pack.
LEMMA PruneWritePackStep ==
    ASSUME IInv, PruneWritePack, TypeOK' PROVE IInv'
<1> USE DEF IInv
<1>0. PICK p \in FreshPack, new \in (SUBSET pr.copy) \ {{}} :
          /\ packs' = [packs EXCEPT ![p] = new]
          /\ pr' = [pr EXCEPT !.copy = @ \ new, !.newPacks = @ \cup {p}]
  BY DEF PruneWritePack
<1>a. /\ pr.pc = "write" /\ pr'.pc = "write" /\ pr'.start = pr.start
      /\ pr'.used = pr.used /\ pr'.copy = pr.copy \ new
      /\ pr'.newPacks = pr.newPacks \cup {p}
      /\ pr'.newMarks = pr.newMarks /\ pr'.old = pr.old /\ pr'.rm = pr.rm
      /\ UNCHANGED <<now, index, snapshots, bk, stale>>
  BY <1>0 DEF PruneWritePack, TypeOK, PruneState
<1>b. new \in (SUBSET Blob) \ {{}}
  BY DEF TypeOK, PruneState
<1>c. /\ p \in PackId /\ p \notin Stored /\ Stored' = Stored \cup {p} /\ packs'[p] = new
      /\ \A q \in PackId : \A x : x \in packs[q] => x \in packs'[q]
  BY <1>0, <1>b, NewPack
<1>d. /\ \A ids : NormalIn(ids)' = NormalIn(ids) /\ MarksIn(ids)' = MarksIn(ids)
      /\ NormalIn(pr.old)' = NormalIn(pr.old)
      /\ PlannedNormal' = PlannedNormal \cup {p} /\ PlannedMarks' = PlannedMarks
  BY <1>a, SameIndex DEF PlannedNormal, PlannedMarks, NormalIn, MarksIn
<1>e. \A q \in PackId : \A x : Holds(q, x) => Holds(q, x)'
  BY <1>a, <1>c, <1>d DEF Holds, Listed, PlannedListed
<1>f. \A q, t : StaysSince(q, t) => StaysSince(q, t)'
  BY <1>a, <1>d DEF StaysSince, Recent
<1>1. Deadlines' /\ IdleIsClean'
  BY <1>a DEF Deadlines, IdleIsClean, Running
<1>3. MentionedPacksExist'
  BY <1>a, <1>c, <1>d DEF MentionedPacksExist, IndexedPacksExist, PacksOf
<1>4. RemovedUnmentioned'
  BY <1>a, <1>d DEF RemovedUnmentioned, FreshPack, PacksOf
<1>5. MarksFollowBackups'
  BY <1>a, <1>d DEF MarksFollowBackups
<1>6. ReplacedPacksStay'
  BY <1>a, <1>d DEF ReplacedPacksStay, Recent, PlannedListed
<1>7. ~stale' => KnownBlobsHeld'
  BY <1>a, <1>e, <1>f DEF KnownBlobsHeld
<1>8. ~stale' => SnapshotBlobsHeld'
  BY <1>a, <1>e DEF SnapshotBlobsHeld
<1>9. UsedBlobsIndexed'
  <2>1. PlannedNormal \subseteq PackId
    BY DEF MentionedPacksExist, IndexedPacksExist, PlannedNormal, NormalIn, Stored
  <2>2. p \notin pr.rm
    BY DEF FreshPack
  <2> QED BY <1>a, <1>c, <1>d, <2>1, <2>2 DEF UsedBlobsIndexed
<1> QED BY <1>1, <1>3, <1>4, <1>5, <1>6, <1>7, <1>8, <1>9

\* PruneWriteIndex moves entries from the plan to the index.
LEMMA PruneWriteIndexStep ==
    ASSUME IInv, PruneWriteIndex, TypeOK' PROVE IInv'
<1> USE DEF IInv
<1>0. PICK i \in FreshIndex, ps \in SUBSET pr.newPacks, ms \in SUBSET pr.newMarks :
          /\ index' = [index EXCEPT ![i] = [packs |-> ps, marked |-> ms]]
          /\ pr' = [pr EXCEPT !.newPacks = @ \ ps, !.newMarks = @ \ ms]
  BY DEF PruneWriteIndex
<1>a. /\ pr.pc = "write" /\ pr'.pc = "write" /\ pr'.start = pr.start /\ pr'.read = pr.read
      /\ pr'.used = pr.used /\ pr'.copy = pr.copy
      /\ pr'.newPacks = pr.newPacks \ ps
      /\ pr'.newMarks = pr.newMarks \ ms /\ pr'.old = pr.old /\ pr'.rm = pr.rm
      /\ ps \subseteq pr.newPacks /\ ms \subseteq pr.newMarks
      /\ UNCHANGED <<now, packs, snapshots, bk, stale>>
  BY <1>0 DEF PruneWriteIndex, TypeOK, PruneState
<1>b. /\ NormalIn(IndexId)' = NormalIn(IndexId) \cup ps
      /\ MarksIn(IndexId)' = MarksIn(IndexId) \cup ms
      /\ NormalIn(pr.old)' = NormalIn(pr.old)
      /\ PlannedNormal' = PlannedNormal
      /\ PlannedMarks' = PlannedMarks
  <2>1. /\ NormalIn(IndexId)' = NormalIn(IndexId) \cup ps
        /\ MarksIn(IndexId)' = MarksIn(IndexId) \cup ms
        /\ NormalIn(IndexId \ pr.old)' = NormalIn(IndexId \ pr.old) \cup ps
        /\ MarksIn(IndexId \ pr.old)' = MarksIn(IndexId \ pr.old) \cup ms
        /\ NormalIn(pr.old)' = NormalIn(pr.old)
    BY <1>0, <1>a, NewIndex
  <2>2. PlannedNormal' = PlannedNormal
    BY <1>a, <2>1 DEF PlannedNormal
  <2>3. PlannedMarks' = PlannedMarks
    BY <1>a, <2>1 DEF PlannedMarks
  <2> QED BY <2>1, <2>2, <2>3
<1>c. \A p, x : Holds(p, x) => Holds(p, x)'
  BY <1>a, <1>b DEF Holds, Listed, PlannedListed
<1>d. ASSUME NEW p, NEW t, StaysSince(p, t) PROVE StaysSince(p, t)'
  <2>1. CASE p \in NormalIn(IndexId)
    BY <1>a, <1>b, <1>d, <2>1 DEF StaysSince, Recent
  <2>2. CASE p \notin NormalIn(IndexId) /\ p \in PlannedNormal
    <3>1. p \in pr.newPacks
      BY <2>2, InDefs DEF PlannedNormal
    <3>2. \A m \in ms : m.pack # p
      BY <1>a, <3>1, InDefs DEF RemovedUnmentioned
    <3> QED BY <1>a, <1>b, <1>d, <2>2, <3>2 DEF StaysSince, Recent
  <2>3. CASE p \notin NormalIn(IndexId) /\ p \notin PlannedNormal
    BY <1>a, <1>b, <1>d, <2>3 DEF StaysSince, Recent, PlannedMarks
  <2> QED BY <2>1, <2>2, <2>3
<1>1. Deadlines' /\ IdleIsClean'
  BY <1>a DEF Deadlines, IdleIsClean, Running
<1>3. MentionedPacksExist'
  <2>1. Stored' = Stored
    BY <1>a DEF Stored
  <2>2. PacksOf(ms) \subseteq Stored /\ ps \subseteq Stored
    BY <1>a DEF MentionedPacksExist, PacksOf
  <2>3. PacksOf(MarksIn(IndexId)') \subseteq PacksOf(MarksIn(IndexId)) \cup PacksOf(ms)
    BY <1>b, InDefs
  <2>4. PacksOf(pr'.newMarks) \subseteq PacksOf(pr.newMarks)
    BY <1>a, InDefs
  <2>5. IndexedPacksExist'
    BY <1>b, <2>1, <2>2, <2>3 DEF MentionedPacksExist, IndexedPacksExist, PacksOf
  <2> QED BY <1>a, <2>1, <2>4, <2>5 DEF MentionedPacksExist, PacksOf
<1>4. RemovedUnmentioned'
  <2>1. pr.rm \cap pr.newPacks = {}
    BY DEF RemovedUnmentioned, PlannedNormal
  <2> QED BY <1>a, <1>b, <2>1, InDefs DEF RemovedUnmentioned
<1>5. MarksFollowBackups'
  BY <1>a, <1>b DEF MarksFollowBackups
<1>6. ReplacedPacksStay'
  BY <1>a, <1>b DEF ReplacedPacksStay, Recent, PlannedListed
<1>7. ~stale' => KnownBlobsHeld'
  BY <1>a, <1>c, <1>d DEF KnownBlobsHeld
<1>8. ~stale' => SnapshotBlobsHeld'
  BY <1>a, <1>c DEF SnapshotBlobsHeld
<1>9. UsedBlobsIndexed'
  BY <1>a, <1>b DEF UsedBlobsIndexed
<1> QED BY <1>1, <1>3, <1>4, <1>5, <1>6, <1>7, <1>8, <1>9

\* PruneWritten: the whole plan is now in the index.
LEMMA PruneWrittenStep ==
    ASSUME IInv, PruneWritten, TypeOK' PROVE IInv'
<1> USE DEF IInv
<1>a. /\ pr.pc = "write" /\ pr'.pc = "rmindex" /\ pr'.start = pr.start
      /\ pr'.used = pr.used /\ pr'.copy = pr.copy /\ pr'.newPacks = pr.newPacks
      /\ pr'.newMarks = pr.newMarks /\ pr'.old = pr.old /\ pr'.rm = pr.rm
      /\ pr.copy = {} /\ pr.newPacks = {} /\ pr.newMarks = {}
      /\ UNCHANGED <<now, packs, index, snapshots, bk, stale>>
  BY DEF PruneWritten, TypeOK, PruneState
<1>1. Deadlines' /\ IdleIsClean'
  BY <1>a DEF Deadlines, IdleIsClean, Running
<1>3. MentionedPacksExist' /\ RemovedUnmentioned'
  BY <1>a, SameRepo DEF MentionedPacksExist, RemovedUnmentioned, IndexedPacksExist, PacksOf
<1>4. MarksFollowBackups'
  BY <1>a, SameRepo DEF MarksFollowBackups
<1>5. ReplacedPacksStay'
  BY <1>a, SameRepo DEF ReplacedPacksStay, Recent
<1>6. ~stale' => KnownBlobsHeld' /\ SnapshotBlobsHeld'
  BY <1>a, SameRepo DEF KnownBlobsHeld, SnapshotBlobsHeld
<1>7. UsedBlobsIndexed'
  BY <1>a, SameRepo DEF UsedBlobsIndexed
<1> QED BY <1>1, <1>3, <1>4, <1>5, <1>6, <1>7

\* PruneRemoveIndex: what the old index file listed is listed by the plan.
LEMMA PruneRemoveIndexStep ==
    ASSUME IInv, PruneRemoveIndex, TypeOK' PROVE IInv'
<1> USE DEF IInv
<1>0. PICK i \in pr.old :
          /\ index' = [index EXCEPT ![i] = EmptyIndex]
          /\ pr' = [pr EXCEPT !.old = @ \ {i},
                              !.pc = IF pr.old = {i} THEN "rmpacks" ELSE "rmindex"]
  BY DEF PruneRemoveIndex
<1>a. /\ pr.pc = "rmindex" /\ pr'.start = pr.start /\ pr'.pc \in {"rmindex", "rmpacks"}
      /\ pr'.pc = "rmpacks" => pr'.old = {}
      /\ pr'.used = pr.used /\ pr'.copy = pr.copy /\ pr'.newPacks = pr.newPacks
      /\ pr'.newMarks = pr.newMarks /\ pr'.old = pr.old \ {i} /\ pr'.rm = pr.rm
      /\ pr.copy = {} /\ pr.newPacks = {} /\ pr.newMarks = {}
      /\ UNCHANGED <<now, packs, snapshots, bk, stale>>
  BY <1>0 DEF PruneRemoveIndex, TypeOK, PruneState, IdleIsClean
<1>b. /\ NormalIn(IndexId)' \subseteq NormalIn(IndexId)
      /\ MarksIn(IndexId)' \subseteq MarksIn(IndexId)
      /\ NormalIn(IndexId \ pr.old) \subseteq NormalIn(IndexId)'
      /\ MarksIn(IndexId \ pr.old) \subseteq MarksIn(IndexId)'
      /\ NormalIn(IndexId \ pr.old)' = NormalIn(IndexId \ pr.old)
      /\ MarksIn(IndexId \ pr.old)' = MarksIn(IndexId \ pr.old)
      /\ NormalIn(pr.old)' \subseteq NormalIn(pr.old)
  BY <1>0, <1>a, OldIndex
<1>c. PlannedNormal' = PlannedNormal /\ PlannedMarks' = PlannedMarks
  BY <1>a, <1>b DEF PlannedNormal, PlannedMarks
<1>d. PlannedNormal \subseteq NormalIn(IndexId)' /\ PlannedMarks \subseteq MarksIn(IndexId)'
  BY <1>a, <1>b DEF PlannedNormal, PlannedMarks
<1>f. \A p, x : Holds(p, x) => Holds(p, x)'
  BY <1>a, <1>c, <1>d DEF Holds, Listed, PlannedListed
<1>g. \A p, t : StaysSince(p, t) => StaysSince(p, t)'
  BY <1>c, <1>d DEF StaysSince, Recent
<1>1. Deadlines' /\ IdleIsClean'
  BY <1>a DEF Deadlines, IdleIsClean, Running
<1>3. MentionedPacksExist'
  BY <1>a, <1>b DEF MentionedPacksExist, IndexedPacksExist, PacksOf, Stored
<1>4. RemovedUnmentioned'
  BY <1>a, <1>b, <1>c DEF RemovedUnmentioned, PacksOf
<1>5. MarksFollowBackups'
  BY <1>a, <1>b DEF MarksFollowBackups
<1>6. ReplacedPacksStay'
  BY <1>a, <1>b, <1>c DEF ReplacedPacksStay, Recent, PlannedListed
<1>7. ~stale' => KnownBlobsHeld'
  BY <1>a, <1>f, <1>g DEF KnownBlobsHeld
<1>8. ~stale' => SnapshotBlobsHeld'
  BY <1>a, <1>f DEF SnapshotBlobsHeld
<1>9. UsedBlobsIndexed'
  BY <1>a, <1>c DEF UsedBlobsIndexed
<1> QED BY <1>1, <1>3, <1>4, <1>5, <1>6, <1>7, <1>8, <1>9

\* PruneRemovePack: the deleted pack holds nothing anybody counts on.
LEMMA PruneRemovePackStep ==
    ASSUME IInv, PruneRemovePack, TypeOK' PROVE IInv'
<1> USE DEF IInv
<1>0. PICK p \in pr.rm :
          /\ packs' = [packs EXCEPT ![p] = {}]
          /\ pr' = [pr EXCEPT !.rm = @ \ {p}]
  BY DEF PruneRemovePack
<1>a. /\ pr.pc = "rmpacks" /\ pr'.pc = "rmpacks" /\ pr'.start = pr.start
      /\ pr'.used = pr.used /\ pr'.copy = pr.copy /\ pr'.newPacks = pr.newPacks
      /\ pr'.newMarks = pr.newMarks /\ pr'.old = pr.old /\ pr'.rm = pr.rm \ {p}
      /\ pr.copy = {} /\ pr.newPacks = {} /\ pr.newMarks = {} /\ pr.old = {}
      /\ \A q \in PackId \ {p} : packs'[q] = packs[q]
      /\ UNCHANGED <<now, index, snapshots, bk, stale>>
  BY <1>0 DEF PruneRemovePack, TypeOK, PruneState, IdleIsClean
<1>b. /\ \A ids : NormalIn(ids)' = NormalIn(ids) /\ MarksIn(ids)' = MarksIn(ids)
      /\ NormalIn(pr.old)' = NormalIn(pr.old)
      /\ PlannedNormal' = PlannedNormal /\ PlannedMarks' = PlannedMarks
      /\ \A q : Listed(q)' <=> Listed(q)
      /\ \A q : PlannedListed(q)' <=> PlannedListed(q)
      /\ \A q, t : StaysSince(q, t) => StaysSince(q, t)'
  BY <1>a, SamePlan
<1>c. PlannedMarks = MarksIn(IndexId) /\ PlannedNormal = NormalIn(IndexId)
  <2>1. IndexId \ pr.old = IndexId
    BY <1>a
  <2> QED BY <1>a, <2>1 DEF PlannedMarks, PlannedNormal
<1>d. Stored' = Stored \ {p}
  BY <1>0, <1>a DEF Stored, TypeOK, PruneState
<1>e. \A q \in PackId : \A x : Holds(q, x) => Holds(q, x)'
  BY <1>a, <1>b DEF Holds
<1>1. Deadlines' /\ IdleIsClean'
  BY <1>a DEF Deadlines, IdleIsClean, Running
<1>3. MentionedPacksExist'
  BY <1>a, <1>b, <1>c, <1>d DEF MentionedPacksExist, IndexedPacksExist, RemovedUnmentioned, PacksOf
<1>4. RemovedUnmentioned'
  BY <1>a, <1>b DEF RemovedUnmentioned, PacksOf
<1>5. MarksFollowBackups'
  BY <1>a, <1>b DEF MarksFollowBackups
<1>6. ReplacedPacksStay'
  BY <1>a, <1>b DEF ReplacedPacksStay, Recent
<1>7. ~stale' => KnownBlobsHeld'
  BY <1>a, <1>b, <1>e DEF KnownBlobsHeld
<1>8. ~stale' => SnapshotBlobsHeld'
  BY <1>a, <1>e DEF SnapshotBlobsHeld
<1>9. UsedBlobsIndexed'
  <2>1. PlannedNormal \subseteq PackId
    BY <1>c DEF MentionedPacksExist, IndexedPacksExist, Stored
  <2> QED BY <1>a, <1>b, <2>1 DEF UsedBlobsIndexed
<1> QED BY <1>1, <1>3, <1>4, <1>5, <1>6, <1>7, <1>8, <1>9

\* prune ends, for whatever reason and at whatever point.
LEMMA PruneEndStep ==
    ASSUME IInv, TypeOK', pr' = IdlePrune, stale => stale',
           UNCHANGED <<now, packs, index, snapshots, bk>>
    PROVE IInv'
<1> USE DEF IInv
<1>a. /\ pr'.pc = "idle" /\ pr'.copy = {} /\ pr'.from = {} /\ pr'.newPacks = {}
      /\ pr'.newMarks = {} /\ pr'.old = {} /\ pr'.rm = {}
  BY DEF IdlePrune
<1>b. /\ NormalIn(IndexId)' = NormalIn(IndexId) /\ MarksIn(IndexId)' = MarksIn(IndexId)
      /\ NormalIn(pr.old)' = {}
      /\ PlannedNormal' = NormalIn(IndexId) /\ PlannedMarks' = MarksIn(IndexId)
  BY <1>a DEF PlannedNormal, PlannedMarks, NormalIn, MarksIn
<1>c. Stored' = Stored
  BY DEF Stored
<1>d. \A p, x : Holds(p, x) => Holds(p, x)'
  BY <1>a, <1>b DEF Holds, Listed, PlannedListed
<1>e. \A p, t : StaysSince(p, t) => StaysSince(p, t)'
  BY <1>a, <1>b DEF StaysSince, Recent
<1>1. Deadlines' /\ IdleIsClean'
  BY <1>a DEF Deadlines, IdleIsClean, Running
<1>3. MentionedPacksExist' /\ RemovedUnmentioned'
  BY <1>a, <1>b, <1>c DEF MentionedPacksExist, RemovedUnmentioned, IndexedPacksExist, PacksOf
<1>4. MarksFollowBackups'
  BY <1>a, <1>b DEF MarksFollowBackups
<1>5. ReplacedPacksStay'
  BY <1>b DEF ReplacedPacksStay
<1>6. ~stale' => KnownBlobsHeld' /\ SnapshotBlobsHeld'
  BY <1>a, <1>d, <1>e DEF KnownBlobsHeld, SnapshotBlobsHeld
<1>7. UsedBlobsIndexed'
  BY <1>a DEF UsedBlobsIndexed
<1> QED BY <1>1, <1>3, <1>4, <1>5, <1>6, <1>7

\* PruneDecide: the step where the delay matters.  A pack is only deleted if
\* its mark is older than any backup that could still know the pack.
LEMMA PruneDecideStep ==
    ASSUME IInv, SafeDelay, PruneDecide, TypeOK' PROVE IInv'
<1> USE DEF IInv
<1>0. PICK c \in MarkChoices, keep \in SUBSET PlanNormal, repack \in SUBSET PlanNormal,
           recover \in SUBSET PlanMarked :
          LET plan == PlanOf(c, keep, repack, recover)
          IN /\ PlanOK(PlanNormal, PlanMarked, SeenBlobs(c), pr.used, Expired(c), plan)
             /\ keep \cup repack \cup recover \subseteq Stored
             /\ \E old \in OldIndexes(plan, c) : pr' = Work(plan, c, old)
             /\ stale' = (stale \/ StaleChoice(c))
  BY DEF PruneDecide
<1> DEFINE plan == PlanOf(c, keep, repack, recover)
           markDelete == PlanNormal \ (keep \cup repack)
           keepMarked == PlanMarked \ (recover \cup Expired(c))
           delete == Expired(c) \ recover
           added == NormalIn(IndexId \ pr.read)
<1>1. PICK old \in OldIndexes(plan, c) : pr' = Work(plan, c, old)
  BY <1>0
<1>a. /\ plan.keep = keep /\ plan.repack = repack /\ plan.markDelete = markDelete
      /\ plan.recover = recover /\ plan.delete = delete /\ plan.keepMarked = keepMarked
  BY DEF PlanOf
<1>b. /\ pr.pc = "used" /\ UNCHANGED <<now, packs, index, snapshots, bk>>
      /\ stale' = (stale \/ StaleChoice(c))
      /\ pr.copy = {} /\ pr.from = {} /\ pr.newPacks = {} /\ pr.newMarks = {}
      /\ pr.old = {} /\ pr.rm = {}
  BY <1>0 DEF PruneDecide, IdleIsClean
<1>2. CASE old = {}
  BY <1>1, <1>2, <1>b, PruneEndStep DEF Work
<1>3. CASE old # {}
  <2> HIDE DEF plan, markDelete, keepMarked, delete, added
  <2>1. /\ pr'.pc = "write" /\ pr'.start = pr.start /\ pr'.used = pr.used
        /\ pr'.copy = (pr.used \cap BlobsIn(repack, packs)) \ BlobsIn(keep \cup recover, packs)
        /\ pr'.newPacks = (keep \ NormalIn(pr.read \ old)) \cup recover
        /\ pr'.newMarks = MarkNow(repack \cup markDelete, TRUE) \cup MarkNow(Unreferenced, FALSE)
                           \cup ({c[p] : p \in keepMarked} \ MarksIn(pr.read \ old))
        /\ pr'.old = old /\ pr'.rm = delete
    BY <1>1, <1>3, <1>a DEF Work
  \* the plan
  <2>2. /\ keep \subseteq PlanNormal /\ repack \subseteq PlanNormal /\ recover \subseteq PlanMarked
        /\ markDelete \subseteq PlanNormal
        /\ keep \cap repack = {} /\ markDelete \cap (keep \cup repack) = {}
        /\ PlanNormal = keep \cup repack \cup markDelete
        /\ PlanMarked = recover \cup delete \cup keepMarked
        /\ delete \cap (recover \cup keepMarked) = {} /\ recover \cap keepMarked = {}
        /\ delete \subseteq Expired(c) /\ PlanMarked \cap Expired(c) \subseteq delete \cup recover
    <3>1. keep \cap repack = {}
      BY <1>0, <1>a DEF PlanOK, PlanDecidesAll, plan
    <3> QED BY <3>1 DEF markDelete, keepMarked, delete, Expired
  <2>3. /\ PlanNormal \cap PlanMarked = {}
        /\ PlanNormal = NormalIn(pr.read)
        /\ pr.read \subseteq IndexId /\ old \subseteq pr.read
        /\ NormalIn(IndexId) = PlanNormal \cup added
    BY InDefs DEF PlanNormal, PlanMarked, OldIndexes, TypeOK, PruneState, added
  <2>4. \A p \in PlanMarked : /\ c[p] \in MarksIn(pr.read) /\ c[p].pack = p
                              /\ c[p].time \in Int /\ c[p].full \in BOOLEAN
    BY <2>3 DEF MarkChoices, MarksIn, TypeOK, IndexFile, Mark, Time
  <2>5. /\ MarksIn(IndexId) = MarksIn(pr.read)
        /\ MarksIn(IndexId \ old) = MarksIn(pr.read \ old)
    <3>1. \A i \in IndexId \ pr.read : index[i].marked = {}
      BY <1>b DEF MarksFollowBackups
    <3>2. MarksIn(IndexId) = MarksIn(pr.read)
      BY <2>3, <3>1 DEF MarksIn
    <3>3. MarksIn(IndexId \ old) = MarksIn(pr.read \ old)
      BY <2>3, <3>1 DEF MarksIn
    <3> QED BY <3>2, <3>3
  <2>6. \A i \in pr.read \ old : /\ index[i].packs \subseteq keep
                                 /\ \A m \in index[i].marked : m.pack \in keepMarked /\ c[m.pack] = m
    BY <1>a DEF OldIndexes, Unmodified
  <2>7. NormalIn(pr.read \ old) \subseteq keep
    BY <2>6, InDefs
  <2>8. MarksIn(pr.read \ old) \subseteq {c[p] : p \in keepMarked}
    BY <2>6, InDefs
  <2>9. NormalIn(IndexId \ old) = NormalIn(pr.read \ old) \cup added
    BY <2>3, InDefs DEF added
  <2>10. PlannedNormal' = keep \cup recover \cup added
    BY <1>b, <2>1, <2>7, <2>9 DEF PlannedNormal, NormalIn
  <2>11. PlannedMarks' = MarkNow(repack \cup markDelete, TRUE) \cup MarkNow(Unreferenced, FALSE)
                           \cup {c[p] : p \in keepMarked}
    <3>1. MarksIn(IndexId \ pr.old)' = MarksIn(pr.read \ old)
      BY <1>b, <2>1, <2>5 DEF MarksIn
    <3> QED BY <2>1, <2>8, <3>1 DEF PlannedMarks
  \* marks by pack
  <2>a. ASSUME NEW m \in PlannedMarks'
        PROVE  \/ m.pack \in repack \cup markDelete /\ m.full = TRUE /\ m.time = now
               \/ m.pack \in Unreferenced /\ m.full = FALSE /\ m.time = now
               \/ m.pack \in keepMarked /\ m = c[m.pack]
    <3>1. CASE m \in MarkNow(repack \cup markDelete, TRUE)
      BY <3>1 DEF MarkNow
    <3>2. CASE m \in MarkNow(Unreferenced, FALSE)
      BY <3>2 DEF MarkNow
    <3>3. CASE m \in {c[p] : p \in keepMarked}
      BY <2>2, <2>4, <3>3
    <3> QED BY <2>a, <2>11, <3>1, <3>2, <3>3
  <2>b. /\ Unreferenced \cap (PlanNormal \cup PlanMarked) = {}
        /\ keepMarked \cap (repack \cup markDelete) = {}
        /\ keepMarked \cap Unreferenced = {}
        /\ (repack \cup markDelete) \cap Unreferenced = {}
    <3>1. Unreferenced \cap (PlanNormal \cup PlanMarked) = {}
      BY DEF Unreferenced
    <3> QED BY <2>2, <2>3, <3>1
  <2>12. \A p \in repack \cup markDelete, m \in PlannedMarks' : m.pack = p => m.full /\ m.time = now
    BY <2>a, <2>b
  <2>13. \A p \in repack \cup markDelete : \E m \in PlannedMarks' : m.pack = p /\ m.full
    <3>1. ASSUME NEW p \in repack \cup markDelete
          PROVE  [pack |-> p, full |-> TRUE, time |-> now] \in PlannedMarks'
      BY <2>11 DEF MarkNow
    <3> QED BY <3>1
  <2>14. \A p \in keepMarked, m \in PlannedMarks' : m.pack = p => m = c[p]
    BY <2>a, <2>b
  <2>15. \A p \in keepMarked : c[p] \in PlannedMarks'
    BY <2>11
  \* when marks expire
  <2>16. \A p \in Expired(c) : p \in PlanMarked /\ now - KeepDelete >= c[p].time
    BY DEF Expired
  <2>17. /\ now \in Int /\ pr.start \in Int /\ \A b \in Backup : bk[b].start \in Int
         /\ pr.start <= now /\ now <= pr.start + MaxPrune
         /\ KeepDelete \in Int /\ MaxBackup \in Nat /\ MaxPrune \in Nat
         /\ KeepDelete > MaxBackup + 2 * MaxPrune
    BY <1>b, TimeAssumption DEF TypeOK, PruneState, BackupState, Time, Deadlines, SafeDelay
  <2>18. \A b \in Backup : delete \cap bk[b].pend = {}
    <3>1. SUFFICES ASSUME NEW b \in Backup, NEW p \in delete, p \in bk[b].pend PROVE FALSE
      OBVIOUS
    <3>2. Running(b)
      BY <3>1 DEF IdleIsClean
    <3>3. bk[b].start <= c[p].time
      BY <2>2, <2>4, <2>5, <3>1 DEF MarksFollowBackups
    <3>4. now <= bk[b].start + MaxBackup
      BY <3>2 DEF Deadlines
    <3>5. p \in PlanMarked /\ now - KeepDelete >= c[p].time
      BY <2>2, <2>16
    <3> QED BY <2>4, <2>17, <3>3, <3>4, <3>5
  <2>19. delete \cap NormalIn(IndexId) = {}
    <3>1. SUFFICES ASSUME NEW p \in delete, p \in NormalIn(IndexId) PROVE FALSE
      OBVIOUS
    <3>2. p \in PlanMarked /\ now - KeepDelete >= c[p].time
      BY <2>2, <2>16
    <3>3. pr.start <= c[p].time + MaxBackup
      BY <1>b, <2>3, <2>4, <2>5, <3>1, <3>2 DEF MarksFollowBackups
    <3> QED BY <2>4, <2>17, <3>2, <3>3
  \* what a plan by the newest marks does to a pack that holds a blob
  <2>20. ASSUME ~stale', NEW p \in PackId, NEW x, NEW t \in Int, Holds(p, x), StaysSince(p, t),
                t <= now, now - KeepDelete < t
         PROVE  Holds(p, x)' /\ StaysSince(p, t)'
    <3>1. PlannedNormal = NormalIn(IndexId) /\ PlannedMarks = MarksIn(IndexId)
      <4>1. IndexId \ pr.old = IndexId
        BY <1>b
      <4> QED BY <1>b, <4>1 DEF PlannedNormal, PlannedMarks
    <3>2. NormalIn(IndexId)' = NormalIn(IndexId) /\ MarksIn(IndexId)' = MarksIn(IndexId)
      BY <1>b, SameIndex
    <3>3. CASE p \in keep \cup added
      <4>1. p \in NormalIn(IndexId) /\ p \notin delete /\ p \in PlannedNormal'
        BY <2>2, <2>3, <2>10, <2>19, <3>3
      <4> QED BY <1>b, <2>1, <2>20, <3>2, <4>1 DEF Holds, Listed, PlannedListed, StaysSince
    <3>4. CASE p \in repack \cup markDelete
      <4>1. p \in NormalIn(IndexId) /\ p \notin delete
        BY <2>2, <2>3, <2>19, <3>4
      <4>2. Recent(p, PlannedMarks', t)
        BY <2>12, <2>13, <2>17, <2>20, <3>4 DEF Recent
      <4> QED BY <1>b, <2>1, <2>13, <2>20, <3>2, <3>4, <4>1, <4>2
              DEF Holds, Listed, PlannedListed, StaysSince, Recent
    <3>5. CASE p \notin NormalIn(IndexId)
      <4>1. PICK m \in MarksIn(IndexId) : m.pack = p
        BY <2>20, <3>5 DEF Holds, Listed
      <4>2. p \in PlanMarked
        BY <2>3, <2>5, <3>5, <4>1, InDefs DEF PlanMarked
      <4>3. c[p].full /\ c[p].time >= t
        <5>1. PICK k \in MarksIn(pr.read) : k.pack = p /\ k.full /\ k.time >= t
          BY <2>5, <2>20, <3>5 DEF StaysSince, Recent
        <5>2. ~(k.time > c[p].time) /\ c[p].full
          BY <1>b, <2>20, <4>2, <5>1 DEF StaleChoice
        <5>3. k.time \in Int
          BY <2>3 DEF MarksIn, TypeOK, IndexFile, Mark, Time
        <5> QED BY <2>4, <2>20, <4>2, <5>1, <5>2, <5>3
      <4>4. p \in recover \cup keepMarked /\ p \notin delete
        BY <2>2, <2>4, <2>16, <2>17, <2>20, <4>2, <4>3
      <4>5. CASE p \in recover
        BY <1>b, <2>1, <2>10, <2>20, <3>1, <3>2, <4>4, <4>5 DEF Holds, Listed, PlannedListed, StaysSince, Recent
      <4>6. CASE p \in keepMarked
        <5>1. Recent(p, PlannedMarks', t) /\ PlannedListed(p)'
          BY <2>4, <2>14, <2>15, <4>2, <4>3, <4>6 DEF Recent, PlannedListed
        <5> QED BY <1>b, <2>1, <2>20, <3>1, <3>2, <4>4, <5>1 DEF Holds, Listed, StaysSince, Recent
      <4> QED BY <4>4, <4>5, <4>6
    <3> QED BY <2>2, <2>3, <3>3, <3>4, <3>5
  \* what it does to a used blob
  <2>21. ASSUME NEW x \in pr.used
         PROVE  \E p \in keep \cup repack \cup recover :
                   /\ x \in packs[p]
                   /\ p \in recover => c[p].full
    <3>1. PICK p \in keep \cup repack \cup recover : x \in SeenBlobs(c)[p]
      BY <1>0, <1>a, <2>21, InDefs DEF PlanOK, PlanCovers, plan
    <3>2. p \in PlanNormal \cup PlanMarked /\ (p \in recover => p \notin PlanNormal)
      BY <2>2, <2>3
    <3> QED BY <3>1, <3>2 DEF SeenBlobs
  \* the conjuncts
  <2>22. Deadlines' /\ IdleIsClean'
    BY <1>b, <2>1 DEF Deadlines, IdleIsClean, Running
  <2>23. MentionedPacksExist'
    <3>1. Stored' = Stored /\ IndexedPacksExist'
      BY <1>b, SameIndex DEF Stored, MentionedPacksExist, IndexedPacksExist, PacksOf
    <3>2. PlanNormal \cup PlanMarked \cup Unreferenced \subseteq Stored
      BY <2>3, <2>5 DEF MentionedPacksExist, IndexedPacksExist, PlanMarked, Unreferenced
    <3>3. \A m \in pr'.newMarks : m.pack \in PlanNormal \cup PlanMarked \cup Unreferenced
      BY <2>1, <2>2, <2>a DEF PlannedMarks
    <3>4. PacksOf(pr'.newMarks) \subseteq Stored
      BY <3>2, <3>3, InDefs
    <3>5. pr'.newPacks \cup pr'.rm \subseteq Stored
      BY <2>1, <2>2, <3>2
    <3> QED BY <1>b, <3>1, <3>4, <3>5 DEF MentionedPacksExist, PacksOf
  <2>24. RemovedUnmentioned'
    <3>1. NormalIn(IndexId)' = NormalIn(IndexId)
      BY <1>b, SameIndex
    <3>2. delete \cap PlannedNormal' = {}
      BY <2>2, <2>3, <2>10, <2>19
    <3>3. \A m \in PlannedMarks' : m.pack \notin delete
      BY <2>2, <2>3, <2>a, <2>b
    <3>4. \A m \in pr'.newMarks : m \in PlannedMarks'
      BY DEF PlannedMarks
    <3>5. \A m \in pr'.newMarks : m.pack \notin pr'.newPacks
      BY <2>1, <2>2, <2>3, <2>a, <2>b, <3>4
    <3>6. delete \cap PacksOf(PlannedMarks') = {} /\ pr'.newPacks \cap PacksOf(pr'.newMarks) = {}
      BY <3>3, <3>5, InDefs
    <3> QED BY <1>b, <2>1, <2>18, <2>19, <3>1, <3>2, <3>6 DEF RemovedUnmentioned, PacksOf
  <2>25. MarksFollowBackups'
    <3>1. ASSUME NEW b \in Backup, NEW m \in pr'.newMarks, m.pack \in bk[b].pend
          PROVE  bk[b].start <= m.time
      <4>1. bk[b].start <= now
        BY <3>1 DEF IdleIsClean, Deadlines
      <4>2. m \in PlannedMarks'
        BY DEF PlannedMarks
      <4>3. m.time = now \/ m \in MarksIn(IndexId)
        <5>1. \A p \in keepMarked : c[p] \in MarksIn(IndexId)
          BY <2>2, <2>4, <2>5
        <5> QED BY <2>a, <4>2, <5>1
      <4> QED BY <3>1, <4>1, <4>3 DEF MarksFollowBackups
    <3>2. MarksIn(IndexId)' = MarksIn(IndexId)
      BY <1>b, SameIndex
    <3> QED BY <1>b, <2>1, <3>1, <3>2 DEF MarksFollowBackups
  <2>26. ReplacedPacksStay'
    <3>1. SUFFICES ASSUME NEW p \in NormalIn(pr.old)'
                   PROVE  PlannedListed(p)' /\ (p \in PlannedNormal' \/ Recent(p, PlannedMarks', pr.start))
      BY <2>1 DEF ReplacedPacksStay, Recent
    <3>2. p \in PlanNormal
      BY <1>b, <2>1, <2>3, <3>1 DEF NormalIn
    <3>3. CASE p \in keep
      BY <2>10, <3>3 DEF PlannedListed
    <3>4. CASE p \in repack \cup markDelete
      BY <2>12, <2>13, <2>17, <3>4 DEF PlannedListed, Recent
    <3> QED BY <2>2, <3>2, <3>3, <3>4
  <2>27. ASSUME ~stale' PROVE KnownBlobsHeld'
    <3>1. SUFFICES ASSUME NEW b \in Backup, NEW x \in bk[b].known
                   PROVE  \E p \in PackId : Holds(p, x)' /\ StaysSince(p, bk[b].start - MaxPrune)'
      BY <1>b DEF KnownBlobsHeld
    <3>2. bk[b].start <= now /\ now <= bk[b].start + MaxBackup
      BY <3>1 DEF IdleIsClean, Deadlines
    <3>3. PICK t \in Int : t = bk[b].start - MaxPrune
      BY <2>17
    <3>4. t <= now /\ now - KeepDelete < t
      BY <2>17, <3>2, <3>3
    <3>5. PICK p \in PackId : Holds(p, x) /\ StaysSince(p, t)
      BY <1>b, <2>27, <3>1, <3>3 DEF KnownBlobsHeld
    <3>6. Holds(p, x)' /\ StaysSince(p, t)'
      BY <2>20, <2>27, <3>4, <3>5
    <3>7. StaysSince(p, bk[b].start - MaxPrune)'
      BY <1>b, <3>3, <3>6 DEF StaysSince, Recent
    <3> QED BY <3>6, <3>7
  <2>28. ASSUME ~stale' PROVE SnapshotBlobsHeld'
    <3>1. SUFFICES ASSUME NEW s \in snapshots, NEW x \in s
                   PROVE  \E p \in PackId : Holds(p, x)'
      BY <1>b, <2>1 DEF SnapshotBlobsHeld
    <3>2. CASE x \in pr.used
      <4>1. PICK p \in keep \cup repack \cup recover :
               x \in packs[p] /\ (p \in recover => c[p].full)
        BY <2>21, <3>2
      <4>2. p \in PackId /\ p \notin delete
        BY <1>0, <2>2, <2>3 DEF Stored
      <4>3. Listed(p)'
        <5>1. p \in NormalIn(IndexId) \/ \E m \in MarksIn(IndexId) : m.pack = p /\ m.full
          BY <2>2, <2>3, <2>4, <2>5, <4>1
        <5> QED BY <1>b, <5>1, SameIndex DEF Listed
      <4>4. PlannedListed(p)'
        BY <2>10, <2>13, <4>1 DEF PlannedListed
      <4> QED BY <1>b, <2>1, <4>1, <4>2, <4>3, <4>4 DEF Holds
    <3>3. CASE x \notin pr.used
      <4>1. PICK p \in PackId : Holds(p, x) /\ StaysSince(p, pr.start - MaxPrune - MaxBackup)
        BY <1>b, <2>28, <3>1, <3>3 DEF SnapshotBlobsHeld
      <4>2. /\ pr.start - MaxPrune - MaxBackup \in Int /\ pr.start - MaxPrune - MaxBackup <= now
            /\ now - KeepDelete < pr.start - MaxPrune - MaxBackup
        BY <2>17
      <4> QED BY <2>20, <2>28, <4>1, <4>2
    <3> QED BY <3>2, <3>3
  <2>29. UsedBlobsIndexed'
    <3>1. SUFFICES ASSUME NEW x \in pr.used, x \notin pr'.copy
                   PROVE  \E p \in keep \cup recover : x \in packs[p]
      BY <1>b, <2>1, <2>2, <2>3, <2>10 DEF UsedBlobsIndexed
    <3>2. PICK p \in keep \cup repack \cup recover : x \in packs[p]
      BY <2>21
    <3> QED BY <2>1, <3>1, <3>2, InDefs
  <2> QED BY <2>22, <2>23, <2>24, <2>25, <2>26, <2>27, <2>28, <2>29
<1> QED BY <1>2, <1>3

-----------------------------------------------------------------------------
(* Safety                                                                  *)

\* The empty repository satisfies the invariant.
LEMMA InvInit == Init => IInv
<1> SUFFICES ASSUME Init PROVE IInv
  OBVIOUS
<1>1. TypeOK
  BY TypeInit
<1>2. /\ pr.pc = "idle" /\ pr.copy = {} /\ pr.from = {} /\ pr.newPacks = {} /\ pr.newMarks = {}
      /\ pr.old = {} /\ pr.rm = {} /\ snapshots = {}
      /\ \A b \in Backup : bk[b].pc = "idle" /\ bk[b].known = {} /\ bk[b].pend = {}
      /\ \A i \in IndexId : index[i].packs = {} /\ index[i].marked = {}
  BY DEF Init, IdlePrune, IdleBackup, EmptyIndex
<1>3. NormalIn(IndexId) = {} /\ MarksIn(IndexId) = {} /\ PacksOf({}) = {} /\ NormalIn({}) = {}
  BY <1>2 DEF NormalIn, MarksIn, PacksOf
<1>4. PlannedNormal = {} /\ PlannedMarks = {}
  BY <1>2, <1>3 DEF PlannedNormal, PlannedMarks, NormalIn, MarksIn
<1>5. Deadlines /\ IdleIsClean
  BY <1>2 DEF Deadlines, IdleIsClean, Running
<1>6. MentionedPacksExist /\ RemovedUnmentioned
  BY <1>2, <1>3, <1>4 DEF MentionedPacksExist, RemovedUnmentioned, IndexedPacksExist
<1>7. MarksFollowBackups /\ ReplacedPacksStay
  BY <1>2, <1>3 DEF MarksFollowBackups, ReplacedPacksStay
<1>8. KnownBlobsHeld /\ SnapshotBlobsHeld /\ UsedBlobsIndexed
  BY <1>2 DEF KnownBlobsHeld, SnapshotBlobsHeld, UsedBlobsIndexed
<1> QED BY <1>1, <1>5, <1>6, <1>7, <1>8 DEF IInv

\* A stuttering step changes nothing the invariant looks at.
LEMMA StutterStep ==
    ASSUME IInv, UNCHANGED vars, TypeOK' PROVE IInv'
<1> USE DEF IInv
<1>a. UNCHANGED <<now, packs, index, snapshots, bk, pr, stale>>
  BY DEF vars
<1>1. Deadlines' /\ IdleIsClean'
  BY <1>a DEF Deadlines, IdleIsClean, Running
<1>2. MentionedPacksExist' /\ RemovedUnmentioned'
  BY <1>a, SameRepo DEF MentionedPacksExist, RemovedUnmentioned, IndexedPacksExist, PacksOf
<1>3. MarksFollowBackups'
  BY <1>a, SameRepo DEF MarksFollowBackups
<1>4. ReplacedPacksStay'
  BY <1>a, SameRepo DEF ReplacedPacksStay, Recent
<1>5. ~stale' => KnownBlobsHeld' /\ SnapshotBlobsHeld'
  BY <1>a, SameRepo DEF KnownBlobsHeld, SnapshotBlobsHeld
<1>6. UsedBlobsIndexed'
  BY <1>a, SameRepo DEF UsedBlobsIndexed
<1> QED BY <1>1, <1>2, <1>3, <1>4, <1>5, <1>6

\* The invariant holds of every run in which keep_delete exceeds the duration of
\* a backup plus that of two prunes, wherever backups and prunes stop.
THEOREM Invariance ==
    ASSUME SafeDelay
    PROVE  Spec => []IInv
<1>1. Init => IInv
  BY InvInit
<1>2. IInv /\ [Next]_vars => IInv'
  <2> SUFFICES ASSUME IInv, [Next]_vars PROVE IInv'
    OBVIOUS
  <2>0. TypeOK'
    BY TypeNext DEF IInv
  <2>1. CASE Tick
    BY <2>0, <2>1, TickStep
  <2>2. CASE Forget
    BY <2>0, <2>2, ForgetStep
  <2>3. ASSUME NEW b \in Backup, BackupNext(b) PROVE IInv'
    BY <2>0, <2>3, BackupLoadStep, BackupWritePackStep, BackupWriteIndexStep, BackupSaveStep,
       BackupAbortStep DEF BackupNext
  <2>4. CASE PruneNext
    <3>1. CASE PruneDone
      BY <2>0, <3>1, PruneEndStep DEF PruneDone
    <3>2. CASE PruneAbort
      BY <2>0, <3>2, PruneEndStep DEF PruneAbort
    <3> QED BY <2>0, <2>4, <3>1, <3>2, PruneReadIndexStep, PruneFindUsedStep, PruneDecideStep,
               PruneWritePackStep, PruneWriteIndexStep, PruneWrittenStep, PruneRemoveIndexStep,
               PruneRemovePackStep DEF PruneNext
  <2>5. CASE UNCHANGED vars
    BY <2>0, <2>5, StutterStep
  <2> QED BY <2>1, <2>2, <2>3, <2>4, <2>5 DEF Next
<1> QED BY <1>1, <1>2, PTL DEF Spec

\* A pack that holds a blob makes it available.
LEMMA HeldIsAvailable ==
    ASSUME NEW p \in PackId, NEW x, Holds(p, x)
    PROVE  Available(x)
BY DEF Holds, Available, Stored

\* Two-phase deletion is safe: no run of any number of concurrent backups, of
\* forget and of prune loses a blob of a snapshot (prune_repository, Archiver), as
\* long as no prune goes by a stale mark; wherever the processes stop.
THEOREM SnapshotsAreSafe ==
    ASSUME SafeDelay
    PROVE  Spec => []SnapshotsRecoverable
<1>1. IInv => SnapshotsRecoverable
  BY HeldIsAvailable DEF IInv, SnapshotBlobsHeld, SnapshotsRecoverable
<1> QED BY <1>1, Invariance, PTL

\* What a running backup deduplicates against stays available until it ends, as
\* long as no prune goes by a stale mark.
THEOREM BackupsAreSafe ==
    ASSUME SafeDelay
    PROVE  Spec => []KnownBlobsAvailable
<1>1. IInv => KnownBlobsAvailable
  BY HeldIsAvailable DEF IInv, KnownBlobsHeld, KnownBlobsAvailable
<1> QED BY <1>1, Invariance, PTL

\* No index file ever refers to a pack that does not exist, marked or not.
THEOREM IndexIsSound ==
    ASSUME SafeDelay
    PROVE  Spec => []IndexedPacksExist
<1>1. IInv => IndexedPacksExist
  BY DEF IInv, MentionedPacksExist
<1> QED BY <1>1, Invariance, PTL

\* When prune starts deleting packs, every blob it found in use can be loaded
\* from the index, whatever was repacked, recovered or rebuilt before.
THEOREM PruneIsComplete ==
    ASSUME SafeDelay
    PROVE  Spec => []PruneRestoresUsed
<1>1. IInv => PruneRestoresUsed
  <2> SUFFICES ASSUME IInv, pr.pc = "rmpacks", NEW x \in pr.used PROVE x \in LoadedBlobs
    BY DEF PruneRestoresUsed
  <2>1. pr.old = {} /\ pr.copy = {} /\ pr.newPacks = {}
    BY DEF IInv, IdleIsClean
  <2>2. PICK p \in PlannedNormal : x \in packs[p]
    BY <2>1 DEF IInv, UsedBlobsIndexed
  <2>3. p \in NormalIn(IndexId)
    BY <2>1, <2>2, InDefs DEF PlannedNormal
  <2> QED BY <2>2, <2>3, InDefs DEF LoadedBlobs
<1> QED BY <1>1, Invariance, PTL

\* The packs prune deletes are in no index file and pending in no backup.
THEOREM DeletionIsSafe ==
    ASSUME SafeDelay
    PROVE  Spec => []DeletedPacksUnreferenced
<1>1. IInv => DeletedPacksUnreferenced
  <2> SUFFICES ASSUME IInv, pr.pc = "rmpacks"
               PROVE  /\ pr.rm \cap (NormalIn(IndexId) \cup PacksOf(MarksIn(IndexId))) = {}
                      /\ \A b \in Backup : pr.rm \cap bk[b].pend = {}
    BY DEF DeletedPacksUnreferenced
  <2>1. pr.old = {}
    BY DEF IInv, IdleIsClean
  <2>2. MarksIn(IndexId) \subseteq PlannedMarks
    BY <2>1, InDefs DEF PlannedMarks
  <2>3. PacksOf(MarksIn(IndexId)) \subseteq PacksOf(PlannedMarks)
    BY <2>2, InDefs
  <2> QED BY <2>3 DEF IInv, RemovedUnmentioned
<1> QED BY <1>1, Invariance, PTL

=============================================================================
