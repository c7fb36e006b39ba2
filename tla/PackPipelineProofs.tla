------------------------- MODULE PackPipelineProofs -------------------------
(***************************************************************************)
(* Proofs about PackPipeline.                                              *)
(***************************************************************************)
EXTENDS PackPipeline, TLAPS

-----------------------------------------------------------------------------
(***************************************************************************)
(* Channels                                                                *)
(***************************************************************************)

\* Sending adds an element to those in a channel.
LEMMA SetOfAppend ==
  ASSUME NEW S, NEW s \in Seq(S), NEW x \in S
  PROVE  /\ Append(s, x) \in Seq(S)
         /\ ToSet(Append(s, x)) = ToSet(s) \cup {x}
<1>1. Append(s, x) \in Seq(S) /\ DOMAIN Append(s, x) = 1 .. Len(s) + 1
  OBVIOUS
<1>2. \A i \in 1 .. Len(s) : Append(s, x)[i] = s[i]
  OBVIOUS
<1>3. Append(s, x)[Len(s) + 1] = x
  OBVIOUS
<1>4. DOMAIN s = 1 .. Len(s) /\ Len(s) \in Nat
  OBVIOUS
<1>. QED  BY <1>1, <1>2, <1>3, <1>4 DEF ToSet

\* Receiving takes the head and leaves the others.
LEMMA SetOfTail ==
  ASSUME NEW S, NEW s \in Seq(S), s # <<>>
  PROVE  /\ Head(s) \in S /\ Tail(s) \in Seq(S)
         /\ ToSet(s) = {Head(s)} \cup ToSet(Tail(s))
<1>1. Head(s) \in S /\ Tail(s) \in Seq(S) /\ Head(s) = s[1]
  OBVIOUS
<1>2. /\ Len(s) \in Nat \ {0} /\ DOMAIN s = 1 .. Len(s)
      /\ DOMAIN Tail(s) = 1 .. Len(s) - 1
  OBVIOUS
<1>3. \A i \in 1 .. Len(s) - 1 : Tail(s)[i] = s[i + 1]
  OBVIOUS
<1>4. ASSUME NEW i \in 1 .. Len(s)  PROVE i = 1 \/ (i - 1 \in 1 .. Len(s) - 1 /\ Tail(s)[i - 1] = s[i])
  BY <1>2, <1>3
<1>5. ToSet(s) \subseteq {Head(s)} \cup ToSet(Tail(s))
  <2>1. \A i \in 1 .. Len(s) : s[i] \in {Head(s)} \cup {Tail(s)[j] : j \in 1 .. Len(s) - 1}
    BY <1>1, <1>4
  <2>. QED  BY <1>2, <2>1 DEF ToSet
<1>6. {Head(s)} \cup ToSet(Tail(s)) \subseteq ToSet(s)
  <2>1. \A i \in 1 .. Len(s) - 1 : i + 1 \in 1 .. Len(s)
    BY <1>2
  <2>. QED  BY <1>1, <1>2, <1>3, <2>1 DEF ToSet
<1>. QED  BY <1>1, <1>5, <1>6

\* An empty channel has nothing in it.
LEMMA SetOfEmpty == ToSet(<<>>) = {}
BY DEF ToSet

-----------------------------------------------------------------------------
(***************************************************************************)
(* Type correctness                                                        *)
(***************************************************************************)
LEMMA IdleTypes ==
  /\ IdlePacker \in PackerState
  /\ IdleArchiver \in ArchiverState
  /\ EmptyIndexer \in IndexerState
<1>1. <<>> \in IdQueue /\ <<>> \in FileQueue /\ <<>> \in DoneQueue
  BY DEF IdQueue, FileQueue, DoneQueue
<1>2. IdlePacker \in PackerState
  BY <1>1 DEF IdlePacker, PackerState
<1>3. IdleArchiver \in ArchiverState
  BY BoundAssumption DEF IdleArchiver, ArchiverState
<1>. QED  BY <1>2, <1>3 DEF EmptyIndexer, IndexerState

\* The fields of a packer.
LEMMA PackerFields ==
  ASSUME TypeOK, NEW t \in BlobType
  PROVE  /\ packer[t] \in PackerState
         /\ packer[t].in \in Seq(AnyId) /\ packer[t].work \in Seq(AnyId)
         /\ packer[t].open \in SUBSET AnyId /\ packer[t].out \in SUBSET AnyId
         /\ packer[t].files \in Seq(SUBSET AnyId)
         /\ packer[t].done \in Seq({Failed} \cup {Written(p) : p \in PackId})
         /\ packer[t].dropped \in BOOLEAN /\ packer[t].closed \in BOOLEAN
         /\ packer[t].status \in {"running", "ok", "err"}
         /\ packer[t].writer \in {"running", "ok", "err"}
<1>1. packer[t] \in PackerState
  BY DEF TypeOK
<1>. QED  BY <1>1 DEF PackerState, IdQueue, FileQueue, DoneQueue

\* Its channels may be replaced by others of their type.
LEMMA PackerUpdates ==
  ASSUME NEW q \in PackerState
  PROVE  /\ \A x, y \in IdQueue : [q EXCEPT !.in = x, !.work = y] \in PackerState
         /\ \A x \in IdQueue : [q EXCEPT !.in = x] \in PackerState
         /\ \A x \in IdQueue, y \in SUBSET AnyId : [q EXCEPT !.work = x, !.open = y] \in PackerState
         /\ \A x \in IdQueue, y, z \in SUBSET AnyId :
               [q EXCEPT !.work = x, !.open = y, !.out = z] \in PackerState
         /\ \A y, z \in SUBSET AnyId : [q EXCEPT !.open = y, !.out = z] \in PackerState
         /\ \A y \in SUBSET AnyId, f \in FileQueue :
               [q EXCEPT !.out = y, !.files = f] \in PackerState
         /\ \A f \in FileQueue, d \in DoneQueue : [q EXCEPT !.files = f, !.done = d] \in PackerState
         /\ \A d \in DoneQueue : [q EXCEPT !.done = d] \in PackerState
         /\ \A y \in SUBSET AnyId, e \in {"running", "ok", "err"} :
               [q EXCEPT !.out = y, !.status = e] \in PackerState
         /\ \A e \in {"running", "ok", "err"} :
               [q EXCEPT !.status = e] \in PackerState /\ [q EXCEPT !.writer = e] \in PackerState
         /\ [q EXCEPT !.closed = TRUE] \in PackerState
         /\ [q EXCEPT !.dropped = TRUE] \in PackerState
<1>. DEFINE ST == SUBSET AnyId
<1>. HIDE DEF ST
<1>0. q \in [in : IdQueue, work : IdQueue, open : ST, out : ST, files : FileQueue, done : DoneQueue,
             dropped : BOOLEAN, closed : BOOLEAN, status : {"running", "ok", "err"},
             writer : {"running", "ok", "err"}]
  BY DEF PackerState, ST
<1>1. \A x, y \in IdQueue : [q EXCEPT !.in = x, !.work = y] \in PackerState
  BY <1>0 DEF PackerState, ST
<1>2. \A x \in IdQueue : [q EXCEPT !.in = x] \in PackerState
  BY <1>0 DEF PackerState, ST
<1>3. \A x \in IdQueue, y \in ST : [q EXCEPT !.work = x, !.open = y] \in PackerState
  BY <1>0 DEF PackerState, ST
<1>4. \A x \in IdQueue, y, z \in ST :
        [q EXCEPT !.work = x, !.open = y, !.out = z] \in PackerState
  BY <1>0 DEF PackerState, ST
<1>5. \A y, z \in ST : [q EXCEPT !.open = y, !.out = z] \in PackerState
  BY <1>0 DEF PackerState, ST
<1>6. \A y \in ST, f \in FileQueue : [q EXCEPT !.out = y, !.files = f] \in PackerState
  BY <1>0 DEF PackerState, ST
<1>7. \A f \in FileQueue, d \in DoneQueue : [q EXCEPT !.files = f, !.done = d] \in PackerState
  BY <1>0 DEF PackerState, ST
<1>8. \A d \in DoneQueue : [q EXCEPT !.done = d] \in PackerState
  BY <1>0 DEF PackerState, ST
<1>9. \A y \in ST, e \in {"running", "ok", "err"} :
        [q EXCEPT !.out = y, !.status = e] \in PackerState
  BY <1>0 DEF PackerState, ST
<1>10. \A e \in {"running", "ok", "err"} : [q EXCEPT !.status = e] \in PackerState
  BY <1>0 DEF PackerState, ST
<1>11. \A e \in {"running", "ok", "err"} : [q EXCEPT !.writer = e] \in PackerState
  BY <1>0 DEF PackerState, ST
<1>12. [q EXCEPT !.closed = TRUE] \in PackerState /\ [q EXCEPT !.dropped = TRUE] \in PackerState
  BY <1>0 DEF PackerState, ST
<1>. QED  BY <1>1, <1>2, <1>3, <1>4, <1>5, <1>6, <1>7, <1>8, <1>9, <1>10, <1>11, <1>12 DEF ST

LEMMA TypeInit == Init => TypeOK
BY IdleTypes DEF Init, TypeOK

LEMMA TypeArchive == TypeOK /\ Archive => TypeOK'
<1>. SUFFICES ASSUME TypeOK, Archive  PROVE TypeOK'
  OBVIOUS
<1>0. /\ archiver \in ArchiverState /\ packer \in [BlobType -> PackerState]
      /\ packs \in [PackId -> SUBSET Blob] /\ index \in [IndexId -> SUBSET PackId]
      /\ snapshots \subseteq SUBSET Blob /\ indexer \in IndexerState
  BY DEF TypeOK
<1>1. CASE Start
  <2>1. IndexedBlobs \subseteq Blob
    BY <1>0 DEF IndexedBlobs, BlobsIn, Indexed
  <2>2. PICK need \in (SUBSET Blob) \ {{}} :
           archiver' = [IdleArchiver EXCEPT !.pc = "archive", !.runs = archiver.runs + 1,
                                            !.need = need, !.loaded = IndexedBlobs]
    BY <1>1 DEF Start
  <2>3. archiver.runs + 1 \in 0 .. MaxRuns
    BY <1>0, <1>1, BoundAssumption DEF Start, ArchiverState
  <2>4. archiver' \in ArchiverState
    BY <2>1, <2>2, <2>3, IdleTypes DEF ArchiverState
  <2>. QED  BY <1>0, <1>1, <2>4, IdleTypes DEF Start, TypeOK
<1>2. CASE FinalizeData \/ FinalizeTree
  <2>1. archiver' \in ArchiverState
    BY <1>0, <1>2 DEF FinalizeData, FinalizeTree, ArchiverState
  <2>2. packer' \in [BlobType -> PackerState]
    <3>1. [packer["data"] EXCEPT !.dropped = TRUE] \in PackerState
      BY <1>0, PackerUpdates DEF BlobType
    <3>2. [packer["tree"] EXCEPT !.dropped = TRUE] \in PackerState
      BY <1>0, PackerUpdates DEF BlobType
    <3>. QED  BY <1>0, <1>2, <3>1, <3>2 DEF FinalizeData, FinalizeTree
  <2>. QED  BY <1>0, <1>2, <2>1, <2>2 DEF FinalizeData, FinalizeTree, TypeOK
<1>3. CASE DataFinalized \/ TreeFinalized
  <2>1. archiver' \in ArchiverState
    BY <1>0, <1>3 DEF DataFinalized, TreeFinalized, ArchiverState
  <2>. QED  BY <1>0, <1>3, <2>1 DEF DataFinalized, TreeFinalized, TypeOK
<1>4. CASE FinalizeIndexer
  <2>1. indexer.file \in SUBSET PackId
    BY <1>0 DEF IndexerState
  <2>2. index' \in [IndexId -> SUBSET PackId]
    BY <1>0, <1>4, <2>1 DEF FinalizeIndexer, SaveIndex
  <2>3. archiver' \in ArchiverState
    BY <1>0, <1>4 DEF FinalizeIndexer, ArchiverState
  <2>. QED  BY <1>0, <1>4, <2>2, <2>3, IdleTypes DEF FinalizeIndexer, TypeOK
<1>5. CASE SaveSnapshot
  <2>1. archiver.need \in SUBSET Blob /\ archiver.runs \in 0 .. MaxRuns
    BY <1>0 DEF ArchiverState
  <2>2. archiver' \in ArchiverState
    BY <1>5, <2>1, IdleTypes DEF SaveSnapshot, ArchiverState
  <2>3. packer' \in [BlobType -> PackerState]
    BY <1>5, IdleTypes DEF SaveSnapshot
  <2>. QED  BY <1>0, <1>5, <2>1, <2>2, <2>3 DEF SaveSnapshot, TypeOK
<1>6. CASE Fail
  <2>1. archiver' \in ArchiverState
    BY <1>0, <1>6 DEF Fail, ArchiverState
  <2>2. \A t \in BlobType : [packer[t] EXCEPT !.dropped = TRUE] \in PackerState
    BY <1>0, PackerUpdates
  <2>. QED  BY <1>0, <1>6, <2>1, <2>2 DEF Fail, TypeOK
<1>7. CASE Exit
  <2>1. archiver' \in ArchiverState
    BY <1>0, <1>7, IdleTypes DEF Exit, ArchiverState
  <2>. QED  BY <1>0, <1>7, <2>1, IdleTypes DEF Exit, TypeOK
<1>8. ASSUME NEW t \in BlobType, Send(t)  PROVE TypeOK'
  <2>1. PICK id \in Ids(t) :
           /\ packer' = [packer EXCEPT ![t].in = Append(@, id)] \/ UNCHANGED packer
           /\ archiver' = Sending(t, id)
    BY <1>8 DEF Send
  <2>2. id \in AnyId /\ <<t, id>> \in Blob
    BY <1>8 DEF Ids, Blob, AnyId, BlobType
  <2>3. packer' \in [BlobType -> PackerState]
    <3>1. Append(packer[t].in, id) \in IdQueue
      BY <1>8, <2>2, PackerFields, SetOfAppend DEF IdQueue
    <3>2. [packer[t] EXCEPT !.in = Append(packer[t].in, id)] \in PackerState
      BY <1>0, <1>8, <3>1, PackerUpdates
    <3>. QED  BY <1>0, <2>1, <3>2
  <2>4. archiver' \in ArchiverState
    <3>1. archiver.sends[t] + 1 \in 0 .. MaxSends
      BY <1>0, <1>8, BoundAssumption DEF Send, ArchiverState
    <3>. QED  BY <1>0, <2>1, <2>2, <3>1 DEF ArchiverState, Sending
  <2>. QED  BY <1>0, <1>8, <2>3, <2>4 DEF Send, TypeOK
<1>. QED
  BY <1>1, <1>2, <1>3, <1>4, <1>5, <1>6, <1>7, <1>8 DEF Archive

\* The packer thread of t only changes the state of its packer.
LEMMA TypePack ==
  ASSUME TypeOK, NEW t \in BlobType, Pack(t)
  PROVE  /\ TypeOK'
         /\ UNCHANGED <<packs, index, snapshots, archiver, indexer>>
         /\ packer' = [packer EXCEPT ![t] = packer'[t]]
<1>0. /\ packer \in [BlobType -> PackerState] /\ packer[t] \in PackerState
      /\ packer[t].in \in Seq(AnyId) /\ packer[t].work \in Seq(AnyId)
      /\ packer[t].open \in SUBSET AnyId /\ packer[t].out \in SUBSET AnyId
      /\ packer[t].files \in Seq(SUBSET AnyId)
      /\ packer[t].writer \in {"running", "ok", "err"}
  <2>1. packer \in [BlobType -> PackerState]
    BY DEF TypeOK
  <2>. QED  BY <2>1, PackerFields
<1>1. \E q \in PackerState : packer' = [packer EXCEPT ![t] = q]
  <2>1. CASE EarlyCheck(t)
    <3>. DEFINE id == Head(packer[t].in)
                work == IF IndexerHas(id) \/ id \in packer[t].open
                        THEN packer[t].work ELSE Append(packer[t].work, id)
    <3>1. id \in AnyId /\ Tail(packer[t].in) \in IdQueue
      BY <1>0, <2>1, SetOfTail DEF EarlyCheck, IdQueue
    <3>2. work \in IdQueue
      BY <1>0, <3>1, SetOfAppend DEF IdQueue
    <3>3. packer' = [packer EXCEPT ![t] = [packer[t] EXCEPT !.in = Tail(packer[t].in),
                                                            !.work = work]]
      BY <2>1 DEF EarlyCheck
    <3>. HIDE DEF work
    <3>. QED  BY <1>0, <3>1, <3>2, <3>3, PackerUpdates
  <2>2. CASE AddRaw(t)
    <3>. DEFINE id == Head(packer[t].work)
                open == IF IndexerHas(id) THEN packer[t].open ELSE packer[t].open \cup {id}
    <3>1. id \in AnyId /\ Tail(packer[t].work) \in IdQueue
      BY <1>0, <2>2, SetOfTail DEF AddRaw, IdQueue
    <3>2. open \in SUBSET AnyId /\ {} \in SUBSET AnyId
      BY <1>0, <3>1
    <3>3. \/ packer' = [packer EXCEPT ![t] = [packer[t] EXCEPT !.work = Tail(packer[t].work),
                                                               !.open = open]]
          \/ packer' = [packer EXCEPT ![t] = [packer[t] EXCEPT !.work = Tail(packer[t].work),
                                                               !.open = {}, !.out = open]]
      BY <2>2 DEF AddRaw
    <3>. HIDE DEF open
    <3>. QED  BY <1>0, <3>1, <3>2, <3>3, PackerUpdates
  <2>3. CASE SendFile(t)
    <3>1. Append(packer[t].files, packer[t].out) \in FileQueue /\ {} \in SUBSET AnyId
      BY <1>0, SetOfAppend DEF FileQueue
    <3>2. \/ packer' = [packer EXCEPT ![t] = [packer[t] EXCEPT
                           !.out = {}, !.files = Append(packer[t].files, packer[t].out)]]
          \/ packer' = [packer EXCEPT ![t] = [packer[t] EXCEPT !.out = {}, !.status = "err"]]
      BY <2>3 DEF SendFile
    <3>. QED  BY <1>0, <3>1, <3>2, PackerUpdates
  <2>4. CASE PackError(t)
    BY <1>0, <2>4, PackerUpdates DEF PackError
  <2>5. CASE FinalizeRaw(t)
    <3>1. \/ packer' = [packer EXCEPT ![t] = [packer[t] EXCEPT !.open = {}, !.out = packer[t].open]]
          \/ packer' = [packer EXCEPT ![t].closed = TRUE]
          \/ packer' = [packer EXCEPT ![t].status = packer[t].writer]
      BY <2>5 DEF FinalizeRaw
    <3>. QED  BY <1>0, <3>1, PackerUpdates
  <2>6. CASE DropActor(t)
    BY <1>0, <2>6, PackerUpdates DEF DropActor
  <2>. QED  BY <2>1, <2>2, <2>3, <2>4, <2>5, <2>6 DEF Pack
<1>2. UNCHANGED <<packs, index, snapshots, archiver, indexer>>
  BY DEF Pack, EarlyCheck, AddRaw, SendFile, PackError, FinalizeRaw, DropActor
<1>3. packer' = [packer EXCEPT ![t] = packer'[t]] /\ packer' \in [BlobType -> PackerState]
  BY <1>0, <1>1
<1>. QED  BY <1>2, <1>3 DEF TypeOK

\* The writer of t also writes packs and adds to the index; what it writes has been
\* sent to it.
LEMMA TypeWrite ==
  ASSUME TypeOK, HoldsMissing, NEW t \in BlobType, Write(t)
  PROVE  /\ TypeOK'
         /\ UNCHANGED snapshots
         /\ packer' = [packer EXCEPT ![t] = packer'[t]]
<1>0. /\ packer \in [BlobType -> PackerState] /\ packer[t] \in PackerState
      /\ packer[t].files \in Seq(SUBSET AnyId)
      /\ packer[t].done \in Seq({Failed} \cup {Written(p) : p \in PackId})
      /\ archiver \in ArchiverState /\ indexer \in IndexerState
      /\ packs \in [PackId -> SUBSET Blob] /\ index \in [IndexId -> SUBSET PackId]
  BY PackerFields DEF TypeOK
<1>1. CASE WriteFile(t)
  <2>. DEFINE f == Head(packer[t].files)
  <2>1. f \in SUBSET AnyId /\ Tail(packer[t].files) \in FileQueue /\ f \in ToSet(packer[t].files)
    BY <1>0, <1>1, SetOfTail DEF WriteFile, FileQueue
  <2>2. Blobs(t, f) \subseteq Blob
    <3>1. Blobs(t, f) \subseteq Blobs(t, Waiting(t))
      BY <2>1 DEF Blobs, Waiting
    <3>. QED  BY <1>0, <3>1 DEF HoldsMissing, ArchiverState
  <2>3. CASE \E p \in FreshPack : PackWritten(t, p)
    <3>1. PICK p \in PackId : PackWritten(t, p)
      BY <2>3 DEF FreshPack
    <3>2. Append(packer[t].done, Written(p)) \in DoneQueue
      BY <1>0, SetOfAppend DEF DoneQueue
    <3>3. packer' \in [BlobType -> PackerState] /\ packer' = [packer EXCEPT ![t] = packer'[t]]
      BY <1>0, <2>1, <3>1, <3>2, PackerUpdates DEF PackWritten
    <3>4. archiver' \in ArchiverState
      BY <1>0, <3>1 DEF ArchiverState, PackWritten
    <3>5. packs' \in [PackId -> SUBSET Blob]
      BY <1>0, <2>2, <3>1 DEF PackWritten
    <3>. QED  BY <1>1, <3>3, <3>4, <3>5 DEF WriteFile, TypeOK
  <2>4. CASE PackFailed(t)
    <3>1. Append(packer[t].done, Failed) \in DoneQueue
      BY <1>0, SetOfAppend DEF DoneQueue
    <3>2. packer' \in [BlobType -> PackerState] /\ packer' = [packer EXCEPT ![t] = packer'[t]]
      BY <1>0, <2>1, <2>4, <3>1, PackerUpdates DEF PackFailed
    <3>. QED  BY <1>1, <2>4, <3>2 DEF WriteFile, PackFailed, TypeOK
  <2>. QED  BY <1>1, <2>3, <2>4 DEF WriteFile
<1>2. CASE AddToIndexer(t)
  <2>. DEFINE p == Head(packer[t].done).pack
  <2>1. Tail(packer[t].done) \in DoneQueue /\ p \in PackId
    <3>1. Head(packer[t].done) \in {Failed} \cup {Written(x) : x \in PackId}
      BY <1>0, <1>2, SetOfTail DEF AddToIndexer
    <3>2. Head(packer[t].done).ok
      BY <1>2 DEF AddToIndexer
    <3>. QED  BY <1>0, <1>2, <3>1, <3>2, SetOfTail DEF AddToIndexer, DoneQueue, Failed, Written
  <2>2. Added(p) \in IndexerState /\ [Added(p) EXCEPT !.file = {}] \in IndexerState
    <3>1. packs[p] \subseteq Blob
      BY <1>0, <2>1
    <3>2. {b[2] : b \in packs[p]} \subseteq AnyId
      BY <3>1 DEF Blob, BlobType, Ids, AnyId
    <3>. QED  BY <1>0, <2>1, <3>2 DEF IndexerState, Added
  <2>3. packer' \in [BlobType -> PackerState] /\ packer' = [packer EXCEPT ![t] = packer'[t]]
    <3>1. \/ packer' = [packer EXCEPT ![t].done = Tail(packer[t].done)]
          \/ packer' = [packer EXCEPT ![t].writer = "err"]
      BY <1>2 DEF AddToIndexer
    <3>. QED  BY <1>0, <2>1, <3>1, PackerUpdates
  <2>4. index' \in [IndexId -> SUBSET PackId]
    <3>1. \/ UNCHANGED index
          \/ \E i \in IndexId : index' = [index EXCEPT ![i] = Added(p).file]
      BY <1>2 DEF AddToIndexer
    <3>2. Added(p).file \in SUBSET PackId
      BY <2>2 DEF IndexerState
    <3>. QED  BY <1>0, <3>1, <3>2
  <2>5. indexer' \in IndexerState
    BY <1>2, <2>2 DEF AddToIndexer
  <2>. QED  BY <1>0, <1>2, <2>3, <2>4, <2>5 DEF AddToIndexer, TypeOK
<1>3. CASE WriterFails(t) \/ WriterEnds(t)
  <2>1. packer' \in [BlobType -> PackerState] /\ packer' = [packer EXCEPT ![t] = packer'[t]]
    BY <1>0, <1>3, PackerUpdates DEF WriterFails, WriterEnds
  <2>. QED  BY <1>3, <2>1 DEF WriterFails, WriterEnds, TypeOK
<1>. QED  BY <1>1, <1>2, <1>3 DEF Write

-----------------------------------------------------------------------------
(***************************************************************************)
(* The packer threads                                                      *)
(***************************************************************************)

\* What a step of the packer thread of t does to the ids it holds: they stay in the
\* packer, unless the indexer has them or the packer is lost.
LEMMA PackEffect ==
  ASSUME TypeOK, HoldsMissing, EndsClean, NEW t \in BlobType, Pack(t)
  PROVE  /\ packer'[t].done = packer[t].done /\ packer'[t].writer = packer[t].writer
         /\ packer'[t].dropped = packer[t].dropped
         /\ packer[t].status # "running" => packer'[t].status = packer[t].status
         /\ Waiting(t)' \subseteq Waiting(t)
         /\ Lost(t)' \/ Waiting(t) \subseteq Waiting(t)' \cup indexer.indexed
         /\ {} \notin ToSet(packer'[t].files)
         /\ packer'[t].status = "ok" => packer'[t].writer = "ok" /\ packer'[t].closed
         /\ packer'[t].writer = "ok" =>
               packer'[t].closed /\ packer'[t].files = <<>> /\ packer'[t].done = <<>>
         /\ packer'[t].closed /\ packer'[t].status # "err" =>
               /\ packer'[t].dropped
               /\ packer'[t].in = <<>> /\ packer'[t].work = <<>>
               /\ packer'[t].open = {} /\ packer'[t].out = {}
<1>. DEFINE q == packer[t]  r == packer'[t]
<1>0. /\ packer \in [BlobType -> PackerState] /\ q \in PackerState
      /\ q.in \in Seq(AnyId) /\ q.work \in Seq(AnyId) /\ q.files \in Seq(SUBSET AnyId)
      /\ q.open \in SUBSET AnyId /\ q.out \in SUBSET AnyId
      /\ q.status \in {"running", "ok", "err"} /\ q.writer \in {"running", "ok", "err"}
  BY PackerFields DEF TypeOK
<1>1. /\ {} \notin ToSet(q.files)
      /\ q.status = "ok" => q.writer = "ok" /\ q.closed
      /\ q.writer = "ok" => q.closed /\ q.files = <<>> /\ q.done = <<>>
      /\ q.closed /\ q.status # "err" =>
            q.dropped /\ q.in = <<>> /\ q.work = <<>> /\ q.open = {} /\ q.out = {}
  BY DEF HoldsMissing, EndsClean
<1>2. q = [in |-> q.in, work |-> q.work, open |-> q.open, out |-> q.out, files |-> q.files,
           done |-> q.done, dropped |-> q.dropped, closed |-> q.closed, status |-> q.status,
           writer |-> q.writer]
  BY <1>0 DEF PackerState
<1>3. /\ Waiting(t) = ToSet(q.in) \cup ToSet(q.work) \cup q.open \cup q.out \cup UNION ToSet(q.files)
      /\ Waiting(t)' = ToSet(r.in) \cup ToSet(r.work) \cup r.open \cup r.out \cup UNION ToSet(r.files)
      /\ Lost(t)' = (r.status = "err" \/ r.writer = "err" \/ Failed \in ToSet(r.done))
  BY DEF Waiting, Lost
<1>4. CASE EarlyCheck(t)
  <2>. DEFINE id == Head(q.in)
              work == IF IndexerHas(id) \/ id \in q.open THEN q.work ELSE Append(q.work, id)
  <2>1. q.status = "running" /\ q.in # <<>> /\ q.out = {}
    BY <1>4 DEF EarlyCheck, Active
  <2>2. r = [q EXCEPT !.in = Tail(q.in), !.work = work]
    BY <1>0, <1>4 DEF EarlyCheck
  <2>3. /\ r.in = Tail(q.in) /\ r.work = work /\ r.open = q.open /\ r.out = q.out
        /\ r.files = q.files /\ r.done = q.done /\ r.dropped = q.dropped /\ r.closed = q.closed
        /\ r.status = q.status /\ r.writer = q.writer
    BY <1>2, <2>2
  <2>4. id \in AnyId /\ ToSet(q.in) = {id} \cup ToSet(r.in)
    BY <1>0, <2>1, <2>3, SetOfTail
  <2>5. \/ id \in indexer.indexed /\ ToSet(r.work) = ToSet(q.work)
        \/ id \in q.open /\ ToSet(r.work) = ToSet(q.work)
        \/ ToSet(r.work) = ToSet(q.work) \cup {id}
    BY <1>0, <2>3, <2>4, SetOfAppend DEF IndexerHas
  <2>. HIDE DEF q, r, id, work
  <2>. QED  BY <1>1, <1>3, <2>1, <2>3, <2>4, <2>5 DEF q, r
<1>5. CASE AddRaw(t)
  <2>. DEFINE id == Head(q.work)
              open == IF IndexerHas(id) THEN q.open ELSE q.open \cup {id}
  <2>1. q.status = "running" /\ q.work # <<>> /\ q.out = {}
    BY <1>5 DEF AddRaw, Active
  <2>2. \/ r = [q EXCEPT !.work = Tail(q.work), !.open = open]
        \/ r = [q EXCEPT !.work = Tail(q.work), !.open = {}, !.out = open]
    BY <1>0, <1>5 DEF AddRaw
  <2>3. /\ r.in = q.in /\ r.work = Tail(q.work)
        /\ (r.open = open /\ r.out = q.out) \/ (r.open = {} /\ r.out = open)
        /\ r.files = q.files /\ r.done = q.done /\ r.dropped = q.dropped /\ r.closed = q.closed
        /\ r.status = q.status /\ r.writer = q.writer
    BY <1>2, <2>2
  <2>4. id \in AnyId /\ ToSet(q.work) = {id} \cup ToSet(r.work)
    BY <1>0, <2>1, <2>3, SetOfTail
  <2>5. open = q.open \cup {id} \/ (open = q.open /\ id \in indexer.indexed)
    BY DEF IndexerHas
  <2>. HIDE DEF q, r, id, open
  <2>. QED  BY <1>1, <1>3, <2>1, <2>3, <2>4, <2>5 DEF q, r
<1>6. CASE SendFile(t)
  <2>1. q.status = "running" /\ q.out # {}
    BY <1>6 DEF SendFile, Active
  <2>2. \/ q.writer = "running" /\ r = [q EXCEPT !.out = {}, !.files = Append(q.files, q.out)]
        \/ q.writer = "err" /\ r = [q EXCEPT !.out = {}, !.status = "err"]
    BY <1>0, <1>6 DEF SendFile
  <2>3. /\ r.in = q.in /\ r.work = q.work /\ r.open = q.open /\ r.out = {}
        /\ r.done = q.done /\ r.dropped = q.dropped /\ r.closed = q.closed /\ r.writer = q.writer
        /\ \/ q.writer = "running" /\ r.status = q.status /\ r.files = Append(q.files, q.out)
           \/ q.writer = "err" /\ r.status = "err" /\ r.files = q.files
    BY <1>2, <2>2
  <2>4. ToSet(Append(q.files, q.out)) = ToSet(q.files) \cup {q.out}
    BY <1>0, SetOfAppend
  <2>5. UNION (ToSet(q.files) \cup {q.out}) = q.out \cup UNION ToSet(q.files)
    OBVIOUS
  <2>. HIDE DEF q, r
  <2>. QED  BY <1>1, <1>3, <2>1, <2>3, <2>4, <2>5 DEF q, r
<1>7. CASE PackError(t) \/ DropActor(t)
  <2>1. \/ q.status = "running" /\ q.work # <<>> /\ r = [q EXCEPT !.status = "err"]
        \/ q.status = "err" /\ r = [q EXCEPT !.closed = TRUE]
    BY <1>0, <1>7 DEF PackError, DropActor, Active
  <2>2. /\ r.in = q.in /\ r.work = q.work /\ r.open = q.open /\ r.out = q.out
        /\ r.files = q.files /\ r.done = q.done /\ r.dropped = q.dropped
        /\ r.writer = q.writer /\ r.status = "err" /\ q.status \in {"running", "err"}
        /\ (q.status = "running" => r.closed = q.closed) /\ (q.status = "err" => r.closed)
    BY <1>2, <2>1
  <2>. HIDE DEF q, r
  <2>. QED  BY <1>1, <1>3, <2>2 DEF q, r
<1>8. CASE FinalizeRaw(t)
  <2>1. /\ q.status = "running" /\ q.dropped /\ q.in = <<>> /\ q.work = <<>> /\ q.out = {}
        /\ \/ q.open # {} /\ r = [q EXCEPT !.open = {}, !.out = q.open]
           \/ q.open = {} /\ ~q.closed /\ r = [q EXCEPT !.closed = TRUE]
           \/ q.closed /\ q.writer # "running" /\ r = [q EXCEPT !.status = q.writer]
    BY <1>0, <1>8 DEF FinalizeRaw, Active
  <2>2. /\ r.in = q.in /\ r.work = q.work
        /\ r.files = q.files /\ r.done = q.done /\ r.dropped = q.dropped /\ r.writer = q.writer
        /\ \/ /\ q.open # {} /\ r.open = {} /\ r.out = q.open
              /\ r.closed = q.closed /\ r.status = q.status
           \/ /\ q.open = {} /\ r.open = q.open /\ r.out = q.out /\ r.closed /\ r.status = q.status
           \/ /\ q.closed /\ q.writer # "running" /\ r.open = q.open /\ r.out = q.out
              /\ r.closed = q.closed /\ r.status = q.writer
    BY <1>2, <2>1
  <2>. HIDE DEF q, r
  <2>. QED  BY <1>0, <1>1, <1>3, <2>1, <2>2 DEF q, r
<1>. QED  BY <1>4, <1>5, <1>6, <1>7, <1>8 DEF Pack

\* The step of a packer thread keeps every part of the invariant.
LEMMA HandedOnPack ==
  ASSUME HandedOn, NEW t \in BlobType, Pack(t)
  PROVE  HandedOn'
<1>0. /\ TypeOK /\ IndexSound /\ DedupSound /\ HoldsMissing /\ SentHeld /\ OwnOnTheWay
      /\ DoneOnce /\ EndsClean /\ Finalized
  BY DEF HandedOn
<1>1. TypeOK' /\ UNCHANGED <<packs, index, snapshots, archiver, indexer>>
  BY <1>0, TypePack
<1>2. \A u \in BlobType : u # t => packer'[u] = packer[u]
  BY <1>0, TypePack DEF TypeOK
<1>3. /\ packer'[t].done = packer[t].done /\ packer'[t].writer = packer[t].writer
      /\ packer'[t].dropped = packer[t].dropped
      /\ packer[t].status # "running" => packer'[t].status = packer[t].status
      /\ Waiting(t)' \subseteq Waiting(t)
      /\ Lost(t)' \/ Waiting(t) \subseteq Waiting(t)' \cup indexer.indexed
      /\ {} \notin ToSet(packer'[t].files)
  BY <1>0, PackEffect
<1>4. \A u \in BlobType : /\ packer'[u].done = packer[u].done
                          /\ packer'[u].writer = packer[u].writer
                          /\ packer'[u].dropped = packer[u].dropped
                          /\ packer[u].status = "ok" => packer'[u].status = "ok"
                          /\ DonePacks(u)' = DonePacks(u)
  BY <1>2, <1>3 DEF DonePacks
<1>5. /\ Stored' = Stored /\ Indexed' = Indexed /\ IndexedBlobs' = IndexedBlobs
      /\ \A u \in BlobType : AllSent(u)' = AllSent(u)
  BY <1>1 DEF Stored, Indexed, IndexedBlobs, BlobsIn, AllSent
<1>6. IndexSound' /\ DedupSound'
  BY <1>0, <1>1, <1>5 DEF IndexSound, DedupSound
<1>7. HoldsMissing'
  <2>1. ASSUME NEW u \in BlobType
        PROVE  /\ Blobs(u, Waiting(u)') \subseteq archiver.need \ archiver.loaded
               /\ {} \notin ToSet(packer'[u].files)
    <3>1. Waiting(u)' \subseteq Waiting(u) /\ {} \notin ToSet(packer'[u].files)
      BY <1>0, <1>2, <1>3 DEF Waiting, HoldsMissing
    <3>. QED  BY <1>0, <3>1 DEF HoldsMissing, Blobs
  <2>. QED  BY <1>1, <2>1 DEF HoldsMissing, Blobs
<1>8. SentHeld'
  <2>. SUFFICES ASSUME NEW u \in BlobType, ~Lost(u)', NEW id \in Ids(u), <<u, id>> \in archiver.sent
                PROVE  \/ id \in Waiting(u)'
                       \/ \E b \in BlobsIn(Indexed \cup indexer.file \cup DonePacks(u), packs) : b[2] = id
    BY <1>1, <1>4, <1>5 DEF SentHeld
  <2>1. ~Lost(u)
    <3>1. CASE u # t
      BY <1>2, <3>1 DEF Lost
    <3>2. CASE u = t
      BY <1>3, <3>2 DEF Lost
    <3>. QED  BY <3>1, <3>2
  <2>2. CASE \E b \in BlobsIn(Indexed \cup indexer.file \cup DonePacks(u), packs) : b[2] = id
    BY <2>2
  <2>3. CASE id \in Waiting(u)
    <3>1. CASE u # t
      BY <1>2, <2>3, <3>1 DEF Waiting
    <3>2. CASE u = t /\ id \in indexer.indexed
      <4>1. \E b \in BlobsIn(Indexed \cup indexer.file, packs) : b[2] = id
        BY <1>0, <3>2 DEF DedupSound
      <4>. QED  BY <4>1 DEF BlobsIn
    <3>. QED  BY <1>3, <2>3, <3>1, <3>2
  <2>. QED  BY <1>0, <2>1, <2>2, <2>3 DEF SentHeld
<1>9. OwnOnTheWay' /\ DoneOnce'
  BY <1>0, <1>1, <1>4, <1>5 DEF OwnOnTheWay, DoneOnce, BlobType
<1>10. EndsClean'
  <2>1. ASSUME NEW u \in BlobType, u # t
        PROVE  /\ packer'[u].status = "ok" => packer'[u].writer = "ok" /\ packer'[u].closed
               /\ packer'[u].writer = "ok" =>
                     packer'[u].closed /\ packer'[u].files = <<>> /\ packer'[u].done = <<>>
               /\ packer'[u].closed /\ packer'[u].status # "err" =>
                     /\ packer'[u].dropped
                     /\ packer'[u].in = <<>> /\ packer'[u].work = <<>>
                     /\ packer'[u].open = {} /\ packer'[u].out = {}
    BY <1>0, <1>2, <2>1 DEF EndsClean
  <2>. QED  BY <1>0, <2>1, PackEffect DEF EndsClean
<1>11. Finalized'
  BY <1>0, <1>1, <1>4, <1>5 DEF Finalized, BlobType
<1>. QED  BY <1>1, <1>6, <1>7, <1>8, <1>9, <1>10, <1>11 DEF HandedOn

-----------------------------------------------------------------------------
(***************************************************************************)
(* The writer threads                                                      *)
(***************************************************************************)

\* The results of a writer are told apart.
LEMMA ResultFacts ==
  /\ \A p, q : Written(p) = Written(q) => p = q
  /\ \A p : Written(p) # Failed /\ Written(p).ok /\ Written(p).pack = p
  /\ Failed.ok = FALSE
<1>1. \A p : Written(p).ok = TRUE /\ Written(p).pack = p
  BY DEF Written
<1>2. Failed.ok = FALSE
  BY DEF Failed
<1>. QED  BY <1>1, <1>2

\* A record of a packer is its fields.
LEMMA PackerIsFields ==
  ASSUME NEW q \in PackerState
  PROVE  q = [in |-> q.in, work |-> q.work, open |-> q.open, out |-> q.out, files |-> q.files,
              done |-> q.done, dropped |-> q.dropped, closed |-> q.closed, status |-> q.status,
              writer |-> q.writer]
BY DEF PackerState

\* Facts about the packers that a step of the writer of t leaves alone.
LEMMA OtherPackers ==
  ASSUME TypeOK, HoldsMissing, NEW t \in BlobType, Write(t)
  PROVE  \A u \in BlobType : u # t => /\ packer'[u] = packer[u]
                                      /\ Waiting(u)' = Waiting(u) /\ DonePacks(u)' = DonePacks(u)
                                      /\ Lost(u)' = Lost(u)
<1>1. \A u \in BlobType : u # t => packer'[u] = packer[u]
  BY TypeWrite DEF TypeOK
<1>. QED  BY <1>1 DEF Waiting, DonePacks, Lost

\* A new pack changes no other.
LEMMA NewPack ==
  ASSUME packs \in [PackId -> SUBSET Blob],
         NEW p \in PackId, packs[p] = {}, NEW new, new # {}, packs' = [packs EXCEPT ![p] = new]
  PROVE  /\ p \notin Stored /\ Stored' = Stored \cup {p}
         /\ \A ps \in SUBSET Stored : /\ BlobsIn(ps, packs') = BlobsIn(ps, packs)
                                      /\ BlobsIn(ps \cup {p}, packs') = BlobsIn(ps, packs) \cup new
<1>1. p \notin Stored /\ Stored' = Stored \cup {p}
  BY DEF Stored
<1>2. packs'[p] = new /\ \A x \in Stored : packs'[x] = packs[x] /\ x \in PackId
  BY <1>1 DEF Stored
<1>. QED  BY <1>1, <1>2 DEF BlobsIn

\* A pack is written: its blobs go from the packer to the pack.
LEMMA HandedOnWritten ==
  ASSUME HandedOn, NEW t \in BlobType, WriteFile(t), UNCHANGED <<index, snapshots, indexer>>,
         WriterActive(t), packer[t].files # <<>>, NEW p \in FreshPack, PackWritten(t, p)
  PROVE  HandedOn'
<1>. DEFINE q == packer[t]  r == packer'[t]  f == Head(q.files)
<1>0. /\ TypeOK /\ IndexSound /\ DedupSound /\ HoldsMissing /\ SentHeld /\ OwnOnTheWay
      /\ DoneOnce /\ EndsClean /\ Finalized
  BY DEF HandedOn
<1>1. Write(t)
  BY DEF Write
<1>2. TypeOK'
  BY <1>0, <1>1, TypeWrite
<1>3. /\ q \in PackerState /\ q.files \in Seq(SUBSET AnyId) /\ q.files # <<>>
      /\ q.done \in Seq({Failed} \cup {Written(x) : x \in PackId}) /\ q.writer = "running"
      /\ packs \in [PackId -> SUBSET Blob] /\ packer \in [BlobType -> PackerState]
      /\ archiver \in ArchiverState /\ p \in PackId /\ packs[p] = {}
  <2>1. q \in PackerState /\ q.files \in Seq(SUBSET AnyId)
        /\ q.done \in Seq({Failed} \cup {Written(x) : x \in PackId})
    BY <1>0, PackerFields
  <2>2. p \in PackId /\ packs[p] = {}
    BY DEF FreshPack
  <2>. QED  BY <1>0, <2>1, <2>2 DEF TypeOK, WriterActive
<1>4. /\ r.in = q.in /\ r.work = q.work /\ r.open = q.open /\ r.out = q.out
      /\ r.files = Tail(q.files) /\ r.done = Append(q.done, Written(p)) /\ r.dropped = q.dropped
      /\ r.closed = q.closed /\ r.status = q.status /\ r.writer = q.writer
  <2>1. r = [q EXCEPT !.files = Tail(q.files), !.done = Append(q.done, Written(p))]
    BY <1>3 DEF PackWritten
  <2>. QED  BY <1>3, <2>1, PackerIsFields
<1>5. /\ archiver'.pc = archiver.pc /\ archiver'.need = archiver.need
      /\ archiver'.loaded = archiver.loaded /\ archiver'.sent = archiver.sent
      /\ archiver'.own = archiver.own \cup {p}
  BY <1>3 DEF ArchiverState, PackWritten
<1>6. ToSet(q.files) = {f} \cup ToSet(r.files) /\ f \in SUBSET AnyId
  BY <1>3, <1>4, SetOfTail
<1>7. ToSet(r.done) = ToSet(q.done) \cup {Written(p)}
  BY <1>3, <1>4, SetOfAppend
<1>8. f # {} /\ Blobs(t, f) # {}
  <2>1. {} \notin ToSet(q.files)
    BY <1>0 DEF HoldsMissing
  <2>2. PICK x : x \in f
    BY <1>6, <2>1
  <2>3. <<t, x>> \in Blobs(t, f)
    BY <2>2 DEF Blobs
  <2>. QED  BY <2>2, <2>3
<1>9. p \notin Stored /\ Stored' = Stored \cup {p}
  BY <1>3, <1>8, NewPack DEF PackWritten
<1>10. \A ps \in SUBSET Stored : /\ BlobsIn(ps, packs') = BlobsIn(ps, packs)
                                 /\ BlobsIn(ps \cup {p}, packs') = BlobsIn(ps, packs) \cup Blobs(t, f)
  BY <1>3, <1>8, NewPack DEF PackWritten
<1>11. Indexed' = Indexed /\ indexer' = indexer /\ Indexed \cup indexer.file \subseteq Stored
  BY <1>0 DEF Indexed, IndexSound
<1>12. Waiting(t)' \cup f = Waiting(t)
  BY <1>4, <1>6 DEF Waiting
<1>13. DonePacks(t)' = DonePacks(t) \cup {p} /\ p \notin DonePacks(t)
  <2>1. DonePacks(t) \subseteq Stored
    BY <1>0 DEF OwnOnTheWay
  <2>. QED  BY <1>3, <1>7, <1>9, <2>1, ResultFacts DEF DonePacks
<1>14. \A u \in BlobType : u # t => /\ packer'[u] = packer[u] /\ Waiting(u)' = Waiting(u)
                                    /\ DonePacks(u)' = DonePacks(u) /\ Lost(u)' = Lost(u)
  BY <1>0, <1>1, OtherPackers
<1>15. IndexSound' /\ DedupSound'
  BY <1>0, <1>9, <1>10, <1>11 DEF IndexSound, DedupSound
<1>16. HoldsMissing'
  <2>1. \A u \in BlobType : Waiting(u)' \subseteq Waiting(u) /\ {} \notin ToSet(packer'[u].files)
    BY <1>0, <1>6, <1>12, <1>14 DEF HoldsMissing
  <2>. QED  BY <1>0, <1>5, <2>1 DEF HoldsMissing, Blobs
<1>17. SentHeld'
  <2>. SUFFICES ASSUME NEW u \in BlobType, ~Lost(u)', NEW id \in Ids(u), <<u, id>> \in archiver'.sent
                PROVE  \/ id \in Waiting(u)'
                       \/ \E b \in BlobsIn(Indexed' \cup indexer'.file \cup DonePacks(u)', packs') :
                             b[2] = id
    BY DEF SentHeld
  <2>1. ~Lost(u)
    BY <1>4, <1>7, <1>14 DEF Lost
  <2>2. PICK old \in SUBSET Stored : old = Indexed \cup indexer.file \cup DonePacks(u)
    BY <1>0, <1>11 DEF OwnOnTheWay
  <2>3. BlobsIn(old, packs) \subseteq BlobsIn(Indexed \cup indexer.file \cup DonePacks(u)', packs')
    <3>1. CASE u # t
      BY <1>10, <1>14, <2>2, <3>1
    <3>2. CASE u = t
      <4>1. Indexed \cup indexer.file \cup DonePacks(t)' = old \cup {p}
        BY <1>11, <1>13, <2>2, <3>2
      <4>. QED  BY <1>10, <2>2, <3>2, <4>1
    <3>. QED  BY <3>1, <3>2
  <2>4. CASE id \in Waiting(u) /\ id \notin Waiting(u)'
    <3>1. u = t /\ id \in f
      BY <1>12, <1>14, <2>4
    <3>2. <<t, id>> \in BlobsIn(old \cup {p}, packs')
      BY <1>10, <2>2, <3>1 DEF Blobs
    <3>3. Indexed \cup indexer.file \cup DonePacks(t)' = old \cup {p}
      BY <1>13, <2>2, <3>1
    <3>4. <<u, id>> \in BlobsIn(Indexed' \cup indexer'.file \cup DonePacks(u)', packs')
      BY <1>11, <3>1, <3>2, <3>3
    <3>5. <<u, id>>[2] = id
      OBVIOUS
    <3>. QED  BY <3>4, <3>5
  <2>5. <<u, id>> \in archiver.sent
    BY <1>5
  <2>. QED  BY <1>0, <1>11, <2>1, <2>2, <2>3, <2>4, <2>5 DEF SentHeld
<1>18. OwnOnTheWay'
  <2>1. DonePacks("tree")' \cup DonePacks("data")' = DonePacks("tree") \cup DonePacks("data") \cup {p}
    BY <1>13, <1>14 DEF BlobType
  <2>. QED  BY <1>0, <1>5, <1>9, <1>11, <1>13, <1>14, <2>1 DEF OwnOnTheWay
<1>19. DoneOnce'
  <2>1. DonePacks("tree")' \cap DonePacks("data")' = {}
    <3>1. \A u \in BlobType : p \notin DonePacks(u)
      BY <1>0, <1>9 DEF OwnOnTheWay
    <3>. QED  BY <1>0, <1>13, <1>14, <3>1 DEF DoneOnce, BlobType
  <2>2. ASSUME NEW u \in BlobType, u # t, packer'[u].writer = "running"
        PROVE  /\ DonePacks(u)' \cap (Indexed' \cup indexer'.file) = {}
               /\ \A i, j \in DOMAIN packer'[u].done :
                     packer'[u].done[i] = packer'[u].done[j] /\ packer'[u].done[i].ok => i = j
    BY <1>0, <1>11, <1>14, <2>2 DEF DoneOnce
  <2>3. DonePacks(t)' \cap (Indexed' \cup indexer'.file) = {}
    BY <1>0, <1>3, <1>9, <1>11, <1>13 DEF DoneOnce
  <2>4. ASSUME NEW i \in DOMAIN r.done, NEW j \in DOMAIN r.done, r.done[i] = r.done[j], r.done[i].ok
        PROVE  i = j
    <3>1. /\ Len(q.done) \in Nat /\ DOMAIN q.done = 1 .. Len(q.done)
          /\ DOMAIN r.done = 1 .. Len(q.done) + 1
          /\ r.done[Len(q.done) + 1] = Written(p)
          /\ \A k \in DOMAIN q.done : r.done[k] = q.done[k]
      BY <1>3, <1>4
    <3>2. \A k \in DOMAIN q.done : q.done[k] # Written(p)
      BY <1>13, <1>3 DEF DonePacks, ToSet
    <3>3. \A k, l \in DOMAIN q.done : q.done[k] = q.done[l] /\ q.done[k].ok => k = l
      BY <1>0, <1>3 DEF DoneOnce
    <3>4. CASE i \in DOMAIN q.done /\ j \in DOMAIN q.done
      BY <2>4, <3>1, <3>3, <3>4
    <3>5. CASE i \in DOMAIN q.done /\ j = Len(q.done) + 1
      BY <2>4, <3>1, <3>2, <3>5
    <3>6. CASE i = Len(q.done) + 1 /\ j \in DOMAIN q.done
      BY <2>4, <3>1, <3>2, <3>6
    <3>7. i \in DOMAIN q.done \/ i = Len(q.done) + 1
      BY <3>1
    <3>8. j \in DOMAIN q.done \/ j = Len(q.done) + 1
      BY <3>1
    <3>. QED  BY <3>4, <3>5, <3>6, <3>7, <3>8
  <2>5. ASSUME NEW u \in BlobType, packer'[u].writer = "running"
        PROVE  /\ DonePacks(u)' \cap (Indexed' \cup indexer'.file) = {}
               /\ \A i, j \in DOMAIN packer'[u].done :
                     packer'[u].done[i] = packer'[u].done[j] /\ packer'[u].done[i].ok => i = j
    BY <2>2, <2>3, <2>4, <2>5
  <2>. QED  BY <2>1, <2>5 DEF DoneOnce
<1>20. EndsClean'
  BY <1>0, <1>3, <1>4, <1>14 DEF EndsClean
<1>21. Finalized'
  <2>1. \A u \in BlobType : /\ packer'[u].dropped = packer[u].dropped
                            /\ packer'[u].status = packer[u].status
                            /\ AllSent(u)' = AllSent(u)
    BY <1>4, <1>5, <1>14 DEF AllSent
  <2>2. IndexedBlobs' = IndexedBlobs
    BY <1>10, <1>11 DEF IndexedBlobs
  <2>. QED  BY <1>0, <1>5, <1>11, <2>1, <2>2 DEF Finalized, BlobType
<1>. QED  BY <1>2, <1>15, <1>16, <1>17, <1>18, <1>19, <1>20, <1>21 DEF HandedOn

\* A pack cannot be written: what was in it is lost, and so is the packer.
LEMMA HandedOnFailed ==
  ASSUME HandedOn, NEW t \in BlobType, WriteFile(t),
         UNCHANGED <<index, snapshots, indexer>>,
         WriterActive(t), packer[t].files # <<>>, PackFailed(t)
  PROVE  HandedOn'
<1>. DEFINE q == packer[t]  r == packer'[t]
<1>0. /\ TypeOK /\ IndexSound /\ DedupSound /\ HoldsMissing /\ SentHeld /\ OwnOnTheWay
      /\ DoneOnce /\ EndsClean /\ Finalized
  BY DEF HandedOn
<1>1. Write(t)
  BY DEF Write
<1>2. TypeOK' /\ UNCHANGED <<packs, index, snapshots, archiver, indexer>>
  BY <1>0, <1>1, TypeWrite DEF PackFailed
<1>3. /\ q \in PackerState /\ q.files \in Seq(SUBSET AnyId) /\ q.files # <<>>
      /\ q.done \in Seq({Failed} \cup {Written(x) : x \in PackId}) /\ q.writer = "running"
      /\ packer \in [BlobType -> PackerState]
  <2>1. q \in PackerState /\ q.files \in Seq(SUBSET AnyId)
        /\ q.done \in Seq({Failed} \cup {Written(x) : x \in PackId})
    BY <1>0, PackerFields
  <2>. QED  BY <1>0, <2>1 DEF TypeOK, WriterActive
<1>4. /\ r.in = q.in /\ r.work = q.work /\ r.open = q.open /\ r.out = q.out
      /\ r.files = Tail(q.files) /\ r.done = Append(q.done, Failed) /\ r.dropped = q.dropped
      /\ r.closed = q.closed /\ r.status = q.status /\ r.writer = q.writer
  <2>1. r = [q EXCEPT !.files = Tail(q.files), !.done = Append(q.done, Failed)]
    BY <1>3 DEF PackFailed
  <2>. QED  BY <1>3, <2>1, PackerIsFields
<1>5. ToSet(r.files) \subseteq ToSet(q.files)
  BY <1>3, <1>4, SetOfTail
<1>6. ToSet(r.done) = ToSet(q.done) \cup {Failed}
  BY <1>3, <1>4, SetOfAppend
<1>7. Waiting(t)' \subseteq Waiting(t) /\ Lost(t)' /\ DonePacks(t)' = DonePacks(t)
  BY <1>4, <1>5, <1>6, ResultFacts DEF Waiting, Lost, DonePacks
<1>8. \A u \in BlobType : u # t => /\ packer'[u] = packer[u] /\ Waiting(u)' = Waiting(u)
                                   /\ DonePacks(u)' = DonePacks(u) /\ Lost(u)' = Lost(u)
  BY <1>0, <1>1, OtherPackers
<1>9. /\ Stored' = Stored /\ Indexed' = Indexed /\ IndexedBlobs' = IndexedBlobs
      /\ \A u \in BlobType : AllSent(u)' = AllSent(u)
  BY <1>2 DEF Stored, Indexed, IndexedBlobs, BlobsIn, AllSent
<1>10. \A u \in BlobType : DonePacks(u)' = DonePacks(u)
  BY <1>7, <1>8
<1>11. IndexSound' /\ DedupSound' /\ OwnOnTheWay'
  BY <1>0, <1>2, <1>9, <1>10 DEF IndexSound, DedupSound, OwnOnTheWay, BlobType
<1>12. HoldsMissing'
  <2>1. \A u \in BlobType : Waiting(u)' \subseteq Waiting(u) /\ {} \notin ToSet(packer'[u].files)
    BY <1>0, <1>5, <1>7, <1>8 DEF HoldsMissing
  <2>. QED  BY <1>0, <1>2, <2>1 DEF HoldsMissing, Blobs
<1>13. SentHeld'
  BY <1>0, <1>2, <1>7, <1>8, <1>9 DEF SentHeld
<1>14. DoneOnce'
  <2>1. ASSUME NEW i \in DOMAIN r.done, NEW j \in DOMAIN r.done, r.done[i] = r.done[j], r.done[i].ok
        PROVE  i = j
    <3>1. /\ Len(q.done) \in Nat /\ DOMAIN q.done = 1 .. Len(q.done)
          /\ DOMAIN r.done = 1 .. Len(q.done) + 1
          /\ r.done[Len(q.done) + 1] = Failed
          /\ \A k \in DOMAIN q.done : r.done[k] = q.done[k]
      BY <1>3, <1>4
    <3>2. \A k, l \in DOMAIN q.done : q.done[k] = q.done[l] /\ q.done[k].ok => k = l
      BY <1>0, <1>3 DEF DoneOnce
    <3>3. i # Len(q.done) + 1 /\ j # Len(q.done) + 1
      BY <2>1, <3>1, ResultFacts
    <3>4. i \in DOMAIN q.done /\ j \in DOMAIN q.done
      BY <3>1, <3>3
    <3>. QED  BY <2>1, <3>1, <3>2, <3>4
  <2>2. ASSUME NEW u \in BlobType, packer'[u].writer = "running"
        PROVE  /\ DonePacks(u)' \cap (Indexed' \cup indexer'.file) = {}
               /\ \A i, j \in DOMAIN packer'[u].done :
                     packer'[u].done[i] = packer'[u].done[j] /\ packer'[u].done[i].ok => i = j
    <3>1. packer[u].writer = "running"
      BY <1>4, <1>8, <2>2
    <3>2. DonePacks(u)' \cap (Indexed' \cup indexer'.file) = {}
      BY <1>0, <1>2, <1>9, <1>10, <3>1 DEF DoneOnce
    <3>3. CASE u # t
      BY <1>0, <1>8, <3>1, <3>2, <3>3 DEF DoneOnce
    <3>. QED  BY <2>1, <3>2, <3>3
  <2>3. DonePacks("tree")' \cap DonePacks("data")' = {}
    BY <1>0, <1>10 DEF DoneOnce, BlobType
  <2>. QED  BY <2>2, <2>3 DEF DoneOnce
<1>15. EndsClean'
  BY <1>0, <1>3, <1>4, <1>8 DEF EndsClean
<1>16. Finalized'
  <2>1. \A u \in BlobType : packer'[u].dropped = packer[u].dropped
                            /\ packer'[u].status = packer[u].status
    BY <1>4, <1>8
  <2>. QED  BY <1>0, <1>2, <1>9, <2>1 DEF Finalized, BlobType
<1>. QED  BY <1>2, <1>11, <1>12, <1>13, <1>14, <1>15, <1>16 DEF HandedOn

\* A saved index file lists its packs and no others.
LEMMA NewIndex ==
  ASSUME index \in [IndexId -> SUBSET PackId],
         NEW i \in IndexId, index[i] = {}, NEW ps, index' = [index EXCEPT ![i] = ps]
  PROVE  Indexed' = Indexed \cup ps
<1>1. /\ DOMAIN index = IndexId /\ index'[i] = ps
      /\ \A j \in IndexId : j # i => index'[j] = index[j]
  OBVIOUS
<1>2. \A x : x \in Indexed' <=> \E j \in IndexId : x \in index'[j]
  BY DEF Indexed
<1>3. \A x : x \in Indexed <=> \E j \in IndexId : x \in index[j]
  BY DEF Indexed
<1>4. \A x : x \in Indexed' <=> x \in Indexed \/ x \in ps
  BY <1>1, <1>2, <1>3
<1>. QED  BY <1>4

\* A written pack is added to the indexer, or to an index file with all others there.
LEMMA HandedOnAdd ==
  ASSUME HandedOn, NEW t \in BlobType, AddToIndexer(t)
  PROVE  HandedOn'
<1>. DEFINE q == packer[t]  r == packer'[t]  p == Head(q.done).pack
<1>0. /\ TypeOK /\ IndexSound /\ DedupSound /\ HoldsMissing /\ SentHeld /\ OwnOnTheWay
      /\ DoneOnce /\ EndsClean /\ Finalized
  BY DEF HandedOn
<1>1. Write(t)
  BY DEF Write
<1>2. TypeOK'
  BY <1>0, <1>1, TypeWrite
<1>3. /\ q \in PackerState /\ q.done \in Seq({Failed} \cup {Written(x) : x \in PackId})
      /\ q.writer = "running" /\ q.done # <<>> /\ Head(q.done).ok
      /\ packer \in [BlobType -> PackerState] /\ index \in [IndexId -> SUBSET PackId]
      /\ UNCHANGED <<packs, snapshots, archiver>>
  <2>1. q \in PackerState /\ q.done \in Seq({Failed} \cup {Written(x) : x \in PackId})
    BY <1>0, PackerFields
  <2>. QED  BY <1>0, <2>1 DEF TypeOK, AddToIndexer, WriterActive
<1>4. /\ p \in PackId /\ Head(q.done) = Written(p)
      /\ ToSet(q.done) = {Written(p)} \cup ToSet(Tail(q.done))
  <2>1. Head(q.done) \in {Failed} \cup {Written(x) : x \in PackId}
    BY <1>3, SetOfTail
  <2>2. PICK x \in PackId : Head(q.done) = Written(x)
    BY <1>3, <2>1, ResultFacts
  <2>3. p = x
    BY <2>2, ResultFacts
  <2>. QED  BY <1>3, <2>2, <2>3, SetOfTail
<1>5. /\ r = [q EXCEPT !.done = Tail(q.done)] \/ r = [q EXCEPT !.writer = "err"]
      /\ \/ indexer' = Added(p) /\ UNCHANGED index
         \/ /\ \E i \in IndexId : index[i] = {} /\ index' = [index EXCEPT ![i] = Added(p).file]
            /\ indexer' = [Added(p) EXCEPT !.file = {}]
  BY <1>3 DEF AddToIndexer
<1>6. /\ r.in = q.in /\ r.work = q.work /\ r.open = q.open /\ r.out = q.out
      /\ r.files = q.files /\ r.dropped = q.dropped /\ r.closed = q.closed /\ r.status = q.status
      /\ \/ r.done = Tail(q.done) /\ r.writer = q.writer
         \/ r.done = q.done /\ r.writer = "err"
  <2>1. q = [in |-> q.in, work |-> q.work, open |-> q.open, out |-> q.out, files |-> q.files,
             done |-> q.done, dropped |-> q.dropped, closed |-> q.closed, status |-> q.status,
             writer |-> q.writer]
    BY <1>3, PackerIsFields
  <2>2. CASE r = [q EXCEPT !.done = Tail(q.done)]
    BY <2>1, <2>2
  <2>3. CASE r = [q EXCEPT !.writer = "err"]
    BY <2>1, <2>3
  <2>. QED  BY <1>5, <2>2, <2>3
<1>7. /\ Indexed' \cup indexer'.file = Indexed \cup indexer.file \cup {p}
      /\ Indexed \subseteq Indexed'
      /\ indexer'.indexed = indexer.indexed \cup {b[2] : b \in packs[p]}
      /\ \/ Indexed' = Indexed /\ indexer'.file = indexer.file \cup {p}
         \/ indexer'.file = {}
  <2>1. CASE indexer' = Added(p) /\ UNCHANGED index
    <3>1. Indexed' = Indexed
      BY <2>1 DEF Indexed
    <3>. QED  BY <2>1, <3>1 DEF Added
  <2>2. CASE /\ \E i \in IndexId : index[i] = {} /\ index' = [index EXCEPT ![i] = Added(p).file]
             /\ indexer' = [Added(p) EXCEPT !.file = {}]
    <3>1. Indexed' = Indexed \cup Added(p).file
      BY <1>3, <2>2, NewIndex
    <3>2. indexer'.file = {} /\ indexer'.indexed = Added(p).indexed
      BY <2>2 DEF Added
    <3>. QED  BY <3>1, <3>2 DEF Added
  <2>. QED  BY <1>5, <2>1, <2>2
<1>8. /\ p \in DonePacks(t) /\ DonePacks(t) = DonePacks(t)' \cup {p}
      /\ r.writer = "running" => p \notin DonePacks(t)'
  <2>1. DonePacks(t) = {x \in PackId : Written(x) \in ToSet(q.done)}
        /\ DonePacks(t)' = {x \in PackId : Written(x) \in ToSet(r.done)}
    BY DEF DonePacks
  <2>2. p \in DonePacks(t) /\ DonePacks(t) = DonePacks(t)' \cup {p}
    BY <1>4, <1>6, <2>1, ResultFacts
  <2>3. ASSUME r.writer = "running", Written(p) \in ToSet(r.done)  PROVE FALSE
    <3>1. r.done = Tail(q.done)
      BY <1>6, <2>3
    <3>2. /\ Len(q.done) \in Nat \ {0} /\ DOMAIN q.done = 1 .. Len(q.done)
          /\ DOMAIN Tail(q.done) = 1 .. Len(q.done) - 1
          /\ \A k \in 1 .. Len(q.done) - 1 : Tail(q.done)[k] = q.done[k + 1]
          /\ q.done[1] = Written(p)
      BY <1>3, <1>4
    <3>3. PICK k \in 1 .. Len(q.done) - 1 : Tail(q.done)[k] = Written(p)
      BY <2>3, <3>1, <3>2 DEF ToSet
    <3>4. k + 1 \in DOMAIN q.done /\ 1 \in DOMAIN q.done /\ q.done[k + 1] = q.done[1] /\ k + 1 # 1
      BY <3>2, <3>3
    <3>5. q.done[1].ok
      BY <3>2, ResultFacts
    <3>. QED  BY <1>0, <1>3, <3>4, <3>5 DEF DoneOnce
  <2>. QED  BY <2>1, <2>2, <2>3
<1>9. \A u \in BlobType : u # t => /\ packer'[u] = packer[u] /\ Waiting(u)' = Waiting(u)
                                   /\ DonePacks(u)' = DonePacks(u) /\ Lost(u)' = Lost(u)
  BY <1>0, <1>1, OtherPackers
<1>10. Waiting(t)' = Waiting(t)
  BY <1>6 DEF Waiting
<1>11. Lost(t) => Lost(t)'
  BY <1>4, <1>6, ResultFacts DEF Lost
<1>12. p \in archiver.own /\ p \in Stored /\ p \notin Indexed /\ p \notin indexer.file
  BY <1>0, <1>3, <1>8 DEF OwnOnTheWay, DoneOnce
<1>13. \A ps : BlobsIn(ps, packs') = BlobsIn(ps, packs) /\ Stored' = Stored
  BY <1>3 DEF BlobsIn, Stored
<1>14. IndexSound'
  BY <1>0, <1>7, <1>12, <1>13 DEF IndexSound
<1>15. DedupSound'
  <2>1. indexer.indexed \subseteq {b[2] : b \in BlobsIn(Indexed \cup indexer.file, packs)}
    BY <1>0 DEF DedupSound
  <2>2. indexer'.indexed \subseteq {b[2] : b \in BlobsIn(Indexed' \cup indexer'.file, packs)}
    BY <1>7, <2>1 DEF BlobsIn
  <2>. QED  BY <1>13, <2>2 DEF DedupSound
<1>16. HoldsMissing'
  <2>1. \A u \in BlobType : Waiting(u)' = Waiting(u) /\ packer'[u].files = packer[u].files
    BY <1>6, <1>9, <1>10
  <2>. QED  BY <1>0, <1>3, <2>1 DEF HoldsMissing, Blobs
<1>17. SentHeld'
  <2>. SUFFICES ASSUME NEW u \in BlobType, ~Lost(u)', NEW id \in Ids(u), <<u, id>> \in archiver'.sent
                PROVE  \/ id \in Waiting(u)'
                       \/ \E b \in BlobsIn(Indexed' \cup indexer'.file \cup DonePacks(u)', packs') :
                             b[2] = id
    BY DEF SentHeld
  <2>1. ~Lost(u) /\ <<u, id>> \in archiver.sent
    BY <1>3, <1>9, <1>11
  <2>2. Indexed \cup indexer.file \cup DonePacks(u) \subseteq Indexed' \cup indexer'.file \cup DonePacks(u)'
    BY <1>7, <1>8, <1>9
  <2>3. BlobsIn(Indexed \cup indexer.file \cup DonePacks(u), packs)
          \subseteq BlobsIn(Indexed' \cup indexer'.file \cup DonePacks(u)', packs')
    BY <1>3, <2>2 DEF BlobsIn
  <2>4. Waiting(u)' = Waiting(u)
    BY <1>9, <1>10
  <2>. QED  BY <1>0, <2>1, <2>3, <2>4 DEF SentHeld
<1>18. OwnOnTheWay'
  <2>1. \A u \in BlobType : DonePacks(u)' \subseteq DonePacks(u) /\ DonePacks(u) \subseteq DonePacks(u)' \cup {p}
    BY <1>8, <1>9
  <2>2. archiver.own \subseteq Stored \cap (Indexed' \cup indexer'.file \cup DonePacks("tree")' \cup DonePacks("data")')
    BY <1>0, <1>7, <2>1 DEF OwnOnTheWay, BlobType
  <2>3. indexer'.file \subseteq archiver.own \ Indexed'
    BY <1>0, <1>7, <1>12 DEF OwnOnTheWay
  <2>. QED  BY <1>0, <1>3, <1>13, <2>1, <2>2, <2>3 DEF OwnOnTheWay
<1>19. DoneOnce'
  <2>1. DonePacks("tree")' \cap DonePacks("data")' = {}
    BY <1>0, <1>8, <1>9 DEF DoneOnce, BlobType
  <2>2. ASSUME NEW u \in BlobType, packer'[u].writer = "running"
        PROVE  /\ DonePacks(u)' \cap (Indexed' \cup indexer'.file) = {}
               /\ \A i, j \in DOMAIN packer'[u].done :
                     packer'[u].done[i] = packer'[u].done[j] /\ packer'[u].done[i].ok => i = j
    <3>1. CASE u # t
      <4>1. p \notin DonePacks(u)
        BY <1>0, <1>8, <3>1 DEF DoneOnce, BlobType
      <4>. QED  BY <1>0, <1>7, <1>9, <2>2, <3>1, <4>1 DEF DoneOnce
    <3>2. CASE u = t
      <4>1. r.done = Tail(q.done) /\ r.writer = "running"
        BY <1>6, <2>2, <3>2
      <4>2. DonePacks(t)' \cap (Indexed' \cup indexer'.file) = {}
        BY <1>0, <1>3, <1>7, <1>8, <4>1 DEF DoneOnce
      <4>3. /\ Len(q.done) \in Nat \ {0} /\ DOMAIN q.done = 1 .. Len(q.done)
            /\ DOMAIN r.done = 1 .. Len(q.done) - 1
            /\ \A k \in 1 .. Len(q.done) - 1 : r.done[k] = q.done[k + 1]
        BY <1>3, <4>1
      <4>4. \A k, l \in DOMAIN q.done : q.done[k] = q.done[l] /\ q.done[k].ok => k = l
        BY <1>0, <1>3 DEF DoneOnce
      <4>5. ASSUME NEW i \in DOMAIN r.done, NEW j \in DOMAIN r.done, r.done[i] = r.done[j], r.done[i].ok
            PROVE  i = j
        <5>1. i + 1 \in DOMAIN q.done /\ j + 1 \in DOMAIN q.done /\ i \in Nat /\ j \in Nat
          BY <4>3
        <5>2. q.done[i + 1] = q.done[j + 1] /\ q.done[i + 1].ok
          BY <4>3, <4>5
        <5>3. i + 1 = j + 1
          BY <4>4, <5>1, <5>2
        <5>. QED  BY <5>1, <5>3
      <4>. QED  BY <3>2, <4>2, <4>5
    <3>. QED  BY <3>1, <3>2
  <2>. QED  BY <2>1, <2>2 DEF DoneOnce
<1>20. EndsClean'
  BY <1>0, <1>3, <1>6, <1>9 DEF EndsClean
<1>21. Finalized'
  <2>1. \A u \in BlobType : packer'[u].dropped = packer[u].dropped
                            /\ packer'[u].status = packer[u].status
    BY <1>6, <1>9
  <2>2. archiver.pc # "save"
    BY <1>0, <1>3 DEF Finalized, EndsClean, BlobType
  <2>3. \A u \in BlobType : AllSent(u)' = AllSent(u)
    BY <1>3 DEF AllSent
  <2>4. IndexedBlobs \subseteq IndexedBlobs'
    BY <1>3, <1>7 DEF IndexedBlobs, BlobsIn
  <2>. QED  BY <1>0, <1>3, <2>1, <2>2, <2>3, <2>4 DEF Finalized, BlobType
<1>. QED  BY <1>2, <1>14, <1>15, <1>16, <1>17, <1>18, <1>19, <1>20, <1>21 DEF HandedOn

\* The writer ends: after a failure, or because there is nothing left to do.
LEMMA HandedOnEnded ==
  ASSUME HandedOn, NEW t \in BlobType, WriterFails(t) \/ WriterEnds(t)
  PROVE  HandedOn'
<1>. DEFINE q == packer[t]  r == packer'[t]
<1>0. /\ TypeOK /\ IndexSound /\ DedupSound /\ HoldsMissing /\ SentHeld /\ OwnOnTheWay
      /\ DoneOnce /\ EndsClean /\ Finalized
  BY DEF HandedOn
<1>1. Write(t)
  BY DEF Write
<1>2. TypeOK' /\ UNCHANGED <<packs, index, snapshots, archiver, indexer>>
  BY <1>0, <1>1, TypeWrite DEF WriterFails, WriterEnds
<1>3. q \in PackerState /\ q.writer = "running" /\ packer \in [BlobType -> PackerState]
  BY <1>0 DEF TypeOK, WriterFails, WriterEnds, WriterActive
<1>4. \/ r = [q EXCEPT !.writer = "err"]
      \/ r = [q EXCEPT !.writer = "ok"] /\ q.closed /\ q.files = <<>> /\ q.done = <<>>
  BY <1>3 DEF WriterFails, WriterEnds
<1>5. /\ r.in = q.in /\ r.work = q.work /\ r.open = q.open /\ r.out = q.out
      /\ r.files = q.files /\ r.done = q.done /\ r.dropped = q.dropped
      /\ r.closed = q.closed /\ r.status = q.status
      /\ r.writer = "err" \/ (r.writer = "ok" /\ q.closed /\ q.files = <<>> /\ q.done = <<>>)
  BY <1>3, <1>4, PackerIsFields
<1>6. \A u \in BlobType : u # t => /\ packer'[u] = packer[u] /\ Waiting(u)' = Waiting(u)
                                   /\ DonePacks(u)' = DonePacks(u) /\ Lost(u)' = Lost(u)
  BY <1>0, <1>1, OtherPackers
<1>7. /\ Waiting(t)' = Waiting(t) /\ DonePacks(t)' = DonePacks(t) /\ (Lost(t) => Lost(t)')
  BY <1>3, <1>5 DEF Waiting, DonePacks, Lost
<1>8. \A u \in BlobType : /\ Waiting(u)' = Waiting(u) /\ DonePacks(u)' = DonePacks(u)
                          /\ Lost(u) => Lost(u)'
                          /\ packer'[u].files = packer[u].files /\ packer'[u].done = packer[u].done
                          /\ packer'[u].dropped = packer[u].dropped
                          /\ packer'[u].status = packer[u].status
                          /\ packer'[u].writer = "running" => packer[u].writer = "running"
  BY <1>5, <1>6, <1>7
<1>9. /\ Stored' = Stored /\ Indexed' = Indexed /\ IndexedBlobs' = IndexedBlobs
      /\ \A u \in BlobType : AllSent(u)' = AllSent(u)
  BY <1>2 DEF Stored, Indexed, IndexedBlobs, BlobsIn, AllSent
<1>10. IndexSound' /\ DedupSound' /\ OwnOnTheWay'
  BY <1>0, <1>2, <1>8, <1>9 DEF IndexSound, DedupSound, OwnOnTheWay, BlobType
<1>11. HoldsMissing'
  BY <1>0, <1>2, <1>8 DEF HoldsMissing, Blobs
<1>12. SentHeld'
  BY <1>0, <1>2, <1>8, <1>9 DEF SentHeld
<1>13. DoneOnce'
  BY <1>0, <1>2, <1>8, <1>9 DEF DoneOnce, BlobType
<1>14. EndsClean'
  BY <1>0, <1>3, <1>5, <1>6 DEF EndsClean
<1>15. Finalized'
  BY <1>0, <1>2, <1>8, <1>9 DEF Finalized, BlobType
<1>. QED  BY <1>2, <1>10, <1>11, <1>12, <1>13, <1>14, <1>15 DEF HandedOn

LEMMA HandedOnWrite ==
  ASSUME HandedOn, NEW t \in BlobType, Write(t)
  PROVE  HandedOn'
<1>1. CASE WriteFile(t)
  BY <1>1, HandedOnWritten, HandedOnFailed DEF WriteFile
<1>. QED  BY <1>1, HandedOnAdd, HandedOnEnded DEF Write

-----------------------------------------------------------------------------
(***************************************************************************)
(* The archiver                                                            *)
(***************************************************************************)

\* Packers that have just been created.
LEMMA IdleViews ==
  ASSUME packer' = [t \in BlobType |-> IdlePacker], NEW u \in BlobType
  PROVE  /\ Waiting(u)' = {} /\ DonePacks(u)' = {} /\ {} \notin ToSet(packer'[u].files)
         /\ packer'[u].status = "running" /\ packer'[u].writer = "running"
         /\ packer'[u].closed = FALSE /\ packer'[u].dropped = FALSE
         /\ packer'[u].done = <<>>
<1>1. packer'[u] = IdlePacker
  OBVIOUS
<1>2. /\ packer'[u].in = <<>> /\ packer'[u].work = <<>> /\ packer'[u].open = {}
      /\ packer'[u].out = {} /\ packer'[u].files = <<>> /\ packer'[u].done = <<>>
      /\ packer'[u].status = "running" /\ packer'[u].writer = "running"
      /\ packer'[u].closed = FALSE /\ packer'[u].dropped = FALSE
  BY <1>1 DEF IdlePacker
<1>3. Waiting(u)' = ToSet(packer'[u].in) \cup ToSet(packer'[u].work) \cup packer'[u].open
                       \cup packer'[u].out \cup UNION ToSet(packer'[u].files)
  BY DEF Waiting
<1>4. DonePacks(u)' = {p \in PackId : Written(p) \in ToSet(packer'[u].done)}
  BY DEF DonePacks
<1>. QED  BY <1>2, <1>3, <1>4, SetOfEmpty

\* A backup that begins, or none that runs, has nothing on the way.
LEMMA HandedOnAnew ==
  ASSUME TypeOK', packer' = [t \in BlobType |-> IdlePacker],
         archiver'.sent = {}, archiver'.own = {}, archiver'.pc \in {"idle", "archive"},
         archiver'.loaded \subseteq IndexedBlobs', indexer'.file = {},
         IndexSound', DedupSound'
  PROVE  HandedOn'
<1>1. \A u \in BlobType : /\ Waiting(u)' = {} /\ DonePacks(u)' = {} /\ {} \notin ToSet(packer'[u].files)
                          /\ packer'[u].status = "running" /\ packer'[u].writer = "running"
                          /\ packer'[u].closed = FALSE /\ packer'[u].dropped = FALSE
                          /\ packer'[u].done = <<>>
  BY IdleViews
<1>2. HoldsMissing'
  BY <1>1 DEF HoldsMissing, Blobs
<1>3. SentHeld'
  BY DEF SentHeld
<1>4. OwnOnTheWay'
  BY <1>1 DEF OwnOnTheWay
<1>5. DoneOnce'
  BY <1>1 DEF DoneOnce, BlobType
<1>6. EndsClean'
  BY <1>1 DEF EndsClean
<1>7. Finalized'
  BY <1>1 DEF Finalized, BlobType
<1>. QED  BY <1>2, <1>3, <1>4, <1>5, <1>6, <1>7 DEF HandedOn

LEMMA HandedOnInit == Init => HandedOn /\ SnapshotsComplete
<1>. SUFFICES ASSUME Init  PROVE HandedOn /\ SnapshotsComplete
  OBVIOUS
<1>1. TypeOK
  BY TypeInit
<1>2. \A u \in BlobType : packer[u] = IdlePacker
  BY DEF Init
<1>3. \A u \in BlobType : /\ Waiting(u) = {} /\ DonePacks(u) = {} /\ {} \notin ToSet(packer[u].files)
                          /\ packer[u].status = "running" /\ packer[u].writer = "running"
                          /\ packer[u].closed = FALSE /\ packer[u].dropped = FALSE
                          /\ packer[u].done = <<>>
  BY <1>2, SetOfEmpty DEF Waiting, DonePacks, IdlePacker
<1>4. /\ archiver.sent = {} /\ archiver.own = {} /\ archiver.pc = "idle" /\ archiver.loaded = {}
      /\ indexer.file = {} /\ indexer.indexed = {} /\ Indexed = {} /\ snapshots = {}
  BY DEF Init, IdleArchiver, EmptyIndexer, Indexed
<1>5. IndexSound /\ DedupSound /\ SnapshotsComplete
  BY <1>4 DEF IndexSound, DedupSound, SnapshotsComplete
<1>6. HoldsMissing /\ SentHeld /\ OwnOnTheWay
  BY <1>3, <1>4 DEF HoldsMissing, SentHeld, OwnOnTheWay, Blobs
<1>7. DoneOnce /\ EndsClean /\ Finalized
  BY <1>3, <1>4 DEF DoneOnce, EndsClean, Finalized, BlobType
<1>. QED  BY <1>1, <1>5, <1>6, <1>7 DEF HandedOn

\* The archiver goes on, and may drop its senders.
LEMMA HandedOnGoesOn ==
  ASSUME HandedOn, TypeOK', UNCHANGED <<packs, index, snapshots, indexer>>,
         NEW c, archiver' = [archiver EXCEPT !.pc = c], Finalized',
         \A u \in BlobType :
            \/ packer'[u] = packer[u]
            \/ packer'[u] = [packer[u] EXCEPT !.dropped = TRUE]
  PROVE  HandedOn'
<1>0. /\ TypeOK /\ IndexSound /\ DedupSound /\ HoldsMissing /\ SentHeld /\ OwnOnTheWay
      /\ DoneOnce /\ EndsClean /\ Finalized
  BY DEF HandedOn
<1>1. /\ archiver'.need = archiver.need /\ archiver'.loaded = archiver.loaded
      /\ archiver'.sent = archiver.sent /\ archiver'.own = archiver.own
  BY <1>0 DEF TypeOK, ArchiverState
<1>2. ASSUME NEW u \in BlobType
      PROVE  /\ packer'[u].in = packer[u].in /\ packer'[u].work = packer[u].work
             /\ packer'[u].open = packer[u].open /\ packer'[u].out = packer[u].out
             /\ packer'[u].files = packer[u].files /\ packer'[u].done = packer[u].done
             /\ packer'[u].closed = packer[u].closed /\ packer'[u].status = packer[u].status
             /\ packer'[u].writer = packer[u].writer
             /\ packer[u].dropped => packer'[u].dropped
  <2>1. packer[u] \in PackerState
    BY <1>0 DEF TypeOK
  <2>. QED  BY <2>1, PackerIsFields
<1>3. \A u \in BlobType : /\ Waiting(u)' = Waiting(u) /\ DonePacks(u)' = DonePacks(u)
                          /\ Lost(u)' = Lost(u)
  BY <1>2 DEF Waiting, DonePacks, Lost
<1>4. Stored' = Stored /\ Indexed' = Indexed
  BY DEF Stored, Indexed
<1>5. IndexSound' /\ DedupSound' /\ OwnOnTheWay'
  BY <1>0, <1>1, <1>3, <1>4 DEF IndexSound, DedupSound, OwnOnTheWay, BlobType
<1>6. HoldsMissing'
  BY <1>0, <1>1, <1>2, <1>3 DEF HoldsMissing, Blobs
<1>7. SentHeld'
  BY <1>0, <1>1, <1>3, <1>4 DEF SentHeld
<1>8. DoneOnce'
  BY <1>0, <1>2, <1>3, <1>4 DEF DoneOnce, BlobType
<1>9. EndsClean'
  BY <1>0, <1>2 DEF EndsClean
<1>. QED  BY <1>5, <1>6, <1>7, <1>8, <1>9 DEF HandedOn

LEMMA HandedOnSend ==
  ASSUME HandedOn, NEW t \in BlobType, Send(t)
  PROVE  HandedOn'
<1>. DEFINE q == packer[t]  r == packer'[t]
<1>0. /\ TypeOK /\ IndexSound /\ DedupSound /\ HoldsMissing /\ SentHeld /\ OwnOnTheWay
      /\ DoneOnce /\ EndsClean /\ Finalized
  BY DEF HandedOn
<1>1. TypeOK' /\ UNCHANGED <<packs, index, snapshots, indexer>>
  <2>1. Archive
    BY DEF Archive
  <2>. QED  BY <1>0, <2>1, TypeArchive DEF Send
<1>2. q \in PackerState /\ q.in \in Seq(AnyId) /\ packer \in [BlobType -> PackerState]
      /\ archiver \in ArchiverState
  BY <1>0, PackerFields DEF TypeOK
<1>3. PICK id \in Ids(t) :
         /\ <<t, id>> \in archiver.need \ archiver.loaded
         /\ \/ q.status = "running" /\ packer' = [packer EXCEPT ![t].in = Append(q.in, id)]
            \/ q.status = "err" /\ packer' = packer
         /\ archiver' = Sending(t, id)
  BY DEF Send
<1>4. /\ archiver'.pc = archiver.pc /\ archiver'.need = archiver.need
      /\ archiver'.loaded = archiver.loaded /\ archiver'.own = archiver.own
      /\ archiver'.sent = archiver.sent \cup {<<t, id>>}
  BY <1>2, <1>3 DEF ArchiverState, Sending
<1>5. ~q.dropped
  BY <1>0 DEF Send, Finalized, BlobType
<1>6. /\ r.work = q.work /\ r.open = q.open /\ r.out = q.out /\ r.files = q.files
      /\ r.done = q.done /\ r.dropped = q.dropped /\ r.closed = q.closed
      /\ r.status = q.status /\ r.writer = q.writer
      /\ (q.status = "running" /\ r.in = Append(q.in, id)) \/ (q.status = "err" /\ r.in = q.in)
  <2>1. q = [in |-> q.in, work |-> q.work, open |-> q.open, out |-> q.out, files |-> q.files,
             done |-> q.done, dropped |-> q.dropped, closed |-> q.closed, status |-> q.status,
             writer |-> q.writer]
    BY <1>2, PackerIsFields
  <2>2. (q.status = "running" /\ r = [q EXCEPT !.in = Append(q.in, id)]) \/ (q.status = "err" /\ r = q)
    BY <1>2, <1>3
  <2>. QED  BY <2>1, <2>2
<1>7. \A u \in BlobType : u # t => packer'[u] = packer[u]
  BY <1>2, <1>3
<1>8. id \in AnyId
  BY DEF Ids, AnyId
<1>9. /\ \/ Waiting(t)' = Waiting(t) \cup {id}
         \/ Waiting(t)' = Waiting(t) /\ Lost(t)'
      /\ DonePacks(t)' = DonePacks(t) /\ Lost(t)' = Lost(t)
  <2>1. ToSet(Append(q.in, id)) = ToSet(q.in) \cup {id}
    BY <1>2, <1>8, SetOfAppend
  <2>2. \/ ToSet(r.in) = ToSet(q.in) \cup {id}
        \/ r.in = q.in /\ r.status = "err"
    BY <1>6, <2>1
  <2>. QED  BY <1>6, <2>2 DEF Waiting, DonePacks, Lost
<1>10. \A u \in BlobType : u # t =>
          Waiting(u)' = Waiting(u) /\ DonePacks(u)' = DonePacks(u) /\ Lost(u)' = Lost(u)
  BY <1>7 DEF Waiting, DonePacks, Lost
<1>11. \A u \in BlobType : DonePacks(u)' = DonePacks(u) /\ Lost(u)' = Lost(u)
  BY <1>9, <1>10
<1>12. Stored' = Stored /\ Indexed' = Indexed /\ IndexedBlobs' = IndexedBlobs
  BY <1>1 DEF Stored, Indexed, IndexedBlobs, BlobsIn
<1>13. IndexSound' /\ DedupSound' /\ OwnOnTheWay'
  BY <1>0, <1>1, <1>4, <1>11, <1>12 DEF IndexSound, DedupSound, OwnOnTheWay, BlobType
<1>14. HoldsMissing'
  <2>1. \A u \in BlobType : {} \notin ToSet(packer'[u].files)
    BY <1>0, <1>6, <1>7 DEF HoldsMissing
  <2>2. Blobs(t, Waiting(t)') \subseteq archiver.need \ archiver.loaded
    BY <1>0, <1>3, <1>9 DEF HoldsMissing, Blobs
  <2>. QED  BY <1>0, <1>4, <1>10, <2>1, <2>2 DEF HoldsMissing, Blobs
<1>15. SentHeld'
  <2>. SUFFICES ASSUME NEW u \in BlobType, ~Lost(u)', NEW x \in Ids(u), <<u, x>> \in archiver'.sent
                PROVE  \/ x \in Waiting(u)'
                       \/ \E b \in BlobsIn(Indexed' \cup indexer'.file \cup DonePacks(u)', packs') :
                             b[2] = x
    BY DEF SentHeld
  <2>1. CASE <<u, x>> \in archiver.sent
    BY <1>0, <1>1, <1>9, <1>10, <1>11, <1>12, <2>1 DEF SentHeld
  <2>2. CASE u = t /\ x = id
    BY <1>9, <2>2
  <2>. QED  BY <1>4, <2>1, <2>2
<1>16. DoneOnce'
  <2>1. \A u \in BlobType : packer'[u].done = packer[u].done /\ packer'[u].writer = packer[u].writer
    BY <1>6, <1>7
  <2>. QED  BY <1>0, <1>1, <1>11, <1>12, <2>1 DEF DoneOnce, BlobType
<1>17. EndsClean'
  BY <1>0, <1>5, <1>6, <1>7 DEF EndsClean
<1>18. Finalized'
  <2>1. \A u \in BlobType : packer'[u].dropped = packer[u].dropped
                            /\ packer'[u].status = packer[u].status
    BY <1>6, <1>7
  <2>2. \A u \in BlobType : AllSent(u) => AllSent(u)'
    BY <1>4 DEF AllSent
  <2>. QED  BY <1>0, <1>1, <1>4, <1>12, <2>1, <2>2 DEF Finalized, BlobType
<1>. QED  BY <1>1, <1>13, <1>14, <1>15, <1>16, <1>17, <1>18 DEF HandedOn

\* The indexer is finalized when both packers are: it lists what they have written.
LEMMA HandedOnFinalized ==
  ASSUME HandedOn, FinalizeIndexer
  PROVE  HandedOn'
<1>0. /\ TypeOK /\ IndexSound /\ DedupSound /\ HoldsMissing /\ SentHeld /\ OwnOnTheWay
      /\ DoneOnce /\ EndsClean /\ Finalized
  BY DEF HandedOn
<1>1. TypeOK' /\ UNCHANGED <<packs, snapshots, packer>>
  <2>1. Archive
    BY DEF Archive
  <2>. QED  BY <1>0, <2>1, TypeArchive DEF FinalizeIndexer
<1>2. /\ archiver.pc = "index" /\ archiver'.pc = "save" /\ archiver'.need = archiver.need
      /\ archiver'.loaded = archiver.loaded /\ archiver'.own = archiver.own
      /\ archiver'.sent = archiver.sent
  BY <1>0 DEF FinalizeIndexer, TypeOK, ArchiverState
<1>3. indexer'.file = {} /\ indexer'.indexed = {}
  BY DEF FinalizeIndexer, EmptyIndexer
<1>4. Indexed' = Indexed \cup indexer.file
  <2>1. index \in [IndexId -> SUBSET PackId]
    BY <1>0 DEF TypeOK
  <2>2. CASE indexer.file = {} /\ UNCHANGED index
    BY <2>2 DEF Indexed
  <2>3. CASE \E i \in IndexId : index[i] = {} /\ index' = [index EXCEPT ![i] = indexer.file]
    BY <2>1, <2>3, NewIndex
  <2>. QED  BY <2>2, <2>3 DEF FinalizeIndexer, SaveIndex
<1>5. \A u \in BlobType : packer[u].done = <<>> /\ packer[u].writer = "ok"
  BY <1>0, <1>2 DEF Finalized, EndsClean, BlobType
<1>6. \A u \in BlobType : DonePacks(u) = {} /\ DonePacks(u)' = {} /\ Waiting(u)' = Waiting(u)
                          /\ Lost(u)' = Lost(u) /\ AllSent(u)' = AllSent(u)
  BY <1>1, <1>2, <1>5, SetOfEmpty DEF DonePacks, Waiting, Lost, AllSent
<1>7. Stored' = Stored /\ \A ps : BlobsIn(ps, packs') = BlobsIn(ps, packs)
  BY <1>1 DEF Stored, BlobsIn
<1>8. IndexSound'
  BY <1>0, <1>3, <1>4, <1>7 DEF IndexSound
<1>9. DedupSound'
  BY <1>3 DEF DedupSound
<1>10. HoldsMissing'
  BY <1>0, <1>1, <1>2, <1>6 DEF HoldsMissing, Blobs
<1>11. SentHeld'
  <2>1. \A u \in BlobType : Indexed' \cup indexer'.file \cup DonePacks(u)'
                               = Indexed \cup indexer.file \cup DonePacks(u)
    BY <1>3, <1>4, <1>6
  <2>. QED  BY <1>0, <1>2, <1>6, <1>7, <2>1 DEF SentHeld
<1>12. OwnOnTheWay'
  BY <1>0, <1>2, <1>3, <1>4, <1>6, <1>7 DEF OwnOnTheWay, BlobType
<1>13. DoneOnce'
  BY <1>1, <1>5, <1>6 DEF DoneOnce, BlobType
<1>14. EndsClean'
  BY <1>0, <1>1 DEF EndsClean
<1>15. Finalized'
  <2>1. IndexedBlobs \subseteq IndexedBlobs'
    BY <1>4, <1>7 DEF IndexedBlobs, BlobsIn
  <2>. QED  BY <1>0, <1>1, <1>2, <1>3, <1>6, <2>1 DEF Finalized, BlobType
<1>. QED  BY <1>1, <1>8, <1>9, <1>10, <1>11, <1>12, <1>13, <1>14, <1>15 DEF HandedOn

LEMMA HandedOnArchive ==
  ASSUME HandedOn, Archive
  PROVE  HandedOn'
<1>0. /\ TypeOK /\ IndexSound /\ DedupSound /\ OwnOnTheWay /\ EndsClean /\ Finalized
  BY DEF HandedOn
<1>1. TypeOK'
  BY <1>0, TypeArchive
<1>2. /\ archiver \in ArchiverState /\ packer \in [BlobType -> PackerState]
  BY <1>0 DEF TypeOK
<1>3. ASSUME UNCHANGED <<packs, index>>
      PROVE  /\ Indexed' = Indexed /\ Stored' = Stored /\ IndexedBlobs' = IndexedBlobs
             /\ \A ps : BlobsIn(ps, packs') = BlobsIn(ps, packs)
  BY <1>3 DEF Indexed, Stored, IndexedBlobs, BlobsIn
<1>4. CASE Start
  <2>1. /\ archiver'.sent = {} /\ archiver'.own = {} /\ archiver'.pc = "archive"
        /\ archiver'.loaded = IndexedBlobs
    BY <1>4 DEF Start, IdleArchiver
  <2>2. indexer'.file = {} /\ indexer'.indexed = {}
    BY <1>4 DEF Start, EmptyIndexer
  <2>3. UNCHANGED <<packs, index>> /\ packer' = [t \in BlobType |-> IdlePacker]
    BY <1>4 DEF Start
  <2>4. IndexSound' /\ DedupSound'
    BY <1>0, <1>3, <2>2, <2>3 DEF IndexSound, DedupSound
  <2>. QED  BY <1>1, <1>3, <2>1, <2>2, <2>3, <2>4, HandedOnAnew
<1>5. CASE Exit
  <2>1. /\ archiver'.sent = {} /\ archiver'.own = {} /\ archiver'.pc = "idle"
        /\ archiver'.loaded = {}
    BY <1>5 DEF Exit, IdleArchiver
  <2>2. indexer'.file = {} /\ indexer'.indexed = {}
    BY <1>5 DEF Exit, EmptyIndexer
  <2>3. UNCHANGED <<packs, index>> /\ packer' = [t \in BlobType |-> IdlePacker]
    BY <1>5 DEF Exit
  <2>4. IndexSound' /\ DedupSound'
    BY <1>0, <1>3, <2>2, <2>3 DEF IndexSound, DedupSound
  <2>. QED  BY <1>1, <2>1, <2>2, <2>3, <2>4, HandedOnAnew
<1>6. CASE SaveSnapshot
  <2>1. /\ archiver'.sent = {} /\ archiver'.own = {} /\ archiver'.pc = "idle"
        /\ archiver'.loaded = {}
    BY <1>6 DEF SaveSnapshot, IdleArchiver
  <2>2. UNCHANGED <<packs, index, indexer>> /\ packer' = [t \in BlobType |-> IdlePacker]
    BY <1>6 DEF SaveSnapshot
  <2>3. indexer'.file = {}
    BY <1>0, <1>6, <2>2 DEF Finalized, SaveSnapshot
  <2>4. IndexSound' /\ DedupSound'
    BY <1>0, <1>3, <2>2 DEF IndexSound, DedupSound
  <2>. QED  BY <1>1, <2>1, <2>2, <2>3, <2>4, HandedOnAnew
<1>7. CASE FinalizeIndexer
  BY <1>7, HandedOnFinalized
<1>8. ASSUME NEW t \in BlobType, Send(t)  PROVE HandedOn'
  BY <1>8, HandedOnSend
<1>9. CASE FinalizeData \/ DataFinalized \/ FinalizeTree \/ TreeFinalized \/ Fail
  <2>1. UNCHANGED <<packs, index, snapshots, indexer>>
    BY <1>9 DEF FinalizeData, DataFinalized, FinalizeTree, TreeFinalized, Fail
  <2>2. \A u \in BlobType : \/ packer'[u] = packer[u]
                            \/ packer'[u] = [packer[u] EXCEPT !.dropped = TRUE]
    BY <1>2, <1>9 DEF FinalizeData, DataFinalized, FinalizeTree, TreeFinalized, Fail, BlobType
  <2>3. PICK c : archiver' = [archiver EXCEPT !.pc = c]
    BY <1>9 DEF FinalizeData, DataFinalized, FinalizeTree, TreeFinalized, Fail
  <2>4. Finalized'
    <3>1. /\ archiver'.pc = c /\ archiver'.loaded = archiver.loaded
          /\ archiver'.need = archiver.need /\ archiver'.sent = archiver.sent
      BY <1>2, <2>3 DEF ArchiverState
    <3>2. \A u \in BlobType : packer'[u].status = packer[u].status
      <4>1. ASSUME NEW u \in BlobType  PROVE packer'[u].status = packer[u].status
        <5>1. packer[u] \in PackerState
          BY <1>2
        <5>2. packer'[u] = packer[u] \/ packer'[u] = [packer[u] EXCEPT !.dropped = TRUE]
          BY <2>2
        <5>. QED  BY <5>1, <5>2, PackerIsFields
      <4>. QED  BY <4>1
    <3>3. \A u \in BlobType : AllSent(u)' = AllSent(u)
      BY <3>1 DEF AllSent
    <3>4. CASE FinalizeData
      <4>1. /\ archiver.pc = "archive" /\ AllSent("data") /\ archiver'.pc = "data"
            /\ packer'["tree"] = packer["tree"]
        BY <1>2, <3>4 DEF FinalizeData, BlobType, ArchiverState
      <4>. QED  BY <1>0, <1>3, <2>1, <3>1, <3>3, <4>1 DEF Finalized, BlobType
    <3>5. CASE DataFinalized
      <4>1. /\ archiver.pc = "data" /\ packer["data"].status = "ok" /\ archiver'.pc = "root"
            /\ packer' = packer
        BY <1>2, <3>5 DEF DataFinalized, Ends, ArchiverState
      <4>. QED  BY <1>0, <1>3, <2>1, <3>1, <3>3, <4>1 DEF Finalized, BlobType
    <3>6. CASE FinalizeTree
      <4>1. /\ archiver.pc = "root" /\ AllSent("tree") /\ archiver'.pc = "tree"
        BY <1>2, <3>6 DEF FinalizeTree, ArchiverState
      <4>. QED  BY <1>0, <1>3, <2>1, <3>1, <3>2, <3>3, <4>1 DEF Finalized, BlobType
    <3>7. CASE TreeFinalized
      <4>1. /\ archiver.pc = "tree" /\ packer["tree"].status = "ok" /\ archiver'.pc = "index"
            /\ packer' = packer
        BY <1>2, <3>7 DEF TreeFinalized, Ends, ArchiverState
      <4>. QED  BY <1>0, <1>3, <2>1, <3>1, <3>3, <4>1 DEF Finalized, BlobType
    <3>8. CASE Fail
      <4>1. archiver'.pc = "failed"
        BY <1>2, <3>8 DEF Fail, ArchiverState
      <4>. QED  BY <1>0, <1>3, <2>1, <3>1, <4>1 DEF Finalized
    <3>. QED  BY <1>9, <3>4, <3>5, <3>6, <3>7, <3>8
  <2>. QED  BY <1>1, <2>1, <2>2, <2>3, <2>4, HandedOnGoesOn
<1>. QED  BY <1>4, <1>5, <1>6, <1>7, <1>8, <1>9 DEF Archive

\* Whatever the ids are, whatever fails and whenever the process dies: every blob
\* given to a packer is in the pipeline, indexed, or known to be lost
\* (RawPacker::add_raw, Actor, Indexer::add_with).
THEOREM PipelineHandsOn == Spec => []HandedOn
<1>1. Init => HandedOn
  BY HandedOnInit
<1>2. HandedOn /\ [Next]_vars => HandedOn'
  <2>. SUFFICES ASSUME HandedOn, [Next]_vars  PROVE HandedOn'
    OBVIOUS
  <2>1. CASE UNCHANGED vars
    <3>1. UNCHANGED <<packs, index, snapshots, archiver, packer, indexer>>
      BY <2>1 DEF vars
    <3>2. /\ Stored' = Stored /\ Indexed' = Indexed /\ IndexedBlobs' = IndexedBlobs
          /\ \A u \in BlobType : /\ Waiting(u)' = Waiting(u) /\ DonePacks(u)' = DonePacks(u)
                                /\ Lost(u)' = Lost(u) /\ AllSent(u)' = AllSent(u)
      BY <3>1 DEF Stored, Indexed, IndexedBlobs, BlobsIn, Waiting, DonePacks, Lost, AllSent
    <3>3. TypeOK' /\ IndexSound' /\ DedupSound'
      BY <3>1, <3>2 DEF HandedOn, TypeOK, IndexSound, DedupSound
    <3>4. HoldsMissing' /\ SentHeld'
      BY <3>1, <3>2 DEF HandedOn, HoldsMissing, SentHeld
    <3>5. OwnOnTheWay' /\ DoneOnce'
      BY <3>1, <3>2 DEF HandedOn, OwnOnTheWay, DoneOnce, BlobType
    <3>6. EndsClean' /\ Finalized'
      BY <3>1, <3>2 DEF HandedOn, EndsClean, Finalized, BlobType
    <3>. QED  BY <3>3, <3>4, <3>5, <3>6 DEF HandedOn
  <2>2. CASE Next
    BY <2>2, HandedOnArchive, HandedOnPack, HandedOnWrite DEF Next
  <2>. QED  BY <2>1, <2>2
<1>. QED  BY <1>1, <1>2, PTL DEF Spec

-----------------------------------------------------------------------------
(***************************************************************************)
(* What a finalized pipeline has achieved.  Indexer::has and the packers   *)
(* know ids only, so that a blob is indexed or mistaken for another.       *)
(***************************************************************************)

\* When both packers and the indexer are finalized, all blobs of the source are in
\* the index or mistaken, and all packs of the backup are in the index.
LEMMA SavedComplete ==
  ASSUME HandedOn, archiver.pc = "save"
  PROVE  /\ \A b \in archiver.need \ IndexedBlobs : Mistaken(b)
         /\ archiver.own \subseteq Indexed
<1>0. TypeOK /\ SentHeld /\ OwnOnTheWay /\ EndsClean /\ Finalized
  BY DEF HandedOn
<1>1. \A u \in BlobType : /\ packer[u].status = "ok" /\ packer[u].writer = "ok" /\ packer[u].closed
                          /\ packer[u].files = <<>> /\ packer[u].done = <<>> /\ AllSent(u)
  BY <1>0 DEF Finalized, EndsClean, BlobType
<1>2. \A u \in BlobType : /\ packer[u].in = <<>> /\ packer[u].work = <<>>
                          /\ packer[u].open = {} /\ packer[u].out = {}
  BY <1>0, <1>1 DEF EndsClean
<1>3. \A u \in BlobType : Waiting(u) = {} /\ DonePacks(u) = {} /\ ~Lost(u)
  BY <1>1, <1>2, SetOfEmpty DEF Waiting, DonePacks, Lost
<1>4. indexer.file = {}
  BY <1>0 DEF Finalized
<1>5. archiver.own \subseteq Indexed
  BY <1>0, <1>3, <1>4 DEF OwnOnTheWay, BlobType
<1>7. ASSUME NEW b \in archiver.need, b \notin archiver.loaded, b \notin IndexedBlobs
      PROVE  Mistaken(b)
  <2>0. PICK t \in BlobType : b \in {t} \X Ids(t)
    BY <1>0 DEF TypeOK, ArchiverState, Blob
  <2>1. PICK id \in Ids(t) : b = <<t, id>>
    BY <2>0
  <2>2. b \in archiver.sent
    BY <1>1, <1>7, <2>1 DEF AllSent
  <2>3. PICK c \in BlobsIn(Indexed \cup indexer.file \cup DonePacks(t), packs) : c[2] = id
    BY <1>0, <1>3, <2>1, <2>2 DEF SentHeld
  <2>4. c \in IndexedBlobs
    BY <1>3, <1>4, <2>3 DEF IndexedBlobs
  <2>. QED  BY <1>7, <2>1, <2>3, <2>4 DEF Mistaken
<1>8. archiver.loaded \subseteq IndexedBlobs
  BY <1>0 DEF Finalized
<1>. QED  BY <1>5, <1>7, <1>8

\* A pack that is added to the indexer has been written by this backup, and no
\* index file has it.
LEMMA AddedPack ==
  ASSUME HandedOn, NEW t \in BlobType, AddToIndexer(t), NEW p, p = Head(packer[t].done).pack
  PROVE  p \in PackId /\ p \in archiver.own /\ p \notin Indexed
<1>. DEFINE d == packer[t].done
<1>1. TypeOK /\ OwnOnTheWay /\ DoneOnce
  BY DEF HandedOn
<1>2. d \in Seq({Failed} \cup {Written(x) : x \in PackId}) /\ d # <<>> /\ Head(d).ok
      /\ packer[t].writer = "running"
  BY <1>1, PackerFields DEF AddToIndexer, WriterActive
<1>3. Head(d) \in {Failed} \cup {Written(x) : x \in PackId} /\ Head(d) \in ToSet(d)
  BY <1>2, SetOfTail
<1>4. p \in PackId /\ Head(d) = Written(p)
  BY <1>2, <1>3, ResultFacts
<1>5. p \in DonePacks(t)
  BY <1>3, <1>4 DEF DonePacks
<1>. QED  BY <1>1, <1>2, <1>4, <1>5 DEF OwnOnTheWay, DoneOnce

\* What the archiver itself changes on the backend.
LEMMA ArchiveEffect ==
  ASSUME Archive
  PROVE  UNCHANGED packs /\ (FinalizeIndexer \/ UNCHANGED index) /\ (SaveSnapshot \/ UNCHANGED snapshots)
<1>1. ASSUME NEW t \in BlobType, Send(t)  PROVE UNCHANGED <<packs, index, snapshots>>
  BY <1>1 DEF Send
<1>2. CASE FinalizeData \/ DataFinalized \/ FinalizeTree \/ TreeFinalized
  BY <1>2 DEF FinalizeData, DataFinalized, FinalizeTree, TreeFinalized
<1>3. CASE Start \/ Fail \/ Exit
  <2>1. CASE Start
    BY <2>1 DEF Start
  <2>2. CASE Fail
    BY <2>2 DEF Fail
  <2>3. CASE Exit
    BY <2>3 DEF Exit
  <2>. QED  BY <1>3, <2>1, <2>2, <2>3
<1>4. CASE FinalizeIndexer
  BY <1>4 DEF FinalizeIndexer
<1>5. CASE SaveSnapshot
  BY <1>5 DEF SaveSnapshot
<1>. QED  BY <1>1, <1>2, <1>3, <1>4, <1>5 DEF Archive

\* The index, and with it what it knows, only grows.
LEMMA IndexGrows ==
  ASSUME HandedOn, [Next]_vars
  PROVE  Indexed \subseteq Indexed' /\ IndexedBlobs \subseteq IndexedBlobs'
<1>0. TypeOK /\ IndexSound /\ HoldsMissing
  BY DEF HandedOn
<1>1. packs \in [PackId -> SUBSET Blob] /\ index \in [IndexId -> SUBSET PackId]
      /\ Indexed \subseteq Stored
  BY <1>0 DEF TypeOK, IndexSound
<1>2. Indexed \subseteq Indexed'
  <2>1. CASE UNCHANGED index
    BY <2>1 DEF Indexed
  <2>2. ASSUME NEW i \in IndexId, NEW new, index[i] = {}, index' = [index EXCEPT ![i] = new]
        PROVE  Indexed \subseteq Indexed'
    <3>1. Indexed' = Indexed \cup new
      BY <1>1, <2>2, NewIndex
    <3>. QED  BY <3>1
  <2>3. CASE FinalizeIndexer
    BY <2>1, <2>2, <2>3 DEF FinalizeIndexer, SaveIndex
  <2>4. ASSUME NEW t \in BlobType, AddToIndexer(t)  PROVE Indexed \subseteq Indexed'
    BY <2>1, <2>2, <2>4 DEF AddToIndexer
  <2>5. CASE Archive /\ ~FinalizeIndexer
    BY <2>1, <2>5, ArchiveEffect
  <2>6. ASSUME NEW t \in BlobType, Pack(t)  PROVE UNCHANGED index
    BY <1>0, <2>6, TypePack
  <2>7. ASSUME NEW t \in BlobType, Write(t), ~AddToIndexer(t)  PROVE UNCHANGED index
    BY <2>7 DEF Write, WriteFile, WriterFails, WriterEnds
  <2>. QED  BY <2>1, <2>3, <2>4, <2>5, <2>6, <2>7 DEF Next, vars
<1>3. \A x \in Stored : packs'[x] = packs[x]
  <2>1. CASE UNCHANGED packs
    BY <2>1
  <2>2. ASSUME NEW t \in BlobType, NEW p \in FreshPack, PackWritten(t, p)
        PROVE  \A x \in Stored : packs'[x] = packs[x]
    BY <1>1, <2>2 DEF PackWritten, FreshPack, Stored
  <2>3. CASE Archive
    BY <2>1, <2>3, ArchiveEffect
  <2>4. ASSUME NEW t \in BlobType, Pack(t)  PROVE UNCHANGED packs
    BY <1>0, <2>4, TypePack
  <2>5. ASSUME NEW t \in BlobType, Write(t)  PROVE \A x \in Stored : packs'[x] = packs[x]
    BY <2>1, <2>2, <2>5 DEF Write, WriteFile, PackFailed, AddToIndexer, WriterFails, WriterEnds
  <2>. QED  BY <2>1, <2>3, <2>4, <2>5 DEF Next, vars
<1>. QED  BY <1>1, <1>2, <1>3 DEF IndexedBlobs, BlobsIn

\* Every blob of a saved snapshot is in a written and indexed pack, or one of the
\* other type with its id is: the invariant that the runs check, for all sets of
\* ids, with or without common ones, and all queue lengths.
THEOREM PipelineSafe == Spec => []PipelineInv
<1>1. Init => PipelineInv
  BY HandedOnInit DEF PipelineInv
<1>2. PipelineInv /\ HandedOn' /\ [Next]_vars => PipelineInv'
  <2>. SUFFICES ASSUME PipelineInv, HandedOn', [Next]_vars  PROVE SnapshotsComplete'
    BY DEF PipelineInv
  <2>1. IndexedBlobs \subseteq IndexedBlobs'
    BY IndexGrows DEF PipelineInv
  <2>2. snapshots' \subseteq snapshots \cup {s \in {archiver.need} : archiver.pc = "save"}
    <3>1. CASE SaveSnapshot
      BY <3>1 DEF SaveSnapshot
    <3>2. CASE Archive /\ ~SaveSnapshot
      BY <3>2, ArchiveEffect
    <3>3. ASSUME NEW t \in BlobType, Pack(t)  PROVE UNCHANGED snapshots
      BY <3>3, TypePack DEF PipelineInv, HandedOn
    <3>4. ASSUME NEW t \in BlobType, Write(t)  PROVE UNCHANGED snapshots
      BY <3>4, TypeWrite DEF PipelineInv, HandedOn
    <3>. QED  BY <3>1, <3>2, <3>3, <3>4 DEF Next, vars
  <2>3. archiver.pc = "save" => \A b \in archiver.need \ IndexedBlobs : Mistaken(b)
    BY SavedComplete DEF PipelineInv
  <2>4. \A b : Mistaken(b) => Mistaken(b)'
    BY <2>1 DEF Mistaken
  <2>. QED  BY <2>1, <2>2, <2>3, <2>4 DEF PipelineInv, SnapshotsComplete
<1>. QED  BY <1>1, <1>2, PipelineHandsOn, PTL DEF Spec

-----------------------------------------------------------------------------
(***************************************************************************)
(* The pipeline implements the backup of BackupPrune: every step of a      *)
(* thread is a step of that backup, or changes nothing it knows of.        *)
(***************************************************************************)

\* The views of BackupPrune on the backend.
LEMMA AbstractIndex ==
  /\ BP!NormalIn(IndexId) = Indexed /\ BP!MarksIn(IndexId) = {}
  /\ BP!LoadedBlobs = IndexedBlobs
  /\ \A i \in IndexId : index[i] = {} => i \in BP!FreshIndex
<1>1. \A i \in IndexId : IndexFiles[i] = [packs |-> index[i], marked |-> {}]
  BY DEF IndexFiles
<1>2. ASSUME NEW i \in IndexId  PROVE IndexFiles[i].packs = index[i] /\ IndexFiles[i].marked = {}
  <2>1. IndexFiles[i] = [packs |-> index[i], marked |-> {}]
    BY <1>1
  <2>. QED  BY <2>1
<1>3. BP!NormalIn(IndexId) = Indexed
  BY <1>2 DEF BP!NormalIn, Indexed
<1>4. BP!MarksIn(IndexId) = {}
  BY <1>2 DEF BP!MarksIn
<1>5. BP!LoadedBlobs = IndexedBlobs
  BY <1>3 DEF BP!LoadedBlobs, BP!BlobsIn, IndexedBlobs, BlobsIn
<1>6. \A i \in IndexId : index[i] = {} => i \in BP!FreshIndex
  <2>1. IdlePrune.read = {} /\ IdlePrune.old = {}
    BY DEF IdlePrune
  <2>. QED  BY <1>1, <2>1 DEF BP!FreshIndex, BP!EmptyIndex
<1>. QED  BY <1>3, <1>4, <1>5, <1>6

\* A new pack is new to the backup of BackupPrune.
LEMMA AbstractFreshPack ==
  ASSUME HandedOn, archiver.pc # "idle", NEW p \in FreshPack
  PROVE  p \in BP!FreshPack
<1>1. p \in PackId /\ packs[p] = {} /\ p \notin Indexed /\ p \notin archiver.own
  BY DEF FreshPack, HandedOn, IndexSound, OwnOnTheWay, Stored
<1>2. \A b \in {Process} : Backups[b].pend = archiver.own \ Indexed
  BY DEF Backups, RunningBackup
<1>3. /\ IdlePrune.from = {} /\ IdlePrune.newPacks = {} /\ IdlePrune.newMarks = {}
      /\ IdlePrune.rm = {}
  BY DEF IdlePrune
<1>4. BP!PacksOf({}) = {}
  BY DEF BP!PacksOf
<1>. QED  BY <1>1, <1>2, <1>3, <1>4, AbstractIndex DEF BP!FreshPack

\* What the backup is, and what a step makes of it.
LEMMA AbstractBackup ==
  /\ archiver.pc # "idle" => Backups = [b \in {Process} |-> RunningBackup]
  /\ archiver.pc = "idle" => Backups = [b \in {Process} |-> IdleBackup]
  /\ archiver'.pc # "idle" => Backups' = [b \in {Process} |-> RunningBackup']
  /\ archiver'.pc = "idle" => Backups' = [b \in {Process} |-> IdleBackup]
BY DEF Backups

\* A step that leaves alone what BackupPrune knows of is a stutter.
LEMMA AbstractStutter ==
  ASSUME UNCHANGED <<packs, index, snapshots>>,
         archiver'.pc = "idle" <=> archiver.pc = "idle",
         archiver'.need = archiver.need, archiver'.loaded = archiver.loaded,
         archiver'.own = archiver.own
  PROVE  UNCHANGED BP!vars
<1>1. IndexFiles' = IndexFiles
  BY DEF IndexFiles
<1>2. Indexed' = Indexed /\ IndexedBlobs' = IndexedBlobs
  BY DEF Indexed, IndexedBlobs, BlobsIn
<1>3. RunningBackup' = RunningBackup
  BY <1>2 DEF RunningBackup
<1>4. Backups' = Backups
  BY <1>3, AbstractBackup
<1>. QED  BY <1>1, <1>4 DEF BP!vars, IdlePrune

\* Start is BackupLoad.
LEMMA StepLoad ==
  ASSUME HandedOn, Start
  PROVE  BP!BackupLoad(Process)
<1>1. UNCHANGED <<packs, index, snapshots>>
  BY DEF Start
<1>2. PICK need \in (SUBSET Blob) \ {{}} :
         archiver' = [IdleArchiver EXCEPT !.pc = "archive", !.runs = archiver.runs + 1,
                                          !.need = need, !.loaded = IndexedBlobs]
  BY Zenon DEF Start
<1>3. /\ archiver'.pc = "archive" /\ archiver'.need = need /\ archiver'.loaded = IndexedBlobs
      /\ archiver'.own = {}
  BY <1>2 DEF IdleArchiver
<1>4. IndexFiles' = IndexFiles /\ Indexed' = Indexed /\ IndexedBlobs' = IndexedBlobs
  BY <1>1 DEF IndexFiles, Indexed, IndexedBlobs, BlobsIn
<1>5. RunningBackup' = [pc |-> "running", start |-> 0, need |-> need,
                        miss |-> need \ IndexedBlobs, known |-> IndexedBlobs, pend |-> {}]
  <2>1. archiver'.own \ Indexed' = {}
    BY <1>3
  <2>. QED  BY <1>3, <1>4, <2>1 DEF RunningBackup
<1>6. archiver.pc = "idle"
  BY DEF Start
<1>7. /\ Backups = [b \in {Process} |-> IdleBackup]
      /\ Backups' = [b \in {Process} |-> RunningBackup']
  BY <1>3, <1>6, AbstractBackup
<1>8. Backups[Process].pc = "idle"
  BY <1>7 DEF IdleBackup
<1>9. Backups' = [Backups EXCEPT ![Process] =
                     [pc |-> "running", start |-> 0, need |-> need,
                      miss |-> need \ BP!LoadedBlobs, known |-> BP!LoadedBlobs, pend |-> {}]]
  BY <1>5, <1>7, AbstractIndex
<1>. QED  BY <1>1, <1>4, <1>8, <1>9 DEF BP!BackupLoad, IdlePrune

\* The successful step of a writer is BackupWritePack.
LEMMA StepWritePack ==
  ASSUME HandedOn, NEW t \in BlobType, WriteFile(t), NEW p \in FreshPack, PackWritten(t, p)
  PROVE  BP!BackupWritePack(Process)
<1>. DEFINE f == Head(packer[t].files)  new == Blobs(t, f)
<1>0. TypeOK /\ IndexSound /\ HoldsMissing
  BY DEF HandedOn
<1>1. /\ archiver.pc # "idle" /\ packer[t].files # <<>> /\ UNCHANGED <<index, snapshots>>
      /\ packs' = [packs EXCEPT ![p] = new]
      /\ archiver' = [archiver EXCEPT !.own = archiver.own \cup {p}]
  <2>1. /\ archiver.pc # "idle" /\ packer[t].files # <<>> /\ UNCHANGED <<index, snapshots>>
    BY Zenon DEF WriteFile, WriterActive
  <2>2. /\ packs' = [packs EXCEPT ![p] = new]
        /\ archiver' = [archiver EXCEPT !.own = archiver.own \cup {p}]
    BY DEF PackWritten
  <2>. QED  BY <2>1, <2>2
<1>2. f \in ToSet(packer[t].files)
  BY <1>0, <1>1, PackerFields, SetOfTail
<1>3. new \subseteq archiver.need \ archiver.loaded /\ new # {}
  <2>1. f \subseteq Waiting(t) /\ f # {}
    BY <1>0, <1>2 DEF HoldsMissing, Waiting
  <2>2. Blobs(t, Waiting(t)) \subseteq archiver.need \ archiver.loaded
    BY <1>0 DEF HoldsMissing
  <2>3. ASSUME NEW S, NEW T, S \subseteq T, S # {}
        PROVE  Blobs(t, S) \subseteq Blobs(t, T) /\ Blobs(t, S) # {}
    <3>1. PICK x : x \in S
      BY <2>3
    <3>2. <<t, x>> \in Blobs(t, S)
      BY <3>1 DEF Blobs
    <3>. QED  BY <2>3, <3>2 DEF Blobs
  <2>. QED  BY <2>1, <2>2, <2>3
<1>4. /\ archiver'.pc = archiver.pc /\ archiver'.need = archiver.need
      /\ archiver'.loaded = archiver.loaded /\ archiver'.own = archiver.own \cup {p}
  BY <1>0, <1>1 DEF TypeOK, ArchiverState
<1>5. p \in PackId /\ packs[p] = {} /\ packs \in [PackId -> SUBSET Blob] /\ Indexed \subseteq Stored
  BY <1>0 DEF FreshPack, TypeOK, IndexSound
<1>6. Indexed' = Indexed /\ IndexFiles' = IndexFiles /\ p \notin Indexed
  BY <1>1, <1>5 DEF Indexed, IndexFiles, Stored
<1>7. IndexedBlobs' = IndexedBlobs
  <2>1. \A ps \in SUBSET Stored : BlobsIn(ps, packs') = BlobsIn(ps, packs)
    BY <1>1, <1>3, <1>5, NewPack
  <2>. QED  BY <1>5, <1>6, <2>1 DEF IndexedBlobs
<1>8. RunningBackup' = [RunningBackup EXCEPT !.pend = RunningBackup.pend \cup {p}]
  <2>1. archiver'.own \ Indexed' = (archiver.own \ Indexed) \cup {p}
    BY <1>4, <1>6
  <2>. QED  BY <1>4, <1>7, <2>1 DEF RunningBackup
<1>9. /\ Backups = [b \in {Process} |-> RunningBackup]
      /\ Backups' = [b \in {Process} |-> RunningBackup']
  BY <1>1, <1>4, AbstractBackup
<1>10. Backups' = [Backups EXCEPT ![Process].pend = Backups[Process].pend \cup {p}]
  BY <1>8, <1>9
<1>11. /\ Backups[Process].pc = "running"
       /\ Backups[Process].miss = archiver.need \ archiver.loaded
  BY <1>9 DEF RunningBackup
<1>12. p \in BP!FreshPack
  BY <1>1, AbstractFreshPack
<1>13. new \in (SUBSET Backups[Process].miss) \ {{}}
  BY <1>3, <1>11
<1>. QED
  BY <1>1, <1>6, <1>10, <1>11, <1>12, <1>13 DEF BP!BackupWritePack, BP!Running, IdlePrune

\* A saved index file is BackupWriteIndex.
LEMMA StepWriteIndex ==
  ASSUME HandedOn, archiver.pc # "idle", NEW ps, ps \subseteq archiver.own \ Indexed, ps # {},
         NEW i \in IndexId, index[i] = {}, index' = [index EXCEPT ![i] = ps],
         UNCHANGED <<packs, snapshots>>, archiver'.pc # "idle",
         archiver'.need = archiver.need, archiver'.loaded = archiver.loaded,
         archiver'.own = archiver.own
  PROVE  BP!BackupWriteIndex(Process)
<1>1. index \in [IndexId -> SUBSET PackId]
  BY DEF HandedOn, TypeOK
<1>2. Indexed' = Indexed \cup ps
  BY <1>1, NewIndex
<1>3. IndexedBlobs' = IndexedBlobs \cup BP!BlobsIn(ps, packs)
  BY <1>2 DEF IndexedBlobs, BlobsIn, BP!BlobsIn
<1>4. archiver'.own \ Indexed' = (archiver.own \ Indexed) \ ps
  BY <1>2
<1>5. RunningBackup' = [pc |-> "running", start |-> 0, need |-> archiver.need,
                        miss |-> archiver.need \ archiver.loaded,
                        known |-> IndexedBlobs \cup BP!BlobsIn(ps, packs),
                        pend |-> (archiver.own \ Indexed) \ ps]
  BY <1>3, <1>4 DEF RunningBackup
<1>6. /\ Backups = [b \in {Process} |-> RunningBackup]
      /\ Backups' = [b \in {Process} |-> RunningBackup']
  BY AbstractBackup
<1>7. Backups' = [Backups EXCEPT ![Process] =
                     [Backups[Process] EXCEPT !.pend = Backups[Process].pend \ ps,
                                              !.known = Backups[Process].known \cup BP!BlobsIn(ps, packs)]]
  <2>. DEFINE R == RunningBackup
              x == R.pend \ ps
              y == R.known \cup BP!BlobsIn(ps, packs)
              n == archiver.need
              m == archiver.need \ archiver.loaded
              T(K, L) == [pc : {"running"}, start : {0}, need : {n}, miss : {m}, known : K, pend : L]
  <2>1. R \in T({R.known, y}, {R.pend, x})
    BY DEF RunningBackup
  <2>2. R' = [pc |-> "running", start |-> 0, need |-> n, miss |-> m, known |-> y, pend |-> x]
    BY <1>5 DEF RunningBackup
  <2>3. [R EXCEPT !.pend = x, !.known = y] \in T({y}, {x})
    <3>. HIDE DEF R, x, y, n, m
    <3>. QED  BY <2>1
  <2>4. ASSUME NEW Q \in T({y}, {x})
        PROVE  Q = [pc |-> "running", start |-> 0, need |-> n, miss |-> m, known |-> y, pend |-> x]
    <3>. HIDE DEF x, y, n, m
    <3>1. Q = [pc |-> Q.pc, start |-> Q.start, need |-> Q.need, miss |-> Q.miss,
               known |-> Q.known, pend |-> Q.pend]
      OBVIOUS
    <3>2. /\ Q.pc = "running" /\ Q.start = 0 /\ Q.need = n /\ Q.miss = m
          /\ Q.known = y /\ Q.pend = x
      OBVIOUS
    <3>. QED  BY <3>1, <3>2
  <2>5. R' = [R EXCEPT !.pend = x, !.known = y]
    <3>. HIDE DEF R, x, y, n, m, T
    <3>. QED  BY <2>2, <2>3, <2>4
  <2>6. Backups[Process] = R /\ Backups' = [b \in {Process} |-> R']
    BY <1>6
  <2>. HIDE DEF R
  <2>. QED  BY <1>6, <2>5, <2>6
<1>8. Backups[Process].pc = "running" /\ ps \in (SUBSET Backups[Process].pend) \ {{}}
  BY <1>6 DEF RunningBackup
<1>9. IndexFiles' = [IndexFiles EXCEPT ![i] = [packs |-> ps, marked |-> {}]]
  BY <1>1 DEF IndexFiles
<1>10. i \in BP!FreshIndex
  BY AbstractIndex
<1>. QED  BY <1>7, <1>8, <1>9, <1>10 DEF BP!BackupWriteIndex, BP!Running, IdlePrune

\* The end of a backup, with or without a new snapshot.
LEMMA StepEnd ==
  ASSUME HandedOn, SaveSnapshot \/ Exit
  PROVE  BP!BackupSave(Process) \/ BP!BackupAbort(Process) \/ SavesMistaken
<1>1. archiver.pc # "idle" /\ archiver'.pc = "idle" /\ UNCHANGED <<packs, index>>
  BY DEF SaveSnapshot, Exit, IdleArchiver
<1>2. IndexFiles' = IndexFiles
  BY <1>1 DEF IndexFiles
<1>3. /\ Backups = [b \in {Process} |-> RunningBackup]
      /\ Backups' = [b \in {Process} |-> IdleBackup]
  BY <1>1, AbstractBackup
<1>4. Backups' = [Backups EXCEPT ![Process] = BP!IdleBackup]
  BY <1>3 DEF IdleBackup, BP!IdleBackup
<1>5. Backups[Process].pc = "running"
  BY <1>3 DEF RunningBackup
<1>6. CASE UNCHANGED snapshots
  BY <1>1, <1>2, <1>4, <1>5, <1>6 DEF BP!BackupAbort, BP!Running, IdlePrune
<1>7. CASE SaveSnapshot /\ snapshots' = snapshots \cup {archiver.need}
  <2>1. archiver.own \subseteq Indexed /\ \A b \in archiver.need \ IndexedBlobs : Mistaken(b)
    BY <1>7, SavedComplete DEF SaveSnapshot
  <2>2. /\ Backups[Process].pend = {} /\ Backups[Process].need = archiver.need
        /\ Backups[Process].known = IndexedBlobs
    BY <1>3, <2>1 DEF RunningBackup
  <2>3. CASE archiver.need \subseteq IndexedBlobs
    BY <1>1, <1>2, <1>4, <1>5, <1>7, <2>2, <2>3 DEF BP!BackupSave, BP!Running, IdlePrune
  <2>4. CASE archiver.need \ IndexedBlobs # {}
    BY <1>1, <1>2, <1>3, <1>4, <1>5, <1>7, <2>1, <2>2, <2>4 DEF SavesMistaken, IdleBackup, BP!IdleBackup
  <2>. QED  BY <2>3, <2>4
<1>. QED  BY <1>6, <1>7 DEF SaveSnapshot, Exit

\* Every step of the pipeline is a step of the backup, or a stutter.
LEMMA StepsImplement ==
  ASSUME HandedOn, [Next]_vars
  PROVE  BP!BackupNext(Process) \/ SavesMistaken \/ UNCHANGED BP!vars
<1>0. TypeOK /\ OwnOnTheWay /\ HoldsMissing /\ archiver \in ArchiverState
  BY DEF HandedOn, TypeOK
<1>1. CASE Start
  BY <1>1, StepLoad DEF BP!BackupNext
<1>2. CASE SaveSnapshot \/ Exit
  BY <1>2, StepEnd DEF BP!BackupNext
<1>3. CASE FinalizeIndexer
  <2>1. /\ archiver.pc # "idle" /\ archiver'.pc # "idle" /\ archiver'.need = archiver.need
        /\ archiver'.loaded = archiver.loaded /\ archiver'.own = archiver.own
        /\ UNCHANGED <<packs, snapshots>>
    BY <1>0, <1>3 DEF FinalizeIndexer, ArchiverState
  <2>2. CASE UNCHANGED index
    BY <2>1, <2>2, AbstractStutter
  <2>3. CASE /\ indexer.file # {}
             /\ \E i \in IndexId : index[i] = {} /\ index' = [index EXCEPT ![i] = indexer.file]
    BY <1>0, <2>1, <2>3, StepWriteIndex DEF OwnOnTheWay, BP!BackupNext
  <2>. QED  BY <1>3, <2>2, <2>3 DEF FinalizeIndexer, SaveIndex
<1>4. CASE FinalizeData \/ DataFinalized \/ FinalizeTree \/ TreeFinalized \/ Fail
  <2>1. UNCHANGED <<packs, index, snapshots>> /\ archiver.pc # "idle"
    BY <1>4 DEF FinalizeData, DataFinalized, FinalizeTree, TreeFinalized, Fail
  <2>2. \E c \in {"data", "root", "tree", "index", "failed"} : archiver' = [archiver EXCEPT !.pc = c]
    BY <1>4 DEF FinalizeData, DataFinalized, FinalizeTree, TreeFinalized, Fail
  <2>3. /\ archiver'.pc # "idle" /\ archiver'.need = archiver.need
        /\ archiver'.loaded = archiver.loaded /\ archiver'.own = archiver.own
    BY <1>0, <2>2 DEF ArchiverState
  <2>. QED  BY <2>1, <2>3, AbstractStutter
<1>5. ASSUME NEW t \in BlobType, Send(t)  PROVE UNCHANGED BP!vars
  <2>1. UNCHANGED <<packs, index, snapshots>>
    BY <1>5 DEF Send
  <2>2. PICK id : archiver' = Sending(t, id)
    BY <1>5 DEF Send
  <2>3. /\ archiver'.pc = archiver.pc /\ archiver'.need = archiver.need
        /\ archiver'.loaded = archiver.loaded /\ archiver'.own = archiver.own
    BY <1>0, <2>2 DEF Sending, ArchiverState
  <2>. QED  BY <2>1, <2>3, AbstractStutter
<1>6. ASSUME NEW t \in BlobType, Pack(t)  PROVE UNCHANGED BP!vars
  <2>1. UNCHANGED <<packs, index, snapshots, archiver>>
    BY <1>0, <1>6, TypePack
  <2>. QED  BY <2>1, AbstractStutter
<1>7. ASSUME NEW t \in BlobType, WriteFile(t)
      PROVE  BP!BackupNext(Process) \/ UNCHANGED BP!vars
  <2>1. CASE \E p \in FreshPack : PackWritten(t, p)
    BY <1>7, <2>1, StepWritePack DEF BP!BackupNext
  <2>2. CASE PackFailed(t)
    <3>1. UNCHANGED <<packs, index, snapshots, archiver>>
      BY <1>7, <2>2 DEF WriteFile, PackFailed
    <3>. QED  BY <3>1, AbstractStutter
  <2>. QED  BY <1>7, <2>1, <2>2 DEF WriteFile
<1>8. ASSUME NEW t \in BlobType, AddToIndexer(t)
      PROVE  BP!BackupNext(Process) \/ UNCHANGED BP!vars
  <2>. DEFINE p == Head(packer[t].done).pack
  <2>1. archiver.pc # "idle" /\ UNCHANGED <<packs, snapshots, archiver>>
    BY <1>8 DEF AddToIndexer, WriterActive
  <2>2. p \in archiver.own /\ p \notin Indexed
    BY <1>8, AddedPack
  <2>3. Added(p).file = indexer.file \cup {p}
    BY DEF Added
  <2>4. Added(p).file \subseteq archiver.own \ Indexed /\ Added(p).file # {}
    BY <1>0, <2>2, <2>3 DEF OwnOnTheWay
  <2>5. CASE UNCHANGED index
    BY <2>1, <2>5, AbstractStutter
  <2>6. CASE \E i \in IndexId : index[i] = {} /\ index' = [index EXCEPT ![i] = Added(p).file]
    BY <2>1, <2>4, <2>6, StepWriteIndex DEF BP!BackupNext
  <2>. QED  BY <1>8, <2>5, <2>6 DEF AddToIndexer
<1>9. ASSUME NEW t \in BlobType, WriterFails(t) \/ WriterEnds(t)  PROVE UNCHANGED BP!vars
  <2>1. UNCHANGED <<packs, index, snapshots, archiver>>
    BY <1>9 DEF WriterFails, WriterEnds
  <2>. QED  BY <2>1, AbstractStutter
<1>10. CASE UNCHANGED vars
  BY <1>10, AbstractStutter DEF vars
<1>11. CASE Archive
  BY <1>1, <1>2, <1>3, <1>4, <1>5, <1>11 DEF Archive
<1>12. ASSUME NEW t \in BlobType, Write(t)  PROVE BP!BackupNext(Process) \/ UNCHANGED BP!vars
  BY <1>7, <1>8, <1>9, <1>12 DEF Write
<1>. QED  BY <1>6, <1>10, <1>11, <1>12 DEF Next

\* Every behaviour of the threads, with whatever failures and deaths of the process,
\* is one of the backup for which BackupPrune shows that it is safe beside others,
\* forget and prune, up to snapshots saved with mistaken blobs.
THEOREM PipelineImplementsBackup == Spec => ImplementsBackup
<1>1. Init => BP!Init
  <2>. SUFFICES ASSUME Init  PROVE BP!Init
    OBVIOUS
  <2>1. /\ packs = [p \in PackId |-> {}] /\ index = [i \in IndexId |-> {}] /\ snapshots = {}
        /\ archiver.pc = "idle"
    BY DEF Init, IdleArchiver
  <2>2. IndexFiles = [i \in IndexId |-> BP!EmptyIndex]
    BY <2>1 DEF IndexFiles, BP!EmptyIndex
  <2>3. Backups = [b \in {Process} |-> BP!IdleBackup]
    BY <2>1, AbstractBackup DEF IdleBackup, BP!IdleBackup
  <2>. QED  BY <2>1, <2>2, <2>3 DEF BP!Init, IdlePrune, BP!IdlePrune
<1>2. HandedOn /\ [Next]_vars => [BP!Next \/ SavesMistaken]_(BP!vars)
  BY StepsImplement DEF BP!Next
<1>. QED  BY <1>1, <1>2, PipelineHandsOn, PTL DEF Spec, ImplementsBackup

=============================================================================
