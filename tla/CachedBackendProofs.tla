------------------------ MODULE CachedBackendProofs ------------------------
(***************************************************************************)
(* Proofs about the cache: it never answers with a file that is not        *)
(* complete, for any files, threads and processes, unless threads which    *)
(* the locks do not part have written that file at once.  The heart of it  *)
(* is OneWritesCache: others do not write a temporary file at once.        *)
(***************************************************************************)
EXTENDS CachedBackend, TLAPS

\* Threads that are through with an operation are as if they had done none.
LEMMA Through ==
    ASSUME CacheConstants, TypeOK, NEW t \in Thread, NEW r \in {"none", "good", "torn", "error"}
    PROVE  /\ Finish(t, r) \in ThreadState
           /\ Finish(t, r).op = "none" /\ Finish(t, r).pc = "idle" /\ ~Finish(t, r).lock
           /\ Finish(t, r).file = NoFile /\ Finish(t, r).result = r
<1>1. {} \in FileLists
  BY DEF FileLists
<1>2. 0 \in 0 .. Chunks
  BY DEF CacheConstants
<1> QED  BY <1>1, <1>2 DEF Finish, IdleThread, TypeOK, ThreadState

\* What a thread begins with
LEMMA Begins ==
    ASSUME CacheConstants, TypeOK, NEW t \in Thread, NEW o \in Ops[t], NEW f \in File, NEW k \in Chunk
    PROVE  /\ Called(t, o, f, k) \in ThreadState
           /\ Called(t, o, f, k).op = o /\ ~Called(t, o, f, k).lock
           /\ Called(t, o, f, k).pc = IF o = "list" THEN "list" ELSE "lock"
           /\ Called(t, o, f, k).file = IF o = "list" THEN NoFile ELSE f
           /\ Called(t, o, f, k).result = "none"
<1>1. {} \in FileLists
  BY DEF FileLists
<1>2. 0 \in 0 .. Chunks /\ Chunk \subseteq 0 .. Chunks
  BY DEF CacheConstants, Chunk
<1>3. o \in {"none", "write", "remove", "list"} \cup Reads
  BY DEF CacheConstants
<1>4. th[t].n + 1 \in Nat
  <2>1. th[t].n \in Nat
    BY DEF TypeOK, ThreadState
  <2> QED  BY <2>1
<1>5. CASE o = "list"
  <2> DEFINE s == [IdleThread EXCEPT !.op = "list", !.pc = "list", !.n = th[t].n + 1]
  <2>1. s \in ThreadState
    BY <1>1, <1>2, <1>4 DEF IdleThread, ThreadState
  <2>2. s.op = "list" /\ s.pc = "list" /\ s.lock = FALSE /\ s.file = NoFile /\ s.result = "none"
    BY DEF IdleThread
  <2>3. Called(t, o, f, k) = s
    BY <1>5 DEF Called
  <2> HIDE DEF s
  <2> QED  BY <1>5, <2>1, <2>2, <2>3
<1>6. CASE o # "list"
  <2> DEFINE p == IF o = "read_partial" THEN k ELSE 0
  <2>1. p \in 0 .. Chunks
    BY <1>2
  <2> DEFINE s == [IdleThread EXCEPT !.op = o, !.pc = "lock", !.n = th[t].n + 1, !.file = f, !.part = p]
  <2> HIDE DEF p
  <2>2. s \in ThreadState
    BY <1>1, <1>2, <1>3, <1>4, <2>1 DEF IdleThread, ThreadState
  <2>3. s.op = o /\ s.pc = "lock" /\ s.lock = FALSE /\ s.file = f /\ s.result = "none"
    BY DEF IdleThread
  <2>4. Called(t, o, f, k) = s
    BY <1>6 DEF Called, p
  <2> HIDE DEF s
  <2> QED  BY <1>6, <2>2, <2>3, <2>4
<1> QED  BY <1>5, <1>6

\* What a thread goes on with, and the others do not notice.
LEMMA Moves ==
    ASSUME TypeOK, NEW t \in Thread, NEW s \in ThreadState, th' = [th EXCEPT ![t] = s]
    PROVE  /\ th' \in [Thread -> ThreadState]
           /\ th'[t] = s /\ \A u \in Thread : u # t => th'[u] = th[u]
BY DEF TypeOK

\* Threads which do not race do not write the temporary file of one file at a time: a
\* file is not written to the repository while it is read, only one thread writes it, and
\* readers which have not seen the file have the lock.
LEMMA OneWritesCache ==
    ASSUME CacheInv, NEW t \in Thread, NEW u \in Thread, th[t].file = th[u].file, ~Races(t, u),
           th[t].pc \in {"open", "chunk", "rename"}, th[u].pc \in {"open", "chunk", "rename"}
    PROVE  t = u
<1>1. /\ th[t].op \in {"write"} \cup Reads /\ th[u].op \in {"write"} \cup Reads
      /\ th[t].file \in File
  BY DEF CacheInv, OnItsWay
<1>2. CASE th[t].op = "write" /\ th[u].op = "write"
  BY <1>2 DEF CacheInv, OneWriter
<1>3. CASE th[t].op \in Reads /\ th[u].op \in Reads
  <2>1. Of[t] = Of[u] /\ ~th[t].saw /\ ~th[u].saw
    BY DEF Races
  <2> QED  BY <1>3, <2>1 DEF CacheInv, KeepsLock, OneHolder
<1>4. ~(th[t].op = "write" /\ th[u].op \in Reads) /\ ~(th[u].op = "write" /\ th[t].op \in Reads)
  BY <1>1 DEF CacheInv, WrittenBefore
<1> QED  BY <1>1, <1>2, <1>3, <1>4

\* The invariants about the files hold on if threads stop writing files or go on with
\* something else, and the cache may lose files.
LEMMA SameFiles ==
    ASSUME CacheConstants, CacheInv, UNCHANGED <<tmp, data, raced>>, \A f \in File : name'[f] \in {name[f], NoInode},
           \A u \in Thread : th'[u].pc \in {"chunk", "rename"} => th'[u] = th[u]
    PROVE  Apart' /\ OneTmpWriter' /\ Written' /\ TmpIsNew' /\ Complete'
<1> USE DEF CacheInv
<1>1. \A f \in File, i \in Inode : Uses(f, i)' => Uses(f, i)
  BY DEF Uses
<1>2. Apart'
  BY <1>1 DEF Apart
<1>3. OneTmpWriter'
  BY DEF OneTmpWriter
<1>4. TmpIsNew' /\ Complete'
  BY DEF TmpIsNew, Complete, Exists
<1>5. Written'
  <2> SUFFICES ASSUME NEW u \in Thread, th'[u].pc \in {"chunk", "rename"}
               PROVE  /\ th[u].fd \in Inode /\ (th[u].pc = "chunk" => th[u].pos < Chunks)
                      /\ th[u].file \notin raced =>
                             /\ tmp[th[u].file] \in {th[u].fd, NoInode} /\ name'[th[u].file] # th[u].fd
                             /\ data[th[u].fd] = IF th[u].pc = "chunk" THEN 1 .. th[u].pos ELSE Chunk
    BY DEF Written
  <2>1. th[u].pc \in {"chunk", "rename"} /\ th[u].file \in File
    BY DEF OnItsWay
  <2>2. th[u].fd \in Inode
    BY <2>1 DEF Written
  <2>3. th[u].fd # NoInode
    BY <2>2 DEF CacheConstants
  <2> QED  BY <2>1, <2>2, <2>3 DEF Written
<1> QED  BY <1>2, <1>3, <1>4, <1>5

Ended(s) == s.op = "none" /\ s.pc = "idle" /\ ~s.lock /\ s.file = NoFile /\ s.result # "bad"

\* Threads may end, or be killed, at any time.
LEMMA EndKeeps ==
    ASSUME CacheConstants, CacheInv, th' \in [Thread -> ThreadState],
           \A u \in Thread : th'[u] = th[u] \/ Ended(th'[u]),
           UNCHANGED <<repo, name, tmp, data, raced>>
    PROVE  CacheInv'
<1> USE DEF CacheInv
<1>1. TypeOK'
  BY DEF TypeOK
<1>2. OnItsWay'
  BY DEF OnItsWay, Ended, Reads
<1>3. WrittenBefore'
  BY DEF WrittenBefore, Ended, Reads
<1>4. OneWriter' /\ OneHolder'
  BY DEF OneWriter, OneHolder, Ended
<1>5. KeepsLock'
  BY DEF KeepsLock, Ended, Reads
<1>6. Apart' /\ OneTmpWriter' /\ Written' /\ TmpIsNew' /\ Complete'
  BY SameFiles DEF Ended
<1>7. ReadsGood'
  BY DEF ReadsGood, Ended
<1> QED  BY <1>1, <1>2, <1>3, <1>4, <1>5, <1>6, <1>7

LEMMA FinishKeeps ==
    ASSUME CacheConstants, CacheInv, NEW t \in Thread, NEW r \in {"none", "good", "torn", "error"},
           th' = [th EXCEPT ![t] = Finish(t, r)], UNCHANGED <<repo, name, tmp, data, raced>>
    PROVE  CacheInv'
<1>1. TypeOK
  BY DEF CacheInv
<1>2. Finish(t, r) \in ThreadState /\ Ended(Finish(t, r))
  BY <1>1, Through DEF Ended
<1>3. th' \in [Thread -> ThreadState] /\ th'[t] = Finish(t, r) /\ \A u \in Thread : u # t => th'[u] = th[u]
  BY <1>1, <1>2, Moves
<1> QED  BY <1>2, <1>3, EndKeeps

\* A thread calls an operation.
LEMMA CallKeeps ==
    ASSUME CacheConstants, CacheInv, NEW t \in Thread, Call(t)
    PROVE  CacheInv'
<1> USE DEF CacheInv
<1>1. PICK o \in Ops[t], f \in File, k \in Chunk :
         MayCall(o, f) /\ th' = [th EXCEPT ![t] = Called(t, o, f, k)]
  BY DEF Call
<1>2. UNCHANGED <<repo, name, tmp, data, raced>>
  BY DEF Call
<1> DEFINE s == Called(t, o, f, k)
<1>3. /\ s \in ThreadState /\ s.op = o /\ ~s.lock
      /\ s.pc = IF o = "list" THEN "list" ELSE "lock"
      /\ s.file = IF o = "list" THEN NoFile ELSE f
      /\ s.result = "none"
  BY Begins
<1> HIDE DEF s
<1>4. /\ th' \in [Thread -> ThreadState]
      /\ th'[t] = s /\ \A u \in Thread : u # t => th'[u] = th[u]
  BY <1>1, <1>3, Moves DEF s
<1>5. o \in {"write", "remove", "list"} \cup Reads
  BY DEF CacheConstants
<1>6. TypeOK'
  BY <1>2, <1>4 DEF TypeOK
<1>7. OnItsWay'
  BY <1>3, <1>4, <1>5 DEF OnItsWay, Reads
<1>8. WrittenBefore'
  BY <1>1, <1>2, <1>3, <1>4, <1>5 DEF WrittenBefore, MayCall, Reads
<1>9. OneWriter'
  BY <1>1, <1>3, <1>4 DEF OneWriter, MayCall
<1>10. OneHolder'
  BY <1>3, <1>4 DEF OneHolder
<1>11. KeepsLock'
  BY <1>3, <1>4 DEF KeepsLock
<1>12. Apart' /\ OneTmpWriter' /\ Written' /\ TmpIsNew' /\ Complete'
  <2>1. th'[t].pc \notin {"chunk", "rename"}
    BY <1>3, <1>4
  <2> QED  BY <1>2, <1>4, <2>1, SameFiles
<1>13. ReadsGood'
  BY <1>3, <1>4 DEF ReadsGood
<1> QED  BY <1>6, <1>7, <1>8, <1>9, <1>10, <1>11, <1>12, <1>13

\* A thread goes on with its operation; if it takes no lock, nobody holds one more.
LEMMA GoesOn ==
    ASSUME CacheInv, NEW t \in Thread, NEW s \in ThreadState, th' = [th EXCEPT ![t] = s],
           s.op = th[t].op, s.file = th[t].file, s.result # "bad", UNCHANGED repo
    PROVE  /\ th' \in [Thread -> ThreadState]
           /\ th'[t] = s /\ \A u \in Thread : u # t => th'[u] = th[u]
           /\ WrittenBefore' /\ OneWriter' /\ ReadsGood'
           /\ (s.lock => th[t].lock) => OneHolder'
<1>1. TypeOK
  BY DEF CacheInv
<1>2. /\ th' \in [Thread -> ThreadState]
      /\ th'[t] = s /\ \A u \in Thread : u # t => th'[u] = th[u]
  BY <1>1, Moves
<1> USE DEF CacheInv
<1>3. WrittenBefore'
  BY <1>2 DEF WrittenBefore, TypeOK, ThreadState
<1>4. OneWriter'
  BY <1>2 DEF OneWriter, TypeOK, ThreadState
<1>5. ReadsGood'
  BY <1>2 DEF ReadsGood
<1>6. ASSUME s.lock => th[t].lock  PROVE OneHolder'
  <2>1. \A u \in Thread : /\ th'[u].file = th[u].file
                          /\ th'[u].lock => th[u].lock
    BY <1>2, <1>6
  <2> QED  BY <2>1 DEF OneHolder
<1> QED  BY <1>2, <1>3, <1>4, <1>5, <1>6

\* Where a thread is, and what it is.
LEMMA Whereabouts ==
    ASSUME CacheInv, NEW t \in Thread
    PROVE  /\ TypeOK /\ th[t] \in ThreadState /\ th[t].op \in Ops[t] \cup {"none"}
           /\ th[t].result # "bad"
           /\ th[t].pc \in {"lock", "exists", "cache", "backend", "open", "chunk", "rename", "unlink"} =>
                  th[t].file \in File /\ th[t].op \in {"write", "remove"} \cup Reads
BY DEF CacheInv, TypeOK, OnItsWay, ReadsGood

\* A thread gets its lock.
LEMMA LockKeeps ==
    ASSUME CacheConstants, CacheInv, NEW t \in Thread, Lock(t)
    PROVE  CacheInv'
<1> DEFINE pc == CASE th[t].op = "write" -> "open" [] th[t].op = "remove" -> "unlink" [] OTHER -> "exists"
           s == [th[t] EXCEPT !.lock = TRUE, !.pc = pc]
<1>1. /\ th[t].pc = "lock" /\ UNCHANGED <<repo, name, tmp, data, raced>>
      /\ \A u \in Thread : Of[u] = Of[t] /\ th[u].file = th[t].file => ~th[u].lock
      /\ th' = [th EXCEPT ![t] = s]
  BY DEF Lock, At
<1>2. /\ TypeOK /\ th[t] \in ThreadState /\ th[t].file \in File
      /\ th[t].op \in Ops[t] /\ th[t].op \in {"write", "remove"} \cup Reads /\ th[t].result # "bad"
  BY <1>1, Whereabouts DEF Reads
<1>3. /\ pc \in {"open", "unlink", "exists"}
      /\ pc = "open" <=> th[t].op = "write"
      /\ pc = "unlink" <=> th[t].op = "remove"
  OBVIOUS
<1> HIDE DEF pc
<1>4. /\ s \in ThreadState /\ s.op = th[t].op /\ s.file = th[t].file /\ s.result = th[t].result
      /\ s.lock /\ s.pc = pc
  BY <1>2, <1>3 DEF ThreadState
<1> HIDE DEF s
<1>5. /\ th' \in [Thread -> ThreadState]
      /\ th'[t] = s /\ \A u \in Thread : u # t => th'[u] = th[u]
      /\ WrittenBefore' /\ OneWriter' /\ ReadsGood'
  BY <1>1, <1>2, <1>4, GoesOn
<1> USE DEF CacheInv
<1>6. TypeOK'
  BY <1>1, <1>5 DEF TypeOK
<1>7. OnItsWay'
  BY <1>2, <1>3, <1>4, <1>5 DEF OnItsWay, Reads
<1>8. OneHolder'
  BY <1>1, <1>4, <1>5 DEF OneHolder
<1>9. KeepsLock'
  BY <1>4, <1>5 DEF KeepsLock
<1>10. Apart' /\ OneTmpWriter' /\ Written' /\ TmpIsNew' /\ Complete'
  <2>1. th'[t].pc \notin {"chunk", "rename"}
    BY <1>3, <1>4, <1>5
  <2> QED  BY <1>1, <1>5, <2>1, SameFiles
<1> QED  BY <1>5, <1>6, <1>7, <1>8, <1>9, <1>10

\* A thread goes on, and leaves the file system alone.
LEMMA GoesOnKeeps ==
    ASSUME CacheConstants, CacheInv, NEW t \in Thread, NEW s \in ThreadState, th' = [th EXCEPT ![t] = s],
           s.op = th[t].op, s.file = th[t].file, s.result # "bad", s.lock => th[t].lock,
           UNCHANGED <<repo, name, tmp, data, raced>>, s.pc \notin {"chunk", "rename"},
           th[t].file \in File, th[t].op \in Ops[t], th[t].op \in {"write", "remove"} \cup Reads,
           s.pc \in {"cache", "backend", "open"},
           s.pc = "cache" => th[t].op \in Reads,
           s.pc = "open" => th[t].op # "remove",
           th[t].op \in Reads => s.lock \/ s.saw, th[t].op = "write" => s.pc # "open"
    PROVE  CacheInv'
<1>1. /\ th' \in [Thread -> ThreadState]
      /\ th'[t] = s /\ \A u \in Thread : u # t => th'[u] = th[u]
      /\ WrittenBefore' /\ OneWriter' /\ ReadsGood' /\ OneHolder'
  BY GoesOn
<1> USE DEF CacheInv
<1>2. TypeOK'
  BY <1>1 DEF TypeOK
<1>3. OnItsWay'
  BY <1>1 DEF OnItsWay, Reads
<1>4. KeepsLock'
  BY <1>1 DEF KeepsLock, Reads
<1>5. Apart' /\ OneTmpWriter' /\ Written' /\ TmpIsNew' /\ Complete'
  BY <1>1, SameFiles
<1> QED  BY <1>1, <1>2, <1>3, <1>4, <1>5

\* A reader looks for the cache file.
LEMMA CheckExistsKeeps ==
    ASSUME CacheConstants, CacheInv, NEW t \in Thread, CheckExists(t)
    PROVE  CacheInv'
<1> DEFINE l == ~Exists(th[t].file)
           e == Exists(th[t].file)
           s == [th[t] EXCEPT !.pc = "cache", !.lock = l, !.saw = e]
<1>1. th[t].pc = "exists" /\ th' = [th EXCEPT ![t] = s] /\ UNCHANGED <<repo, name, tmp, data, raced>>
  BY DEF CheckExists, At
<1>2. /\ th[t] \in ThreadState /\ th[t].file \in File /\ th[t].op \in Ops[t]
      /\ th[t].op \in {"write", "remove"} \cup Reads /\ th[t].result # "bad"
  BY <1>1, Whereabouts DEF Reads
<1>3. th[t].op \in Reads /\ th[t].lock
  BY <1>1 DEF CacheInv, OnItsWay, KeepsLock
<1>4. l \in BOOLEAN /\ e \in BOOLEAN /\ (l \/ e)
  BY DEF Exists
<1> HIDE DEF l, e
<1>5. /\ s \in ThreadState /\ s.op = th[t].op /\ s.file = th[t].file /\ s.result = th[t].result
      /\ s.lock = l /\ s.saw = e /\ s.pc = "cache"
  BY <1>2, <1>4 DEF ThreadState
<1> HIDE DEF s
<1>6. th[t].op # "write"
  BY <1>3 DEF Reads
<1> QED  BY <1>1, <1>2, <1>3, <1>4, <1>5, <1>6, GoesOnKeeps

\* A reader reads the cache file, which is complete if it exists and was not raced for.
LEMMA ReadCacheKeeps ==
    ASSUME CacheConstants, CacheInv, NEW t \in Thread, ReadCache(t)
    PROVE  CacheInv'
<1> DEFINE f == th[t].file
           s == [th[t] EXCEPT !.pc = "backend"]
           good == IF th[t].part > 0 THEN th[t].part \in data[name[f]] ELSE data[name[f]] = Chunk
           r == IF good THEN "good" ELSE IF f \in raced THEN "torn" ELSE "bad"
<1>1. /\ th[t].pc = "cache" /\ UNCHANGED <<repo, name, tmp, data, raced>>
      /\ \/ th' = [th EXCEPT ![t] = s]
         \/ /\ Exists(f) /\ ~(th[t].part > 0 /\ th[t].part > SizeOf(name[f]))
            /\ th' = [th EXCEPT ![t] = Finish(t, r)]
  BY DEF ReadCache, At
<1>2. /\ TypeOK /\ th[t] \in ThreadState /\ f \in File /\ th[t].op \in Ops[t]
      /\ th[t].op \in {"write", "remove"} \cup Reads /\ th[t].result # "bad"
      /\ th[t].part \in 0 .. Chunks
  BY <1>1, Whereabouts DEF Reads, ThreadState
<1>3. th[t].op \in Reads /\ th[t].op # "write"
  BY <1>1 DEF CacheInv, OnItsWay, Reads
<1>4. CASE th' = [th EXCEPT ![t] = s]
  <2>1. /\ s \in ThreadState /\ s.op = th[t].op /\ s.file = th[t].file /\ s.result = th[t].result
        /\ s.lock = th[t].lock /\ s.saw = th[t].saw /\ s.pc = "backend"
    BY <1>2 DEF ThreadState
  <2>2. th[t].lock \/ th[t].saw
    BY <1>1, <1>3 DEF CacheInv, KeepsLock
  <2> HIDE DEF s
  <2> QED  BY <1>1, <1>2, <1>3, <1>4, <2>1, <2>2, GoesOnKeeps
<1>5. CASE Exists(f) /\ th' = [th EXCEPT ![t] = Finish(t, r)]
  <2>1. CASE f \notin raced
    <3>1. data[name[f]] = Chunk
      BY <1>2, <1>5, <2>1 DEF CacheInv, Complete
    <3>2. good
      BY <1>2, <3>1 DEF CacheConstants, Chunk
    <3> QED  BY <1>1, <1>5, <3>2, FinishKeeps
  <2>2. CASE f \in raced
    <3>1. r \in {"good", "torn"}
      BY <2>2
    <3> HIDE DEF r
    <3> QED  BY <1>1, <1>5, <3>1, FinishKeeps
  <2> QED  BY <2>1, <2>2
<1> QED  BY <1>1, <1>4, <1>5

\* A reader turns to the backend.
LEMMA ReadBackendKeeps ==
    ASSUME CacheConstants, CacheInv, NEW t \in Thread, ReadBackend(t)
    PROVE  CacheInv'
<1>1. /\ th[t].pc = "backend" /\ th[t].op # "remove" /\ th[t].op # "write"
      /\ UNCHANGED <<repo, name, tmp, data, raced>>
  BY DEF ReadBackend, At
<1>2. /\ TypeOK /\ th[t] \in ThreadState /\ th[t].file \in File /\ th[t].op \in Ops[t]
      /\ th[t].op \in {"write", "remove"} \cup Reads /\ th[t].result # "bad"
  BY <1>1, Whereabouts DEF Reads
<1>3. CASE repo[th[t].file] = "there"
  <2> DEFINE s == [th[t] EXCEPT !.pc = "open"]
  <2>1. th' = [th EXCEPT ![t] = s]
    BY <1>3 DEF ReadBackend
  <2>2. /\ s \in ThreadState /\ s.op = th[t].op /\ s.file = th[t].file /\ s.result = th[t].result
        /\ s.lock = th[t].lock /\ s.saw = th[t].saw /\ s.pc = "open"
    BY <1>2 DEF ThreadState
  <2>3. th[t].op \in Reads => th[t].lock \/ th[t].saw
    BY <1>1 DEF CacheInv, KeepsLock
  <2> HIDE DEF s
  <2> QED  BY <1>1, <1>2, <2>1, <2>2, <2>3, GoesOnKeeps
<1>4. CASE repo[th[t].file] # "there"
  <2>1. th' = [th EXCEPT ![t] = Finish(t, "error")]
    BY <1>4 DEF ReadBackend
  <2> QED  BY <1>1, <2>1, FinishKeeps
<1> QED  BY <1>3, <1>4

\* A thread opens the temporary file.  If others are writing it the file is raced for;
\* an inode of another file it is not.
LEMMA OpenTmpKeeps ==
    ASSUME CacheConstants, CacheInv, NEW t \in Thread, OpenTmp(t)
    PROVE  CacheInv'
<1> DEFINE f == th[t].file
<1>1. /\ th[t].pc = "open" /\ UNCHANGED <<repo, name>>
      /\ raced' = IF \E u \in Thread \ {t} : th[u].pc \in {"chunk", "rename"} /\ Races(t, u)
                  THEN raced \cup {f} ELSE raced
  BY DEF OpenTmp, At
<1>2. /\ TypeOK /\ th[t] \in ThreadState /\ f \in File /\ th[t].op \in Ops[t]
      /\ th[t].op \in {"write", "remove"} \cup Reads /\ th[t].result # "bad"
  BY <1>1, Whereabouts DEF Reads
<1>3. PICK i \in IF tmp[f] # NoInode THEN {tmp[f]} ELSE FreeInode :
         /\ tmp' = [tmp EXCEPT ![f] = i]
         /\ data' = [data EXCEPT ![i] = {}]
         /\ th' = [th EXCEPT ![t] = [th[t] EXCEPT !.fd = i, !.pos = 0, !.pc = "chunk"]]
  BY DEF OpenTmp
<1>4. i \in Inode /\ i # NoInode /\ \A g \in File : Uses(g, i) => g = f
  <2>1. CASE tmp[f] # NoInode
    <3>1. i = tmp[f] /\ i \in Inode
      BY <1>2, <1>3, <2>1 DEF TypeOK
    <3>2. Uses(f, i)
      BY <2>1, <3>1 DEF Uses
    <3> QED  BY <1>2, <2>1, <3>1, <3>2 DEF CacheInv, Apart
  <2>2. CASE tmp[f] = NoInode
    <3>1. i \in FreeInode
      BY <1>3, <2>2
    <3> QED  BY <3>1 DEF FreeInode, Uses, CacheConstants
  <2> QED  BY <2>1, <2>2
<1> DEFINE s == [th[t] EXCEPT !.fd = i, !.pos = 0, !.pc = "chunk"]
<1>5. /\ s \in ThreadState /\ s.op = th[t].op /\ s.file = f /\ s.result = th[t].result
      /\ s.lock = th[t].lock /\ s.saw = th[t].saw /\ s.pc = "chunk" /\ s.fd = i /\ s.pos = 0
  <2>1. 0 \in 0 .. Chunks
    BY DEF CacheConstants
  <2> QED  BY <1>2, <1>4, <2>1 DEF ThreadState
<1>6. /\ th' \in [Thread -> ThreadState]
      /\ th'[t] = s /\ \A u \in Thread : u # t => th'[u] = th[u]
      /\ WrittenBefore' /\ OneWriter' /\ ReadsGood' /\ OneHolder'
  <2> HIDE DEF s
  <2> QED  BY <1>1, <1>2, <1>3, <1>5, GoesOn, ZenonT(30) DEF s
<1>7. /\ tmp' \in [File -> Inode \cup {NoInode}] /\ data' \in [Inode -> SUBSET Chunk]
      /\ tmp'[f] = i /\ \A g \in File : g # f => tmp'[g] = tmp[g]
      /\ data'[i] = {} /\ \A j \in Inode : j # i => data'[j] = data[j]
  BY <1>2, <1>3, <1>4 DEF TypeOK
<1>8. ASSUME NEW u \in Thread, u # t, th[u].pc \in {"chunk", "rename"}, th[u].file = f
      PROVE  f \in raced'
  BY <1>1, <1>8, OneWritesCache
<1>9. \A u \in Thread : th[u].pc \in {"chunk", "rename"} => th[u].file \in File
  BY Whereabouts
<1>10. raced \subseteq raced' /\ raced' \subseteq File
  BY <1>1, <1>2 DEF TypeOK
<1>11. f \notin raced' => name[f] # i
  <2>1. CASE tmp[f] # NoInode
    BY <1>2, <1>3, <1>10, <2>1 DEF CacheInv, TmpIsNew
  <2>2. CASE tmp[f] = NoInode
    BY <1>2, <1>3, <2>2 DEF FreeInode
  <2> QED  BY <2>1, <2>2
<1> HIDE DEF s, f
<1> USE DEF CacheInv
<1>12. TypeOK'
  BY <1>1, <1>2, <1>6, <1>7, <1>10 DEF TypeOK
<1>13. OnItsWay'
  BY <1>1, <1>2, <1>5, <1>6 DEF OnItsWay, Reads, f
<1>14. KeepsLock'
  BY <1>1, <1>5, <1>6 DEF KeepsLock
<1>15. Apart'
  <2>1. \A g \in File, j \in Inode : Uses(g, j)' => Uses(g, j) \/ (g = f /\ j = i)
    BY <1>1, <1>5, <1>6, <1>7 DEF Uses
  <2> QED  BY <1>4, <2>1 DEF Apart
<1>16. OneTmpWriter'
  <2>1. th'[t].file = f
    BY <1>5, <1>6
  <2> QED  BY <1>6, <1>8, <1>10, <2>1 DEF OneTmpWriter
<1>17. Written'
  <2> SUFFICES ASSUME NEW u \in Thread, th'[u].pc \in {"chunk", "rename"}
               PROVE  /\ th'[u].fd \in Inode /\ (th'[u].pc = "chunk" => th'[u].pos < Chunks)
                      /\ th'[u].file \notin raced' =>
                             /\ tmp'[th'[u].file] \in {th'[u].fd, NoInode}
                             /\ name'[th'[u].file] # th'[u].fd
                             /\ data'[th'[u].fd] = IF th'[u].pc = "chunk" THEN 1 .. th'[u].pos ELSE Chunk
    BY DEF Written
  <2>1. CASE u = t
    <3>1. 0 < Chunks /\ 1 .. 0 = {}
      BY DEF CacheConstants
    <3>2. th'[u].file = f /\ th'[u].fd = i /\ th'[u].pc = "chunk" /\ th'[u].pos = 0
      BY <1>5, <1>6, <2>1
    <3> QED  BY <1>1, <1>4, <1>7, <1>11, <3>1, <3>2
  <2>2. CASE u # t
    <3>1. th'[u] = th[u] /\ th[u].pc \in {"chunk", "rename"} /\ th[u].file \in File
      BY <1>6, <1>9, <2>2
    <3>2. th[u].fd \in Inode /\ (th[u].pc = "chunk" => th[u].pos < Chunks)
      BY <3>1 DEF Written
    <3>3. ASSUME th[u].file \notin raced'
          PROVE  /\ tmp'[th[u].file] \in {th[u].fd, NoInode} /\ name'[th[u].file] # th[u].fd
                 /\ data'[th[u].fd] = IF th[u].pc = "chunk" THEN 1 .. th[u].pos ELSE Chunk
      <4>1. th[u].file # f /\ th[u].file \notin raced
        BY <1>8, <1>10, <2>2, <3>1, <3>3
      <4>2. Uses(th[u].file, th[u].fd)
        BY <3>1, <3>2 DEF Uses, CacheConstants
      <4>3. th[u].fd # i
        BY <1>4, <3>1, <4>1, <4>2
      <4> QED  BY <1>1, <1>7, <3>1, <3>2, <4>1, <4>3 DEF Written
    <3> QED  BY <3>1, <3>2, <3>3
  <2> QED  BY <2>1, <2>2
<1>18. TmpIsNew'
  BY <1>1, <1>7, <1>10, <1>11 DEF TmpIsNew
<1>19. Complete'
  <2> SUFFICES ASSUME NEW g \in File, g \notin raced', name[g] # NoInode  PROVE data'[name[g]] = Chunk
    BY <1>1 DEF Complete, Exists
  <2>1. name[g] \in Inode /\ data[name[g]] = Chunk
    BY <1>2, <1>10 DEF TypeOK, Complete, Exists
  <2>2. name[g] # i
    BY <1>4, <1>11 DEF Uses
  <2> QED  BY <1>7, <2>1, <2>2
<1> QED  BY <1>6, <1>12, <1>13, <1>14, <1>15, <1>16, <1>17, <1>18, <1>19

\* A thread writes to the temporary file, which is the cache file of no file.
LEMMA WriteChunkKeeps ==
    ASSUME CacheConstants, CacheInv, NEW t \in Thread, WriteChunk(t)
    PROVE  CacheInv'
<1> DEFINE f == th[t].file  i == th[t].fd  k == th[t].pos
           pc == IF k + 1 = Chunks THEN "rename" ELSE "chunk"
           s == [th[t] EXCEPT !.pos = k + 1, !.pc = pc]
<1>1. /\ th[t].pc = "chunk" /\ UNCHANGED <<repo, name, tmp, raced>>
      /\ data' = [data EXCEPT ![i] = data[i] \cup {k + 1}]
      /\ th' = [th EXCEPT ![t] = s]
  BY DEF WriteChunk, At
<1>2. /\ TypeOK /\ th[t] \in ThreadState /\ f \in File /\ th[t].op \in Ops[t]
      /\ th[t].op \in {"write", "remove"} \cup Reads /\ th[t].result # "bad"
  BY <1>1, Whereabouts DEF Reads
<1>3. /\ i \in Inode /\ i # NoInode /\ k \in 0 .. Chunks /\ k < Chunks
      /\ f \notin raced => data[i] = 1 .. k /\ tmp[f] \in {i, NoInode} /\ name[f] # i
  BY <1>1, <1>2 DEF CacheInv, Written, ThreadState, CacheConstants
<1>4. Uses(f, i) /\ \A g \in File : Uses(g, i) => g = f
  <2>1. Uses(f, i)
    BY <1>1, <1>3 DEF Uses
  <2> QED  BY <1>2, <1>3, <2>1 DEF CacheInv, Apart
<1>5. /\ k + 1 \in Chunk /\ (1 .. k) \cup {k + 1} = 1 .. (k + 1) /\ k + 1 \in 0 .. Chunks
      /\ pc \in {"rename", "chunk"} /\ (pc = "chunk" => k + 1 < Chunks) /\ (pc = "rename" => k + 1 = Chunks)
  <2> HIDE DEF k
  <2> QED  BY <1>3 DEF CacheConstants, Chunk
<1> HIDE DEF pc
<1>6. /\ s \in ThreadState /\ s.op = th[t].op /\ s.file = f /\ s.result = th[t].result
      /\ s.lock = th[t].lock /\ s.saw = th[t].saw /\ s.pc = pc /\ s.fd = i /\ s.pos = k + 1
  BY <1>2, <1>5 DEF ThreadState
<1> HIDE DEF s
<1>7. /\ th' \in [Thread -> ThreadState]
      /\ th'[t] = s /\ \A u \in Thread : u # t => th'[u] = th[u]
      /\ WrittenBefore' /\ OneWriter' /\ ReadsGood' /\ OneHolder'
  BY <1>1, <1>2, <1>6, GoesOn
<1>8. /\ data' \in [Inode -> SUBSET Chunk] /\ data'[i] = data[i] \cup {k + 1}
      /\ \A j \in Inode : j # i => data'[j] = data[j]
  <2>1. data[i] \cup {k + 1} \in SUBSET Chunk
    BY <1>2, <1>3, <1>5 DEF TypeOK
  <2> QED  BY <1>1, <1>2, <1>3, <2>1 DEF TypeOK
<1>9. \A u \in Thread : u # t /\ th[u].pc \in {"chunk", "rename"} /\ th[u].file = f => f \in raced
  BY <1>1 DEF CacheInv, OneTmpWriter
<1>10. \A u \in Thread : th[u].pc \in {"chunk", "rename"} => th[u].file \in File
  BY Whereabouts
<1> HIDE DEF f, i, k
<1> USE DEF CacheInv
<1>11. TypeOK'
  BY <1>1, <1>2, <1>7, <1>8 DEF TypeOK
<1>12. OnItsWay'
  BY <1>1, <1>2, <1>5, <1>6, <1>7 DEF OnItsWay, Reads, f
<1>13. KeepsLock'
  BY <1>1, <1>5, <1>6, <1>7 DEF KeepsLock
<1>14. Apart'
  <2>1. \A g \in File, j \in Inode : Uses(g, j)' => Uses(g, j)
    BY <1>1, <1>5, <1>6, <1>7 DEF Uses, f, i
  <2> QED  BY <2>1 DEF Apart
<1>15. OneTmpWriter'
  <2>1. \A u \in Thread : th'[u].file = th[u].file /\ (th'[u].pc \in {"chunk", "rename"} => th[u].pc \in {"chunk", "rename"})
    BY <1>1, <1>6, <1>7 DEF f
  <2> QED  BY <1>1, <2>1 DEF OneTmpWriter
<1>16. Written'
  <2> SUFFICES ASSUME NEW u \in Thread, th'[u].pc \in {"chunk", "rename"}
               PROVE  /\ th'[u].fd \in Inode /\ (th'[u].pc = "chunk" => th'[u].pos < Chunks)
                      /\ th'[u].file \notin raced =>
                             /\ tmp[th'[u].file] \in {th'[u].fd, NoInode}
                             /\ name[th'[u].file] # th'[u].fd
                             /\ data'[th'[u].fd] = IF th'[u].pc = "chunk" THEN 1 .. th'[u].pos ELSE Chunk
    BY <1>1 DEF Written
  <2>1. CASE u = t
    <3>1. th'[u].file = f /\ th'[u].fd = i /\ th'[u].pc = pc /\ th'[u].pos = k + 1
      BY <1>6, <1>7, <2>1
    <3>2. f \notin raced => data'[i] = 1 .. (k + 1)
      BY <1>3, <1>5, <1>8
    <3> QED  BY <1>3, <1>5, <3>1, <3>2 DEF Chunk
  <2>2. CASE u # t
    <3>1. th'[u] = th[u] /\ th[u].pc \in {"chunk", "rename"} /\ th[u].file \in File
      BY <1>7, <1>10, <2>2
    <3>2. th[u].fd \in Inode /\ (th[u].pc = "chunk" => th[u].pos < Chunks)
      BY <3>1 DEF Written
    <3>3. ASSUME th[u].file \notin raced  PROVE data'[th[u].fd] = data[th[u].fd]
      <4>1. th[u].file # f
        BY <1>9, <2>2, <3>1, <3>3
      <4>2. Uses(th[u].file, th[u].fd)
        BY <3>1, <3>2 DEF Uses, CacheConstants
      <4>3. th[u].fd # i
        BY <1>4, <3>1, <4>1, <4>2
      <4> QED  BY <1>8, <3>2, <4>3
    <3> QED  BY <3>1, <3>2, <3>3 DEF Written
  <2> QED  BY <2>1, <2>2
<1>17. TmpIsNew'
  BY <1>1 DEF TmpIsNew
<1>18. Complete'
  <2> SUFFICES ASSUME NEW g \in File, g \notin raced, name[g] # NoInode  PROVE data'[name[g]] = Chunk
    BY <1>1 DEF Complete, Exists
  <2>1. name[g] \in Inode /\ data[name[g]] = Chunk
    BY <1>2 DEF TypeOK, Complete, Exists
  <2>2. name[g] # i
    BY <1>3, <1>4 DEF Uses
  <2> QED  BY <1>8, <2>1, <2>2
<1> QED  BY <1>7, <1>11, <1>12, <1>13, <1>14, <1>15, <1>16, <1>17, <1>18

\* A thread is through with the cache: it has no lock and writes no temporary file.
LEMMA LeavesCache ==
    ASSUME CacheConstants, CacheInv, NEW t \in Thread, th[t].pc \in {"open", "chunk", "rename"},
           th' = [th EXCEPT ![t] = AfterCache(t)], UNCHANGED repo
    PROVE  /\ th' \in [Thread -> ThreadState]
           /\ th'[t].pc \in {"backend", "idle"} /\ \A u \in Thread : u # t => th'[u] = th[u]
           /\ OnItsWay' /\ WrittenBefore' /\ OneWriter' /\ OneHolder' /\ KeepsLock' /\ ReadsGood'
<1> DEFINE s == AfterCache(t)
<1>1. /\ TypeOK /\ th[t] \in ThreadState /\ th[t].file \in File
      /\ th[t].op \in Ops[t] /\ th[t].op \in {"write", "remove"} \cup Reads /\ th[t].result # "bad"
  BY Whereabouts DEF Reads
<1>2. /\ s \in ThreadState /\ ~s.lock /\ s.result # "bad"
      /\ \/ s.op = "write" /\ s.op = th[t].op /\ s.file = th[t].file /\ s.pc = "backend"
         \/ s.op = "none" /\ s.pc = "idle"
  <2>1. CASE th[t].op = "write"
    <3> DEFINE r == [th[t] EXCEPT !.pc = "backend", !.lock = FALSE, !.fd = NoInode, !.pos = 0]
    <3>1. s = r
      BY <2>1 DEF AfterCache
    <3>2. 0 \in 0 .. Chunks
      BY DEF CacheConstants
    <3>3. /\ r \in ThreadState /\ r.lock = FALSE /\ r.result = th[t].result
          /\ r.op = th[t].op /\ r.file = th[t].file /\ r.pc = "backend"
      BY <1>1, <3>2 DEF ThreadState
    <3> HIDE DEF s, r
    <3> QED  BY <1>1, <2>1, <3>1, <3>3
  <2>2. CASE th[t].op # "write"
    <3>1. s = Finish(t, "good")
      BY <2>2 DEF AfterCache
    <3> HIDE DEF s
    <3> QED  BY <1>1, <3>1, Through
  <2> QED  BY <2>1, <2>2
<1>3. th' \in [Thread -> ThreadState] /\ th'[t] = s /\ \A u \in Thread : u # t => th'[u] = th[u]
  <2> HIDE DEF s
  <2> QED  BY <1>1, <1>2, Moves DEF s
<1> HIDE DEF s
<1> USE DEF CacheInv
<1>4. OnItsWay'
  BY <1>1, <1>2, <1>3 DEF OnItsWay, Reads
<1>5. WrittenBefore'
  BY <1>1, <1>2, <1>3 DEF WrittenBefore, Reads
<1>6. OneWriter' /\ OneHolder' /\ ReadsGood'
  BY <1>2, <1>3 DEF OneWriter, OneHolder, ReadsGood
<1>7. KeepsLock'
  BY <1>2, <1>3 DEF KeepsLock, Reads
<1> QED  BY <1>2, <1>3, <1>4, <1>5, <1>6, <1>7

\* The temporary file is removed after an error.
LEMMA WriteFailsKeeps ==
    ASSUME CacheConstants, CacheInv, NEW t \in Thread, WriteFails(t)
    PROVE  CacheInv'
<1> DEFINE f == th[t].file
<1>1. /\ th[t].pc \in {"open", "chunk", "rename"} /\ UNCHANGED <<repo, name, data, raced>>
      /\ tmp' = [tmp EXCEPT ![f] = NoInode] /\ th' = [th EXCEPT ![t] = AfterCache(t)]
  BY DEF WriteFails, At
<1>2. TypeOK /\ f \in File
  BY <1>1, Whereabouts
<1>3. /\ th' \in [Thread -> ThreadState]
      /\ th'[t].pc \in {"backend", "idle"} /\ \A u \in Thread : u # t => th'[u] = th[u]
      /\ OnItsWay' /\ WrittenBefore' /\ OneWriter' /\ OneHolder' /\ KeepsLock' /\ ReadsGood'
  BY <1>1, LeavesCache
<1>4. /\ tmp' \in [File -> Inode \cup {NoInode}]
      /\ \A g \in File : tmp'[g] \in {tmp[g], NoInode}
  BY <1>1, <1>2 DEF TypeOK
<1>5. \A u \in Thread : th'[u].pc \in {"chunk", "rename"} => th'[u] = th[u] /\ th[u].file \in File
  BY <1>3, Whereabouts
<1> HIDE DEF f
<1> USE DEF CacheInv
<1>6. TypeOK'
  BY <1>1, <1>2, <1>3, <1>4 DEF TypeOK
<1>7. Apart'
  <2>1. \A g \in File, j \in Inode : Uses(g, j)' => Uses(g, j)
    BY <1>1, <1>4, <1>5 DEF Uses
  <2> QED  BY <2>1 DEF Apart
<1>8. OneTmpWriter'
  BY <1>1, <1>5 DEF OneTmpWriter
<1>9. Written'
  BY <1>1, <1>4, <1>5 DEF Written
<1>10. TmpIsNew' /\ Complete'
  BY <1>1, <1>4 DEF TmpIsNew, Complete, Exists
<1> QED  BY <1>3, <1>6, <1>7, <1>8, <1>9, <1>10

\* The temporary file, which is complete if nobody races for it, becomes the cache file.
LEMMA RenameKeeps ==
    ASSUME CacheConstants, CacheInv, NEW t \in Thread, Rename(t)
    PROVE  CacheInv'
<1> DEFINE f == th[t].file
<1>1. /\ th[t].pc \in {"open", "chunk", "rename"} /\ th[t].pc = "rename" /\ UNCHANGED <<repo, data, raced>>
      /\ th' = [th EXCEPT ![t] = AfterCache(t)]
      /\ \/ tmp[f] # NoInode /\ name' = [name EXCEPT ![f] = tmp[f]] /\ tmp' = [tmp EXCEPT ![f] = NoInode]
         \/ UNCHANGED <<name, tmp>>
  BY DEF Rename, At
<1>2. TypeOK /\ f \in File
  BY <1>1, Whereabouts
<1>3. \/ /\ tmp[f] # NoInode
         /\ name'[f] = tmp[f] /\ \A g \in File : g # f => name'[g] = name[g]
         /\ tmp'[f] = NoInode /\ \A g \in File : g # f => tmp'[g] = tmp[g]
      \/ UNCHANGED <<name, tmp>>
  BY <1>1, <1>2 DEF TypeOK
<1>4. name' \in [File -> Inode \cup {NoInode}] /\ tmp' \in [File -> Inode \cup {NoInode}]
  BY <1>1, <1>2 DEF TypeOK
<1>5. /\ th' \in [Thread -> ThreadState]
      /\ th'[t].pc \in {"backend", "idle"} /\ \A u \in Thread : u # t => th'[u] = th[u]
      /\ OnItsWay' /\ WrittenBefore' /\ OneWriter' /\ OneHolder' /\ KeepsLock' /\ ReadsGood'
  BY <1>1, LeavesCache
<1>6. \A u \in Thread : u # t /\ th[u].pc \in {"chunk", "rename"} /\ th[u].file = f => f \in raced
  BY <1>1 DEF CacheInv, OneTmpWriter
<1>7. \A u \in Thread : th'[u].pc \in {"chunk", "rename"} => u # t /\ th'[u] = th[u] /\ th[u].file \in File
  BY <1>5, Whereabouts
<1>8. f \notin raced /\ tmp[f] # NoInode => data[tmp[f]] = Chunk
  BY <1>1 DEF CacheInv, Written
<1> HIDE DEF f
<1> USE DEF CacheInv
<1>9. TypeOK'
  BY <1>1, <1>2, <1>4, <1>5 DEF TypeOK
<1>10. Apart'
  <2>1. \A g \in File, j \in Inode : Uses(g, j)' => Uses(g, j)
    BY <1>3, <1>7 DEF Uses
  <2> QED  BY <2>1 DEF Apart
<1>11. OneTmpWriter'
  BY <1>1, <1>7 DEF OneTmpWriter
<1>12. Written'
  BY <1>1, <1>3, <1>6, <1>7 DEF Written
<1>13. TmpIsNew'
  BY <1>1, <1>3 DEF TmpIsNew
<1>14. Complete'
  BY <1>1, <1>3, <1>8 DEF Complete, Exists
<1> QED  BY <1>5, <1>9, <1>10, <1>11, <1>12, <1>13, <1>14

\* The cache file is removed.
LEMMA UnlinkKeeps ==
    ASSUME CacheConstants, CacheInv, NEW t \in Thread, Unlink(t)
    PROVE  CacheInv'
<1> DEFINE f == th[t].file
           s == [th[t] EXCEPT !.pc = "backend", !.lock = FALSE]
<1>1. /\ th[t].pc = "unlink" /\ UNCHANGED <<repo, tmp, data, raced>> /\ th' = [th EXCEPT ![t] = s]
      /\ name' = [name EXCEPT ![f] = NoInode] \/ UNCHANGED name
  BY DEF Unlink, At
<1>2. /\ TypeOK /\ th[t] \in ThreadState /\ f \in File
      /\ th[t].op \in Ops[t] /\ th[t].op \in {"write", "remove"} \cup Reads /\ th[t].result # "bad"
      /\ th[t].op = "remove"
  BY <1>1, Whereabouts DEF Reads, CacheInv, OnItsWay
<1>3. /\ s \in ThreadState /\ s.op = th[t].op /\ s.file = f /\ s.result = th[t].result
      /\ s.lock = FALSE /\ s.pc = "backend"
  BY <1>2 DEF ThreadState
<1> HIDE DEF s
<1>4. /\ th' \in [Thread -> ThreadState]
      /\ th'[t] = s /\ \A u \in Thread : u # t => th'[u] = th[u]
      /\ WrittenBefore' /\ OneWriter' /\ ReadsGood' /\ OneHolder'
  BY <1>1, <1>2, <1>3, GoesOn
<1>5. /\ name' \in [File -> Inode \cup {NoInode}]
      /\ \A g \in File : name'[g] \in {name[g], NoInode}
  BY <1>1, <1>2 DEF TypeOK
<1> HIDE DEF f
<1> USE DEF CacheInv
<1>6. TypeOK'
  BY <1>1, <1>2, <1>4, <1>5 DEF TypeOK
<1>7. OnItsWay'
  BY <1>2, <1>3, <1>4 DEF OnItsWay, f
<1>8. KeepsLock'
  BY <1>2, <1>3, <1>4 DEF KeepsLock, Reads
<1>9. Apart' /\ OneTmpWriter' /\ Written' /\ TmpIsNew' /\ Complete'
  <2>1. \A u \in Thread : th'[u].pc \in {"chunk", "rename"} => th'[u] = th[u]
    BY <1>3, <1>4
  <2> QED  BY <1>1, <1>5, <2>1, SameFiles
<1> QED  BY <1>4, <1>6, <1>7, <1>8, <1>9

\* The backend writes the file, which nobody else is writing, or removes it.
LEMMA ForwardKeeps ==
    ASSUME CacheConstants, CacheInv, NEW t \in Thread, Forward(t)
    PROVE  CacheInv'
<1> DEFINE f == th[t].file
           v == IF th[t].op = "write" THEN "there" ELSE "gone"
<1>1. /\ th[t].pc = "backend" /\ th[t].op \in {"write", "remove"} /\ UNCHANGED <<name, tmp, data, raced>>
      /\ \/ repo' = [repo EXCEPT ![f] = v] /\ th' = [th EXCEPT ![t] = Finish(t, "good")]
         \/ UNCHANGED repo /\ th' = [th EXCEPT ![t] = Finish(t, "error")]
  BY DEF Forward, At
<1>2. TypeOK /\ f \in File
  BY <1>1, Whereabouts
<1>3. CASE UNCHANGED repo /\ th' = [th EXCEPT ![t] = Finish(t, "error")]
  BY <1>1, <1>3, FinishKeeps
<1>4. CASE repo' = [repo EXCEPT ![f] = v] /\ th' = [th EXCEPT ![t] = Finish(t, "good")]
  <2>1. Finish(t, "good") \in ThreadState /\ Ended(Finish(t, "good"))
    BY <1>2, Through DEF Ended
  <2>2. /\ th' \in [Thread -> ThreadState] /\ Ended(th'[t])
        /\ \A u \in Thread : u # t => th'[u] = th[u]
    BY <1>2, <1>4, <2>1, Moves
  <2>3. /\ repo' \in [File -> {"new", "there", "gone"}] /\ repo'[f] # "new"
        /\ \A g \in File : g # f => repo'[g] = repo[g]
    BY <1>2, <1>4 DEF TypeOK
  <2>4. \A u \in Thread : u # t /\ th[u].file = f => th[u].op # "write"
    BY <1>1, <1>2 DEF CacheInv, OneWriter, WrittenBefore
  <2> HIDE DEF f, v
  <2> USE DEF CacheInv
  <2>5. TypeOK'
    BY <1>1, <1>2, <2>2, <2>3 DEF TypeOK
  <2>6. OnItsWay'
    BY <2>2 DEF OnItsWay, Ended, Reads
  <2>7. WrittenBefore'
    BY <2>2, <2>3, <2>4 DEF WrittenBefore, Ended, Reads
  <2>8. OneWriter' /\ OneHolder' /\ ReadsGood'
    BY <2>2 DEF OneWriter, OneHolder, ReadsGood, Ended
  <2>9. KeepsLock'
    BY <1>1, <2>2 DEF KeepsLock, Ended, Reads
  <2>10. Apart' /\ OneTmpWriter' /\ Written' /\ TmpIsNew' /\ Complete'
    <3>1. \A u \in Thread : th'[u].pc \in {"chunk", "rename"} => th'[u] = th[u]
      BY <2>2 DEF Ended
    <3> QED  BY <1>1, <3>1, SameFiles
  <2> QED  BY <2>5, <2>6, <2>7, <2>8, <2>9, <2>10
<1> QED  BY <1>1, <1>3, <1>4

\* A listing goes on, from the backend to the cache and to the clean-up, which may
\* take one file away.
LEMMA ListingKeeps ==
    ASSUME CacheConstants, CacheInv, NEW t \in Thread, NEW s \in ThreadState, th' = [th EXCEPT ![t] = s],
           th[t].op = "list", s.op = "list", s.pc \in {"compare", "cleanup"},
           s.file = th[t].file, s.lock = th[t].lock, s.result = th[t].result,
           UNCHANGED <<repo, tmp, data, raced>>, name' \in [File -> Inode \cup {NoInode}],
           \A h \in File : name'[h] \in {name[h], NoInode}
    PROVE  CacheInv'
<1>1. TypeOK /\ th[t] \in ThreadState /\ th[t].op \in Ops[t] /\ th[t].result # "bad"
  BY Whereabouts DEF Reads
<1>2. /\ th' \in [Thread -> ThreadState]
      /\ th'[t] = s /\ \A u \in Thread : u # t => th'[u] = th[u]
      /\ WrittenBefore' /\ OneWriter' /\ ReadsGood' /\ OneHolder'
  BY <1>1, GoesOn, ZenonT(30)
<1> USE DEF CacheInv
<1>3. TypeOK'
  BY <1>1, <1>2 DEF TypeOK
<1>4. OnItsWay'
  BY <1>1, <1>2 DEF OnItsWay
<1>5. KeepsLock'
  BY <1>2 DEF KeepsLock, Reads
<1>6. Apart' /\ OneTmpWriter' /\ Written' /\ TmpIsNew' /\ Complete'
  <2>1. \A u \in Thread : th'[u].pc \in {"chunk", "rename"} => th'[u] = th[u]
    BY <1>2
  <2> QED  BY <2>1, SameFiles
<1> QED  BY <1>2, <1>3, <1>4, <1>5, <1>6

\* The backend is listed.
LEMMA ListBackendKeeps ==
    ASSUME CacheConstants, CacheInv, NEW t \in Thread, ListBackend(t)
    PROVE  CacheInv'
<1> DEFINE l == {f \in File : repo[f] = "there"}
           s == [th[t] EXCEPT !.pc = "compare", !.list = l]
<1>1. th[t].pc = "list" /\ th' = [th EXCEPT ![t] = s] /\ UNCHANGED <<repo, name, tmp, data, raced>>
  BY DEF ListBackend, At
<1>2. TypeOK /\ th[t] \in ThreadState /\ th[t].op = "list"
  BY <1>1, Whereabouts DEF CacheInv, OnItsWay
<1>3. l \in FileLists
  BY DEF FileLists
<1> HIDE DEF l
<1>4. /\ s \in ThreadState /\ s.op = th[t].op /\ s.file = th[t].file /\ s.result = th[t].result
      /\ s.lock = th[t].lock /\ s.pc = "compare"
  BY <1>2, <1>3 DEF ThreadState
<1> HIDE DEF s
<1> QED  BY <1>1, <1>2, <1>4, ListingKeeps DEF TypeOK

\* The cache is listed, and compared with the backend.
LEMMA ListCacheKeeps ==
    ASSUME CacheConstants, CacheInv, NEW t \in Thread, ListCache(t)
    PROVE  CacheInv'
<1> DEFINE l == Outdated(th[t].list)
           s == [th[t] EXCEPT !.pc = "cleanup", !.list = l]
<1>1. th[t].pc = "compare" /\ th' = [th EXCEPT ![t] = s] /\ UNCHANGED <<repo, name, tmp, data, raced>>
  BY DEF ListCache, At
<1>2. TypeOK /\ th[t] \in ThreadState /\ th[t].op = "list"
  BY <1>1, Whereabouts DEF CacheInv, OnItsWay
<1>3. l \in FileLists
  BY DEF FileLists, Outdated
<1> HIDE DEF l
<1>4. /\ s \in ThreadState /\ s.op = th[t].op /\ s.file = th[t].file /\ s.result = th[t].result
      /\ s.lock = th[t].lock /\ s.pc = "cleanup"
  BY <1>2, <1>3 DEF ThreadState
<1> HIDE DEF s
<1> QED  BY <1>1, <1>2, <1>4, ListingKeeps DEF TypeOK

\* A file is cleaned up, or the clean-up ends.
LEMMA CleanupKeeps ==
    ASSUME CacheConstants, CacheInv, NEW t \in Thread, Cleanup(t)
    PROVE  CacheInv'
<1>1. th[t].pc = "cleanup" /\ UNCHANGED <<repo, tmp, data, raced>>
  BY DEF Cleanup, At
<1>2. TypeOK /\ th[t] \in ThreadState /\ th[t].op = "list"
  BY <1>1, Whereabouts DEF CacheInv, OnItsWay
<1>3. CASE th' = [th EXCEPT ![t] = Finish(t, "good")] /\ UNCHANGED name
  BY <1>1, <1>3, FinishKeeps
<1>4. CASE \E f \in th[t].list : /\ Exists(f)
                                 /\ name' = [name EXCEPT ![f] = NoInode]
                                 /\ th' = [th EXCEPT ![t].list = @ \ {f}]
  <2>1. PICK f \in th[t].list : /\ name' = [name EXCEPT ![f] = NoInode]
                                /\ th' = [th EXCEPT ![t].list = @ \ {f}]
    BY <1>4
  <2> DEFINE l == th[t].list \ {f}
             s == [th[t] EXCEPT !.list = l]
  <2>2. f \in File /\ l \in FileLists
    BY <1>2 DEF ThreadState, FileLists
  <2>3. th' = [th EXCEPT ![t] = s]
    BY <2>1
  <2> HIDE DEF l
  <2>4. /\ s \in ThreadState /\ s.op = th[t].op /\ s.file = th[t].file /\ s.result = th[t].result
        /\ s.lock = th[t].lock /\ s.pc = th[t].pc
    BY <1>2, <2>2 DEF ThreadState
  <2> HIDE DEF s
  <2>5. /\ name' \in [File -> Inode \cup {NoInode}]
        /\ \A h \in File : name'[h] \in {name[h], NoInode}
    BY <1>2, <2>1, <2>2 DEF TypeOK
  <2> QED  BY <1>1, <1>2, <2>3, <2>4, <2>5, ListingKeeps
<1> QED  BY <1>1, <1>3, <1>4 DEF Cleanup

\* A killed process leaves its temporary files, and no locks.
LEMMA KillKeeps ==
    ASSUME CacheConstants, CacheInv, NEW p \in Process, Kill(p)
    PROVE  CacheInv'
<1>1. TypeOK
  BY DEF CacheInv
<1>2. ASSUME NEW t \in Thread
      PROVE  th'[t] \in ThreadState /\ (th'[t] = th[t] \/ Ended(th'[t]))
  <2> DEFINE s == [IdleThread EXCEPT !.n = th[t].n]
  <2>1. {} \in FileLists /\ 0 \in 0 .. Chunks /\ th[t].n \in Nat
    BY <1>1 DEF FileLists, CacheConstants, TypeOK, ThreadState
  <2>2. s \in ThreadState
    BY <2>1 DEF IdleThread, ThreadState
  <2>3. Ended(s)
    BY DEF Ended, IdleThread
  <2>4. th'[t] = IF Of[t] = p THEN s ELSE th[t]
    BY DEF Kill
  <2> HIDE DEF s
  <2> QED  BY <1>1, <2>2, <2>3, <2>4 DEF TypeOK
<1>3. th' \in [Thread -> ThreadState]
  BY <1>2 DEF Kill
<1> QED  BY <1>2, <1>3, EndKeeps DEF Kill

LEMMA NextKeeps ==
    ASSUME CacheConstants, CacheInv, [Next]_vars
    PROVE  CacheInv'
<1>1. ASSUME NEW t \in Thread, Step(t)  PROVE CacheInv'
  BY <1>1, LockKeeps, CheckExistsKeeps, ReadCacheKeeps, ReadBackendKeeps, OpenTmpKeeps,
     WriteChunkKeeps, WriteFailsKeeps, RenameKeeps, UnlinkKeeps, ForwardKeeps,
     ListBackendKeeps, ListCacheKeeps, CleanupKeeps DEF Step
<1>2. ASSUME UNCHANGED vars  PROVE CacheInv'
  <2>1. UNCHANGED <<repo, name, tmp, data, raced>> /\ th' = th
    BY <1>2 DEF vars
  <2>2. TypeOK
    BY DEF CacheInv
  <2> QED  BY <2>1, <2>2, EndKeeps DEF TypeOK
<1> QED  BY <1>1, <1>2, CallKeeps, KillKeeps DEF Next

LEMMA InitGood == ASSUME CacheConstants, Init PROVE CacheInv
<1>1. IdleThread \in ThreadState
  <2>1. {} \in FileLists /\ 0 \in 0 .. Chunks
    BY DEF FileLists, CacheConstants
  <2> QED  BY <2>1 DEF IdleThread, ThreadState
<1>2. Ended(IdleThread)
  BY DEF Ended, IdleThread
<1>3. \A t \in Thread : th[t] = IdleThread
  BY DEF Init
<1>4. TypeOK
  BY <1>1 DEF Init, TypeOK
<1>5. OnItsWay /\ WrittenBefore /\ OneWriter /\ OneHolder /\ KeepsLock /\ Written /\ ReadsGood
  BY <1>2, <1>3 DEF OnItsWay, WrittenBefore, OneWriter, OneHolder, KeepsLock, Written, ReadsGood,
                    Ended, Reads
<1>6. Apart /\ OneTmpWriter /\ TmpIsNew /\ Complete
  BY <1>2, <1>3 DEF Init, Apart, Uses, OneTmpWriter, TmpIsNew, Complete, Exists, Ended
<1> QED  BY <1>4, <1>5, <1>6 DEF CacheInv

\* No two files share an inode, temporary files which nobody races for have one writer and
\* are no cache files, and the cache files are complete (cache.rs:105-260, 433-660): the
\* invariant from which the cache's answers are right.
THEOREM CacheInvariant ==
    ASSUME CacheConstants
    PROVE  Spec => []CacheInv
<1>1. Init => CacheInv
  BY InitGood
<1>2. CacheInv /\ [Next]_vars => CacheInv'
  BY NextKeeps
<1> QED  BY <1>1, <1>2, PTL DEF Spec

\* CachedBackend never answers with an incomplete file, whatever is killed, removed or
\* fails (cache.rs:105-260), unless two threads have written that file to the cache at once
\* which were of two processes, or of which one had seen it and given its lock back.
THEOREM CacheReadsGood ==
    ASSUME CacheConstants
    PROVE  Spec => []ReadsGood
<1>1. CacheInv => ReadsGood
  BY DEF CacheInv
<1> QED  BY <1>1, CacheInvariant, PTL

=============================================================================
