--------------------------- MODULE CachedBackend ---------------------------
(***************************************************************************)
(* The local cache of a repository (backend/cache.rs): threads of several  *)
(* processes read, write and remove files through CachedBackend, which     *)
(* keeps copies of them in a directory all processes share.                *)
(*                                                                         *)
(* A cache file is written to `<id>-tmp-` and then renamed.  The name of   *)
(* the temporary file depends on the id only; that no two threads write it *)
(* at once is left to a pool of locks, one per id and process.  A reader   *)
(* gives its lock back when it sees that the file exists.                  *)
(*                                                                         *)
(* The file system is modelled by inodes: a thread that has opened the     *)
(* temporary file goes on writing to the same inode after another thread   *)
(* has truncated or renamed it.  Which files two threads have written at   *)
(* once, and how it came to that, is remembered in `raced` and `saw`: they *)
(* change nothing of what the threads do.                                  *)
(*                                                                         *)
(* Abstractions.  A file is a sequence of chunks, each written in one step;*)
(* a chunk is either what it should be or missing (a hole, or beyond the   *)
(* end).  Files are snapshot and index files, which are all cacheable.     *)
(***************************************************************************)
EXTENDS Naturals, FiniteSets

CONSTANTS Thread, Process,
          Of,         \* Of[t]: the process of thread t, in [Thread -> Process]
          File,       \* the files, by id; their contents never change
          Inode,      \* the inodes of the cache's file system
          Chunks,     \* number of chunks of each file
          Ops,        \* Ops[t]: the operations thread t uses
          MaxOps,     \* bound: operations of each thread
          NoInode, NoFile

VARIABLES
    repo,    \* repo[f]: is file f not yet, now, or no longer in the backend?
    name,    \* name[f]: the inode of f's cache file
    tmp,     \* tmp[f]: the inode of f's temporary file
    data,    \* data[i]: the chunks that inode i has
    th,      \* th[t]: what thread t is doing
    raced    \* files whose temporary file two threads have written at once, against the locks

vars == <<repo, name, tmp, data, th, raced>>

Chunk == 1 .. Chunks
IdleThread == [op |-> "none", pc |-> "idle", file |-> NoFile, lock |-> FALSE, saw |-> FALSE, fd |-> NoInode,
               pos |-> 0, part |-> 0, list |-> {}, result |-> "none", n |-> 0]

Init ==
    /\ repo \in [File -> {"new", "there"}]
    /\ name = [f \in File |-> NoInode]
    /\ tmp = [f \in File |-> NoInode]
    /\ data = [i \in Inode |-> {}]
    /\ th = [t \in Thread |-> IdleThread]
    /\ raced = {}

\* Inodes that no name and no thread refers to.
FreeInode == {i \in Inode : /\ \A f \in File : name[f] # i /\ tmp[f] # i
                            /\ \A t \in Thread : th[t].fd # i}

Exists(f) == name[f] # NoInode
SizeOf(i) == IF data[i] = {} THEN 0 ELSE CHOOSE k \in data[i] : \A l \in data[i] : l <= k

At(t, pc) == th[t].pc = pc
Finish(t, result) == [IdleThread EXCEPT !.result = result, !.n = th[t].n]

-----------------------------------------------------------------------------
\* A file is written if it is new and nobody else is writing it; a file that is read or
\* removed has been written.
MayCall(o, f) ==
    /\ o = "write" => repo[f] = "new" /\ \A u \in Thread : th[u].op = "write" => th[u].file # f
    /\ o \in {"remove", "read_full", "read_partial"} => repo[f] # "new"

\* An operation begins; a listing has no file.
Called(t, o, f, k) ==
    IF o = "list" THEN [IdleThread EXCEPT !.op = o, !.pc = "list", !.n = th[t].n + 1]
    ELSE [IdleThread EXCEPT !.op = o, !.pc = "lock", !.n = th[t].n + 1, !.file = f,
                            !.part = IF o = "read_partial" THEN k ELSE 0]

\* A thread calls an operation.
Call(t) ==
    /\ At(t, "idle") /\ th[t].n < MaxOps
    /\ \E o \in Ops[t], f \in File, k \in Chunk :
          MayCall(o, f) /\ th' = [th EXCEPT ![t] = Called(t, o, f, k)]
    /\ UNCHANGED <<repo, name, tmp, data, raced>>

\* lock_pool.blocking_lock: one holder per process and id.
Lock(t) ==
    /\ At(t, "lock")
    /\ \A u \in Thread : Of[u] = Of[t] /\ th[u].file = th[t].file => ~th[u].lock
    /\ th' = [th EXCEPT ![t] = [th[t] EXCEPT !.lock = TRUE,
                                            !.pc = CASE th[t].op = "write" -> "open"
                                                     [] th[t].op = "remove" -> "unlink"
                                                     [] OTHER -> "exists"]]
    /\ UNCHANGED <<repo, name, tmp, data, raced>>

\* Mutant of CheckExists: the lock is given back in any case.
UnlocksAlways(t) ==
    /\ At(t, "exists")
    /\ th' = [th EXCEPT ![t] = [th[t] EXCEPT !.pc = "cache", !.lock = FALSE, !.saw = Exists(th[t].file)]]
    /\ UNCHANGED <<repo, name, tmp, data, raced>>

\* A reader gives its lock back if the cache file exists.
CheckExists(t) ==
    /\ At(t, "exists")
    /\ th' = [th EXCEPT ![t] = [th[t] EXCEPT !.pc = "cache", !.lock = ~Exists(th[t].file),
                                            !.saw = Exists(th[t].file)]]
    /\ UNCHANGED <<repo, name, tmp, data, raced>>

\* Cache::read_full and Cache::read_partial.  After an error the backend is asked, as if
\* the file were not there; a partial read beyond the end of the file is an error.
ReadCache(t) ==
    /\ At(t, "cache")
    /\ LET f == th[t].file
           i == name[f]
           k == th[t].part
           beyond == k > 0 /\ k > SizeOf(i)
           good == IF k > 0 THEN k \in data[i] ELSE data[i] = Chunk
       IN \/ th' = [th EXCEPT ![t] = [th[t] EXCEPT !.pc = "backend"]]
          \/ /\ Exists(f) /\ ~beyond
             /\ th' = [th EXCEPT ![t] = Finish(t, IF good THEN "good" ELSE IF f \in raced THEN "torn" ELSE "bad")]
    /\ UNCHANGED <<repo, name, tmp, data, raced>>

\* The file is read from the backend, to be saved in the cache.
ReadBackend(t) ==
    /\ At(t, "backend") /\ th[t].op # "write" /\ th[t].op # "remove"
    /\ th' = [th EXCEPT ![t] = IF repo[th[t].file] = "there" THEN [th[t] EXCEPT !.pc = "open"]
                               ELSE Finish(t, "error")]
    /\ UNCHANGED <<repo, name, tmp, data, raced>>

(***************************************************************************)
(* Cache::write_bytes                                                      *)
(***************************************************************************)
\* What follows the writing of the cache file, whether or not it has succeeded:
\* a reader returns, a writer releases its lock and writes to the backend.
AfterCache(t) ==
    IF th[t].op = "write" THEN [th[t] EXCEPT !.pc = "backend", !.lock = FALSE, !.fd = NoInode, !.pos = 0]
    ELSE Finish(t, "good")

\* Two threads race if locks do not part them: they are of different processes, or one
\* has given its lock back because it had seen the cache file.
Races(t, u) ==
    /\ th[t].file = th[u].file
    /\ Of[t] # Of[u] \/ th[t].saw \/ th[u].saw

\* Open with create and truncate.
OpenTmp(t) ==
    /\ At(t, "open")
    /\ LET f == th[t].file
       IN /\ raced' = IF \E u \in Thread \ {t} : th[u].pc \in {"chunk", "rename"} /\ Races(t, u)
                      THEN raced \cup {f} ELSE raced
          /\ \E i \in IF tmp[f] # NoInode THEN {tmp[f]} ELSE FreeInode :
             /\ tmp' = [tmp EXCEPT ![f] = i]
             /\ data' = [data EXCEPT ![i] = {}]
             /\ th' = [th EXCEPT ![t] = [th[t] EXCEPT !.fd = i, !.pos = 0, !.pc = "chunk"]]
    /\ UNCHANGED <<repo, name>>

\* io::copy writes the next chunk.
WriteChunk(t) ==
    /\ At(t, "chunk")
    /\ data' = [data EXCEPT ![th[t].fd] = @ \cup {th[t].pos + 1}]
    /\ th' = [th EXCEPT ![t] = [th[t] EXCEPT
                       !.pos = th[t].pos + 1,
                       !.pc = IF th[t].pos + 1 = Chunks THEN "rename" ELSE "chunk"]]
    /\ UNCHANGED <<repo, name, tmp, raced>>

\* Opening or writing fails: the temporary file is removed, the error only logged.
WriteFails(t) ==
    /\ At(t, "open") \/ At(t, "chunk")
    /\ tmp' = [tmp EXCEPT ![th[t].file] = NoInode]
    /\ th' = [th EXCEPT ![t] = AfterCache(t)]
    /\ UNCHANGED <<repo, name, data, raced>>

\* Rename; it fails if another thread has renamed or removed the temporary file,
\* and may fail otherwise, which leaves that file behind.
Rename(t) ==
    /\ At(t, "rename")
    /\ LET f == th[t].file
       IN \/ /\ tmp[f] # NoInode
             /\ name' = [name EXCEPT ![f] = tmp[f]]
             /\ tmp' = [tmp EXCEPT ![f] = NoInode]
          \/ UNCHANGED <<name, tmp>>
    /\ th' = [th EXCEPT ![t] = AfterCache(t)]
    /\ UNCHANGED <<repo, data, raced>>

(***************************************************************************)
(* The backend behind the cache, removals and listings                     *)
(***************************************************************************)

\* Cache::remove, whose error is only logged; the lock is released before the backend
\* is asked.
Unlink(t) ==
    /\ At(t, "unlink")
    /\ \/ name' = [name EXCEPT ![th[t].file] = NoInode]
       \/ UNCHANGED name
    /\ th' = [th EXCEPT ![t] = [th[t] EXCEPT !.pc = "backend", !.lock = FALSE]]
    /\ UNCHANGED <<repo, tmp, data, raced>>

\* The backend writes or removes the file, or fails.
Forward(t) ==
    /\ At(t, "backend") /\ th[t].op \in {"write", "remove"}
    /\ \/ /\ repo' = [repo EXCEPT ![th[t].file] = IF th[t].op = "write" THEN "there" ELSE "gone"]
          /\ th' = [th EXCEPT ![t] = Finish(t, "good")]
       \/ /\ th' = [th EXCEPT ![t] = Finish(t, "error")]
          /\ UNCHANGED repo
    /\ UNCHANGED <<name, tmp, data, raced>>

\* list_with_size: list the backend ...
ListBackend(t) ==
    /\ At(t, "list")
    /\ th' = [th EXCEPT ![t] = [th[t] EXCEPT !.pc = "compare", !.list = {f \in File : repo[f] = "there"}]]
    /\ UNCHANGED <<repo, name, tmp, data, raced>>

\* ... compare with the files that the cache has now ...
Outdated(list) == {f \in File : Exists(f) /\ (f \in list => SizeOf(name[f]) # Chunks)}
ListCache(t) ==
    /\ At(t, "compare")
    /\ th' = [th EXCEPT ![t] = [th[t] EXCEPT !.pc = "cleanup", !.list = Outdated(th[t].list)]]
    /\ UNCHANGED <<repo, name, tmp, data, raced>>

\* ... and remove the ones not listed, or of another size, one after the other and
\* without any lock.  The first removal that fails ends it; the error is only logged.
Cleanup(t) ==
    /\ At(t, "cleanup")
    /\ \/ \E f \in th[t].list :
             /\ Exists(f)
             /\ name' = [name EXCEPT ![f] = NoInode]
             /\ th' = [th EXCEPT ![t].list = @ \ {f}]
       \/ /\ th' = [th EXCEPT ![t] = Finish(t, "good")]
          /\ UNCHANGED name
    /\ UNCHANGED <<repo, tmp, data, raced>>

\* A process is killed: its threads and locks vanish, the files stay.
Kill(p) ==
    /\ \E t \in Thread : Of[t] = p /\ ~At(t, "idle")
    /\ th' = [t \in Thread |-> IF Of[t] = p THEN [IdleThread EXCEPT !.n = th[t].n] ELSE th[t]]
    /\ UNCHANGED <<repo, name, tmp, data, raced>>

Step(t) == Lock(t) \/ CheckExists(t) \/ ReadCache(t) \/ ReadBackend(t) \/ OpenTmp(t)
             \/ WriteChunk(t) \/ WriteFails(t) \/ Rename(t) \/ Unlink(t) \/ Forward(t)
             \/ ListBackend(t) \/ ListCache(t) \/ Cleanup(t)
Next == (\E t \in Thread : Call(t) \/ Step(t)) \/ (\E p \in Process : Kill(p))

Spec == Init /\ [][Next]_vars
-----------------------------------------------------------------------------
(***************************************************************************)
(* Properties                                                              *)
(***************************************************************************)

\* What CachedBackend returns is what the file contains: the cache never answers with a
\* file that is incomplete, not even one left by a killed process or a failed write.  A
\* file is exempt once two threads have written it at once and it was not the locks'
\* fault: they were of two processes, or one had seen the file and given its lock back.
ReadsGood == \A t \in Thread : th[t].result # "bad"

\* "We need some locking to prevent parallel write access on cache files" (cache.rs:36):
\* threads of one process never write the temporary file of one file at once.
WritesExclude == \A t, u \in Thread :
    /\ th[t].pc \in {"chunk", "rename"} /\ th[u].pc \in {"chunk", "rename"}
    /\ Of[t] = Of[u] /\ th[t].file = th[u].file
    => t = u

-----------------------------------------------------------------------------
(***************************************************************************)
(* Why the cache is good                                                   *)
(***************************************************************************)

Reads == {"read_full", "read_partial"}

CacheConstants == /\ Chunks \in Nat \ {0}
                  /\ NoInode \notin Inode
                  /\ Of \in [Thread -> Process]
                  /\ \A t \in Thread : Ops[t] \subseteq {"write", "remove", "list"} \cup Reads

FileLists == SUBSET File
ThreadState == [op : {"none", "write", "remove", "list"} \cup Reads,
                pc : {"idle", "lock", "exists", "cache", "backend", "open", "chunk", "rename",
                      "unlink", "list", "compare", "cleanup"},
                file : File \cup {NoFile}, lock : BOOLEAN, saw : BOOLEAN, fd : Inode \cup {NoInode},
                pos : 0 .. Chunks, part : 0 .. Chunks, list : FileLists,
                result : {"none", "good", "torn", "bad", "error"}, n : Nat]

TypeOK ==
    /\ repo \in [File -> {"new", "there", "gone"}]
    /\ name \in [File -> Inode \cup {NoInode}]
    /\ tmp \in [File -> Inode \cup {NoInode}]
    /\ data \in [Inode -> SUBSET Chunk]
    /\ th \in [Thread -> ThreadState]
    /\ raced \subseteq File

\* Threads are where their operation leads them.
OnItsWay == \A t \in Thread :
    /\ th[t].op \in Ops[t] \cup {"none"}
    /\ th[t].pc \in {"lock", "exists", "cache", "backend", "open", "chunk", "rename", "unlink"} =>
           th[t].file \in File /\ th[t].op \in {"write", "remove"} \cup Reads
    /\ th[t].pc \in {"exists", "cache"} => th[t].op \in Reads
    /\ th[t].pc = "unlink" => th[t].op = "remove"
    /\ th[t].pc \in {"open", "chunk", "rename"} => th[t].op # "remove"
    /\ th[t].pc \in {"list", "compare", "cleanup"} => th[t].op = "list"
    /\ th[t].op = "list" => th[t].pc \in {"list", "compare", "cleanup"}

\* A file is written to the repository once, and read or removed only after that.
WrittenBefore == \A t \in Thread : th[t].file \in File =>
    /\ th[t].op = "write" => repo[th[t].file] = "new"
    /\ th[t].op \in {"remove"} \cup Reads => repo[th[t].file] # "new"

OneWriter == \A t, u \in Thread :
    th[t].op = "write" /\ th[u].op = "write" /\ th[t].file = th[u].file => t = u

OneHolder == \A t, u \in Thread :
    Of[t] = Of[u] /\ th[t].file = th[u].file /\ th[t].lock /\ th[u].lock => t = u

\* Who writes the cache has the lock, except for a reader that has seen the file.
KeepsLock == \A t \in Thread :
    /\ th[t].op \in Reads /\ th[t].pc \in {"exists", "cache", "backend", "open", "chunk", "rename"} =>
           th[t].lock \/ th[t].saw
    /\ th[t].pc \in {"exists", "unlink"} => th[t].lock
    /\ th[t].op = "write" /\ th[t].pc \in {"open", "chunk", "rename"} => th[t].lock

\* No two files share an inode.
Uses(f, i) ==
    /\ i # NoInode
    /\ \/ name[f] = i \/ tmp[f] = i
       \/ \E t \in Thread : th[t].pc \in {"chunk", "rename"} /\ th[t].file = f /\ th[t].fd = i
Apart == \A f, g \in File, i \in Inode : Uses(f, i) /\ Uses(g, i) => f = g

\* The temporary file of a file without races has one writer, who writes it from the
\* beginning to the end (another one may have removed it); it is not yet the file itself.
OneTmpWriter == \A t, u \in Thread :
    /\ th[t].pc \in {"chunk", "rename"} /\ th[u].pc \in {"chunk", "rename"}
    /\ th[t].file = th[u].file /\ th[t].file \notin raced
    => t = u
Written == \A t \in Thread : th[t].pc \in {"chunk", "rename"} =>
    /\ th[t].fd \in Inode /\ (th[t].pc = "chunk" => th[t].pos < Chunks)
    /\ th[t].file \notin raced =>
           /\ tmp[th[t].file] \in {th[t].fd, NoInode} /\ name[th[t].file] # th[t].fd
           /\ data[th[t].fd] = IF th[t].pc = "chunk" THEN 1 .. th[t].pos ELSE Chunk
TmpIsNew == \A f \in File \ raced : tmp[f] # NoInode => tmp[f] # name[f]

Complete == \A f \in File \ raced : Exists(f) => data[name[f]] = Chunk

CacheInv == /\ TypeOK /\ OnItsWay /\ WrittenBefore /\ OneWriter /\ OneHolder /\ KeepsLock
            /\ Apart /\ OneTmpWriter /\ Written /\ TmpIsNew /\ Complete /\ ReadsGood
=============================================================================
