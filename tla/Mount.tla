-------------------------------- MODULE Mount --------------------------------
(***************************************************************************)
(* A mounted repository: Vfs (vfs.rs) shows the snapshots as directories,  *)
(* VfsBackend (opendal/vfs.rs) serves them.  A task reads the snapshots    *)
(* anew at intervals and then exchanges the Vfs, while readers look up and *)
(* read files and other processes back up, forget and prune.  The index of *)
(* the mounted repository is read once and never again.                    *)
(*                                                                         *)
(* Abstractions.  The path of a snapshot is a directory and a name made    *)
(* from its time; a template may give the same name to several times.      *)
(* Each tree has one file.  A blob is a sequence of bytes which occur      *)
(* nowhere else.                                                           *)
(***************************************************************************)
EXTENDS Naturals, Sequences, FiniteSets, SequencesExt

CONSTANTS Dirs, Times,  \* directories, e.g. host names, and times of snapshots
          Content,      \* Content[t]: the blobs of the file of tree t
          Data,         \* Data[b]: the bytes of blob b
          Size,         \* Size[t]: the size of the file in its metadata; it may have
                        \* grown or shrunk while it was read
          Offsets, Sizes,   \* of reads
          Units,        \* resolutions of time templates
          Readers,
          MaxSnaps, MaxReads    \* bounds

VARIABLES snaps, ever,  \* the snapshots that exist, and all that have been taken
          stored,       \* blobs in the repository
          index,        \* blobs in the index of the mounted repository
          vfs,          \* what is shown: path -> entry
          fresh,        \* a Vfs that is about to replace it, <<>> if there is none
          reader        \* the readers, with all their answers

mountVars == <<snaps, ever, stored, index, vfs, fresh, reader>>

BlobsOf(t) == Range(Content[t])
Bytes(blobs) == FlattenSeq([i \in DOMAIN blobs |-> Data[blobs[i]]])

-----------------------------------------------------------------------------
(***************************************************************************)
(* Vfs::from_snapshots                                                     *)
(***************************************************************************)
Link(name) == [kind |-> "link", to |-> name]
TreeEntry(t) == [kind |-> "tree", to |-> t]
Latest == <<>>

\* The path of a snapshot for a time template.
PathOf(s, unit) == <<s.dir, <<s.time \div unit>>>>

\* Orders by time; sort_unstable may put snapshots of one time in any order.
SortedByTime(S) == {q \in SetToSeqs(S) : \A i, j \in DOMAIN q : i < j => q[i].time <= q[j].time}

add_tree(tree, path, entry) == [p \in DOMAIN tree \cup {path} |-> IF p = path THEN entry ELSE tree[p]]


\* One snapshot: it is added unless it has the path of the one before; if its tree is
\* that of the one before in the same directory, it may be shown as a link to that.
AddSnapshot(opts, acc, s) ==
    LET path == PathOf(s, opts.unit)
        same == acc.path # <<>> /\ acc.path[1] = path[1] /\ acc.last = <<s.tree>>
        entry == IF opts.identical = "link" /\ same THEN Link(acc.path[2]) ELSE TreeEntry(s.tree)
    IN  [tree |-> IF acc.path = path THEN acc.tree ELSE add_tree(acc.tree, path, entry),
         path |-> path, last |-> <<s.tree>>,
         latest |-> add_tree(acc.latest, <<path[1], Latest>>,
                             IF opts.latest = "link" THEN Link(path[2]) ELSE TreeEntry(s.tree))]

\* The last snapshot of each directory is shown a second time.
from_snapshots(opts, sorted) ==
    LET none == [tree |-> <<>>, path |-> <<>>, last |-> <<>>, latest |-> <<>>]
        all == FoldLeft(LAMBDA acc, s : AddSnapshot(opts, acc, s), none, sorted)
    IN  IF opts.latest = "no" THEN all.tree
        ELSE [p \in DOMAIN all.tree \cup DOMAIN all.latest |->
                IF p \in DOMAIN all.latest THEN all.latest[p] ELSE all.tree[p]]

\* build_vfs: directories, no links
BackendOpts == [latest |-> "dir", identical |-> "dir", unit |-> 1]
build_vfs == {from_snapshots(BackendOpts, q) : q \in SortedByTime(snaps)}

-----------------------------------------------------------------------------
Closed == [pc |-> "closed", path |-> <<>>, tree |-> <<>>, file |-> <<>>, log |-> {}]

MountInit ==
    /\ snaps \in {S \in SUBSET [dir : Dirs, time : {0}, tree : DOMAIN Content] : Cardinality(S) = 1}
    /\ ever = snaps
    /\ stored = UNION {BlobsOf(s.tree) : s \in snaps} /\ index = stored
    /\ vfs \in build_vfs /\ fresh = <<>>
    /\ reader = [r \in Readers |-> Closed]

\* Other processes back up, forget and prune; the time of a snapshot may be given.
TakeSnapshot(dir, time, t) ==
    /\ Cardinality(ever) < MaxSnaps
    /\ LET s == [dir |-> dir, time |-> time, tree |-> t]
       IN  snaps' = snaps \cup {s} /\ ever' = ever \cup {s}
    /\ stored' = stored \cup BlobsOf(t)
    /\ UNCHANGED <<index, vfs, fresh, reader>>

ForgetAndPrune(s) ==
    /\ snaps' = snaps \ {s}
    /\ stored' = UNION {BlobsOf(o.tree) : o \in snaps'}
    /\ UNCHANGED <<ever, index, vfs, fresh, reader>>

\* The refresh task builds a new Vfs; if that fails the old one stays ...
RefreshBuild ==
    /\ fresh = <<>>
    /\ \E v \in build_vfs : fresh' = <<v>>
    /\ UNCHANGED <<snaps, ever, stored, index, vfs, reader>>

\* ... and exchanges it.
RefreshSwap ==
    /\ fresh # <<>>
    /\ vfs' = fresh[1] /\ fresh' = <<>>
    /\ UNCHANGED <<snaps, ever, stored, index, reader>>

-----------------------------------------------------------------------------
(***************************************************************************)
(* VfsReader, OpenFile                                                     *)
(***************************************************************************)

\* VfsReader::new, for a path that is shown or not
OpenReader(r, path) ==
    /\ reader[r] = Closed
    /\ reader' = [reader EXCEPT ![r] = [@ EXCEPT !.pc = "new", !.path = path]]
    /\ UNCHANGED <<snaps, ever, stored, index, vfs, fresh>>

\* Mutant of Lookup: the file is looked up for each read.
LookupAgain(r) ==
    /\ reader[r].pc \in {"new", "open"}
    /\ reader[r].path \in DOMAIN vfs /\ vfs[reader[r].path].kind = "tree"
    /\ reader' = [reader EXCEPT ![r].pc = "found", ![r].tree = <<vfs[reader[r].path].to>>]
    /\ UNCHANGED <<snaps, ever, stored, index, vfs, fresh>>

\* ensure_open: the node is looked up while the Vfs is locked ...
Lookup(r) ==
    /\ reader[r].pc = "new"
    /\ reader[r].path \in DOMAIN vfs /\ vfs[reader[r].path].kind = "tree"
    /\ reader' = [reader EXCEPT ![r].pc = "found", ![r].tree = <<vfs[reader[r].path].to>>]
    /\ UNCHANGED <<snaps, ever, stored, index, vfs, fresh>>

\* ContentStartpoints::from_sizes; the last one is an end that is never reached
Infinity == 1000
Startpoints(blobs) ==
    IF blobs = <<>> THEN <<>>
    ELSE [i \in 1 .. Len(blobs) + 1 |-> IF i > Len(blobs) THEN Infinity
                                        ELSE Len(Bytes(SubSeq(blobs, 1, i - 1)))]

\* ... and the file is opened after that: all its blobs must be in the index, else the
\* next call starts anew.
OpenNode(r) ==
    /\ reader[r].pc = "found"
    /\ LET t == reader[r].tree[1]
       IN  reader' = [reader EXCEPT ![r] =
              IF BlobsOf(t) \subseteq index
              THEN [@ EXCEPT !.pc = "open", !.file = [content |-> Content[t], start |-> Startpoints(Content[t]),
                                                      length |-> Size[t]]]
              ELSE [@ EXCEPT !.pc = "new", !.tree = <<>>]]
    /\ UNCHANGED <<snaps, ever, stored, index, vfs, fresh>>

\* compute_start: the blob at an offset, and the offset in that blob
compute_start(start, offset) ==
    LET i == Cardinality({k \in DOMAIN start : start[k] <= offset})
    IN  IF start = <<>> THEN <<1, 0>> ELSE <<i, offset - start[i]>>

\* OpenFile::read_at: from blob to blob until the length is reached, with the blobs
\* that are loaded for it; there is nothing beyond the last blob.
ReadBlobs(file, offset, length) ==
    LET at == compute_start(file.start, offset)
        begin(i) == IF i = at[1] THEN at[2] ELSE 0
        beyond == at[1] \in DOMAIN file.content /\ at[2] > Len(Data[file.content[at[1]]])
        copy(acc, i) ==
            LET data == Data[file.content[i]]
                n == Min({Len(data) - begin(i), length - Len(acc.bytes)})
            IN  IF Len(acc.bytes) = length THEN acc
                ELSE [bytes |-> IF beyond THEN <<>> ELSE acc.bytes \o SubSeq(data, begin(i) + 1, begin(i) + n),
                      loaded |-> acc.loaded \cup {file.content[i]}]
    IN  FoldLeft(copy, [bytes |-> <<>>, loaded |-> {}],
                 [k \in 1 .. (IF beyond THEN 1 ELSE Len(file.content) + 1 - at[1]) |-> at[1] + k - 1])

\* VfsReader::read_at: reads are cut at the size of the file; the read fails if prune
\* has removed a blob it needs.
ReadAt(r, offset, size) ==
    /\ reader[r].pc = "open" /\ Cardinality(reader[r].log) < MaxReads
    /\ LET file == reader[r].file
           from == Min({offset, file.length})
           n == Min({size, file.length - from})
           answer == IF n = 0 THEN [bytes |-> <<>>, loaded |-> {}] ELSE ReadBlobs(file, from, n)
       IN  /\ answer.loaded \subseteq stored
           /\ reader' = [reader EXCEPT ![r].log = @ \cup {[offset |-> offset, size |-> size, bytes |-> answer.bytes]}]
    /\ UNCHANGED <<snaps, ever, stored, index, vfs, fresh>>


MountNext ==
    \/ \E dir \in Dirs, time \in Times, t \in DOMAIN Content : TakeSnapshot(dir, time, t)
    \/ \E s \in snaps : ForgetAndPrune(s)
    \/ RefreshBuild \/ RefreshSwap
    \/ \E r \in Readers :
          \/ \E dir \in Dirs : OpenReader(r, <<dir, Latest>>) \/ OpenReader(r, <<dir, <<0>>>>)
          \/ Lookup(r) \/ OpenNode(r)
          \/ \E offset \in Offsets, size \in Sizes : ReadAt(r, offset, size)

MountSpec == MountInit /\ [][MountNext]_mountVars

-----------------------------------------------------------------------------
(***************************************************************************)
(* Properties                                                              *)
(***************************************************************************)

\* The bytes of a file that are there and belong to it, and what is read from them.
FileBytes(t) == SubSeq(Bytes(Content[t]), 1, Min({Size[t], Len(Bytes(Content[t]))}))
Slice(bytes, offset, size) == SubSeq(bytes, offset + 1, Min({offset + size, Len(bytes)}))

\* All that a reader has read is from one version of the file, that of a snapshot with
\* its path, however often the Vfs is exchanged in between and for all offsets and
\* sizes, at the borders of blobs and beyond the end of the file.
ReadsOneVersion ==
    \A r \in Readers : reader[r].log # {} =>
        \E s \in ever :
            /\ s.dir = reader[r].path[1] /\ reader[r].path[2] \in {<<s.time>>, Latest}
            /\ \A a \in reader[r].log : a.bytes = Slice(FileBytes(s.tree), a.offset, a.size)

Templates == [latest : {"no", "dir", "link"}, identical : {"dir", "link"}, unit : Units]

\* The tree that a path shows, through links.
Resolved(v, p) ==
    LET step(q) == IF v[q].kind = "link" THEN <<q[1], v[q].to>> ELSE q
        end == step(step(step(step(p))))
    IN  v[end].to

=============================================================================
