------------------------------ MODULE Restore ------------------------------
(***************************************************************************)
(* Restoring a snapshot to a destination (commands/restore.rs).            *)
(* collect_and_prepare walks the nodes and the destination side by side,   *)
(* removes what is additional, creates directories and plans which blobs   *)
(* each file needs; the packs are warmed up; restore_contents reads them   *)
(* in a pool of threads and writes the files; restore_metadata makes the   *)
(* hard links and sets the metadata.  There are two kinds of destinations: *)
(* local ones, where files are written at any place and hard links exist,  *)
(* and append-only ones (opendal), where a file is replaced as a whole by  *)
(* a thread of its own that gets the pieces through a channel.             *)
(*                                                                         *)
(* Abstractions.  Names are numbers, a path is a sequence of them.  A blob *)
(* is a number and one unit long; blobs follow each other in packs in this *)
(* order.  Content is a sequence of blobs, 0 is something else.  Times are *)
(* the one of the snapshot ("snap") or another one.  Metadata is its time. *)
(* Everything is restored below dest_path, a path in the destination: <<>> *)
(* for the destination itself.                                             *)
(***************************************************************************)
EXTENDS Naturals, Sequences, FiniteSets, SequencesExt

CONSTANTS Inputs,        \* what is restored to which destination, and how
          PackOf,        \* the pack of each blob
          Threads,       \* MAX_READER_THREADS_NUM
          Capacity,      \* APPEND_CHANNEL_CAPACITY
          MayCancel      \* BOOLEAN: may the user cancel?

ASSUME RestoreAssumption == Threads \in Nat \ {0} /\ Capacity \in Nat \ {0} /\ MayCancel \in BOOLEAN

VARIABLES
    job,        \* the input
    phase,      \* "prepare", "collect", "warm", "warming", "waiting", "warmed", "empty", "contents",
                \* "metadata", "done", "failed" or "cancelled"
    dest,       \* the destination: path -> inode
    inode,      \* the files, by inode
    src, todo,  \* the entries of the destination and the nodes still to be compared
    plan,       \* RestorePlan
    warm,       \* the warm-up: packs still to be done, those warmed up and those waited for
    packsRead,  \* packs that have been read
    tasks,      \* PackInfos which no thread has taken
    writes,     \* pieces handed to the pool (local destinations)
    senders,    \* the threads which are sending pieces (append-only destinations)
    writer,     \* per file: its channel, what has come out of order, and how far it is
    dirs,       \* directories whose metadata is still to be set
    cancelled

walk == <<src, todo, plan>>
pool == <<tasks, writes, senders, writer, packsRead>>
restoreVars == <<job, phase, dest, inode, walk, warm, pool, dirs, cancelled>>

Blobs == DOMAIN PackOf
Random == job.kind = "local"   \* can_random_write and can_hard_link

Under(p, q) == IsPrefix(q, p)
Less(p, q) == \E i \in 1 .. Len(q) : /\ Len(p) >= i - 1 /\ \A j \in 1 .. i - 1 : p[j] = q[j]
                                     /\ Len(p) = i - 1 \/ p[i] < q[i]

\* A listing: directories come before what is in them.
Listing(S) == [i \in 1 .. Cardinality(S) |-> CHOOSE p \in S : Cardinality({q \in S : Less(q, p)}) = i - 1]

NoPlan == [names |-> <<>>, lengths |-> <<>>, r |-> [b \in Blobs |-> <<>>], links |-> <<>>]

\* The nodes as collect_and_prepare sees them: join_force puts dest_path before.
Joined == [i \in DOMAIN job.nodes |-> [job.nodes[i] EXCEPT !.path = job.dest_path \o @]]

RestoreInit ==
    /\ job \in Inputs
    /\ phase = "prepare"
    /\ dest = job.dest /\ inode = job.inode
    /\ src = <<>> /\ todo = Joined
    /\ plan = NoPlan
    /\ warm = [left |-> {}, up |-> {}, ready |-> {}] /\ packsRead = {} /\ tasks = {} /\ writes = {} /\ senders = {}
    /\ writer = <<>> /\ dirs = <<>> /\ cancelled = FALSE

-----------------------------------------------------------------------------
(***************************************************************************)
(* The destination                                                         *)
(***************************************************************************)

Exists(d, p) == p \in DOMAIN d
Kind(p) == inode[dest[p]].kind
FileSize(p) == Len(inode[dest[p]].content)
NewFile(kind) == [kind |-> kind, content |-> <<>>, mtime |-> "now"]
NewInode(p) == <<1>> \o p

With(f, k, v) == [x \in DOMAIN f \cup {k} |-> IF x = k THEN v ELSE f[x]]
Without(f, S) == [x \in DOMAIN f \ S |-> f[x]]

\* Making or removing an entry changes the time of its directory.
Touched(d, files, p) ==
    IF Len(p) > 1 /\ Exists(d, Front(p)) THEN [files EXCEPT ![d[Front(p)]].mtime = "now"] ELSE files

\* Can an entry be made here, i.e. is everything above it a directory?
Room(d, files, p) == \A n \in 1 .. Len(p) - 1 :
    LET q == SubSeq(p, 1, n) IN Exists(d, q) => files[d[q]].kind = "dir"

Missing(d, p) == {SubSeq(p, 1, n) : n \in 1 .. Len(p)} \ DOMAIN d

\* create_dir_all
CreateDirs(p) ==
    LET new == Missing(dest, p)
        files == IF new = {} THEN inode
                 ELSE Touched(dest, inode, CHOOSE q \in new : \A o \in new : Under(o, q))
    IN  /\ dest' = [q \in DOMAIN dest \cup new |-> IF q \in new THEN NewInode(q) ELSE dest[q]]
        /\ inode' = [i \in DOMAIN files \cup {NewInode(q) : q \in new} |->
                        IF \E q \in new : i = NewInode(q) THEN NewFile("dir") ELSE files[i]]

\* A file which an operation replaces or makes, with its content.
Put(p, content) ==
    IF Exists(dest, p)
    THEN /\ inode' = [inode EXCEPT ![dest[p]].content = content, ![dest[p]].mtime = "now"]
         /\ UNCHANGED dest
    ELSE LET above == Missing(dest, p) \ {p}
         IN  /\ dest' = [q \in DOMAIN dest \cup Missing(dest, p) |-> IF Exists(dest, q) THEN dest[q] ELSE NewInode(q)]
             /\ inode' = [i \in DOMAIN inode \cup {NewInode(q) : q \in above \cup {p}} |->
                            IF i = NewInode(p) THEN [NewFile("file") EXCEPT !.content = content]
                            ELSE IF \E q \in above : i = NewInode(q) THEN NewFile("dir")
                            ELSE Touched(dest, inode, p)[i]]

-----------------------------------------------------------------------------
(***************************************************************************)
(* collect_and_prepare                                                     *)
(***************************************************************************)

\* The directory dest_path is made, also by a dry run, and listed.
Prepare ==
    /\ phase = "prepare" /\ ~cancelled
    /\ LET p == job.dest_path
       IN  IF Room(dest, inode, p) /\ (Exists(dest, p) => Kind(p) = "dir")
           THEN /\ CreateDirs(p)
                /\ src' = Listing({q \in DOMAIN dest : Under(q, p) /\ q # p})
                /\ phase' = "collect"
           ELSE phase' = "failed" /\ UNCHANGED <<dest, inode, src>>
    /\ UNCHANGED <<job, todo, plan, warm, pool, dirs, cancelled>>

\* process_existing: an entry that is not in the snapshot is removed if asked to; with
\* a directory all that is below it is done.
Removed(p) == IF job.delete /\ ~job.dry_run
              THEN [d |-> Without(dest, {q \in DOMAIN dest : Under(q, p)}), files |-> Touched(dest, inode, p)]
              ELSE [d |-> dest, files |-> inode]
AfterExisting(p) == SelectSeq(Tail(src), LAMBDA q : ~(Kind(p) = "dir" /\ Under(q, p)))

\* Does blob i of a file match what is in the destination?  Files are read if they
\* have the right size.
Matching(node, d, files) ==
    LET p == node.path
        open == ~job.no_compare /\ Exists(d, p) /\ Len(files[d[p]].content) = Len(node.content)
    IN  [i \in 1 .. Len(node.content) |-> open /\ files[d[p]].content[i] = node.content[i]]

\* Append-only destinations: after the first blob that does not match nothing is read,
\* and for each blob before it the last place where it is needed is needed again.
Matches(node, d, files) ==
    LET m == Matching(node, d, files)
        n == Len(node.content)
        bad == {i \in 1 .. n : ~m[i]}
        first == CHOOSE i \in bad : \A j \in bad : i <= j
        last(i) == \A j \in i + 1 .. first - 1 : node.content[j] # node.content[i]
    IN  IF Random \/ bad = {} THEN m
        ELSE [i \in 1 .. n |-> i < first /\ ~last(i)]

\* add_file: files of the right size and time are accepted, unless existing files are to
\* be verified; of the others each blob's places in the file are noted.
Accepted(node, d, files) ==
    /\ Exists(d, node.path) /\ Len(files[d[node.path]].content) = Len(node.content)
    /\ node.content = <<>> \/ (~job.verify_existing /\ files[d[node.path]].mtime = "snap")

add_file(pl, node, d, files) ==
    LET m == Matches(node, d, files)
        n == Len(node.content)
        places(b) == [k \in 1 .. Cardinality({i \in 1 .. n : node.content[i] = b}) |->
                        LET i == CHOOSE j \in 1 .. n :
                                    /\ node.content[j] = b
                                    /\ Cardinality({h \in 1 .. j : node.content[h] = b}) = k
                        IN  [file |-> Len(pl.names) + 1, start |-> i, matches |-> m[i]]]
    IN  IF Accepted(node, d, files) THEN pl
        ELSE [pl EXCEPT !.names = Append(@, node.path), !.lengths = Append(@, n),
                        !.r = [b \in Blobs |-> @[b] \o places(b)]]

\* process_node for a file: of files which are hard links to each other the first is
\* planned, the others are made when metadata is set.
PlannedFile(node, d, files) ==
    IF node.link = 0 THEN add_file(plan, node, d, files)
    ELSE IF node.link \in DOMAIN plan.links THEN plan
    ELSE add_file([plan EXCEPT !.links = With(@, node.link, node.path)], node, d, files)

\* process_node with the destination d, files
process_node(node, exists, d, files) ==
    \/ /\ node.kind = "dir" /\ ~exists /\ ~job.dry_run
       /\ IF Room(d, files, node.path)
          THEN CreateDirs(node.path) /\ UNCHANGED phase
          ELSE phase' = "failed" /\ UNCHANGED <<dest, inode>>
       /\ UNCHANGED plan
    \/ /\ node.kind # "dir" \/ exists \/ job.dry_run
       /\ dest' = d /\ inode' = files
       /\ plan' = IF node.kind = "file" THEN PlannedFile(node, d, files) ELSE plan
       /\ UNCHANGED phase

Collecting == phase = "collect" /\ ~cancelled

\* The next entry of the destination comes before the next node, or there is no node.
CollectExisting ==
    /\ Collecting /\ src # <<>>
    /\ todo # <<>> => Less(Head(src), Head(todo).path)
    /\ dest' = Removed(Head(src)).d /\ inode' = Removed(Head(src)).files
    /\ src' = AfterExisting(Head(src))
    /\ UNCHANGED <<job, phase, todo, plan, warm, pool, dirs, cancelled>>

\* The next entry is the next node: if their types differ, the entry is removed first.
CollectBoth ==
    /\ Collecting /\ src # <<>> /\ todo # <<>>
    /\ LET node == Head(todo)
           differs == node.kind # Kind(node.path) \/ node.kind = "special"
           after == IF differs THEN Removed(node.path) ELSE [d |-> dest, files |-> inode]
       IN  /\ Head(src) = node.path
           /\ src' = IF differs THEN AfterExisting(node.path) ELSE Tail(src)
           /\ process_node(node, TRUE, after.d, after.files)
    /\ todo' = Tail(todo)
    /\ UNCHANGED <<job, warm, pool, dirs, cancelled>>

\* The next node comes first, or there is no entry left.
CollectNode ==
    /\ Collecting /\ todo # <<>>
    /\ src # <<>> => Less(Head(todo).path, Head(src))
    /\ process_node(Head(todo), FALSE, dest, inode)
    /\ todo' = Tail(todo)
    /\ UNCHANGED <<job, src, warm, pool, dirs, cancelled>>

CollectDone ==
    /\ Collecting /\ src = <<>> /\ todo = <<>>
    /\ phase' = IF job.dry_run THEN "done" ELSE "warm"
    /\ UNCHANGED <<job, dest, inode, walk, warm, pool, dirs, cancelled>>

-----------------------------------------------------------------------------
(***************************************************************************)
(* restore_contents                                                        *)
(***************************************************************************)

Needed == {b \in Blobs : plan.r[b] # <<>>}
AllMissing(b) == \A i \in DOMAIN plan.r[b] : ~plan.r[b][i].matches

\* Mutant of to_packs: a pack is left out if the destination has one of its blobs.
to_packs_absent == {PackOf[b] : b \in Needed} \ {PackOf[b] : b \in {c \in Needed : ~AllMissing(c)}}

\* to_packs: packs with a blob that is nowhere in the destination
to_packs == {PackOf[b] : b \in {c \in Needed : AllMissing(c)}}

\* PackInfo::coalesce: after a blob that is nowhere in the destination those that follow
\* it in the pack are read on, also if a file has them.
coalesce(a, b) == a < b /\ AllMissing(a) /\ \A c \in a .. b : c \in Needed /\ PackOf[c] = PackOf[a]

\* A PackInfo: blobs to be read in one go, or one blob that is read from a file of the
\* destination.  name_dests are the places to which a blob is written.
Info(b) ==
    [pack |-> PackOf[b],
     blobs |-> [i \in 1 .. Cardinality({c \in Needed : c = b \/ coalesce(b, c)}) |-> b + i - 1],
     from_file |-> IF AllMissing(b) THEN <<>> ELSE <<plan.r[b][Min({i \in DOMAIN plan.r[b] : plan.r[b][i].matches})]>>]
name_dests(b) == SelectSeq(plan.r[b], LAMBDA l : ~l.matches)
PackInfos == {Info(b) : b \in {c \in Needed : ~\E a \in Needed : coalesce(a, c)}}

Files == DOMAIN plan.names

\* warm_up_wait: if packs are needed, they are warmed up and then waited for, in batches.
WarmUp ==
    /\ phase = "warm" /\ ~cancelled
    /\ warm' = [warm EXCEPT !.left = to_packs]
    /\ phase' = IF to_packs = {} THEN "warmed" ELSE "warming"
    /\ UNCHANGED <<job, dest, inode, walk, pool, dirs, cancelled>>

\* The packs come in the order of their ids, which may be any.
Batches == {batch \in SUBSET warm.left :
               Cardinality(batch) = IF job.batch < Cardinality(warm.left) THEN job.batch ELSE Cardinality(warm.left)}

\* warm_up_batch_singular runs one process per pack and waits for all, plural one for
\* all; packs which cannot be accessed by warm_up_repo are only logged.
Succeeded(how, batch, ok) == how = "access" \/ ok = batch

\* One batch of the warm-up command, or all accesses; an error ends the restore.  With
\* neither there is nothing to do.
WarmUpBatch ==
    /\ phase = "warming" /\ warm.left # {}
    /\ IF job.warm_up = "none"
       THEN warm' = [warm EXCEPT !.left = {}] /\ UNCHANGED phase
       ELSE \E batch \in IF job.warm_up = "access" THEN {warm.left} ELSE Batches :
            \E ok \in IF job.warm_up = "plural" THEN {{}, batch} ELSE SUBSET batch :
              /\ warm' = [warm EXCEPT !.left = @ \ batch, !.up = @ \cup ok]
              /\ phase' = IF Succeeded(job.warm_up, batch, ok) THEN "warming" ELSE "failed"
    /\ UNCHANGED <<job, dest, inode, walk, pool, dirs, cancelled>>

WarmUpDone ==
    /\ phase = "warming" /\ warm.left = {}
    /\ phase' = IF job.wait = "command" THEN "waiting" ELSE "warmed"
    /\ warm' = [warm EXCEPT !.left = to_packs]
    /\ UNCHANGED <<job, dest, inode, walk, pool, dirs, cancelled>>

\* The same for the command that waits until packs are ready.
WaitBatch ==
    /\ phase = "waiting" /\ warm.left # {}
    /\ \E batch \in Batches : \E ok \in SUBSET batch :
         /\ warm' = [warm EXCEPT !.left = @ \ batch, !.ready = @ \cup ok]
         /\ phase' = IF ~Succeeded("singular", batch, ok) THEN "failed"
                     ELSE IF batch = warm.left THEN "warmed" ELSE "waiting"
    /\ UNCHANGED <<job, dest, inode, walk, pool, dirs, cancelled>>

\* The threads get their work; empty files are made first.
StartContents ==
    /\ phase = "warmed" /\ ~cancelled
    /\ phase' = "empty"
    /\ tasks' = PackInfos
    /\ writer' = [f \in Files |-> [chan |-> <<>>, pending |-> {}, cursor |-> 1]]
    /\ UNCHANGED <<job, dest, inode, walk, warm, packsRead, writes, senders, dirs, cancelled>>

EmptyFile(f) ==
    /\ phase = "empty" /\ plan.lengths[f] = 0
    /\ Exists(dest, plan.names[f]) => FileSize(plan.names[f]) # 0
    /\ IF Room(dest, inode, plan.names[f]) /\ (Exists(dest, plan.names[f]) => Kind(plan.names[f]) = "file")
       THEN Put(plan.names[f], <<>>) /\ UNCHANGED phase
       ELSE phase' = "failed" /\ UNCHANGED <<dest, inode>>
    /\ UNCHANGED <<job, walk, warm, pool, dirs, cancelled>>

EmptyDone ==
    /\ phase = "empty"
    /\ \A f \in Files : plan.lengths[f] = 0 => Exists(dest, plan.names[f]) /\ FileSize(plan.names[f]) = 0
    /\ phase' = "contents"
    /\ UNCHANGED <<job, dest, inode, walk, warm, pool, dirs, cancelled>>

Working == phase = "contents" /\ ~cancelled

\* A thread reads what a PackInfo names and hands on the pieces.
ReadPack(t) ==
    /\ Working /\ t \in tasks /\ Cardinality(senders) < Threads
    /\ tasks' = tasks \ {t}
    /\ LET local == Random /\ t.from_file # <<>>
           data(b) == IF local THEN inode[dest[plan.names[t.from_file[1].file]]].content[t.from_file[1].start] ELSE b
           piece(b, l) == [file |-> l.file, start |-> l.start, data |-> data(b)]
           pieces == FlattenSeq([i \in DOMAIN t.blobs |->
                        [k \in DOMAIN name_dests(t.blobs[i]) |-> piece(t.blobs[i], name_dests(t.blobs[i])[k])]])
       IN  /\ packsRead' = IF local THEN packsRead ELSE packsRead \cup {t.pack}
           /\ writes' = IF Random THEN writes \cup Range(pieces) ELSE writes
           /\ senders' = IF Random \/ pieces = <<>> THEN senders ELSE senders \cup {pieces}
    /\ UNCHANGED <<job, phase, dest, inode, walk, warm, writer, dirs, cancelled>>

\* The content of a file of length n in which one piece has been written.
Written(content, n, w) ==
    [i \in 1 .. n |-> IF i = w.start THEN w.data ELSE IF i <= Len(content) THEN content[i] ELSE 0]

\* A piece is written to a local file; whoever is first gives the file its length.
Write(w) ==
    /\ Working /\ w \in writes
    /\ LET p == plan.names[w.file]
       IN  IF Room(dest, inode, p) /\ (Exists(dest, p) => Kind(p) = "file")
           THEN /\ Put(p, Written(IF Exists(dest, p) THEN inode[dest[p]].content ELSE <<>>, plan.lengths[w.file], w))
                /\ writes' = writes \ {w} /\ UNCHANGED phase
           ELSE phase' = "failed" /\ UNCHANGED <<dest, inode, writes>>
    /\ UNCHANGED <<job, walk, warm, packsRead, tasks, senders, writer, dirs, cancelled>>

\* Mutant of Send: the thread waits until it is the turn of its piece.
SendInOrder(s) ==
    /\ Working /\ s \in senders
    /\ writer[Head(s).file].cursor = Head(s).start
    /\ writer' = [writer EXCEPT ![Head(s).file].chan = Append(@, Head(s))]
    /\ senders' = (senders \ {s}) \cup (IF Len(s) = 1 THEN {} ELSE {Tail(s)})
    /\ UNCHANGED <<job, phase, dest, inode, walk, warm, packsRead, tasks, writes, dirs, cancelled>>

\* A thread sends a piece to the file's thread, if there is room in its channel.
Send(s) ==
    /\ Working /\ s \in senders
    /\ Len(writer[Head(s).file].chan) < Capacity
    /\ writer' = [writer EXCEPT ![Head(s).file].chan = Append(@, Head(s))]
    /\ senders' = (senders \ {s}) \cup (IF Len(s) = 1 THEN {} ELSE {Tail(s)})
    /\ UNCHANGED <<job, phase, dest, inode, walk, warm, packsRead, tasks, writes, dirs, cancelled>>

\* Mutant of Run: pieces are written as they come.
RunAll(pending, cursor) == SetToSeq(pending)

\* The pieces that continue a file, in order.
Run(pending, cursor) ==
    LET n == CHOOSE k \in 0 .. Cardinality(pending) :
                /\ \A i \in 0 .. k - 1 : \E w \in pending : w.start = cursor + i
                /\ ~\E w \in pending : w.start = cursor + k
    IN  [i \in 1 .. n |-> CHOOSE w \in pending : w.start = cursor + i - 1]

\* The file's thread takes a piece and writes all that can be written now; the first
\* write replaces the file.
ReceivePiece(f) ==
    /\ phase = "contents" /\ writer[f].chan # <<>>
    /\ LET pending == writer[f].pending \cup {Head(writer[f].chan)}
           run == Run(pending, writer[f].cursor)
           data == [i \in DOMAIN run |-> run[i].data]
           p == plan.names[f]
       IN  /\ writer' = [writer EXCEPT ![f] = [chan |-> Tail(@.chan), pending |-> pending \ Range(run),
                                               cursor |-> @.cursor + Len(run)]]
           /\ IF run = <<>> THEN UNCHANGED <<dest, inode>>
              ELSE Put(p, IF writer[f].cursor = 1 THEN data ELSE inode[dest[p]].content \o data)
    /\ UNCHANGED <<job, phase, walk, warm, packsRead, tasks, writes, senders, dirs, cancelled>>

\* A cancelled thread leaves what it has not done.
Abandon ==
    /\ phase = "contents" /\ cancelled
    /\ \/ tasks # {} /\ tasks' = {} /\ UNCHANGED <<writes, senders>>
       \/ \E w \in writes : writes' = writes \ {w} /\ UNCHANGED <<tasks, senders>>
       \/ \E s \in senders : senders' = senders \ {s} /\ UNCHANGED <<tasks, writes>>
    /\ UNCHANGED <<job, phase, dest, inode, walk, warm, packsRead, writer, dirs, cancelled>>

Quiet == tasks = {} /\ writes = {} /\ senders = {} /\ \A f \in Files : writer[f].chan = <<>>

\* All threads have ended; metadata follows unless the user has cancelled.
ContentsDone ==
    /\ phase = "contents" /\ Quiet
    /\ phase' = IF cancelled THEN "cancelled" ELSE "metadata"
    /\ todo' = job.nodes
    /\ UNCHANGED <<job, dest, inode, src, plan, warm, pool, dirs, cancelled>>

-----------------------------------------------------------------------------
(***************************************************************************)
(* restore_metadata                                                        *)
(***************************************************************************)

\* set_restore_metadata for a set of paths: special files are made if there is nothing,
\* then times are set; errors are only logged.
SetMetadata(d, files, paths) ==
    [i \in DOMAIN files |-> IF \E p \in paths : Exists(d, p) /\ d[p] = i
                            THEN [files[i] EXCEPT !.mtime = "snap"] ELSE files[i]]

\* The directories on the stack that are left when a node at p comes.
Left(stack, p) == {q \in Range(stack) : ~Under(p, q)}

\* Mutant of LeaveDirs: the time of a directory is set when it is entered.
LeaveDirsEarly(node) == [set |-> {node.path}, stack |-> <<>>]

\* Directories wait on a stack until one comes that is not below them.
LeaveDirs(node) ==
    IF node.kind = "dir"
    THEN [set |-> Left(dirs, node.path),
          stack |-> Append(SelectSeq(dirs, LAMBDA q : Under(node.path, q)), node.path)]
    ELSE [set |-> {node.path}, stack |-> dirs]

\* Can an entry be made here?  Nothing is made above it.
Parent(p) == Len(p) = 1 \/ (Exists(dest, Front(p)) /\ Kind(Front(p)) = "dir")

\* One node, at the path it has in the snapshot: dest_path is not put before.  A hard link
\* to the first file is made where the destination has such links, which fails if there
\* is an entry already; the path of the first file has dest_path in front.
Metadata ==
    /\ phase = "metadata" /\ ~cancelled /\ todo # <<>>
    /\ LET node == Head(todo)
           p == node.path
           canonical == plan.links[node.link]
           linked == Random /\ node.link # 0 /\ canonical # p
           special == Random /\ node.kind = "special" /\ ~Exists(dest, p) /\ Parent(p)
           d == IF linked THEN With(dest, p, dest[canonical])
                ELSE IF special THEN With(dest, p, NewInode(p)) ELSE dest
           files == IF special THEN With(Touched(dest, inode, p), NewInode(p), NewFile("special"))
                    ELSE IF linked THEN Touched(dest, inode, p) ELSE inode
           leave == LeaveDirs(node)
       IN  IF linked /\ (Exists(dest, p) \/ ~Parent(p))
           THEN phase' = "failed" /\ UNCHANGED <<dest, inode, dirs>>
           ELSE /\ dest' = d
                /\ inode' = IF Random THEN SetMetadata(d, files, leave.set) ELSE files
                /\ dirs' = leave.stack
                /\ UNCHANGED phase
    /\ todo' = Tail(todo)
    /\ UNCHANGED <<job, src, plan, warm, pool, cancelled>>

MetadataDone ==
    /\ phase = "metadata" /\ ~cancelled /\ todo = <<>>
    /\ inode' = IF Random THEN SetMetadata(dest, inode, Range(dirs)) ELSE inode
    /\ phase' = "done"
    /\ UNCHANGED <<job, dest, walk, warm, pool, dirs, cancelled>>

\* The user cancels; every phase but restore_contents then ends at its next check.
Cancel ==
    /\ MayCancel /\ ~cancelled /\ phase \notin {"done", "failed", "cancelled"}
    /\ cancelled' = TRUE
    /\ UNCHANGED <<job, phase, dest, inode, walk, warm, pool, dirs>>

Cancelled ==
    /\ cancelled /\ phase \in {"prepare", "collect", "warm", "warmed", "metadata"}
    /\ phase' = "cancelled"
    /\ UNCHANGED <<job, dest, inode, walk, warm, pool, dirs, cancelled>>

-----------------------------------------------------------------------------
Step ==
    \/ Prepare \/ CollectExisting \/ CollectBoth \/ CollectNode \/ CollectDone
    \/ WarmUp \/ WarmUpBatch \/ WarmUpDone \/ WaitBatch
    \/ StartContents \/ EmptyDone \/ ContentsDone \/ Abandon
    \/ \E f \in Files : EmptyFile(f)
    \/ \E t \in tasks : ReadPack(t)
    \/ \E w \in writes : Write(w)
    \/ \E s \in senders : Send(s)
    \/ \E f \in DOMAIN writer : ReceivePiece(f)
    \/ Metadata \/ MetadataDone \/ Cancelled

RestoreNext == Step \/ Cancel

\* Threads run; users need not cancel.
RestoreSpec == RestoreInit /\ [][RestoreNext]_restoreVars /\ WF_restoreVars(Step)

-----------------------------------------------------------------------------
(***************************************************************************)
(* Properties                                                              *)
(***************************************************************************)

NodePaths == {Joined[i].path : i \in DOMAIN job.nodes}
Below(p) == Under(p, job.dest_path) /\ p # job.dest_path

\* Files that are accepted for their size and time are not looked at, neither are the
\* links to them made again.
Trusted(node) ==
    \E i \in DOMAIN job.nodes : LET n == Joined[i] IN
        /\ n = node \/ (node.link # 0 /\ n.link = node.link)
        /\ ~job.verify_existing /\ Exists(job.dest, n.path)
        /\ job.inode[job.dest[n.path]].mtime = "snap"
        /\ Len(job.inode[job.dest[n.path]].content) = Len(n.content)

\* Has a node been restored?
IsRestored(node) ==
    /\ Exists(dest, node.path)
    /\ Kind(node.path) = node.kind
    /\ node.kind = "file" /\ ~Trusted(node) => inode[dest[node.path]].content = node.content

\* Is an entry the destination had as it was?
Kept(p) == Exists(dest, p) /\ inode[dest[p]].content = job.inode[job.dest[p]].content

\* When restore ends without an error, every file has the content of the snapshot,
\* however reads and writes of the threads have interleaved and whichever parts of
\* earlier files were found to match; links are links; nothing else has been made;
\* with `delete` nothing else is left below dest_path, without it nothing else has
\* changed.  A dry run changes nothing.
Restored ==
    phase = "done" =>
        IF job.dry_run THEN dest = job.dest /\ inode = job.inode
        ELSE /\ \A i \in DOMAIN job.nodes : IsRestored(Joined[i])
             /\ \A i, j \in DOMAIN job.nodes :
                   job.nodes[i].link # 0 /\ job.nodes[i].link = job.nodes[j].link
                       => dest[Joined[i].path] = dest[Joined[j].path]
             /\ \A p \in DOMAIN dest \ NodePaths :
                   \/ Exists(job.dest, p) /\ ~(job.delete /\ Below(p))
                   \/ Under(job.dest_path, p)
             /\ \A p \in DOMAIN job.dest \ NodePaths : (job.delete /\ Below(p)) \/ Kept(p)

\* Every pack that is read for a local destination has been warmed up before and, if
\* there is a command that waits, is ready: also if one process of a batch fails and
\* the others do not, and if blobs which the destination has are read together with
\* others from their pack.
PacksWarm ==
    /\ Random /\ job.warm_up \notin {"none", "access"} => packsRead \subseteq warm.up
    /\ Random /\ job.wait = "command" => packsRead \subseteq warm.ready

\* At the end the times of all files and directories are those of the snapshot:
\* nothing that comes after them, in their directory or below, changes them again.
TimesRestored ==
    phase = "done" /\ ~job.dry_run /\ Random =>
        \A p \in NodePaths : Exists(dest, p) => inode[dest[p]].mtime = "snap"

\* Restore ends: no thread waits for another one for ever.
RestoreEnds == <>(phase \in {"done", "failed", "cancelled"})
=============================================================================
