------------------------------ MODULE Archiver ------------------------------
(***************************************************************************)
(* Archiver::archive (archiver.rs): the items of the source, which         *)
(* TreeIterator yields in order (see SourceWalk), pass through             *)
(*                                                                         *)
(*   Parent::process        compares them with the parent snapshots,       *)
(*   FileArchiver::process  reads files that have changed, in parallel,    *)
(*   TreeArchiver::add      builds and saves the trees, in order again,    *)
(*                                                                         *)
(* and at the end the snapshot is saved.  A user may cancel at any time.   *)
(* What the packers do with the blobs sent to them is in PackPipeline.     *)
(*                                                                         *)
(* Abstractions.  A tree is a sequence of nodes and is its own id, as a    *)
(* hash stands for what is hashed.  Chunks are their own ids, too, and a   *)
(* file is the sequence of its chunks.  Size and mtime are one number.     *)
(* Number 0 as ctime or inode says that it is not known.                   *)
(***************************************************************************)
EXTENDS Naturals, Sequences, SequencesExt, FiniteSets, FiniteSetsExt

CONSTANTS Inputs,    \* backups: [events, parents, trees, data, ignore_ctime, ignore_inode, skip]
          InFlight   \* bound on items between Parent and TreeArchiver

ASSUME InFlightAssumption == InFlight \in Nat \ {0}

None == <<>>         \* Option: None, or a sequence of one value

VARIABLES
    in,        \* the backup: its items, and the index it has loaded
    fed,       \* number of items that Parent has processed
    p_trees,   \* Parent: [tree, idx] for each parent, idx being the next node ...
    p_stack,   \* ... and those of the directories around
    queue,     \* items on their way: [pos, item, parent, state]
    tree,      \* TreeArchiver: nodes of the current directory ...
    stack,     \* ... and [node, parent, tree] for those around
    sent,      \* blobs given to the packers: [trees, data]
    dead,      \* has a packer failed?
    canceled,  \* the CancelToken
    lost,      \* positions of files that could not be read
    dropped,   \* positions of items not processed because of the cancellation
    errors,    \* error_count
    phase,     \* "archive", "finalize", and at the end "saved", "skipped" or "failed"
    snap       \* the tree of the snapshot

parentVars == <<p_trees, p_stack>>
treeVars == <<tree, stack>>
vars == <<in, fed, parentVars, queue, treeVars, sent, dead, canceled, lost, dropped, errors, phase, snap>>

-----------------------------------------------------------------------------
(***************************************************************************)
(* Parent                                                                  *)
(***************************************************************************)

\* Tree::from_backend with the index.  A tree that it does not have is ignored like one
\* without nodes.  The nodes are read from the first one on.
LoadTrees(ids) == [k \in DOMAIN ids |-> [tree |-> IF ids[k] \in in.trees THEN ids[k] ELSE <<>>, idx |-> 1]]

\* p_node moves on to the first node which is not before name ...
IdxFor(p, name) == Min({k \in p.idx .. Len(p.tree) + 1 : k > Len(p.tree) \/ p.tree[k].name >= name})
\* ... and finds it if it has that name.
Has(p, name) == IdxFor(p, name) <= Len(p.tree) /\ p.tree[IdxFor(p, name)].name = name
NodeOf(p, name) == p.tree[IdxFor(p, name)]

\* Mutant of SameFile: only the type is compared.
SameType(p_node, node) == p_node.type = node.type

SameFile(p_node, node) ==
    LET p_meta == p_node.meta
        meta == node.meta
    IN /\ p_node.type = node.type
       /\ p_meta.time = meta.time
       /\ in.ignore_ctime \/ p_meta.ctime = 0 \/ meta.ctime = 0 \/ p_meta.ctime = meta.ctime
       /\ ~in.ignore_inode \/ p_meta.inode = 0 \/ meta.inode = 0 \/ p_meta.inode = meta.inode

\* is_parent looks at the parents one by one and stops at the first that matches.
\* Only those it has looked at move on.
Matching(node) == {k \in DOMAIN p_trees : Has(p_trees[k], node.name)
                                          /\ SameFile(NodeOf(p_trees[k], node.name), node)}
LookedAt(node) == IF Matching(node) = {} THEN Len(p_trees) ELSE Min(Matching(node))
MoveOn(name, upto) == [k \in DOMAIN p_trees |->
                          IF k <= upto THEN [p_trees[k] EXCEPT !.idx = IdxFor(p_trees[k], name)] ELSE p_trees[k]]
Found(node) == \E k \in DOMAIN p_trees : Has(p_trees[k], node.name)
ParentNode(node) == NodeOf(p_trees[Min(Matching(node))], node.name)

Matched(x) == [result |-> "Matched", value |-> <<x>>]
NotFound == [result |-> "NotFound", value |-> None]
NotMatched == [result |-> "NotMatched", value |-> None]

\* set_dir: the parents of a directory are the trees of that name in the parents, each
\* once and in the order of their ids, which may be any.
DirTrees(name) ==
    LET found == {k \in DOMAIN p_trees : Has(p_trees[k], name) /\ NodeOf(p_trees[k], name).subtree # None}
    IN {LoadTrees(ids) : ids \in SetToSeqs({NodeOf(p_trees[k], name).subtree[1] : k \in found})}

\* Mutant of Known: the blobs of an unchanged file are taken for granted.
Trusted(content) == TRUE

Known(content) == \A k \in DOMAIN content : \A j \in DOMAIN content[k] : content[k][j] \in in.data

-----------------------------------------------------------------------------
(***************************************************************************)
(* The stages                                                              *)
(***************************************************************************)

Init ==
    /\ in \in Inputs
    /\ fed = 0
    /\ p_trees = LoadTrees(in.parents) /\ p_stack = <<>>
    /\ queue = <<>> /\ tree = <<>> /\ stack = <<>>
    /\ sent = [trees |-> {}, data |-> {}] /\ dead = FALSE
    /\ canceled = FALSE /\ lost = {} /\ dropped = {} /\ errors = 0
    /\ phase = "archive" /\ snap = None

Item(event, parent) == [pos |-> fed + 1, item |-> event, parent |-> parent, state |-> "todo"]

\* Parent::process, and handing the item to the threads that archive files.
Feed ==
    /\ phase = "archive" /\ fed < Len(in.events) /\ Len(queue) < InFlight
    /\ fed' = fed + 1
    /\ LET event == in.events[fed + 1]
           node == event.node
           result == IF ~Found(node) THEN NotFound
                     ELSE IF Matching(node) = {} THEN NotMatched
                     ELSE Matched(IF event.type = "NewTree" THEN ParentNode(node).subtree[1] ELSE None)
       IN \/ /\ event.type = "NewTree"
             /\ queue' = Append(queue, Item(event, result))
             /\ p_trees' \in DirTrees(node.name)
             /\ p_stack' = Append(p_stack, MoveOn(node.name, Len(p_trees)))
          \/ /\ event.type = "EndTree"
             /\ queue' = Append(queue, Item(event, NotFound))
             /\ p_trees' = Last(p_stack)
             /\ p_stack' = Front(p_stack)
          \/ /\ event.type = "Other"
             /\ p_trees' = MoveOn(node.name, LookedAt(node))
             /\ queue' = Append(queue,
                    IF result.result = "Matched"
                    THEN IF Known(ParentNode(node).content)
                         THEN Item([event EXCEPT !.node = [node EXCEPT !.content = ParentNode(node).content]], result)
                         ELSE Item(event, NotFound)
                    ELSE Item(event, result))
             /\ UNCHANGED p_stack
    /\ UNCHANGED <<in, treeVars, sent, dead, canceled, lost, dropped, errors, phase, snap>>

Reads(q) == q.item.type = "Other" /\ q.parent.result # "Matched" /\ q.item.node.type = "file"

\* Chunks of a file which backup_reader gives to the packer if it reads n of them.
NewChunks(data, n) == {data[k] : k \in 1 .. n} \ in.data

\* The node of a file that has been read has its chunks.
ReadNode(event) == [event.node EXCEPT !.content = <<event.data>>]
ReadItem(event) == [event EXCEPT !.node = ReadNode(event)]

\* Mutant of GiveUp: a thread that sees the cancellation just ends.
EndsSilently(i) == FALSE

\* A thread which sees that the backup is canceled gives up its item.
GiveUp(i) ==
    /\ phase = "archive" /\ i \in DOMAIN queue /\ queue[i].state = "todo" /\ canceled
    /\ queue' = [queue EXCEPT ![i].state = "err"]
    /\ dropped' = dropped \cup {queue[i].pos}
    /\ UNCHANGED <<in, fed, parentVars, treeVars, sent, dead, canceled, lost, errors, phase, snap>>

\* Otherwise it archives the item.  The file may fail to be opened, read or given to
\* the packer.
Process(i) ==
    /\ phase = "archive" /\ i \in DOMAIN queue /\ queue[i].state = "todo" /\ ~canceled
    /\ LET q == queue[i]
           data == q.item.data
       IN \/ /\ ~Reads(q)
             /\ queue' = [queue EXCEPT ![i].state = "ok"]
             /\ UNCHANGED <<sent, dead, lost>>
          \/ /\ Reads(q)
             /\ queue' = [queue EXCEPT ![i] = [q EXCEPT !.state = "ok", !.item = ReadItem(@)]]
             /\ sent' = [sent EXCEPT !.data = @ \cup NewChunks(data, Len(data))]
             /\ UNCHANGED <<dead, lost>>
          \/ /\ Reads(q)
             /\ queue' = [queue EXCEPT ![i].state = "err"]
             /\ \E n \in 0 .. Len(data) : sent' = [sent EXCEPT !.data = @ \cup NewChunks(data, n)]
             /\ dead' \in {dead, TRUE}
             /\ lost' = lost \cup {q.pos}
    /\ UNCHANGED <<in, fed, parentVars, treeVars, canceled, dropped, errors, phase, snap>>

\* backup_tree saves the current tree unless it is that of the parent, or in the index.
NewTrees(parent) == IF parent = Matched(tree) THEN {} ELSE {tree} \ in.trees

SendTree(parent) == sent' = [sent EXCEPT !.trees = @ \cup NewTrees(parent)]

\* TreeArchiver::add for the next item, once its thread is done.
Add ==
    /\ phase = "archive" /\ queue # <<>> /\ Head(queue).state = "ok" /\ ~canceled
    /\ queue' = Tail(queue)
    /\ LET q == Head(queue)
       IN \/ /\ q.item.type = "NewTree"
             /\ stack' = Append(stack, [node |-> q.item.node, parent |-> q.parent, tree |-> tree])
             /\ tree' = <<>>
             /\ UNCHANGED sent
          \/ /\ q.item.type = "EndTree" /\ stack # <<>>
             /\ SendTree(Last(stack).parent)
             /\ tree' = Append(Last(stack).tree, [Last(stack).node EXCEPT !.subtree = <<tree>>])
             /\ stack' = Front(stack)
          \/ /\ q.item.type = "Other"
             /\ tree' = Append(tree, q.item.node)
             /\ UNCHANGED <<stack, sent>>
    /\ UNCHANGED <<in, fed, parentVars, dead, canceled, lost, dropped, errors, phase, snap>>

\* report_source_error.
Counted == errors + 1

\* An item with an error is reported and left out.
Report ==
    /\ phase = "archive" /\ queue # <<>> /\ Head(queue).state = "err"
    /\ queue' = Tail(queue)
    /\ errors' = Counted
    /\ UNCHANGED <<in, fed, parentVars, treeVars, sent, dead, canceled, lost, dropped, phase, snap>>

\* The cancellation is seen when an item is added; a tree cannot be given to the packer.
Stop ==
    /\ phase = "archive" /\ queue # <<>> /\ Head(queue).state = "ok"
    /\ canceled \/ Head(queue).item.type = "EndTree"
    /\ phase' = "failed"
    /\ UNCHANGED <<in, fed, parentVars, queue, treeVars, sent, dead, canceled, lost, dropped, errors, snap>>

Drained == phase = "archive" /\ fed = Len(in.events) /\ queue = <<>>

\* Mutant of Continues: no check after the last item.
ContinuesAlways == TRUE

Continues == ~canceled

\* token.check, after all items.
Guard ==
    /\ Drained
    /\ phase' = IF Continues THEN "finalize" ELSE "failed"
    /\ UNCHANGED <<in, fed, parentVars, queue, treeVars, sent, dead, canceled, lost, dropped, errors, snap>>

\* Parent::tree_id: the first parent, if it could be loaded.
FirstParent == LET loaded == {k \in DOMAIN in.parents : in.parents[k] \in in.trees}
               IN IF loaded = {} THEN None ELSE <<in.parents[Min(loaded)]>>
RootParent == IF FirstParent = None THEN NotFound ELSE Matched(FirstParent[1])

\* The packers and the indexer are finalized, then the snapshot is saved.
Finalize ==
    /\ phase = "finalize" /\ ~dead
    /\ SendTree(RootParent)
    /\ snap' = <<tree>>
    /\ phase' = IF in.skip /\ RootParent = Matched(tree) THEN "skipped" ELSE "saved"
    /\ UNCHANGED <<in, fed, parentVars, queue, treeVars, dead, canceled, lost, dropped, errors>>

\* A packer has failed, or one of the last writes fails.
FinalizeFails ==
    /\ phase = "finalize"
    /\ phase' = "failed"
    /\ UNCHANGED <<in, fed, parentVars, queue, treeVars, sent, dead, canceled, lost, dropped, errors, snap>>

Cancel ==
    /\ ~canceled
    /\ canceled' = TRUE
    /\ UNCHANGED <<in, fed, parentVars, queue, treeVars, sent, dead, lost, dropped, errors, phase, snap>>

Archive == Feed \/ (\E i \in 1 .. InFlight : GiveUp(i) \/ Process(i)) \/ Add \/ Report \/ Stop
           \/ Guard \/ Finalize \/ FinalizeFails

Next == Archive \/ Cancel
Spec == Init /\ [][Next]_vars /\ WF_vars(Archive)

-----------------------------------------------------------------------------
(***************************************************************************)
(* Sources and parents                                                     *)
(***************************************************************************)

\* The nodes of that name in some trees, and the trees they stand for.
NodesOf(trees, name) == {n \in UNION {ToSet(t) : t \in trees} : n.name = name}
SubTrees(trees, name) == {n.subtree[1] : n \in {m \in NodesOf(trees, name) : m.subtree # None}}

\* For each directory that is open after i items, the trees of the parents at its place.
ParentDirs(input) ==
    LET open[i \in 0 .. Len(input.events)] ==
            IF i = 0 THEN <<ToSet(input.parents) \cap input.trees>>
            ELSE LET e == input.events[i]
                 IN IF e.type = "NewTree"
                    THEN Append(open[i - 1], SubTrees(Last(open[i - 1]), e.node.name) \cap input.trees)
                    ELSE IF e.type = "EndTree" THEN Front(open[i - 1]) ELSE open[i - 1]
    IN  open

IsSequence(s) == s \in Seq(ToSet(s))

\* TreeIterator makes items of three types and ends each directory that it has begun.
ItemsOK(input) ==
    /\ IsSequence(input.events) /\ IsSequence(input.parents)
    /\ \A i \in DOMAIN input.events :
          LET e == input.events[i]
              n == e.node
          IN /\ e = [type |-> e.type, node |-> n, data |-> e.data] /\ IsSequence(e.data)
             /\ n = [name |-> n.name, type |-> n.type, meta |-> n.meta, content |-> n.content,
                     subtree |-> n.subtree]
             /\ e.type \in {"NewTree", "EndTree", "Other"}
             /\ e.type = "NewTree" => n.type = "dir"
             /\ e.type = "EndTree" => Len(ParentDirs(input)[i - 1]) > 1

\* What is_parent rests on: a file that has the type, size, mtime and, unless it is
\* ignored, ctime which it has at the same place in a parent has the same contents.
SameVersion(input, p_node, node) ==
    /\ p_node.type = node.type /\ p_node.meta.time = node.meta.time
    /\ input.ignore_ctime \/ 0 \in {p_node.meta.ctime, node.meta.ctime} \/ p_node.meta.ctime = node.meta.ctime
ChangesShow(input) ==
    \A i \in DOMAIN input.events :
        LET e == input.events[i]
        IN e.type = "Other" =>
             \A p_node \in NodesOf(Last(ParentDirs(input)[i - 1]), e.node.name) :
                 SameVersion(input, p_node, e.node) =>
                     p_node.content = IF e.node.type = "file" THEN <<e.data>> ELSE e.node.content

ASSUME InputAssumption ==
    \A input \in Inputs :
        ItemsOK(input) /\ ChangesShow(input) /\ \A t \in input.trees : IsSequence(t)

\* Each directory in a tree of the index names its tree, which the index may have lost.
DirsHaveTrees(input) ==
    \A t \in input.trees : \A n \in ToSet(t) : n.type = "dir" => n.subtree # None
ASSUME ParentAssumption == \A input \in Inputs : DirsHaveTrees(input)

-----------------------------------------------------------------------------
(***************************************************************************)
(* Properties                                                              *)
(***************************************************************************)

Ended == phase \in {"saved", "skipped", "failed"}

\* What the items say, without the files that were lost: the tree of the source,
\* read afresh, and the blobs of which it consists.
Step(s, e, failed) ==
    IF e.type = "NewTree"
    THEN [s EXCEPT !.tree = <<>>, !.open = Append(@, [node |-> e.node, tree |-> s.tree])]
    ELSE IF e.type = "EndTree"
    THEN [s EXCEPT !.tree = Append(Last(s.open).tree, [Last(s.open).node EXCEPT !.subtree = <<s.tree>>]),
                   !.open = Front(@), !.trees = @ \cup {s.tree}]
    ELSE IF failed THEN s
    ELSE IF e.node.type # "file" THEN [s EXCEPT !.tree = Append(@, e.node)]
    ELSE [s EXCEPT !.tree = Append(@, ReadNode(e)), !.data = @ \cup ToSet(e.data)]
NoTree == [tree |-> <<>>, open |-> <<>>, trees |-> {}, data |-> {}]
ReadSource(input, failed) ==
    LET read[i \in 0 .. Len(input.events)] ==
            IF i = 0 THEN NoTree ELSE Step(read[i - 1], input.events[i], i \in failed)
    IN  read
Source == ReadSource(in, lost)[Len(in.events)]

\* The snapshot is that of the source, whatever the parents are, in which order the
\* threads finish and when the backup is canceled; only files with an error are left
\* out, and error_count tells how many.
SnapshotFaithful ==
    phase \in {"saved", "skipped"} => snap = <<Source.tree>> /\ errors = Cardinality(lost)

\* The trees that parents name at the places of the source's directories.
TakenOver(input) ==
    UNION {SubTrees(Last(ParentDirs(input)[i - 1]), input.events[i].node.name) :
              i \in {k \in DOMAIN input.events : input.events[k].type = "NewTree"}}

\* All trees and chunks of the snapshot are in the index or with the packers, except
\* for a tree that a parent names at its place and the index has lost: backup_tree does
\* not look whether the index has a tree which is that of the parent.  The loss of a
\* parent's root, or of the chunks of an unchanged file, does no harm.
SnapshotStored ==
    phase = "saved" =>
        /\ Source.trees \cup {Source.tree} \subseteq in.trees \cup sent.trees \cup TakenOver(in)
        /\ Source.data \subseteq in.data \cup sent.data

\* No item is ever missing in a snapshot because the backup was canceled ("We don't
\* want to write a partial snapshot to the backend").
CanceledNotSaved == phase \in {"saved", "skipped"} => dropped = {}
=============================================================================
