------------------------------ MODULE MCBackup ------------------------------
(***************************************************************************)
(* The two halves of a backup, one at a time: walking the source, and      *)
(* archiving the items that TreeIterator makes of it.                      *)
(***************************************************************************)
EXTENDS Archiver

VARIABLES half,         \* "walk" or "archive"
          w_in, dirs, w_stack, descend, visited, failed, unread, listed,  \* see SourceWalk
          path, item, pull, out, w_tree, open, done

CONSTANTS WalkInputs, MaxDepth

W == INSTANCE SourceWalk WITH in <- w_in, stack <- w_stack, tree <- w_tree, Inputs <- WalkInputs

\* Its paths, with which the inputs are written down
P == INSTANCE SourceWalk WITH in <- w_in, stack <- w_stack, tree <- w_tree, Inputs <- {}

(***************************************************************************)
(* Sources and parents for Archiver                                        *)
(***************************************************************************)

\* Version v of a file has these chunks; its metadata tell the version.
Data(v) == <<v, v + 1>>
Meta(time, ctime, inode) == [time |-> time, ctime |-> ctime, inode |-> inode]
Node(name, type, meta) == [name |-> name, type |-> type, meta |-> meta, content |-> None, subtree |-> None]

\* Items for a file, a symbolic link and a directory.
File(name, meta, v) == <<[type |-> "Other", node |-> Node(name, "file", meta), data |-> Data(v)]>>
Plain(name, v) == File(name, Meta(v, 1, 1), v)
Link(name) == <<[type |-> "Other", node |-> Node(name, "link", Meta(1, 1, 1)), data |-> <<>>]>>
Dir(name, v, items) ==
    <<[type |-> "NewTree", node |-> Node(name, "dir", Meta(v, 1, 1)), data |-> <<>>]>> \o items
    \o <<[type |-> "EndTree", node |-> Node(name, "dir", Meta(v, 1, 1)), data |-> <<>>]>>

\* A directory with up to two files, and next to it, before or after it, another entry.
Inner == {<<>>, Plain(1, 1), Plain(1, 2), Plain(1, 1) \o Plain(2, 3)}
Outer == {<<>>, Plain(2, 2), Link(2), Dir(2, 1, Plain(1, 1))}
Sources == {Dir(1, 1, i) \o o : i \in Inner, o \in Outer}
           \cup {Plain(2, 1) \o Dir(1, 2, Plain(1, 2)), Plain(2, 2) \o Dir(1, 2, Plain(1, 1))}

\* The trees and chunks that a backup of a source leaves in the repository.
Read(s, e) ==
    IF e.type = "NewTree" THEN [s EXCEPT !.tree = <<>>, !.open = Append(@, [node |-> e.node, tree |-> s.tree])]
    ELSE IF e.type = "EndTree"
    THEN [s EXCEPT !.tree = Append(Last(s.open).tree, [Last(s.open).node EXCEPT !.subtree = <<s.tree>>]),
                   !.open = Front(@), !.trees = @ \cup {s.tree}]
    ELSE [s EXCEPT !.tree = Append(@, IF e.node.type = "file" THEN [e.node EXCEPT !.content = <<e.data>>] ELSE e.node),
                   !.data = @ \cup ToSet(e.data)]
Backup(source) == FoldLeft(Read, [tree |-> <<>>, open |-> <<>>, trees |-> {}, data |-> {}], source)

\* A backup of source with parents made from other sources, where the repository has
\* lost some trees and chunks since.
Run(source, parents, lostTrees, lostData, ignore_ctime, ignore_inode, skip) ==
    LET backups == [k \in DOMAIN parents |-> Backup(parents[k])]
    IN [events |-> source,
        parents |-> [k \in DOMAIN parents |-> backups[k].tree],
        trees |-> (UNION {backups[k].trees \cup {backups[k].tree} : k \in DOMAIN parents}) \ lostTrees,
        data |-> (UNION {backups[k].data : k \in DOMAIN parents}) \ lostData,
        ignore_ctime |-> ignore_ctime, ignore_inode |-> ignore_inode, skip |-> skip]

\* A few of them.  The last one differs from the first only in ctime and inode.
TwoSources == {Dir(1, 1, Plain(1, 1)) \o Plain(2, 2), Dir(1, 2, Plain(1, 2)) \o Plain(2, 1),
               Plain(2, 1) \o Dir(1, 1, Plain(1, 2)),
               Dir(1, 1, File(1, Meta(1, 2, 2), 1)) \o Plain(2, 2)}

\* No parent or one, or one which has lost a chunk of an unchanged file, its root, or the
\* trees of its directories.
OneParent ==
    {Run(s, p, {}, {}, FALSE, FALSE, TRUE) : s \in Sources, p \in {<<>>} \cup {<<q>> : q \in Sources}}
    \cup {Run(s, <<s>>, {}, {2}, FALSE, FALSE, FALSE) : s \in Sources}
    \cup {Run(s, <<s, Plain(1, 1)>>, {Backup(s).tree}, {}, FALSE, FALSE, FALSE) : s \in TwoSources}
    \cup {Run(s, <<p>>, Backup(p).trees, {}, FALSE, FALSE, FALSE) : s \in TwoSources, p \in TwoSources}

\* Two parents.
TwoParents ==
    {Run(s, <<p, q>>, {}, {}, b, b, b) : s \in TwoSources, p \in TwoSources, q \in TwoSources, b \in BOOLEAN}

SomeParents == OneParent \cup TwoParents

(***************************************************************************)
(* Sources for SourceWalk                                                  *)
(***************************************************************************)
\* Directories /1, /1/1, /2 and /2/1 of which any may be there, with files.
Abs(p) == <<P!Root>> \o p
DirPaths == {Abs(<<1>>), Abs(<<1, 1>>), Abs(<<2>>), Abs(<<2, 1>>)}
FilePaths == {Abs(<<1, 1, 2>>), Abs(<<1, 2>>), Abs(<<2, 1, 1>>), Abs(<<3>>)}
WithParents(ds) == \A d \in ds : Len(d) > 2 => P!Parent(d) \in ds
WalkSources == {[dirs |-> ds \cup {<<P!Root>>}, files |-> {f \in FilePaths : Len(f) = 2 \/ P!Parent(f) \in ds}] :
               ds \in {s \in SUBSET DirPaths : WithParents(s)}}

Input(source, roots, excluded, recursive, as_path) ==
    [dirs |-> source.dirs, files |-> source.files, roots |-> roots, excluded |-> excluded,
     recursive |-> recursive, as_path |-> as_path]

\* Roots of which none is below another one; those below one directory follow each other,
\* and relative ones come before absolute ones.
ApartRoots == {<<<<P!Root>>>>, <<Abs(<<1>>)>>, <<Abs(<<1>>), Abs(<<2>>)>>, <<Abs(<<2>>), Abs(<<1, 1>>)>>,
               <<Abs(<<1, 1>>), Abs(<<1, 1>>)>>, <<Abs(<<2, 1>>), Abs(<<1, 1>>), Abs(<<4>>)>>}
WithRelative(source) == [dirs |-> source.dirs \cup {<<1>>, <<1, 3>>}, files |-> source.files \cup {<<1, 3, 1>>, <<1, 4>>}]
ApartInputs ==
    {Input(s, r, e, rec, as) :
        s \in WalkSources, r \in ApartRoots, e \in {{}, {Abs(<<1>>)}, {Abs(<<1, 1>>)}, {Abs(<<1, 2>>)}},
        rec \in BOOLEAN, as \in {P!None, <<<<5, 1>>>>, <<<<P!Root>>>>}}
    \cup {Input(WithRelative(s), r, {}, TRUE, P!None) :
             s \in WalkSources, r \in {<<<<1>>>>, <<<<1>>, Abs(<<2>>)>>, <<<<1, 3>>, Abs(<<2, 1>>), Abs(<<2, 2>>)>>}}

\* A relative root after an absolute one
RelativeLast == {Input(WithRelative(s), <<Abs(<<2>>), <<1>>>>, {}, TRUE, P!None) : s \in WalkSources}
NoParent == {Run(s, <<>>, {}, {}, FALSE, FALSE, TRUE) : s \in TwoSources}

-----------------------------------------------------------------------------
NoWalk == Input([dirs |-> {}, files |-> {}], <<>>, {}, FALSE, None)

walkVars == <<w_in, dirs, w_stack, descend, visited, failed, unread, listed, path, item, pull, out,
              w_tree, open, done>>

WalkIdle ==
    /\ w_in = NoWalk /\ dirs = <<>> /\ w_stack = <<>> /\ descend = None /\ visited = {}
    /\ failed = {} /\ unread = {} /\ listed = <<>> /\ path = <<>> /\ item = None /\ pull = FALSE
    /\ out = None /\ w_tree = <<>> /\ open = <<>> /\ done = TRUE

ArchiverIdle ==
    /\ in = Run(<<>>, <<>>, {}, {}, FALSE, FALSE, FALSE) /\ fed = 0 /\ p_trees = <<>> /\ p_stack = <<>>
    /\ queue = <<>> /\ tree = <<>> /\ stack = <<>> /\ sent = [trees |-> {}, data |-> {}] /\ dead = FALSE
    /\ canceled = FALSE /\ lost = {} /\ dropped = {} /\ errors = 0 /\ phase = "failed" /\ snap = None

BackupInit ==
    \/ half = "walk" /\ W!Init /\ ArchiverIdle
    \/ half = "archive" /\ Init /\ WalkIdle

BackupNext ==
    \/ half = "walk" /\ W!Next /\ UNCHANGED <<half, vars>>
    \/ half = "archive" /\ Next /\ UNCHANGED <<half, walkVars>>

\* The iterators are asked until they are exhausted, and threads run.
BackupSpec == BackupInit /\ [][BackupNext]_<<half, vars, walkVars>> /\ WF_vars(Archive) /\ W!Fairness

\* The tree that is built has exactly the entries below the roots, each once, whichever
\* directories cannot be read and wherever the roots are.
EntriesExact == W!EntriesExact

\* A backup always comes to an end, with any errors, and also if it is canceled with its
\* queue full: TreeIterator leaves every directory it has entered, and no item waits for
\* ever.  It holds for ApartInputs, but not for RelativeLast: at an item of a relative root
\* TreeIterator cannot leave "/", and ends trees for ever.
BackupEnds == <>(done /\ Ended)
=============================================================================
