----------------------------- MODULE SourceWalk -----------------------------
(***************************************************************************)
(* From the sources of a backup to the tree of its snapshot:               *)
(*                                                                         *)
(*   ListAdapter (backend/list.rs) walks the roots one after the other,    *)
(*   depth first, and yields the entries below them;                       *)
(*   TreeIterator (archiver/tree.rs) turns the entries into a sequence of  *)
(*   beginning trees, ending trees and other items;                        *)
(*   TreeArchiver (archiver/tree_archiver.rs) builds the tree from it with *)
(*   a stack, after Parent has dropped ends of trees that never began.     *)
(*                                                                         *)
(* All three are lazy iterators of one thread: TreeIterator holds one item *)
(* in advance and asks the walk for the next one when it takes it.         *)
(*                                                                         *)
(* Abstractions.  A path is a sequence of components: a leading Root makes *)
(* it absolute, names are numbers, in the order in which they are sorted.  *)
(* Excludes, gitignore and the other filters are a set of excluded paths.  *)
(* Reading a directory, or its ignore file, may fail.                      *)
(***************************************************************************)
EXTENDS Naturals, Sequences, SequencesExt, FiniteSets

CONSTANTS Inputs,    \* sources, roots and options of a backup, see In
          MaxDepth   \* directories deeper than this are not walked

Root == 0
None == <<>>         \* Option: None, or a sequence of one value

VARIABLES
    in,       \* [dirs, files, excluded, roots, recursive, as_path]
    dirs,     \* roots still to be walked
    stack,    \* directories being walked: [path, depth, children]
    descend,  \* the directory to be opened next, if any
    visited,  \* visited_dirs
    failed,   \* directories that are not yielded because of an error ...
    unread,   \* ... and those which are, but whose children could not be listed
    listed,   \* paths yielded so far
    path,     \* TreeIterator: current path ...
    item,     \* ... and current item [dir, node], if any
    pull,     \* is TreeIterator waiting for the walk?
    out,      \* what it yields: [type, node], if anything
    tree,     \* TreeArchiver: the nodes of the current tree ...
    open,     \* ... and the trees around it: [node, tree]
    done

walkVars == <<in, dirs, stack, descend, visited, failed, unread, listed>>
iterVars == <<path, item, pull, out>>
treeVars == <<tree, open>>
vars == <<walkVars, iterVars, treeVars, done>>

IsDir(p) == p \in in.dirs
Parent(p) == Front(p)
Pending(p, depth) == [path |-> p, depth |-> depth]

\* A node: a file, or a directory with or without a tree of its own.
FileNode(name) == [name |-> name, type |-> "file", subtree |-> None]
DirNode(name) == [name |-> name, type |-> "dir", subtree |-> None]

Init ==
    /\ in \in Inputs
    /\ dirs = FoldLeft(LAMBDA q, r : IF Contains(q, r) THEN q ELSE Append(q, r), <<>>, in.roots)
    /\ visited = ToSet(in.roots)
    /\ stack = <<>> /\ descend = None /\ failed = {} /\ unread = {} /\ listed = <<>>
    /\ path = <<>> /\ item = None /\ pull = TRUE /\ out = None
    /\ tree = <<>> /\ open = <<>> /\ done = FALSE

-----------------------------------------------------------------------------
(***************************************************************************)
(* ListAdapter::next, in steps                                             *)
(***************************************************************************)

\* list_dir_children: sorted by path.
Children(p) == SetToSortSeq({q \in in.dirs \cup in.files : q # <<>> /\ Parent(q) = p /\ Last(q) # Root},
                            LAMBDA q, r : Last(q) < Last(r))

\* A directory that has just been yielded, or a root, is opened or fails.
OpenDir ==
    /\ pull /\ descend # None
    /\ \/ /\ stack' = Append(stack, [path |-> descend[1].path, depth |-> descend[1].depth,
                               children |-> Children(descend[1].path)])
          /\ UNCHANGED unread
       \/ /\ unread' = unread \cup {descend[1].path}
          /\ UNCHANGED stack
    /\ descend' = None
    /\ UNCHANGED <<in, dirs, visited, failed, listed, iterVars, treeVars, done>>

StartRoot ==
    /\ pull /\ descend = None /\ stack = <<>> /\ dirs # <<>>
    /\ descend' = <<Pending(Head(dirs), 0)>>
    /\ dirs' = Tail(dirs)
    /\ UNCHANGED <<in, stack, visited, failed, unread, listed, iterVars, treeVars, done>>

CloseDir ==
    /\ pull /\ descend = None /\ stack # <<>> /\ Last(stack).children = <<>>
    /\ stack' = Front(stack)
    /\ UNCHANGED <<in, dirs, descend, visited, failed, unread, listed, iterVars, treeVars, done>>

\* join_force puts the path below as_path, without its root.
SnapshotPath(p) ==
    IF in.as_path = None THEN p ELSE in.as_path[1] \o SelectSeq(p, LAMBDA c : c # Root)

\* Archiver::archive pairs directories with their path and other entries with
\* the path of their directory.
ItemOf(p) ==
    LET s == SnapshotPath(p)
    IN IF IsDir(p) THEN [dir |-> s, node |-> DirNode(Last(s))]
                   ELSE [dir |-> Front(s), node |-> FileNode(Last(s))]

Descends(p) == IsDir(p) /\ in.recursive /\ p \notin visited

\* The next child is skipped, is too deep, cannot be entered, or is yielded.
NextChild ==
    /\ pull /\ descend = None /\ stack # <<>> /\ Last(stack).children # <<>>
    /\ LET top == Last(stack)
           p == Head(top.children)
           rest == [stack EXCEPT ![Len(stack)].children = Tail(@)]
           tooDeep == IsDir(p) /\ in.recursive /\ top.depth + 1 > MaxDepth
       IN /\ stack' = rest
          /\ \/ /\ p \in in.excluded
                /\ UNCHANGED <<descend, visited, failed, listed, item, pull>>
             \/ /\ p \notin in.excluded
                /\ tooDeep \/ Descends(p)
                /\ visited' = IF tooDeep THEN visited ELSE visited \cup {p}
                /\ failed' = failed \cup {p}
                /\ UNCHANGED <<descend, listed, item, pull>>
             \/ /\ p \notin in.excluded /\ ~tooDeep
                /\ descend' = IF Descends(p) THEN <<Pending(p, top.depth + 1)>> ELSE None
                /\ visited' = IF Descends(p) THEN visited \cup {p} ELSE visited
                /\ listed' = Append(listed, p)
                /\ item' = <<ItemOf(p)>>
                /\ pull' = FALSE
                /\ UNCHANGED failed
    /\ UNCHANGED <<in, dirs, unread, path, out, treeVars, done>>

Exhausted ==
    /\ pull /\ descend = None /\ stack = <<>> /\ dirs = <<>>
    /\ pull' = FALSE
    /\ UNCHANGED <<walkVars, path, item, out, treeVars, done>>

Walk == OpenDir \/ StartRoot \/ CloseDir \/ NextChild \/ Exhausted

-----------------------------------------------------------------------------
(***************************************************************************)
(* TreeIterator::next, and what TreeArchiver::add does with its result     *)
(***************************************************************************)

\* TreeIterator::pop: without its last name the path, or nothing to pop.
HasName == \E k \in DOMAIN path : path[k] # Root
Popped == IF HasName THEN Front(path) ELSE path

Ends == <<[type |-> "EndTree", node |-> None]>>
Begins(node) == <<[type |-> "NewTree", node |-> node]>>
Other(node) == <<[type |-> "Other", node |-> node]>>

\* The item is not in the current directory: leave that.
Leave ==
    /\ ~pull /\ out = None /\ item # None /\ ~IsPrefix(path, item[1].dir)
    /\ path' = Popped
    /\ out' = Ends
    /\ UNCHANGED <<walkVars, item, pull, treeVars, done>>

\* The components which the current directory lacks.  A root is passed over.
Missing == SubSeq(item[1].dir, Len(path) + 1, Len(item[1].dir))
Skipped == IF Missing # <<>> /\ Head(Missing) = Root THEN 1 ELSE 0

\* Mutant of NextDir: a directory is entered at once, without those on the way.
EntersAtOnce == item[1].dir

\* The directory to enter next, on the way to that of the item.
NextDir == SubSeq(item[1].dir, 1, Len(path) + Skipped + 1)

\* Enter the next directory: the item itself, or one that has not been listed.
Enter ==
    /\ ~pull /\ out = None /\ item # None /\ IsPrefix(path, item[1].dir)
    /\ Len(Missing) > Skipped
    /\ path' = NextDir
    /\ LET itself == item[1].node.type = "dir" /\ NextDir = item[1].dir
       IN /\ out' = Begins(IF itself THEN item[1].node ELSE DirNode(Last(NextDir)))
          /\ item' = IF itself THEN None ELSE item
          /\ pull' = itself
    /\ UNCHANGED <<walkVars, treeVars, done>>

\* The item is in the current directory.
TakeOther ==
    /\ ~pull /\ out = None /\ item # None /\ IsPrefix(path, item[1].dir)
    /\ Len(Missing) = Skipped
    /\ path' = item[1].dir
    /\ out' = Other(item[1].node)
    /\ item' = None /\ pull' = TRUE
    /\ UNCHANGED <<walkVars, treeVars, done>>

\* At the end all directories are left.
Finish ==
    /\ ~pull /\ out = None /\ item = None /\ ~done
    /\ \/ HasName /\ path' = Popped /\ out' = Ends /\ UNCHANGED done
       \/ ~HasName /\ done' = TRUE /\ UNCHANGED <<path, out>>
    /\ UNCHANGED <<walkVars, item, pull, treeVars>>

\* TreeArchiver::add.  An end of a tree puts it into the one around it; one that
\* never began is an error of Parent::finish_dir, and dropped.
Add ==
    /\ ~pull /\ out # None
    /\ \/ /\ out[1].type = "NewTree"
          /\ open' = Append(open, [node |-> out[1].node, tree |-> tree])
          /\ tree' = <<>>
       \/ /\ out[1].type = "EndTree"
          /\ IF open = <<>> THEN UNCHANGED treeVars
             ELSE /\ tree' = Append(Last(open).tree, [Last(open).node EXCEPT !.subtree = <<tree>>])
                  /\ open' = Front(open)
       \/ /\ out[1].type = "Other"
          /\ tree' = Append(tree, out[1].node)
          /\ UNCHANGED open
    /\ out' = None
    /\ UNCHANGED <<walkVars, path, item, pull, done>>

Build == Leave \/ Enter \/ TakeOther \/ Finish \/ Add

Next == Walk \/ Build
\* The iterators are asked until they are exhausted.
Fairness == WF_vars(Next)
Spec == Init /\ [][Next]_vars /\ Fairness

-----------------------------------------------------------------------------
(***************************************************************************)
(* Properties                                                              *)
(***************************************************************************)

MaxLevel == 7       \* bound on the levels that are looked at; the last one is empty

\* The nodes of the tree, level by level: the place and the path of each one, and what
\* is below it.
Entry(e, k) ==
    LET node == e.subtree[1][k]
    IN  [at |-> Append(e.at, k), path |-> Append(e.path, node.name), type |-> node.type, subtree |-> node.subtree]
Levels ==
    LET level[d \in 0 .. MaxLevel] ==
            IF d = 0 THEN {[at |-> <<>>, path |-> <<>>, type |-> "dir", subtree |-> <<tree>>]}
            ELSE UNION {{Entry(e, k) : k \in DOMAIN e.subtree[1]} : e \in {f \in level[d - 1] : f.subtree # None}}
    IN  level
Nodes == UNION {Levels[d] : d \in 1 .. MaxLevel}

Plain(p) == SelectSeq(SnapshotPath(p), LAMBDA c : c # Root)

\* No two nodes of the snapshot have the same path, and every directory has a tree:
\* this is what all readers of a snapshot rely on.
EntriesOnce ==
    done => /\ Levels[MaxLevel] = {}
            /\ \A e, f \in Nodes : e.path = f.path => e = f
            /\ \A e \in Nodes : e.type = "dir" <=> e.subtree # None

\* The snapshot has every entry below the roots which is not excluded, not too deep
\* and in no directory that failed, and besides only the directories on the way.
Below(p, r) == IsStrictPrefix(r, p)
Lost(p, r) ==
    \/ \E q \in in.excluded : IsPrefix(q, p) /\ Below(q, r)
    \/ \E q \in unread : IsPrefix(r, q) /\ Below(p, q)
    \/ \E q \in failed : IsPrefix(q, p) /\ Below(q, r)
    \/ ~in.recursive /\ Len(p) > Len(r) + 1
Wanted == {p \in in.dirs \cup in.files : \E r \in ToSet(in.roots) : Below(p, r) /\ ~Lost(p, r)}
EntriesComplete ==
    done => {e.path : e \in Nodes} =
                UNION {{SubSeq(Plain(p), 1, n) : n \in 1 .. Len(Plain(p))} : p \in Wanted}

\* The tree that is built has exactly the entries below the roots, each once, whichever
\* directories cannot be read and wherever the roots are.
EntriesExact == EntriesOnce /\ EntriesComplete
=============================================================================
