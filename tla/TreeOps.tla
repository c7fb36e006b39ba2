------------------------------- MODULE TreeOps -------------------------------
(***************************************************************************)
(* What `merge` and `rewrite` do to trees, and what they should do in      *)
(* terms of paths.  Nodes are sorted by name; names are numbers here.      *)
(***************************************************************************)
EXTENDS Trees

CONSTANTS Excluded(_, _),   \* do the globs of the rewrite match a path (a
                            \* sequence of names) that is a directory or not?
          Modify(_)         \* NodeModification::modify_node

(***************************************************************************)
(* merge_trees and merge_nodes.  The iterators over the trees are in step: *)
(* a heap holds the next node of each of them, and when a node is popped   *)
(* its iterator gives its next one.  All nodes of one name are merged: the *)
(* greatest by the given order (here: the modification time, of the last   *)
(* one popped if several have it) wins, and if that is a directory its     *)
(* subtree is the merge of the subtrees of all directories of the name.    *)
(* The heap gives nodes of one name in any order, so there may be several  *)
(* results: merge_trees and merge_nodes are the sets of them.              *)
(***************************************************************************)
RECURSIVE merge_trees(_), merge_loop(_, _, _, _, _)

\* Mutant of Advance: it is always the first iterator that advances.
AdvanceFirst(rest, heap, num) ==
  IF rest[1] = <<>> THEN heap ELSE heap \cup {[node |-> Head(rest[1]), num |-> 1]}

\* Iterator `num` advances: its next node, if any is left, gets into the heap ...
Advance(rest, heap, num) ==
  IF rest[num] = <<>> THEN heap ELSE heap \cup {[node |-> Head(rest[num]), num |-> num]}

\* ... and the other nodes are left.
Left(rest, num) == IF rest[num] = <<>> THEN rest ELSE [rest EXCEPT ![num] = Tail(@)]

\* BinaryHeap::pop by SortedNode's order
Pops(heap) == {e \in heap : \A o \in heap : e.node.name <= o.node.name}

\* Iterator::max_by returns the last of the greatest elements.
MaxBy(nodes) ==
  nodes[CHOOSE i \in DOMAIN nodes : \A j \in DOMAIN nodes :
          nodes[j].mtime < nodes[i].mtime \/ (nodes[j].mtime = nodes[i].mtime /\ j <= i)]

merge_nodes(nodes) ==
  LET node == MaxBy(nodes)
      dirs == SelectSeq(nodes, IsDir)
  IN  IF ~IsDir(node) THEN {node}
      ELSE {[node EXCEPT !.subtree = <<t>>] : t \in merge_trees([i \in DOMAIN dirs |-> dirs[i].subtree[1]])}

\* The loop with `cur`, the node popped last and its iterator, at hand,
\* `nodes` of its name before it, and `tree` as made so far.
merge_loop(rest, heap, cur, nodes, tree) ==
  LET elems == Advance(rest, heap, cur.num)
      left == Left(rest, cur.num)
      same == Append(nodes, cur.node)
  IN  IF elems = {} THEN {Append(tree, n) : n \in merge_nodes(same)}
      ELSE UNION {IF next.node.name # cur.node.name
                  THEN UNION {merge_loop(left, elems \ {next}, next, <<>>, Append(tree, n)) : n \in merge_nodes(same)}
                  ELSE merge_loop(left, elems \ {next}, next, same, tree)
                  : next \in Pops(elems)}

merge_trees(trees) ==
  LET elems == {[node |-> trees[i][1], num |-> i] : i \in {j \in DOMAIN trees : trees[j] # <<>>}}
      rest == [i \in DOMAIN trees |-> IF trees[i] = <<>> THEN <<>> ELSE Tail(trees[i])]
  IN  IF elems = {} THEN {<<>>}
      ELSE UNION {merge_loop(rest, elems \ {first}, first, <<>>, <<>>) : first \in Pops(elems)}

(***************************************************************************)
(* TreeModifier::modify_tree with a RewriteVisitor: excluded nodes go, the *)
(* others are modified, and the tree of a directory whose contents changed *)
(* is replaced.  What the visitor remembers per path and tree only saves   *)
(* work.                                                                   *)
(***************************************************************************)
RECURSIVE rewrite_tree(_, _)
rewrite_node(path, n) ==
  IF Excluded(Append(path, n.name), IsDir(n)) THEN <<>>
  ELSE LET m == Modify(n)
       IN  IF IsDir(m) /\ m.subtree # <<>>
           THEN <<[m EXCEPT !.subtree = <<rewrite_tree(Append(path, n.name), @[1])>>]>>
           ELSE <<m>>

rewrite_tree(path, t) == FlattenSeq([i \in DOMAIN t |-> rewrite_node(path, t[i])])

\* Rewriter::rewrite_tree of a snapshot's root: a glob that matches the root
\* itself removes nothing.
RewriteRoot(t) == IF Excluded(<<>>, TRUE) THEN t ELSE rewrite_tree(<<>>, t)

(***************************************************************************)
(* In terms of paths: the entries of a tree are its nodes without their    *)
(* subtrees, each with its path.                                           *)
(***************************************************************************)
RECURSIVE Entries(_, _)
Entries(path, t) ==
  UNION {{<<Append(path, n.name), [n EXCEPT !.subtree = <<>>]>>}
         \cup (IF n.subtree = <<>> THEN {} ELSE Entries(Append(path, n.name), n.subtree[1]))
         : n \in Nodes(t)}

Above(path) == {SubSeq(path, 1, i) : i \in 1..(Len(path) - 1)}
Sorted(t) == \A i, j \in DOMAIN t : i < j => t[i].name < t[j].name

\* A merge is sorted, all it has at a path is one of the newest nodes there, and
\* it has something at each path of its inputs, except below one where something
\* that is no directory won.
MergeExact(trees) ==
  LET all == UNION {Entries(<<>>, t) : t \in Range(trees)}
      paths == {e[1] : e \in all}
  IN  \A t \in merge_trees(trees) :
        LET merged == Entries(<<>>, t)
        IN  /\ \A u \in TreesUnder(t) : Sorted(u)
            /\ \A e \in merged : e \in all /\ \A o \in all : o[1] = e[1] => o[2].mtime <= e[2].mtime
            /\ {e[1] : e \in merged} =
                 {p \in paths : \A u \in Above(p) : \E e \in merged : e[1] = u /\ IsDir(e[2])}

\* A rewritten tree has the modified nodes of all paths that are neither
\* excluded nor below an excluded directory, and is sorted like before.
RewriteExact(t) ==
  ~Excluded(<<>>, TRUE) =>
    LET all == Entries(<<>>, t)
        kept == {e \in all : /\ ~Excluded(e[1], IsDir(e[2]))
                             /\ \A u \in Above(e[1]) : ~Excluded(u, TRUE)}
    IN  Entries(<<>>, RewriteRoot(t)) = {<<e[1], Modify(e[2])>> : e \in kept}
=============================================================================
