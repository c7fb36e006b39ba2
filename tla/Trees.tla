-------------------------------- MODULE Trees --------------------------------
(***************************************************************************)
(* Tree blobs.  The id of a tree is the hash of its contents, so a tree is *)
(* its own id: the sequence of its nodes.  A node has a name, a type, for  *)
(* a file the list of its data blobs and for a directory its subtree: <<>> *)
(* if it has none, <<t>> for the tree t.                                   *)
(***************************************************************************)
EXTENDS Naturals, FiniteSets, Sequences, SequencesExt

CONSTANT TreeDepth       \* bound on the nesting of directories

IsFile(n) == n.type = "file"
IsDir(n) == n.type = "dir"
Nodes(t) == Range(t)

\* The trees at most TreeDepth levels below t, t included.
TreesUnder(t) ==
  LET below[d \in 0..TreeDepth] ==
        IF d = 0 THEN {t}
        ELSE below[d - 1] \cup
             UNION {Range(n.subtree) : n \in UNION {Nodes(u) : u \in below[d - 1]}}
  IN  below[TreeDepth]

DataUnder(t) == UNION {Range(n.content) : n \in UNION {Nodes(u) : u \in TreesUnder(t)}}

BlobsUnder(t) == TreesUnder(t) \cup DataUnder(t)
=============================================================================
