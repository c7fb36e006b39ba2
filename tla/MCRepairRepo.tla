---- MODULE MCRepairRepo ----
EXTENDS RepairRepo, FiniteSetsExt

CONSTANTS d1, d2   \* data blobs

file(name, content) ==
  [name |-> name, repaired |-> FALSE, type |-> "file", content |-> content, subtree |-> <<>>]
dir(name, subtree) ==
  [name |-> name, repaired |-> FALSE, type |-> "dir", content |-> <<>>, subtree |-> subtree]

\* Two snapshots that share a directory; the second also has a directory
\* without a subtree.
sub == <<file("a", <<d1>>)>>
root1 == <<file("b", <<d2, d1>>), dir("s", <<sub>>)>>
root2 == <<dir("e", <<>>), dir("s", <<sub>>)>>
snap(i, t) == [id |-> <<0, i>>, tree |-> t, tag |-> "none", original |-> <<0, i>>]

\* The trees are in one pack or in two; d1 is stored twice, its second copy
\* is marked for deletion in one of the repositories.
P1 == [id |-> <<0, 1>>, tpe |-> "tree", blobs |-> {root1, sub}]
P2 == [id |-> <<0, 2>>, tpe |-> "tree", blobs |-> {root2}]
P3 == [id |-> <<0, 3>>, tpe |-> "data", blobs |-> {d1, d2}]
P4 == [id |-> <<0, 4>>, tpe |-> "data", blobs |-> {d1}]

Files(i, live, dead) == [id |-> <<0, i>>, packs |-> {EntryOf(p) : p \in live}, packs_to_delete |-> {EntryOf(p) : p \in dead}]
Wrong(p) == [pack |-> p, blobs |-> {d1}]

Good == {Files(1, {P1, P3}, {P2}), Files(2, {P2, P4}, {})}   \* P2 marked and unmarked
Indexes ==
  { Good,
    {Files(1, {P1}, {}), Files(2, {P2}, {P4})},            \* P3 not listed, P4 marked
    {[id |-> <<0, 1>>, packs |-> {EntryOf(P1), Wrong(P3)}, packs_to_delete |-> {}],
     Files(2, {P2, P4}, {})} }

\* One pack file is damaged or lost, or the data and one more.
All == {P1, P2, P3, P4}
Hit(f) == [p \in {q \in All : q \notin DOMAIN f \/ f[q] # "lost"} |->
             IF p \in DOMAIN f THEN f[p] ELSE "good"]
Lost == {Hit([q \in S |-> "lost"]) : S \in {{}, {P1}, {P3}, {P4}, {P1, P3}}}
Damaged ==
  Lost \cup {Hit([q \in {P1} |-> c]) : c \in {"badblob", "badheader"}}
  \cup {Hit([q \in {P3} |-> c]) : c \in {"short", "badblob"}}

Repository(p, i) ==
  [packs |-> p, index |-> i, snaps |-> {snap(1, root1), snap(2, root2)}, append_only |-> FALSE]
MCRepositories ==
  {Repository(p, Good) : p \in Damaged} \cup {Repository(p, i) : p \in Lost, i \in Indexes}
  \cup {[packs |-> [p \in All |-> "good"], index |-> i, snaps |-> {snap(1, root1)}, append_only |-> TRUE]
     : i \in Indexes}

MCPackNum(p) == Cardinality(p.blobs) + (IF p.tpe = "tree" THEN 1 ELSE 0)
====
