------------------------------ MODULE CheckRepo ------------------------------
(***************************************************************************)
(* The repository as the commands `check` and `repair` see it: pack files, *)
(* index files and snapshots, the in-memory index built from the index     *)
(* files, and what `check` reports about them.                             *)
(*                                                                         *)
(* The id of a tree or data blob is the hash of its plaintext, so it IS    *)
(* the content here: a tree is the sequence of its nodes.  Pack, index and *)
(* snapshot files are encrypted with a random nonce before they are hashed:*)
(* each save makes an id of its own, whatever is saved.  A pack is the     *)
(* record of its id and the blobs it was written with.  What storage did   *)
(* to a pack file is its condition:                                        *)
(*   good       the bytes that were written                                *)
(*   short      truncated                                                  *)
(*   badblob    the right size and a readable header, damaged blobs        *)
(*   badheader  the right size, nothing of it can be decrypted             *)
(* Lengths are counted in blobs: a pack is as long as the number of its    *)
(* blobs and a truncated one has length 0.                                 *)
(***************************************************************************)
EXTENDS Trees

CONSTANT PackNum(_)     \* the leading 32 bits of a pack's id (Id::as_u32)

VARIABLES packs,         \* pack -> its condition, for the pack files there are
          index,         \* the set of index files
          snaps          \* the set of snapshot files

Conditions == {"good", "short", "badblob", "badheader"}

(***************************************************************************)
(* Pack files and what their headers say.                                  *)
(***************************************************************************)
FileSize(p) == IF packs[p] = "short" THEN 0 ELSE Cardinality(p.blobs)

\* PackHeaderRef::pack_size of an index entry
EntrySize(e) == Cardinality(e.blobs)

\* PackHeader::from_file fails for a pack whose header cannot be decrypted
\* or does not add up to the size of the file.
HeaderReads(p) == packs[p] \in {"good", "badblob"}

EntryOf(p) == [pack |-> p, blobs |-> p.blobs]

\* Reading one blob of a pack: the part is read and decrypted, its hash is
\* not compared.
BlobReads(p) == p \in DOMAIN packs /\ packs[p] = "good"

(***************************************************************************)
(* The index in memory: the unmarked entries of all index files, per blob  *)
(* type.  A blob listed by several packs is looked up by binary search in  *)
(* a list that an unstable sort made, which yields any one of them.        *)
(***************************************************************************)
AllPacks(f) == f.packs \cup f.packs_to_delete
IndexCollector(files) == UNION {f.packs : f \in files}
Holders(idx, b) == {e.pack : e \in {x \in idx : b \in x.blobs}}
Has(idx, b) == Holders(idx, b) # {}

\* The functions that choose from each of a family of sets.  Only where
\* there is more than one element is there a choice.
Selections(D, set(_)) ==
  LET open == {d \in D : Cardinality(set(d)) > 1}
      ways == {f \in [open -> UNION {set(d) : d \in open}] : \A d \in open : f[d] \in set(d)}
  IN  {[d \in D |-> IF d \in open THEN f[d] ELSE CHOOSE x \in set(d) : TRUE] : f \in ways}

\* Everything get_id may answer for the blobs an index holds.
Lookups(idx) == Selections(UNION {e.blobs : e \in idx}, LAMBDA b : Holders(idx, b))

\* Tree::from_backend
TreeReads(get, t) == t \in DOMAIN get /\ BlobReads(get[t])

(***************************************************************************)
(* check_packs: the entries of the index against the list of pack files.   *)
(* Of several entries for a pack the last one read is compared; `last`     *)
(* says which.  A pack file without an entry is only worth a warning.      *)
(***************************************************************************)
Entries == UNION {AllPacks(f) : f \in index}
Indexed == {e.pack : e \in Entries}
LastEntries == Selections(Indexed, LAMBDA p : {e \in Entries : e.pack = p})

MissingPacks == Indexed \ DOMAIN packs
check_packs(last) ==
  {[error |-> "NoPack", pack |-> p] : p \in MissingPacks}
  \cup {[error |-> "PackSizeMismatchIndex", pack |-> p] :
          p \in {q \in Indexed \ MissingPacks : EntrySize(last[q]) # FileSize(q)}}

(***************************************************************************)
(* check_trees: all trees of all snapshots are streamed.  The first one    *)
(* that cannot be read ends it; the nodes of the others are looked up and  *)
(* the packs they live in collected.  The packs of the root trees are not. *)
(***************************************************************************)
StreamedTrees(trees) == UNION {TreesUnder(t) : t \in trees}
TreesRead(get, trees) == \A t \in StreamedTrees(trees) : TreeReads(get, t)
StreamedNodes(trees) == UNION {Nodes(t) : t \in StreamedTrees(trees)}

check_node(get, n) ==
  (IF IsFile(n) THEN {[error |-> "FileBlobNotInIndex", blob |-> b] : b \in Range(n.content) \ DOMAIN get}
   ELSE {})
  \cup (IF IsDir(n) /\ n.subtree = <<>> THEN {[error |-> "NoSubTree"]} ELSE {})

\* Mutant of check_trees: a tree that cannot be read ends the tree check without an error.
check_trees_silent(get, trees) ==
  IF TreesRead(get, trees) THEN UNION {check_node(get, n) : n \in StreamedNodes(trees)} ELSE {}

check_trees(get, trees) ==
  IF TreesRead(get, trees) THEN UNION {check_node(get, n) : n \in StreamedNodes(trees)}
  ELSE {[error |-> "ErrorCheckingTrees"]}

PacksOfTrees(get, trees) ==
  IF ~TreesRead(get, trees) THEN {}
  ELSE {get[b] : b \in DOMAIN get \cap
          UNION {Range(n.content) \cup Range(n.subtree) : n \in StreamedNodes(trees)}}

(***************************************************************************)
(* ReadSubsetOption::apply for `all` and for `n/m`, where the pack's id    *)
(* decides.  The random subsets by percentage or size are not modelled.    *)
(***************************************************************************)
ReadAll == [n |-> 0, m |-> 1]
\* Mutant of InSubset: n is not reduced modulo m
InSubsetUnreduced(o, p) == PackNum(p) % o.m = o.n

InSubset(o, p) == PackNum(p) % o.m = o.n % o.m

\* check_pack: size, then hash, then the header against the index entry;
\* the first difference is reported.  The hash covers every byte of the
\* file, so a pack whose hash is right has the header and blobs written.
check_pack(e) ==
  IF EntrySize(e) # FileSize(e.pack) THEN {[error |-> "PackSizeMismatch", pack |-> e.pack]}
  ELSE IF packs[e.pack] # "good" THEN {[error |-> "PackHashMismatch", pack |-> e.pack]}
  ELSE IF e.pack.blobs # e.blobs THEN {[error |-> "PackHeaderMismatchIndex", pack |-> e.pack]}
  ELSE {}

ReadPacks(get, trees, option) ==
  {e \in IndexCollector(index) : /\ e.pack \notin MissingPacks
                                 /\ e.pack \in PacksOfTrees(get, trees)
                                 /\ InSubset(option, e.pack)}

\* The errors check_repository collects.  read_data = FALSE looks at no pack.
check_repository(get, last, trees, read_data, option) ==
  check_packs(last) \cup check_trees(get, trees)
  \cup (IF read_data THEN UNION {check_pack(e) : e \in ReadPacks(get, trees, option)} ELSE {})

\* CheckResults::is_ok
IsOk(errors) == errors = {}

SnapTrees == {s.tree : s \in snaps}
=============================================================================
