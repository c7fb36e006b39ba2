----------------------------- MODULE RepairRepo -----------------------------
(***************************************************************************)
(* `repair index` and `repair snapshots` on a damaged repository, one step *)
(* per change of storage, interrupted at any point and run again.          *)
(***************************************************************************)
EXTENDS CheckRepo

CONSTANTS Repositories,  \* the damaged repositories to start from
          MaxRuns,       \* bound on the commands that finish
          MaxCrashes     \* bound on the commands that do not finish

VARIABLES op,            \* the running command and what it has in memory
          runs, crashes,
          mended,        \* which repairs finished, in order, since a crash
          blind,         \* has a removing repair not seen all that is readable?
          original       \* the repository as it was found

vars == <<packs, index, snaps, op, runs, crashes, mended, blind, original>>

Idle == [cmd |-> "none"]

\* The id of a file this command saves: no file had it before.  It is named
\* after the command and the file that the new one stands for.
NewId(of) == <<runs>> \o of

Init ==
  \E r \in Repositories :
    /\ packs = r.packs /\ index = r.index /\ snaps = r.snaps
    /\ original = r
    /\ op = Idle /\ runs = 0 /\ crashes = 0 /\ mended = "nothing" /\ blind = FALSE

(***************************************************************************)
(* repair index                                                            *)
(***************************************************************************)
\* PackChecker::check_pack.  Of the packs listed when the command started,
\* `left` are those no entry has been read for yet; the first entry read
\* for a pack decides, and the unmarked entries of a file come first.  An
\* entry whose pack is not left is dropped, one with the wrong size is
\* dropped and the header of the pack is read again later.
check_index_file(f, left, read_all) ==
  LET live == {e \in f.packs : e.pack \in left}
      dead == {e \in f.packs_to_delete : e.pack \in left \ {x.pack : x \in live}}
      reread == {e \in live \cup dead : read_all \/ EntrySize(e) # FileSize(e.pack)}
  IN  [new |-> [id |-> NewId(f.id), packs |-> live \ reread, packs_to_delete |-> dead \ reread],
       changed |-> live # f.packs \/ dead # f.packs_to_delete \/ reread # {},
       to_read |-> {e.pack : e \in reread},
       left |-> left \ {e.pack : e \in live \cup dead}]

\* `save_file` of an index file, which is not done for an empty one
SaveIndex(files, f) == IF AllPacks(f) = {} THEN files ELSE files \cup {f}

RepairIndexStart(read_all, dry_run) ==
  /\ op = Idle /\ runs < MaxRuns + crashes
  /\ ~original.append_only
  /\ runs' = runs + 1
  /\ op' = [cmd |-> "index", read_all |-> read_all, dry_run |-> dry_run,
            todo |-> index, old |-> {}, left |-> DOMAIN packs, to_read |-> {}]
  /\ UNCHANGED <<packs, index, snaps, crashes, mended, blind, original>>

RepairIndexFile(f) ==
  /\ op.cmd = "index" /\ op.old = {} /\ f \in op.todo
  /\ LET c == check_index_file(f, op.left, op.read_all)
         write == c.changed /\ ~op.dry_run
     IN  /\ index' = IF write THEN SaveIndex(index, c.new) ELSE index
         /\ op' = [op EXCEPT !.todo = @ \ {f}, !.left = c.left,
                             !.to_read = @ \cup c.to_read,
                             !.old = IF write THEN {f} ELSE {}]
  /\ UNCHANGED <<packs, snaps, runs, crashes, mended, blind, original>>

\* Mutant of RepairIndexRemove: replaced index files are left in place.
RepairIndexKeep ==
  /\ op.cmd = "index" /\ op.old # {}
  /\ op' = [op EXCEPT !.old = {}]
  /\ UNCHANGED <<packs, index, snaps, runs, crashes, mended, blind, original>>

\* The index file that was replaced is removed once the new one is there.
RepairIndexRemove ==
  /\ op.cmd = "index" /\ op.old # {}
  /\ index' = index \ op.old
  /\ op' = [op EXCEPT !.old = {}]
  /\ UNCHANGED <<packs, snaps, runs, crashes, mended, blind, original>>

\* When all index files are read, the headers of the packs with a wrong
\* entry or none are.  A pack whose header cannot be read stays out of the
\* index; the others are listed unmarked in the file that is saved last.
IndexFileOf(entries) == [id |-> NewId(<<>>), packs |-> entries, packs_to_delete |-> {}]

RepairIndexHeaders ==
  /\ op.cmd = "index" /\ op.todo = {} /\ op.old = {}
  /\ LET read == {EntryOf(p) : p \in {q \in op.left \cup op.to_read : HeaderReads(q)}}
     IN  index' = IF op.dry_run THEN index ELSE SaveIndex(index, IndexFileOf(read))
  /\ mended' = IF op.dry_run \/ mended # "nothing" THEN mended ELSE "index"
  /\ op' = Idle
  /\ UNCHANGED <<packs, snaps, runs, crashes, blind, original>>

(***************************************************************************)
(* repair snapshots                                                        *)
(***************************************************************************)
\* index_checked_from_collector: the unmarked entries that check_pack keeps,
\* and the packs without a good entry by their headers; a header that
\* cannot be read is an error here.  The order of the index files matters
\* only for packs that have a marked and an unmarked entry.
IndexChecked(order) ==
  LET step(a, f) ==
        LET c == check_index_file(f, a.left, FALSE)
        IN  [left |-> c.left, to_read |-> a.to_read \cup c.to_read,
             entries |-> a.entries \cup c.new.packs]
      read == FoldLeft(step, [left |-> DOMAIN packs, to_read |-> {}, entries |-> {}], order)
      headers == read.left \cup read.to_read
  IN  [ok |-> \A p \in headers : HeaderReads(p),
       entries |-> read.entries \cup {EntryOf(p) : p \in headers}]

\* The index the repository is opened with for the command.
OpenedIndexes ==
  {IndexCollector(index)}
  \cup {x.entries : x \in {y \in {IndexChecked(o) : o \in SetToSeqs(index)} : y.ok}}

\* Does the index answer for every blob of every intact pack, and for a
\* tree with a copy that can be read?
SeesAll(get) ==
  \A p \in DOMAIN packs : packs[p] = "good" =>
    \A b \in p.blobs : b \in DOMAIN get /\ (p.tpe = "tree" => TreeReads(get, b))

RepairSnapshotsStart(delete, dry_run) ==
  /\ op = Idle /\ runs < MaxRuns + crashes
  /\ ~(delete /\ original.append_only)
  /\ runs' = runs + 1
  /\ \E idx \in OpenedIndexes : \E get \in Lookups(idx) :
       /\ op' = [cmd |-> "snapshots", delete |-> delete, dry_run |-> dry_run, get |-> get,
                 stage |-> "modify", todo |-> snaps, trees |-> {}, del |-> {}]
       /\ blind' = (blind \/ (delete /\ ~dry_run /\ ~SeesAll(get)))
  /\ UNCHANGED <<packs, index, snaps, crashes, mended, original>>

\* Mutant of repair_file: blobs that are not in the index stay in the file that is renamed.
repair_file_name(get, n) ==
  IF \A i \in DOMAIN n.content : n.content[i] \in DOMAIN get THEN n ELSE [n EXCEPT !.repaired = TRUE]

\* RepairState::process_node for a file: blobs that the index does not have
\* are left out, and the name gets the suffix.
repair_file(get, n) ==
  LET found == SelectSeq(n.content, LAMBDA b : b \in DOMAIN get)
  IN  IF found = n.content THEN n
      ELSE [n EXCEPT !.content = found, !.repaired = TRUE]

\* TreeModifier::modify_tree with the visitor RepairState: an unreadable
\* tree becomes an empty one, a directory without subtree gets one.  That
\* results are remembered per tree changes nothing about them.
modify_tree(get, root) ==
  LET new[t \in TreesUnder(root)] ==
        IF ~TreeReads(get, t) THEN <<>>
        ELSE [i \in DOMAIN t |->
                CASE IsFile(t[i]) -> repair_file(get, t[i])
                  [] IsDir(t[i]) ->
                       [t[i] EXCEPT !.subtree =
                          <<IF @ = <<>> THEN <<>> ELSE new[@[1]]>>]
                  [] OTHER -> t[i]]
  IN  new

\* The trees modify_tree visits: those that it can read its way down to.
Visited(get, root) ==
  LET visit[d \in 0..TreeDepth] ==
        IF d = 0 THEN {root}
        ELSE visit[d - 1] \cup
             UNION {Range(n.subtree) :
                      n \in UNION {Nodes(u) : u \in {t \in visit[d - 1] : TreeReads(get, t)}}}
  IN  visit[TreeDepth]

\* save_tree: what the packer gets of the trees that were changed or
\* created, which is what the index does not have yet.
SavedTrees(get, root) ==
  LET new == modify_tree(get, root)
      changed == {t \in Visited(get, root) : ~TreeReads(get, t) \/ new[t] # t}
      made == {new[t] : t \in changed}
              \cup (IF \E t \in Visited(get, root) :
                         TreeReads(get, t) /\ \E n \in Nodes(t) : IsDir(n) /\ n.subtree = <<>>
                    THEN {<<>>} ELSE {})
  IN  made \ DOMAIN get

\* A repaired snapshot remembers the first snapshot it was made from: a
\* snapshot gets its own id as `original` when it is read, unless it has one.
RepairedSnap(s, tree) ==
  [id |-> NewId(s.id), tree |-> tree, tag |-> "repaired", original |-> s.original]

\* The loop of repair_snapshots: the trees go to the packer, which keeps
\* them until finalize; the snapshot is saved at once.
RepairSnapshot(s) ==
  /\ op.cmd = "snapshots" /\ op.stage = "modify" /\ s \in op.todo
  /\ LET tree == modify_tree(op.get, s.tree)[s.tree]
     IN  /\ snaps' = IF tree = s.tree \/ op.dry_run THEN snaps
                     ELSE snaps \cup {RepairedSnap(s, tree)}
         /\ op' = [op EXCEPT !.todo = @ \ {s},
                             !.trees = IF op.dry_run THEN @ ELSE @ \cup SavedTrees(op.get, s.tree),
                             !.del = IF tree = s.tree THEN @ ELSE @ \cup {s}]
  /\ UNCHANGED <<packs, index, runs, crashes, mended, blind, original>>

NewPack == [id |-> NewId(<<>>), tpe |-> "tree", blobs |-> op.trees]
Deletes == op.delete /\ ~op.dry_run

\* Mutant of FinalizePacker: the snapshots are removed before the trees of
\* their replacements are written.
FinalizePackerLate ==
  /\ op.cmd = "snapshots" /\ op.stage = "modify" /\ op.todo = {}
  /\ snaps' = IF Deletes THEN snaps \ op.del ELSE snaps
  /\ op' = [op EXCEPT !.stage = "packed"]
  /\ UNCHANGED <<packs, index, runs, crashes, mended, blind, original>>

\* TreeModifier::finalize: the packer writes the pack of the new trees ...
FinalizePacker ==
  /\ op.cmd = "snapshots" /\ op.stage = "modify" /\ op.todo = {}
  /\ packs' = IF op.trees = {} THEN packs ELSE packs @@ (NewPack :> "good")
  /\ op' = [op EXCEPT !.stage = "packed"]
  /\ UNCHANGED <<index, snaps, runs, crashes, mended, blind, original>>

\* ... and the indexer the index file that lists it.
FinalizeIndexer ==
  /\ op.cmd = "snapshots" /\ op.stage = "packed"
  /\ index' = IF op.trees = {} THEN index
              ELSE SaveIndex(index, IndexFileOf({EntryOf(NewPack)}))
  /\ op' = [op EXCEPT !.stage = "delete"]
  /\ UNCHANGED <<packs, snaps, runs, crashes, mended, blind, original>>

\* delete_list removes the snapshots that were replaced, in any order.
DeleteSnapshot(s) ==
  /\ op.cmd = "snapshots" /\ op.stage = "delete" /\ Deletes /\ s \in op.del
  /\ snaps' = snaps \ {s}
  /\ op' = [op EXCEPT !.del = @ \ {s}]
  /\ UNCHANGED <<packs, index, runs, crashes, mended, blind, original>>

RepairSnapshotsDone ==
  /\ op.cmd = "snapshots" /\ op.stage = "delete" /\ (Deletes => op.del = {})
  /\ op' = Idle
  /\ mended' = IF Deletes /\ mended = "index" THEN "all" ELSE mended
  /\ UNCHANGED <<packs, index, snaps, runs, crashes, blind, original>>

(***************************************************************************)
(* The process dies, or a step of it fails and the command returns.  A     *)
(* header that is read with the length a wrong index entry suggests ends   *)
(* `repair index` the same way in builds with overflow checks.             *)
(***************************************************************************)
Crash ==
  /\ op # Idle /\ crashes < MaxCrashes
  /\ crashes' = crashes + 1
  /\ op' = Idle /\ mended' = "nothing"
  /\ UNCHANGED <<packs, index, snaps, runs, blind, original>>

\* The options of either command: `all` is to read the headers of all packs,
\* or to remove the defect snapshots too.
Options == {[all |-> TRUE, dry_run |-> FALSE], [all |-> FALSE, dry_run |-> FALSE],
            [all |-> TRUE, dry_run |-> TRUE]}

Next ==
  \/ \E o \in Options : RepairIndexStart(o.all, o.dry_run)
  \/ op.cmd = "index" /\ \E f \in op.todo : RepairIndexFile(f)
  \/ RepairIndexRemove
  \/ RepairIndexHeaders
  \/ \E o \in Options : RepairSnapshotsStart(o.all, o.dry_run)
  \/ op.cmd = "snapshots" /\ \E s \in op.todo : RepairSnapshot(s)
  \/ FinalizePacker
  \/ FinalizeIndexer
  \/ op.cmd = "snapshots" /\ \E s \in op.del : DeleteSnapshot(s)
  \/ RepairSnapshotsDone
  \/ Crash

Spec == Init /\ [][Next]_vars

(***************************************************************************)
(* Properties                                                              *)
(***************************************************************************)
\* What of a snapshot could still be read when the repository was found:
\* the blobs of the files that can be reached through readable trees and
\* that lie in a pack whose header can be read.
OriginalReads(b) ==
  \E p \in DOMAIN original.packs : b \in p.blobs /\ original.packs[p] = "good"

Salvage(root) ==
  LET live[d \in 0..TreeDepth] ==
        IF d = 0 THEN {t \in {root} : OriginalReads(t)}
        ELSE live[d - 1] \cup
             {t \in UNION {Range(n.subtree) : n \in UNION {Nodes(u) : u \in live[d - 1]}} :
                OriginalReads(t)}
  IN  {b \in UNION {Range(n.content) : n \in UNION {Nodes(u) : u \in live[TreeDepth]}} :
         OriginalReads(b)}

\* Every tree of the snapshot is in a pack file that can be read.
TreesStored(s) ==
  \A t \in TreesUnder(s.tree) : \E p \in DOMAIN packs : t \in p.blobs /\ packs[p] = "good"

\* Nothing that could be read when the repair began is ever lost: each
\* snapshot is still there, or a repaired one made from it is, with all of
\* its trees stored and, if the repairs saw all that is readable, every blob
\* that was.  (RepairSnapshot, FinalizePacker and
\* DeleteSnapshot: a snapshot may go only after its replacement's trees.)
NothingLost ==
  \A s \in original.snaps :
    \/ s \in snaps
    \/ \E r \in snaps : /\ r.original = s.original
                        /\ TreesStored(r)
                        /\ ~blind => Salvage(s.tree) \subseteq DataUnder(r.tree)

\* After `repair index` and then `repair snapshots` with removal, both to
\* the end, `check` has nothing to complain about, however the index
\* answers for blobs stored twice.  Damage inside a pack of the right size
\* is left out: the index still lists such packs, and a tree that is listed
\* is not written again even when it cannot be read.
Undetectable == \E p \in DOMAIN original.packs : original.packs[p] \in {"badblob", "badheader"}

RepairedOk ==
  op = Idle /\ mended = "all" /\ ~Undetectable =>
    \A get \in Lookups(IndexCollector(index)) : \A last \in LastEntries :
      IsOk(check_repository(get, last, SnapTrees, TRUE, ReadAll))

\* When `repair index` is done, the index lists each pack that can be read
\* with exactly its blobs, and no pack that is not there.
RepairIndexComplete ==
  op = Idle /\ mended = "index" =>
    /\ \A p \in DOMAIN packs : HeaderReads(p) => EntryOf(p) \in Entries
    /\ \A e \in Entries : e.pack \in DOMAIN packs /\ EntrySize(e) = FileSize(e.pack)

\* When `check --read-data` finds nothing, every snapshot can be restored:
\* its trees are readable, and so is the copy of each blob that the lookup
\* used by the check yields.
CheckSound ==
  op = Idle =>
    \A get \in Lookups(IndexCollector(index)) : \A last \in LastEntries :
      IsOk(check_repository(get, last, SnapTrees, TRUE, ReadAll)) =>
        \A t \in SnapTrees : /\ \A u \in TreesUnder(t) : TreeReads(get, u)
                             /\ \A b \in DataUnder(t) : b \in DOMAIN get /\ BlobReads(get[b])

\* Checking the subsets 1/m, ..., m/m one after the other finds nothing
\* only if checking all packs does (ReadSubsetOption::IdSubSet: "Using
\* (1,n) .. (n,n) in separate runs will cover all pack files").
SubsetsCover ==
  op = Idle =>
    \A m \in 2..3 : \A get \in Lookups(IndexCollector(index)) : \A last \in LastEntries :
      (\A n \in 1..m :
         IsOk(check_repository(get, last, SnapTrees, TRUE, [n |-> n, m |-> m])))
      => IsOk(check_repository(get, last, SnapTrees, TRUE, ReadAll))
=============================================================================
