----------------------------- MODULE SnapshotOps -----------------------------
(***************************************************************************)
(* The commands that make snapshots out of snapshots: `rewrite`, `merge`   *)
(* and `copy` to another repository, with several processes at work, any   *)
(* of which may die between two steps.                                     *)
(*                                                                         *)
(* Nothing removes blobs here (BackupPrune is about that), so of the pack  *)
(* and index files of a repository only the blobs in them are kept.        *)
(***************************************************************************)
EXTENDS Trees

CONSTANTS Rewrite(_),      \* a root tree after `rewrite` (TreeOps)
          Merge(_),        \* the merge of a set of trees (TreeOps)
          Procs,           \* the processes
          Setups,          \* the repositories to start from
          Modifications,   \* the SnapshotModifications a rewrite may get
          Requests,        \* the lists of snapshot requests of a merge
          MaxCommands, MaxCrashes

SnapshotFields == {"id", "original", "tree", "time", "tags", "label", "delete", "summary"}
IsSnapshot(s) == DOMAIN s = SnapshotFields /\ s.id \in Seq(Nat)
BothRepos == {"src", "dst"}

\* The snapshots to start from have all their blobs in pack files.
ASSUME SetupsAssumption ==
  \A r \in Setups :
    /\ DOMAIN r.snaps = BothRepos /\ DOMAIN r.stored = BothRepos
    /\ \A repo \in BothRepos : \A s \in r.snaps[repo] :
         IsSnapshot(s) /\ BlobsUnder(s.tree) \subseteq r.stored[repo]

VARIABLES stored,          \* repository -> the blobs in its pack files
          listed,          \* repository -> the blobs in its index files
          snaps,           \* repository -> its snapshots
          op,              \* process -> its command and what it has in memory
          commands, crashes,
          ever,            \* all snapshots that were in "src" at some time
          forgotten        \* the originals of those the user had removed

vars == <<stored, listed, snaps, op, commands, crashes, ever, forgotten>>

Idle == [stage |-> "idle"]
Repos == DOMAIN snaps
Stages == {"data", "trees", "index", "snaps", "delete"}

\* The id of a saved file is the hash of its encrypted contents: a new one
\* each time.  It is named after the command and the file it is made from.
NewId(of) == <<commands>> \o of

(***************************************************************************)
(* Choosing snapshots: `latest`, `latest~n`, an id, or the beginning of an *)
(* id, which is the set of ids that begin like that.                       *)
(***************************************************************************)
Latest(n) == [kind |-> "latest", n |-> n]
ById(id) == [kind |-> "id", id |-> id]
StartsWith(ids) == [kind |-> "starts_with", ids |-> ids]

\* latest_n_from_iter: the oldest of the n + 1 newest, any one if several
\* have its time (k_smallest_by)
latest_n(S, n) ==
  {s \in S : /\ Cardinality({o \in S : o.time > s.time}) <= n
             /\ Cardinality({o \in S : o.time >= s.time}) > n}

\* SnapshotFile::from_strs for requests of which one at least is for the
\* latest: all snapshots are read once.  The beginning of an id must be that
\* of exactly one (FindUniqueResults); an id that is not there is answered
\* with SnapshotFile::default().
Missing == [id |-> <<>>]
Answers(S, r) ==
  CASE r.kind = "latest" -> latest_n(S, r.n)
    [] r.kind = "id" -> IF \E s \in S : s.id = r.id THEN {s \in S : s.id = r.id} ELSE {Missing}
    [] OTHER -> LET found == {s \in S : s.id \in r.ids}
                IN  IF Cardinality(found) = 1 THEN found ELSE {}

\* What the requests may be answered with; nothing stands for an error.
from_strs(S, requests) ==
  {f \in [DOMAIN requests -> UNION {Answers(S, requests[i]) : i \in DOMAIN requests}] :
     /\ \A i \in DOMAIN requests : f[i] \in Answers(S, requests[i])
     /\ \A i, j \in DOMAIN requests :
          {requests[i].kind, requests[j].kind} = {"latest"} /\ requests[i] # requests[j] => f[i] # f[j]}

(***************************************************************************)
(* SnapshotModification::apply_to.  A modification says which tags to set, *)
(* add and remove and optionally a new label, time and delete option.      *)
(***************************************************************************)
SetCheck(old, opt) == IF opt = <<>> THEN old ELSE opt[1]
apply_to(m, s) ==
  [s EXCEPT !.tags = ((IF m.set_tags = {} THEN @ ELSE m.set_tags) \cup m.add_tags) \ m.remove_tags,
            !.label = SetCheck(@, m.set_label),
            !.time = SetCheck(@, m.set_time),
            !.delete = SetCheck(@, m.set_delete)]

(***************************************************************************)
(* The commands.  Each one reads all it needs, then writes packs of data,  *)
(* packs of trees, index files, snapshots, and removes snapshots.          *)
(***************************************************************************)
Init ==
  \E r \in Setups :
    /\ stored = r.stored /\ listed = r.stored /\ snaps = r.snaps
    /\ op = [p \in Procs |-> Idle]
    /\ commands = 0 /\ crashes = 0
    /\ ever = r.snaps["src"] /\ forgotten = {}

Start(p, o) ==
  /\ op[p] = Idle /\ commands < MaxCommands
  /\ commands' = commands + 1
  /\ op' = [op EXCEPT ![p] = o]
  /\ UNCHANGED <<stored, listed, snaps, crashes, ever, forgotten>>

\* rewrite_snapshots, and with trees rewrite_snapshots_and_trees: a snapshot
\* is rewritten if the modification changes it, its tree changes, or what
\* its summary says of its tree is not right.
RewriteStart(p, sel, m, trees, forget) ==
  LET rewritten(s) ==
        LET n == apply_to(m, s)
        IN  IF trees THEN [n EXCEPT !.tree = Rewrite(@), !.summary = "right"] ELSE n
      tagged(s) == IF forget THEN s ELSE [s EXCEPT !.tags = @ \cup {"rewrite"}]
      changed == {s \in sel : rewritten(s) # s}
  IN  Start(p, [kind |-> "rewrite", repo |-> "src", inputs |-> {},
                data |-> {},
                trees |-> (UNION {TreesUnder(rewritten(s).tree) : s \in changed}) \ listed["src"],
                new |-> {[tagged(rewritten(s)) EXCEPT !.id = NewId(@)] : s \in changed},
                del |-> IF forget THEN changed ELSE {},
                stage |-> "trees"])

\* merge_snapshots: the time of the merge is the newest of its inputs'.
MergeStart(p, requests) ==
  \E sel \in from_strs(snaps["src"], requests) :
    /\ Missing \notin Range(sel)
    /\ LET inputs == {s.tree : s \in Range(sel)}
           newest == CHOOSE s \in Range(sel) : \A o \in Range(sel) : o.time <= s.time
           tree == Merge(inputs)
       IN  Start(p, [kind |-> "merge", repo |-> "src", inputs |-> inputs,
                     data |-> {}, trees |-> TreesUnder(tree) \ listed["src"],
                     new |-> {[id |-> NewId(<<>>), original |-> NewId(<<>>), tree |-> tree,
                               time |-> newest.time, tags |-> {}, label |-> "none",
                               delete |-> "not set", summary |-> "right"]},
                     del |-> {}, stage |-> "trees"])

\* The snapshots of whose time there is none in the destination.
relevant_snapshots(sel) == {s \in sel : \A d \in snaps["dst"] : d.time # s.time}

\* copy: these with what the index of the destination does not have.  Blobs
\* that the index of the source does not have are left out.
CopyStart(p, sel) ==
  LET relevant == relevant_snapshots(sel)
      needed(blobs) == (blobs \ listed["dst"]) \cap listed["src"]
  IN  Start(p, [kind |-> "copy", repo |-> "dst", inputs |-> {},
                data |-> needed(UNION {DataUnder(s.tree) : s \in relevant}),
                trees |-> needed(UNION {TreesUnder(s.tree) : s \in relevant}),
                new |-> {[s EXCEPT !.id = NewId(@)] : s \in relevant},
                del |-> {}, stage |-> "data"])

WriteData(p) ==
  /\ op[p].stage = "data"
  /\ stored' = [stored EXCEPT ![op[p].repo] = @ \cup op[p].data]
  /\ op' = [op EXCEPT ![p].stage = "trees"]
  /\ UNCHANGED <<listed, snaps, commands, crashes, ever, forgotten>>

WriteTrees(p) ==
  /\ op[p].stage = "trees"
  /\ stored' = [stored EXCEPT ![op[p].repo] = @ \cup op[p].trees]
  /\ op' = [op EXCEPT ![p].stage = "index"]
  /\ UNCHANGED <<listed, snaps, commands, crashes, ever, forgotten>>

\* Mutant of WriteIndex: the packs of data are not listed
WriteIndexTrees(p) ==
  /\ op[p].stage = "index"
  /\ listed' = [listed EXCEPT ![op[p].repo] = @ \cup op[p].trees]
  /\ op' = [op EXCEPT ![p].stage = "snaps"]
  /\ UNCHANGED <<stored, snaps, commands, crashes, ever, forgotten>>

\* Indexer::finalize
WriteIndex(p) ==
  /\ op[p].stage = "index"
  /\ listed' = [listed EXCEPT ![op[p].repo] = @ \cup op[p].data \cup op[p].trees]
  /\ op' = [op EXCEPT ![p].stage = "snaps"]
  /\ UNCHANGED <<stored, snaps, commands, crashes, ever, forgotten>>

\* save_list saves the snapshots in any order.
SaveSnapshot(p) ==
  /\ op[p].stage = "snaps"
  /\ \E s \in op[p].new :
       /\ snaps' = [snaps EXCEPT ![op[p].repo] = @ \cup {s}]
       /\ ever' = IF op[p].repo = "src" THEN ever \cup {s} ELSE ever
       /\ op' = [op EXCEPT ![p].new = @ \ {s}]
  /\ UNCHANGED <<stored, listed, commands, crashes, forgotten>>

\* Mutant of SnapshotsSaved: it is not waited for all saves before removing
SnapshotsSavedEarly(p) ==
  /\ op[p].stage = "snaps"
  /\ op' = [op EXCEPT ![p].stage = "delete"]
  /\ UNCHANGED <<stored, listed, snaps, commands, crashes, ever, forgotten>>

SnapshotsSaved(p) ==
  /\ op[p].stage = "snaps" /\ op[p].new = {}
  /\ op' = [op EXCEPT ![p].stage = "delete"]
  /\ UNCHANGED <<stored, listed, snaps, commands, crashes, ever, forgotten>>

\* delete_list removes the snapshots in any order; one that another process
\* has removed already is an error that ends the command.
DeleteSnapshot(p) ==
  /\ op[p].stage = "delete"
  /\ \E s \in op[p].del :
       /\ snaps' = [snaps EXCEPT ![op[p].repo] = @ \ {s}]
       /\ op' = [op EXCEPT ![p] = IF s \in snaps[op[p].repo] THEN [op[p] EXCEPT !.del = @ \ {s}] ELSE Idle]
  /\ UNCHANGED <<stored, listed, commands, crashes, ever, forgotten>>

Done(p) ==
  /\ op[p].stage = "delete" /\ op[p].del = {}
  /\ op' = [op EXCEPT ![p] = Idle]
  /\ UNCHANGED <<stored, listed, snaps, commands, crashes, ever, forgotten>>

\* The user removes a snapshot (Repository::delete_snapshots).
UserForgets(s) ==
  /\ commands < MaxCommands
  /\ commands' = commands + 1
  /\ snaps' = [snaps EXCEPT !["src"] = @ \ {s}]
  /\ forgotten' = forgotten \cup {s.original}
  /\ UNCHANGED <<stored, listed, op, crashes, ever>>

Crash(p) ==
  /\ op[p] # Idle /\ crashes < MaxCrashes
  /\ crashes' = crashes + 1
  /\ op' = [op EXCEPT ![p] = Idle]
  /\ UNCHANGED <<stored, listed, snaps, commands, ever, forgotten>>

Next ==
  \/ \E p \in Procs :
       \/ \E m \in Modifications, trees, forget \in BOOLEAN : RewriteStart(p, snaps["src"], m, trees, forget)
       \/ \E r \in Requests : MergeStart(p, r)
       \/ CopyStart(p, snaps["src"])
       \/ WriteData(p) \/ WriteTrees(p) \/ WriteIndex(p)
       \/ SaveSnapshot(p) \/ SnapshotsSaved(p) \/ DeleteSnapshot(p) \/ Done(p)
       \/ Crash(p)
  \/ \E s \in snaps["src"] : UserForgets(s)

Spec == Init /\ [][Next]_vars

(***************************************************************************)
(* Properties                                                              *)
(***************************************************************************)
\* Every snapshot of either repository can be restored at any time, also
\* after a crash: all its blobs are in pack files that the index lists.
\* (copy, merge_snapshots and process_snapshots save snapshots last.)
SnapsComplete ==
  \A r \in Repos : \A s \in snaps[r] : BlobsUnder(s.tree) \subseteq listed[r] \cap stored[r]

\* No rewrite loses a snapshot, even when two of them work on it or one is
\* interrupted: of each snapshot there ever was and that the user did not
\* remove, it or one made from it is there.
NothingForgotten ==
  \A s \in ever : s.original \in forgotten \/ \E q \in snaps["src"] : q.original = s.original

-----------------------------------------------------------------------------
(***************************************************************************)
(* The inductive invariant                                                 *)
(***************************************************************************)
OpFields == {"kind", "repo", "inputs", "data", "trees", "new", "del", "stage"}

TypeOK ==
  /\ commands \in Nat
  /\ DOMAIN stored = BothRepos /\ DOMAIN listed = BothRepos /\ DOMAIN snaps = BothRepos
  /\ DOMAIN op = Procs
  /\ \A p \in Procs : op[p] # Idle =>
       DOMAIN op[p] = OpFields /\ op[p].repo \in BothRepos /\ op[p].stage \in Stages
  /\ \A s \in ever : IsSnapshot(s)

\* What is listed is stored, and what is in a snapshot is listed.
RepoComplete(r) ==
  /\ listed[r] \subseteq stored[r]
  /\ \A s \in snaps[r] : IsSnapshot(s) /\ BlobsUnder(s.tree) \subseteq listed[r]

\* The snapshots a command will save need nothing but what is listed and what it adds,
\* and what it has added already is where its stage says.
AddsAll(p) ==
  LET o == op[p]
  IN  /\ \A s \in o.new : IsSnapshot(s) /\ BlobsUnder(s.tree) \subseteq listed[o.repo] \cup o.data \cup o.trees
      /\ o.stage # "data" => o.data \subseteq stored[o.repo]
      /\ o.stage \notin {"data", "trees"} => o.trees \subseteq stored[o.repo]
      /\ o.stage \in {"snaps", "delete"} => o.data \cup o.trees \subseteq listed[o.repo]

\* A rewritten snapshot has a longer id than the one it is made from.
MadeLater(q, s) == q.original = s.original /\ Len(q.id) > Len(s.id)

\* A snapshot is only removed by a command that has saved, or will have saved before,
\* one made from it.
RemovesReplaced(p) ==
  LET o == op[p]
  IN  /\ o.stage = "delete" => o.new = {}
      /\ \A s \in o.del : /\ o.repo = "src" /\ s \in ever
                          /\ \E q \in ever \cup o.new : MadeLater(q, s)

\* The last snapshot of one original is never one that is removed: there is one which
\* has not been made earlier.
LatestKept ==
  \A s \in ever : \/ s.original \in forgotten
                  \/ \E q \in snaps["src"] : q.original = s.original /\ Len(q.id) >= Len(s.id)

OpsInv ==
  /\ TypeOK
  /\ \A r \in BothRepos : RepoComplete(r)
  /\ snaps["src"] \subseteq ever
  /\ \A p \in Procs : op[p] # Idle => AddsAll(p) /\ RemovesReplaced(p)
  /\ LatestKept
=============================================================================
