------------------------- MODULE SnapshotOpsProofs -------------------------
(***************************************************************************)
(* rewrite, merge and copy leave every snapshot complete, and a rewrite    *)
(* loses none, for any number of processes and commands, any of which may  *)
(* stop between two steps.                                                 *)
(***************************************************************************)
EXTENDS SnapshotOps, SequenceTheorems, TLAPS

CONSTANT Tree            \* the trees there may be

\* The trees that `rewrite` and `merge` make have files of the trees they are made from
\* only (TreeOps defines both, and what they make is checked there).
OpsKeepData ==
  /\ \A t \in Tree : Rewrite(t) \in Tree /\ DataUnder(Rewrite(t)) \subseteq DataUnder(t)
  /\ \A ts \in SUBSET Tree : Merge(ts) \in Tree /\ DataUnder(Merge(ts)) \subseteq UNION {DataUnder(t) : t \in ts}

SetupsOfTrees == \A r \in Setups : \A repo \in BothRepos : \A s \in r.snaps[repo] : s.tree \in Tree

\* All trees of snapshots are such trees.
TreesKnown ==
  /\ \A r \in BothRepos : \A s \in snaps[r] : s.tree \in Tree
  /\ \A p \in Procs : op[p] # Idle => \A s \in op[p].new : s.tree \in Tree

Inv == OpsInv /\ TreesKnown

(***************************************************************************)
(* Values                                                                  *)
(***************************************************************************)
LEMMA NewIdLonger ==
  ASSUME NEW id \in Seq(Nat), commands \in Nat
  PROVE  NewId(id) \in Seq(Nat) /\ Len(NewId(id)) > Len(id)
BY DEF NewId

\* An operation in progress has all the fields of one.
LEMMA OpRecord ==
  ASSUME TypeOK, NEW p \in Procs, op[p] # Idle \/ op[p].stage \in Stages
  PROVE  op[p] # Idle /\ DOMAIN op[p] = OpFields /\ op[p].repo \in BothRepos /\ op[p].stage \in Stages
<1>1. Idle.stage = "idle" /\ "idle" \notin Stages
  BY DEF Idle, Stages
<1> QED BY <1>1 DEF TypeOK

\* What apply_to changes of a snapshot.
LEMMA Modified ==
  ASSUME NEW m, NEW s, IsSnapshot(s)
  PROVE  /\ IsSnapshot(apply_to(m, s))
         /\ apply_to(m, s).id = s.id /\ apply_to(m, s).original = s.original
         /\ apply_to(m, s).tree = s.tree
BY DEF apply_to, IsSnapshot, SnapshotFields

\* A step changes nothing but how far one process is.
LEMMA OthersKeep ==
  ASSUME Inv, NEW p \in Procs, NEW o, op' = [op EXCEPT ![p] = o],
         \A r \in BothRepos : listed[r] \subseteq listed'[r] /\ stored[r] \subseteq stored'[r],
         ever \subseteq ever',
         NEW q \in Procs, q # p, op'[q] # Idle
  PROVE  AddsAll(q)' /\ RemovesReplaced(q)' /\ \A s \in op'[q].new : s.tree \in Tree
<1>1. op'[q] = op[q]
  BY DEF Inv, OpsInv, TypeOK
<1>2. AddsAll(q) /\ RemovesReplaced(q) /\ op[q].repo \in BothRepos /\ \A s \in op[q].new : s.tree \in Tree
  BY <1>1 DEF Inv, OpsInv, TypeOK, TreesKnown
<1>3. listed[op[q].repo] \subseteq listed'[op[q].repo] /\ stored[op[q].repo] \subseteq stored'[op[q].repo]
  BY <1>2
<1> HIDE DEF Inv
<1>4. AddsAll(q)'
  BY <1>1, <1>2, <1>3 DEF AddsAll
<1>5. RemovesReplaced(q)'
  BY <1>1, <1>2 DEF RemovesReplaced
<1> QED BY <1>1, <1>2, <1>4, <1>5

\* What is to be shown of a step of process p.
LEMMA StepOfOne ==
  ASSUME Inv, NEW p \in Procs, NEW o, op' = [op EXCEPT ![p] = o],
         \A r \in BothRepos : listed[r] \subseteq listed'[r] /\ stored[r] \subseteq stored'[r],
         ever \subseteq ever',
         \* what is left to show
         commands' \in Nat,
         DOMAIN stored' = BothRepos /\ DOMAIN listed' = BothRepos /\ DOMAIN snaps' = BothRepos,
         \A s \in ever' : IsSnapshot(s),
         \A r \in BothRepos : RepoComplete(r)' /\ \A s \in snaps'[r] : s.tree \in Tree,
         snaps'["src"] \subseteq ever',
         o # Idle => /\ DOMAIN o = OpFields /\ o.repo \in BothRepos /\ o.stage \in Stages
                     /\ AddsAll(p)' /\ RemovesReplaced(p)' /\ \A s \in o.new : s.tree \in Tree,
         LatestKept'
  PROVE  Inv'
<1>1. DOMAIN op' = Procs /\ op'[p] = o /\ \A q \in Procs \ {p} : op'[q] = op[q]
  BY DEF Inv, OpsInv, TypeOK
<1>2. TypeOK'
  BY <1>1 DEF Inv, OpsInv, TypeOK
<1>3. \A q \in Procs : op'[q] # Idle =>
        AddsAll(q)' /\ RemovesReplaced(q)' /\ \A s \in op'[q].new : s.tree \in Tree
  <2> SUFFICES ASSUME NEW q \in Procs, op'[q] # Idle
               PROVE  AddsAll(q)' /\ RemovesReplaced(q)' /\ \A s \in op'[q].new : s.tree \in Tree
    OBVIOUS
  <2>1. CASE q = p
    BY <1>1, <2>1
  <2>2. CASE q # p
    BY <2>2, OthersKeep
  <2> QED BY <2>1, <2>2
<1>4. OpsInv'
  BY <1>2, <1>3 DEF OpsInv
<1>5. TreesKnown'
  BY <1>1, <1>3 DEF TreesKnown
<1> QED BY <1>4, <1>5 DEF Inv

\* When the repositories do not change.
LEMMA ReposKept ==
  ASSUME Inv, UNCHANGED <<stored, listed, snaps, ever, forgotten>>, commands' \in Nat
  PROVE  /\ DOMAIN stored' = BothRepos /\ DOMAIN listed' = BothRepos /\ DOMAIN snaps' = BothRepos
         /\ \A s \in ever' : IsSnapshot(s)
         /\ \A r \in BothRepos : RepoComplete(r)' /\ \A s \in snaps'[r] : s.tree \in Tree
         /\ snaps'["src"] \subseteq ever' /\ LatestKept'
         /\ \A r \in BothRepos : listed[r] \subseteq listed'[r] /\ stored[r] \subseteq stored'[r]
         /\ ever \subseteq ever'
<1>1. LatestKept'
  BY DEF Inv, OpsInv, LatestKept
<1>2. \A r \in BothRepos : RepoComplete(r)' /\ \A s \in snaps'[r] : s.tree \in Tree
  BY DEF Inv, OpsInv, TreesKnown, RepoComplete
<1> QED BY <1>1, <1>2 DEF Inv, OpsInv, TypeOK

(***************************************************************************)
(* Steps of a command                                                      *)
(***************************************************************************)
LEMMA StopKeeps ==
  ASSUME Inv, NEW p \in Procs, Done(p) \/ Crash(p)
  PROVE  Inv'
<1>1. op' = [op EXCEPT ![p] = Idle] /\ UNCHANGED <<stored, listed, snaps, commands, ever, forgotten>>
  BY DEF Done, Crash
<1> QED BY <1>1, ReposKept, StepOfOne DEF Inv, OpsInv, TypeOK

\* A process at work: what the invariant says of it.
LEMMA AtWork ==
  ASSUME Inv, NEW p \in Procs, op[p].stage \in Stages
  PROVE  /\ TypeOK /\ op[p] # Idle /\ DOMAIN op[p] = OpFields /\ op[p].repo \in BothRepos
         /\ AddsAll(p) /\ RemovesReplaced(p) /\ RepoComplete(op[p].repo)
         /\ \A s \in op[p].new : s.tree \in Tree
<1>1. TypeOK /\ op[p] # Idle /\ DOMAIN op[p] = OpFields /\ op[p].repo \in BothRepos
  BY OpRecord DEF Inv, OpsInv
<1> QED BY <1>1 DEF Inv, OpsInv, TreesKnown

\* A process that only goes on to another stage.
LEMMA SameWork ==
  ASSUME NEW o, NEW stage, DOMAIN o = OpFields
  PROVE  LET n == [o EXCEPT !.stage = stage]
         IN  /\ DOMAIN n = OpFields /\ n.stage = stage /\ n.repo = o.repo /\ n.data = o.data
             /\ n.trees = o.trees /\ n.new = o.new /\ n.del = o.del
BY DEF OpFields

\* Files are added to the repository a process works on.
LEMMA FilesAdded ==
  ASSUME Inv, NEW r \in BothRepos, UNCHANGED <<snaps, ever, forgotten, commands>>,
         NEW more,
         \/ stored' = [stored EXCEPT ![r] = @ \cup more] /\ UNCHANGED listed
         \/ listed' = [listed EXCEPT ![r] = @ \cup more] /\ UNCHANGED stored /\ more \subseteq stored[r]
  PROVE  /\ DOMAIN stored' = BothRepos /\ DOMAIN listed' = BothRepos /\ DOMAIN snaps' = BothRepos
         /\ \A s \in ever' : IsSnapshot(s)
         /\ \A a \in BothRepos : RepoComplete(a)' /\ \A s \in snaps'[a] : s.tree \in Tree
         /\ snaps'["src"] \subseteq ever' /\ LatestKept' /\ commands' \in Nat
         /\ \A a \in BothRepos : listed[a] \subseteq listed'[a] /\ stored[a] \subseteq stored'[a]
         /\ ever \subseteq ever'
<1>1. DOMAIN stored = BothRepos /\ DOMAIN listed = BothRepos /\ DOMAIN snaps = BothRepos /\ commands \in Nat
      /\ \A s \in ever : IsSnapshot(s)
  BY DEF Inv, OpsInv, TypeOK
<1>2. DOMAIN stored' = BothRepos /\ DOMAIN listed' = BothRepos
      /\ \A a \in BothRepos : listed[a] \subseteq listed'[a] /\ stored[a] \subseteq stored'[a]
  BY <1>1
<1>3. ASSUME NEW a \in BothRepos  PROVE RepoComplete(a)' /\ \A s \in snaps'[a] : s.tree \in Tree
  <2>1. RepoComplete(a) /\ \A s \in snaps[a] : s.tree \in Tree
    BY DEF Inv, OpsInv, TreesKnown
  <2>2. listed'[a] \subseteq stored'[a]
    BY <1>1, <2>1 DEF RepoComplete
  <2> QED BY <1>2, <2>1, <2>2 DEF RepoComplete
<1>4. LatestKept' /\ snaps'["src"] \subseteq ever'
  BY DEF Inv, OpsInv, LatestKept
<1> QED BY <1>1, <1>2, <1>3, <1>4

LEMMA WriteDataKeeps ==
  ASSUME Inv, NEW p \in Procs, WriteData(p)
  PROVE  Inv'
<1> DEFINE o == op[p]
           n == [o EXCEPT !.stage = "trees"]
<1>1. /\ TypeOK /\ o # Idle /\ DOMAIN o = OpFields /\ o.repo \in BothRepos /\ o.stage = "data"
      /\ AddsAll(p) /\ RemovesReplaced(p) /\ \A s \in o.new : s.tree \in Tree
  BY AtWork DEF WriteData, Stages
<1>2. /\ stored' = [stored EXCEPT ![o.repo] = @ \cup o.data] /\ op' = [op EXCEPT ![p] = n]
      /\ UNCHANGED <<listed, snaps, commands, ever, forgotten>>
  BY DEF WriteData
<1>3. /\ DOMAIN n = OpFields /\ n.stage = "trees" /\ n.repo = o.repo /\ n.data = o.data
      /\ n.trees = o.trees /\ n.new = o.new /\ n.del = o.del
  BY <1>1, SameWork
<1> HIDE DEF n
<1>4. op'[p] = n /\ o.data \subseteq stored'[o.repo]
  BY <1>1, <1>2 DEF TypeOK
<1>5. AddsAll(p)' /\ RemovesReplaced(p)'
  BY <1>1, <1>2, <1>3, <1>4 DEF AddsAll, RemovesReplaced
<1> QED BY <1>1, <1>2, <1>3, <1>5, FilesAdded, StepOfOne DEF Stages

LEMMA WriteTreesKeeps ==
  ASSUME Inv, NEW p \in Procs, WriteTrees(p)
  PROVE  Inv'
<1> DEFINE o == op[p]
           n == [o EXCEPT !.stage = "index"]
<1>1. /\ TypeOK /\ o # Idle /\ DOMAIN o = OpFields /\ o.repo \in BothRepos /\ o.stage = "trees"
      /\ AddsAll(p) /\ RemovesReplaced(p) /\ \A s \in o.new : s.tree \in Tree
  BY AtWork DEF WriteTrees, Stages
<1>2. /\ stored' = [stored EXCEPT ![o.repo] = @ \cup o.trees] /\ op' = [op EXCEPT ![p] = n]
      /\ UNCHANGED <<listed, snaps, commands, ever, forgotten>>
  BY DEF WriteTrees
<1>3. /\ DOMAIN n = OpFields /\ n.stage = "index" /\ n.repo = o.repo /\ n.data = o.data
      /\ n.trees = o.trees /\ n.new = o.new /\ n.del = o.del
  BY <1>1, SameWork
<1> HIDE DEF n
<1>4. op'[p] = n /\ o.trees \subseteq stored'[o.repo] /\ stored[o.repo] \subseteq stored'[o.repo]
  BY <1>1, <1>2 DEF TypeOK
<1>5. AddsAll(p)' /\ RemovesReplaced(p)'
  BY <1>1, <1>2, <1>3, <1>4 DEF AddsAll, RemovesReplaced
<1> QED BY <1>1, <1>2, <1>3, <1>5, FilesAdded, StepOfOne DEF Stages

\* The index lists what is stored only, and all of it before the snapshots are saved.
LEMMA WriteIndexKeeps ==
  ASSUME Inv, NEW p \in Procs, WriteIndex(p)
  PROVE  Inv'
<1> DEFINE o == op[p]
           n == [o EXCEPT !.stage = "snaps"]
           more == o.data \cup o.trees
<1>1. /\ TypeOK /\ o # Idle /\ DOMAIN o = OpFields /\ o.repo \in BothRepos /\ o.stage = "index"
      /\ AddsAll(p) /\ RemovesReplaced(p) /\ \A s \in o.new : s.tree \in Tree
  BY AtWork DEF WriteIndex, Stages
<1>2. /\ listed' = [listed EXCEPT ![o.repo] = @ \cup more] /\ op' = [op EXCEPT ![p] = n]
      /\ UNCHANGED <<stored, snaps, commands, ever, forgotten>>
  <2>1. listed' = [listed EXCEPT ![o.repo] = @ \cup o.data \cup o.trees]
        /\ listed[o.repo] \cup o.data \cup o.trees = listed[o.repo] \cup more
    BY DEF WriteIndex
  <2> QED BY <2>1 DEF WriteIndex
<1>3. /\ DOMAIN n = OpFields /\ n.stage = "snaps" /\ n.repo = o.repo /\ n.data = o.data
      /\ n.trees = o.trees /\ n.new = o.new /\ n.del = o.del
  BY <1>1, SameWork
<1>4. more \subseteq stored[o.repo]
  BY <1>1 DEF AddsAll
<1> HIDE DEF n
<1>5. op'[p] = n /\ more \subseteq listed'[o.repo] /\ listed[o.repo] \subseteq listed'[o.repo]
  BY <1>1, <1>2 DEF TypeOK
<1>6. AddsAll(p)' /\ RemovesReplaced(p)'
  BY <1>1, <1>2, <1>3, <1>4, <1>5 DEF AddsAll, RemovesReplaced
<1> HIDE DEF more
<1> QED BY <1>1, <1>2, <1>3, <1>4, <1>6, FilesAdded, StepOfOne DEF Stages

\* save_list comes after Indexer::finalize: the blobs of the snapshot are listed.
LEMMA SaveSnapshotKeeps ==
  ASSUME Inv, NEW p \in Procs, SaveSnapshot(p)
  PROVE  Inv'
<1> DEFINE o == op[p]
<1>1. /\ TypeOK /\ o # Idle /\ DOMAIN o = OpFields /\ o.repo \in BothRepos /\ o.stage = "snaps"
      /\ AddsAll(p) /\ RemovesReplaced(p) /\ \A s \in o.new : s.tree \in Tree
  BY AtWork DEF SaveSnapshot, Stages
<1>2. PICK s \in o.new :
        /\ snaps' = [snaps EXCEPT ![o.repo] = @ \cup {s}]
        /\ ever' = IF o.repo = "src" THEN ever \cup {s} ELSE ever
        /\ op' = [op EXCEPT ![p].new = @ \ {s}]
  BY Zenon DEF SaveSnapshot
<1> DEFINE n == [o EXCEPT !.new = @ \ {s}]
<1>3. op' = [op EXCEPT ![p] = n] /\ UNCHANGED <<stored, listed, commands, forgotten>>
  BY <1>2 DEF SaveSnapshot
<1>4. /\ DOMAIN n = OpFields /\ n.stage = "snaps" /\ n.repo = o.repo /\ n.data = o.data
      /\ n.trees = o.trees /\ n.new = o.new \ {s} /\ n.del = o.del
  BY <1>1 DEF OpFields
<1> HIDE DEF n
<1>5. op'[p] = n
  BY <1>1, <1>3 DEF TypeOK
<1>6. IsSnapshot(s) /\ BlobsUnder(s.tree) \subseteq listed[o.repo] /\ s.tree \in Tree
  BY <1>1 DEF AddsAll
<1>7. AddsAll(p)'
  BY <1>1, <1>3, <1>4, <1>5 DEF AddsAll
<1>8. RemovesReplaced(p)'
  <2>1. ASSUME NEW d \in o.del
        PROVE  o.repo = "src" /\ d \in ever' /\ \E q \in ever' \cup n.new : MadeLater(q, d)
    BY <1>1, <1>2, <1>4 DEF RemovesReplaced
  <2> QED BY <1>4, <1>5, <2>1 DEF RemovesReplaced
<1>9. /\ DOMAIN snaps' = BothRepos /\ snaps["src"] \subseteq snaps'["src"]
      /\ \A r \in BothRepos : snaps'[r] \subseteq snaps[r] \cup {s} /\ (r # o.repo => snaps'[r] = snaps[r])
  BY <1>1, <1>2 DEF TypeOK, BothRepos
<1>10. \A r \in BothRepos : RepoComplete(r)' /\ \A t \in snaps'[r] : t.tree \in Tree
  BY <1>3, <1>6, <1>9 DEF Inv, OpsInv, TreesKnown, RepoComplete
<1>11. /\ ever \subseteq ever' /\ snaps'["src"] \subseteq ever' /\ \A t \in ever' : IsSnapshot(t)
       /\ \A t \in ever' : t \in ever \/ t \in snaps'["src"]
  <2>1. snaps["src"] \subseteq ever /\ \A t \in ever : IsSnapshot(t)
    BY DEF Inv, OpsInv, TypeOK
  <2>2. CASE o.repo = "src"
    BY <1>1, <1>2, <1>6, <1>9, <2>1, <2>2 DEF TypeOK, BothRepos
  <2>3. CASE o.repo # "src"
    BY <1>2, <1>9, <2>1, <2>3 DEF BothRepos
  <2> QED BY <2>2, <2>3
<1>12. LatestKept'
  <2> SUFFICES ASSUME NEW t \in ever'
               PROVE  \/ t.original \in forgotten'
                      \/ \E q \in snaps'["src"] : q.original = t.original /\ Len(q.id) >= Len(t.id)
    BY DEF LatestKept
  <2>1. Len(t.id) \in Nat
    BY <1>11 DEF IsSnapshot
  <2> QED BY <1>3, <1>9, <1>11, <2>1 DEF Inv, OpsInv, LatestKept
<1> QED BY <1>1, <1>3, <1>4, <1>7, <1>8, <1>9, <1>10, <1>11, <1>12, StepOfOne DEF TypeOK, Stages

LEMMA SnapshotsSavedKeeps ==
  ASSUME Inv, NEW p \in Procs, SnapshotsSaved(p)
  PROVE  Inv'
<1> DEFINE o == op[p]
           n == [o EXCEPT !.stage = "delete"]
<1>1. /\ TypeOK /\ o # Idle /\ DOMAIN o = OpFields /\ o.repo \in BothRepos /\ o.stage = "snaps"
      /\ AddsAll(p) /\ RemovesReplaced(p) /\ \A s \in o.new : s.tree \in Tree
  BY AtWork DEF SnapshotsSaved, Stages
<1>2. /\ op' = [op EXCEPT ![p] = n] /\ o.new = {}
      /\ UNCHANGED <<stored, listed, snaps, commands, ever, forgotten>>
  BY DEF SnapshotsSaved
<1>3. /\ DOMAIN n = OpFields /\ n.stage = "delete" /\ n.repo = o.repo /\ n.data = o.data
      /\ n.trees = o.trees /\ n.new = o.new /\ n.del = o.del
  BY <1>1, SameWork
<1> HIDE DEF n
<1>4. op'[p] = n
  BY <1>1, <1>2 DEF TypeOK
<1>5. AddsAll(p)' /\ RemovesReplaced(p)'
  BY <1>1, <1>2, <1>3, <1>4 DEF AddsAll, RemovesReplaced
<1> QED BY <1>1, <1>2, <1>3, <1>5, ReposKept, StepOfOne DEF TypeOK, Stages

\* Snapshots are only removed.
LEMMA SnapshotsRemoved ==
  ASSUME Inv, NEW r \in BothRepos, NEW s, snaps' = [snaps EXCEPT ![r] = @ \ {s}],
         UNCHANGED <<stored, listed, ever>>
  PROVE  /\ DOMAIN stored' = BothRepos /\ DOMAIN listed' = BothRepos /\ DOMAIN snaps' = BothRepos
         /\ \A a \in BothRepos : RepoComplete(a)' /\ \A t \in snaps'[a] : t.tree \in Tree
         /\ snaps'["src"] \subseteq ever' /\ snaps["src"] \ {s} \subseteq snaps'["src"]
         /\ \A t \in ever' : IsSnapshot(t)
         /\ \A a \in BothRepos : listed[a] \subseteq listed'[a] /\ stored[a] \subseteq stored'[a]
         /\ ever \subseteq ever'
<1>1. TypeOK
  BY DEF Inv, OpsInv
<1>2. \A a \in BothRepos : snaps'[a] \subseteq snaps[a] /\ snaps[a] \ {s} \subseteq snaps'[a]
  BY <1>1 DEF TypeOK
<1>3. \A a \in BothRepos : RepoComplete(a)' /\ \A t \in snaps'[a] : t.tree \in Tree
  BY <1>2 DEF Inv, OpsInv, TreesKnown, RepoComplete
<1>4. snaps'["src"] \subseteq ever' /\ snaps["src"] \ {s} \subseteq snaps'["src"]
  BY <1>2 DEF Inv, OpsInv, BothRepos
<1> QED BY <1>1, <1>3, <1>4 DEF TypeOK

\* delete_list: what is removed has been replaced by a snapshot that is there, or that
\* was replaced in turn by one that is.
LEMMA DeleteSnapshotKeeps ==
  ASSUME Inv, NEW p \in Procs, DeleteSnapshot(p)
  PROVE  Inv'
<1> DEFINE o == op[p]
<1>1. /\ TypeOK /\ o # Idle /\ DOMAIN o = OpFields /\ o.repo \in BothRepos /\ o.stage = "delete"
      /\ AddsAll(p) /\ RemovesReplaced(p) /\ \A s \in o.new : s.tree \in Tree
  BY AtWork DEF DeleteSnapshot, Stages
<1>2. PICK s \in o.del :
        /\ snaps' = [snaps EXCEPT ![o.repo] = @ \ {s}]
        /\ op' = [op EXCEPT ![p] = IF s \in snaps[o.repo] THEN [op[p] EXCEPT !.del = @ \ {s}] ELSE Idle]
  BY Zenon DEF DeleteSnapshot
<1>3. UNCHANGED <<stored, listed, commands, ever, forgotten>> /\ commands \in Nat
  BY <1>1 DEF DeleteSnapshot, TypeOK
<1> DEFINE m == [o EXCEPT !.del = @ \ {s}]
           n == IF s \in snaps[o.repo] THEN m ELSE Idle
<1>4. /\ DOMAIN m = OpFields /\ m.stage = "delete" /\ m.repo = o.repo /\ m.data = o.data
      /\ m.trees = o.trees /\ m.new = o.new /\ m.del = o.del \ {s}
  BY <1>1 DEF OpFields
<1>5. op' = [op EXCEPT ![p] = n]
  BY <1>2
<1> HIDE DEF m
<1>6. op'[p] = n
  BY <1>1, <1>5 DEF TypeOK
<1>7. n # Idle => n = m /\ AddsAll(p)' /\ RemovesReplaced(p)'
  BY <1>1, <1>3, <1>4, <1>6 DEF AddsAll, RemovesReplaced
<1>8. LatestKept'
  <2> SUFFICES ASSUME NEW t \in ever, t.original \notin forgotten
               PROVE  \E q \in snaps'["src"] : q.original = t.original /\ Len(q.id) >= Len(t.id)
    BY <1>3 DEF LatestKept
  <2>1. \A a \in ever : Len(a.id) \in Nat
    BY <1>1 DEF TypeOK, IsSnapshot
  <2>2. snaps["src"] \ {s} \subseteq snaps'["src"] /\ snaps["src"] \subseteq ever
    BY <1>1, <1>2, <1>3, SnapshotsRemoved DEF Inv, OpsInv
  <2>3. PICK q \in snaps["src"] : q.original = t.original /\ Len(q.id) >= Len(t.id)
    BY DEF Inv, OpsInv, LatestKept
  <2>4. CASE q # s
    BY <2>2, <2>3, <2>4
  <2>5. CASE q = s
    <3>1. PICK r \in ever : MadeLater(r, s)
      BY <1>1 DEF RemovesReplaced
    <3>2. PICK l \in snaps["src"] : l.original = r.original /\ Len(l.id) >= Len(r.id)
      BY <2>3, <2>5, <3>1 DEF Inv, OpsInv, LatestKept, MadeLater
    <3>3. Len(l.id) > Len(s.id) /\ l.original = s.original
      BY <2>1, <2>2, <2>3, <2>5, <3>1, <3>2 DEF MadeLater
    <3> QED BY <2>1, <2>2, <2>3, <2>5, <3>2, <3>3
  <2> QED BY <2>4, <2>5
<1>9. /\ DOMAIN stored' = BothRepos /\ DOMAIN listed' = BothRepos /\ DOMAIN snaps' = BothRepos
      /\ \A a \in BothRepos : RepoComplete(a)' /\ \A t \in snaps'[a] : t.tree \in Tree
      /\ snaps'["src"] \subseteq ever'
      /\ \A t \in ever' : IsSnapshot(t)
      /\ \A a \in BothRepos : listed[a] \subseteq listed'[a] /\ stored[a] \subseteq stored'[a]
      /\ ever \subseteq ever'
  BY <1>1, <1>2, <1>3, SnapshotsRemoved
<1>10. n # Idle => /\ DOMAIN n = OpFields /\ n.repo \in BothRepos /\ n.stage \in Stages
                   /\ AddsAll(p)' /\ RemovesReplaced(p)' /\ \A t \in n.new : t.tree \in Tree
  BY <1>1, <1>4, <1>7 DEF Stages
<1> HIDE DEF n
<1> QED BY <1>3, <1>5, <1>8, <1>9, <1>10, StepOfOne

LEMMA UserForgetsKeeps ==
  ASSUME Inv, NEW s \in snaps["src"], UserForgets(s)
  PROVE  Inv'
<1>1. /\ commands' = commands + 1 /\ snaps' = [snaps EXCEPT !["src"] = @ \ {s}]
      /\ forgotten' = forgotten \cup {s.original} /\ UNCHANGED <<stored, listed, op, ever>>
  BY DEF UserForgets
<1>2. TypeOK /\ snaps["src"] \subseteq ever
  BY DEF Inv, OpsInv
<1>3. /\ DOMAIN stored' = BothRepos /\ DOMAIN listed' = BothRepos /\ DOMAIN snaps' = BothRepos
      /\ \A a \in BothRepos : RepoComplete(a)' /\ \A t \in snaps'[a] : t.tree \in Tree
      /\ snaps'["src"] \subseteq ever' /\ snaps["src"] \ {s} \subseteq snaps'["src"]
  BY <1>1, SnapshotsRemoved DEF BothRepos
<1>4. TypeOK'
  BY <1>1, <1>2, <1>3 DEF TypeOK
<1>5. ASSUME NEW q \in Procs, op'[q] # Idle
      PROVE  AddsAll(q)' /\ RemovesReplaced(q)' /\ \A t \in op'[q].new : t.tree \in Tree
  <2>1. AddsAll(q) /\ RemovesReplaced(q) /\ \A t \in op[q].new : t.tree \in Tree
    BY <1>1, <1>5 DEF Inv, OpsInv, TreesKnown
  <2> QED BY <1>1, <2>1 DEF AddsAll, RemovesReplaced
<1>6. LatestKept'
  <2> SUFFICES ASSUME NEW t \in ever, t.original \notin forgotten, t.original # s.original
               PROVE  \E q \in snaps'["src"] : q.original = t.original /\ Len(q.id) >= Len(t.id)
    BY <1>1 DEF LatestKept
  <2>1. PICK q \in snaps["src"] : q.original = t.original /\ Len(q.id) >= Len(t.id)
    BY DEF Inv, OpsInv, LatestKept
  <2> QED BY <1>3, <2>1
<1> QED BY <1>3, <1>4, <1>5, <1>6 DEF Inv, OpsInv, TreesKnown

(***************************************************************************)
(* Commands start                                                          *)
(***************************************************************************)

\* A command that is as it should be when it starts.
LEMMA StartKeeps ==
  ASSUME Inv, NEW p \in Procs, NEW o, Start(p, o),
         DOMAIN o = OpFields, o.repo \in BothRepos, o.stage \in {"data", "trees"},
         o.stage = "data" \/ o.data = {},
         \A s \in o.new : /\ IsSnapshot(s) /\ s.tree \in Tree
                          /\ BlobsUnder(s.tree) \subseteq listed[o.repo] \cup o.data \cup o.trees,
         \A s \in o.del : o.repo = "src" /\ s \in ever /\ \E q \in o.new : MadeLater(q, s)
  PROVE  Inv'
<1>1. /\ op' = [op EXCEPT ![p] = o] /\ commands' = commands + 1
      /\ UNCHANGED <<stored, listed, snaps, ever, forgotten>>
  BY DEF Start
<1>2. op'[p] = o /\ commands' \in Nat
  BY <1>1 DEF Inv, OpsInv, TypeOK
<1>3. AddsAll(p)'
  BY <1>1, <1>2 DEF AddsAll
<1>4. RemovesReplaced(p)'
  BY <1>1, <1>2 DEF RemovesReplaced
<1> QED BY <1>1, <1>2, <1>3, <1>4, ReposKept, StepOfOne DEF Stages

LEMMA RewriteStartKeeps ==
  ASSUME Inv, OpsKeepData, NEW p \in Procs, NEW m, NEW trees \in BOOLEAN, NEW forget \in BOOLEAN,
         RewriteStart(p, snaps["src"], m, trees, forget)
  PROVE  Inv'
<1> DEFINE n(s) == apply_to(m, s)
           rewritten(s) == IF trees THEN [n(s) EXCEPT !.tree = Rewrite(@), !.summary = "right"] ELSE n(s)
           tagged(s) == IF forget THEN s ELSE [s EXCEPT !.tags = @ \cup {"rewrite"}]
           changed == {s \in snaps["src"] : rewritten(s) # s}
           saved(s) == [tagged(rewritten(s)) EXCEPT !.id = NewId(@)]
           o == [kind |-> "rewrite", repo |-> "src", inputs |-> {},
                 data |-> {},
                 trees |-> (UNION {TreesUnder(rewritten(s).tree) : s \in changed}) \ listed["src"],
                 new |-> {saved(s) : s \in changed},
                 del |-> IF forget THEN changed ELSE {},
                 stage |-> "trees"]
<1>1. Start(p, o)
  BY Zenon DEF RewriteStart
<1> HIDE DEF n, rewritten, tagged, saved
<1>2. /\ DOMAIN o = OpFields /\ o.repo = "src" /\ o.stage = "trees" /\ o.data = {}
      /\ o.trees = (UNION {TreesUnder(rewritten(s).tree) : s \in changed}) \ listed["src"]
      /\ o.new = {saved(s) : s \in changed} /\ o.del \subseteq changed
  BY DEF OpFields
<1>3. ASSUME NEW s \in snaps["src"]
      PROVE  /\ IsSnapshot(saved(s)) /\ MadeLater(saved(s), s) /\ s \in ever
             /\ saved(s).tree = rewritten(s).tree /\ saved(s).tree \in Tree
             /\ DataUnder(saved(s).tree) \subseteq listed["src"]
  <2>1. IsSnapshot(s) /\ s.tree \in Tree /\ BlobsUnder(s.tree) \subseteq listed["src"] /\ s \in ever
        /\ commands \in Nat
    BY DEF Inv, OpsInv, TypeOK, RepoComplete, TreesKnown, BothRepos
  <2>2. IsSnapshot(n(s)) /\ n(s).id = s.id /\ n(s).original = s.original /\ n(s).tree = s.tree
    BY <2>1, Modified DEF n
  <2>3. /\ IsSnapshot(rewritten(s)) /\ rewritten(s).id = s.id /\ rewritten(s).original = s.original
        /\ rewritten(s).tree = IF trees THEN Rewrite(s.tree) ELSE s.tree
    BY <2>2 DEF IsSnapshot, SnapshotFields, rewritten
  <2>4. /\ IsSnapshot(tagged(rewritten(s))) /\ tagged(rewritten(s)).id = s.id
        /\ tagged(rewritten(s)).original = s.original /\ tagged(rewritten(s)).tree = rewritten(s).tree
    BY <2>3 DEF IsSnapshot, SnapshotFields, tagged
  <2>5. NewId(s.id) \in Seq(Nat) /\ Len(NewId(s.id)) > Len(s.id)
    BY <2>1, NewIdLonger DEF IsSnapshot
  <2>6. /\ DOMAIN saved(s) = SnapshotFields /\ saved(s).id = NewId(s.id)
        /\ saved(s).original = s.original /\ saved(s).tree = rewritten(s).tree
    BY <2>4 DEF IsSnapshot, SnapshotFields, saved
  <2>7. DataUnder(s.tree) \subseteq listed["src"]
    BY <2>1 DEF BlobsUnder
  <2>8. rewritten(s).tree \in Tree /\ DataUnder(rewritten(s).tree) \subseteq listed["src"]
    BY <2>1, <2>3, <2>7 DEF OpsKeepData
  <2> QED BY <2>1, <2>5, <2>6, <2>8 DEF IsSnapshot, MadeLater
<1> HIDE DEF o
<1>4. ASSUME NEW q \in o.new
      PROVE  IsSnapshot(q) /\ q.tree \in Tree /\ BlobsUnder(q.tree) \subseteq listed["src"] \cup o.data \cup o.trees
  <2>1. PICK s \in changed : q = saved(s)
    BY <1>2
  <2>2. TreesUnder(q.tree) \subseteq listed["src"] \cup o.trees
    BY <1>2, <1>3, <2>1
  <2> QED BY <1>3, <2>1, <2>2 DEF BlobsUnder
<1>5. ASSUME NEW s \in o.del
      PROVE  s \in ever /\ \E q \in o.new : MadeLater(q, s)
  BY <1>2, <1>3
<1> QED BY <1>1, <1>2, <1>4, <1>5, StartKeeps DEF BothRepos

\* What the requests of a merge are answered with are snapshots of the repository.
LEMMA Chosen ==
  ASSUME NEW S, NEW requests, NEW f \in from_strs(S, requests), Missing \notin Range(f)
  PROVE  Range(f) \subseteq S
<1> SUFFICES ASSUME NEW i \in DOMAIN requests  PROVE f[i] \in S
  BY DEF from_strs, Range
<1>1. f[i] \in Answers(S, requests[i]) /\ f[i] # Missing
  BY DEF from_strs, Range
<1> QED BY <1>1 DEF Answers, latest_n

LEMMA MergeStartKeeps ==
  ASSUME Inv, OpsKeepData, NEW p \in Procs, NEW requests, MergeStart(p, requests)
  PROVE  Inv'
<1>1. PICK sel \in from_strs(snaps["src"], requests) :
        /\ Missing \notin Range(sel)
        /\ LET inputs == {s.tree : s \in Range(sel)}
               newest == CHOOSE s \in Range(sel) : \A o \in Range(sel) : o.time <= s.time
               tree == Merge(inputs)
           IN  Start(p, [kind |-> "merge", repo |-> "src", inputs |-> inputs,
                         data |-> {}, trees |-> TreesUnder(tree) \ listed["src"],
                         new |-> {[id |-> NewId(<<>>), original |-> NewId(<<>>), tree |-> tree,
                                   time |-> newest.time, tags |-> {}, label |-> "none",
                                   delete |-> "not set", summary |-> "right"]},
                         del |-> {}, stage |-> "trees"])
  BY Zenon DEF MergeStart
<1> DEFINE inputs == {s.tree : s \in Range(sel)}
           newest == CHOOSE s \in Range(sel) : \A o \in Range(sel) : o.time <= s.time
           tree == Merge(inputs)
           q == [id |-> NewId(<<>>), original |-> NewId(<<>>), tree |-> tree,
                 time |-> newest.time, tags |-> {}, label |-> "none",
                 delete |-> "not set", summary |-> "right"]
           o == [kind |-> "merge", repo |-> "src", inputs |-> inputs,
                 data |-> {}, trees |-> TreesUnder(tree) \ listed["src"],
                 new |-> {q}, del |-> {}, stage |-> "trees"]
<1>2. Start(p, o) /\ Missing \notin Range(sel)
  BY <1>1, Zenon
<1>3. \A s \in Range(sel) : s.tree \in Tree /\ DataUnder(s.tree) \subseteq listed["src"]
  <2> HIDE DEF o
  <2>1. Range(sel) \subseteq snaps["src"]
    BY <1>2, Chosen
  <2> QED BY <2>1 DEF Inv, OpsInv, RepoComplete, TreesKnown, BothRepos, BlobsUnder
<1>4. tree \in Tree /\ DataUnder(tree) \subseteq listed["src"]
  BY <1>3 DEF OpsKeepData
<1>5. NewId(<<>>) \in Seq(Nat)
  <2>1. commands \in Nat /\ <<>> \in Seq(Nat)
    BY DEF Inv, OpsInv, TypeOK
  <2> QED BY <2>1, NewIdLonger
<1> HIDE DEF tree, newest
<1>6. IsSnapshot(q) /\ q.tree = tree
  BY <1>5 DEF IsSnapshot, SnapshotFields
<1> HIDE DEF q, inputs
<1>7. /\ DOMAIN o = OpFields /\ o.repo = "src" /\ o.stage = "trees" /\ o.data = {}
      /\ o.trees = TreesUnder(tree) \ listed["src"] /\ o.new = {q} /\ o.del = {}
  BY DEF OpFields
<1> HIDE DEF o
<1>8. BlobsUnder(q.tree) \subseteq listed["src"] \cup o.data \cup o.trees
  BY <1>4, <1>6, <1>7 DEF BlobsUnder
<1> QED BY <1>2, <1>4, <1>6, <1>7, <1>8, StartKeeps DEF BothRepos

\* copy reads what the index of the source lists, which is all of its snapshots.
LEMMA CopyStartKeeps ==
  ASSUME Inv, NEW p \in Procs, CopyStart(p, snaps["src"])
  PROVE  Inv'
<1> DEFINE relevant == relevant_snapshots(snaps["src"])
           needed(blobs) == (blobs \ listed["dst"]) \cap listed["src"]
           saved(s) == [s EXCEPT !.id = NewId(@)]
           o == [kind |-> "copy", repo |-> "dst", inputs |-> {},
                 data |-> needed(UNION {DataUnder(s.tree) : s \in relevant}),
                 trees |-> needed(UNION {TreesUnder(s.tree) : s \in relevant}),
                 new |-> {saved(s) : s \in relevant},
                 del |-> {}, stage |-> "data"]
<1>1. Start(p, o)
  BY DEF CopyStart
<1>2. relevant \subseteq snaps["src"]
  BY DEF relevant_snapshots
<1> HIDE DEF relevant
<1>3. ASSUME NEW s \in relevant
      PROVE  /\ IsSnapshot(saved(s)) /\ saved(s).tree = s.tree /\ s.tree \in Tree
             /\ DataUnder(s.tree) \subseteq listed["src"] /\ TreesUnder(s.tree) \subseteq listed["src"]
  <2>1. IsSnapshot(s) /\ s.tree \in Tree /\ BlobsUnder(s.tree) \subseteq listed["src"] /\ commands \in Nat
    BY <1>2 DEF Inv, OpsInv, TypeOK, RepoComplete, TreesKnown, BothRepos
  <2>2. NewId(s.id) \in Seq(Nat)
    BY <2>1, NewIdLonger DEF IsSnapshot
  <2> QED BY <2>1, <2>2 DEF IsSnapshot, SnapshotFields, BlobsUnder
<1> HIDE DEF saved
<1>4. /\ DOMAIN o = OpFields /\ o.repo = "dst" /\ o.stage = "data"
      /\ o.data = needed(UNION {DataUnder(s.tree) : s \in relevant})
      /\ o.trees = needed(UNION {TreesUnder(s.tree) : s \in relevant})
      /\ o.new = {saved(s) : s \in relevant} /\ o.del = {}
  BY DEF OpFields
<1> HIDE DEF o
<1>5. ASSUME NEW q \in o.new
      PROVE  IsSnapshot(q) /\ q.tree \in Tree /\ BlobsUnder(q.tree) \subseteq listed["dst"] \cup o.data \cup o.trees
  <2>1. PICK s \in relevant : q = saved(s)
    BY <1>4
  <2>2. DataUnder(s.tree) \subseteq listed["dst"] \cup o.data /\ TreesUnder(s.tree) \subseteq listed["dst"] \cup o.trees
    BY <1>3, <1>4
  <2> QED BY <1>3, <2>1, <2>2 DEF BlobsUnder
<1> QED BY <1>1, <1>4, <1>5, StartKeeps DEF BothRepos

(***************************************************************************)
(* Theorems                                                                *)
(***************************************************************************)

LEMMA InitHolds ==
  ASSUME SetupsOfTrees, Init
  PROVE  Inv
<1>1. PICK r \in Setups :
        /\ stored = r.stored /\ listed = r.stored /\ snaps = r.snaps
        /\ op = [p \in Procs |-> Idle] /\ commands = 0
        /\ ever = r.snaps["src"] /\ forgotten = {}
  BY DEF Init
<1>2. \A a \in BothRepos : \A s \in snaps[a] : IsSnapshot(s) /\ BlobsUnder(s.tree) \subseteq stored[a]
  BY <1>1, SetupsAssumption
<1>3. TypeOK
  BY <1>1, <1>2, SetupsAssumption DEF TypeOK, BothRepos
<1>4. \A a \in BothRepos : RepoComplete(a)
  BY <1>1, <1>2 DEF RepoComplete
<1>5. LatestKept
  <2>1. \A s \in ever : Len(s.id) >= Len(s.id)
    BY <1>3 DEF TypeOK, IsSnapshot
  <2> QED BY <1>1, <2>1 DEF LatestKept
<1>6. TreesKnown
  BY <1>1 DEF TreesKnown, SetupsOfTrees
<1> QED BY <1>1, <1>3, <1>4, <1>5, <1>6 DEF Inv, OpsInv

LEMMA StepHolds ==
  ASSUME OpsKeepData, Inv, [Next]_vars
  PROVE  Inv'
<1>1. ASSUME NEW p \in Procs,
             \/ \E m \in Modifications, trees, forget \in BOOLEAN : RewriteStart(p, snaps["src"], m, trees, forget)
             \/ \E r \in Requests : MergeStart(p, r)
             \/ CopyStart(p, snaps["src"])
      PROVE  Inv'
  BY <1>1, RewriteStartKeeps, MergeStartKeeps, CopyStartKeeps
<1>2. ASSUME NEW p \in Procs, WriteData(p) \/ WriteTrees(p) \/ WriteIndex(p)  PROVE Inv'
  BY <1>2, WriteDataKeeps, WriteTreesKeeps, WriteIndexKeeps
<1>3. ASSUME NEW p \in Procs, SaveSnapshot(p) \/ SnapshotsSaved(p) \/ DeleteSnapshot(p)  PROVE Inv'
  BY <1>3, SaveSnapshotKeeps, SnapshotsSavedKeeps, DeleteSnapshotKeeps
<1>4. ASSUME NEW p \in Procs, Done(p) \/ Crash(p)  PROVE Inv'
  BY <1>4, StopKeeps
<1>5. ASSUME NEW s \in snaps["src"], UserForgets(s)  PROVE Inv'
  BY <1>5, UserForgetsKeeps
<1>6. CASE UNCHANGED vars
  <2>1. UNCHANGED <<stored, listed, snaps, op, commands, ever, forgotten>>
    BY <1>6 DEF vars
  <2>2. \A q \in Procs : op[q] # Idle => AddsAll(q)' /\ RemovesReplaced(q)'
    BY <2>1 DEF Inv, OpsInv, AddsAll, RemovesReplaced
  <2> QED BY <2>1, <2>2, ReposKept DEF Inv, OpsInv, TypeOK, TreesKnown
<1> QED BY <1>1, <1>2, <1>3, <1>4, <1>5, <1>6 DEF Next

LEMMA Invariance ==
  ASSUME OpsKeepData, SetupsOfTrees
  PROVE  Spec => []Inv
BY InitHolds, StepHolds, PTL DEF Spec

\* Every snapshot of either repository can be restored at any time, also after a crash:
\* copy, merge_snapshots and process_snapshots save snapshots last.
THEOREM SnapshotsStayComplete ==
  ASSUME OpsKeepData, SetupsOfTrees
  PROVE  Spec => []SnapsComplete
<1>1. Inv => SnapsComplete
  BY DEF Inv, OpsInv, TypeOK, RepoComplete, SnapsComplete, Repos
<1> QED BY <1>1, Invariance, PTL

\* No rewrite loses a snapshot, even when two of them work on it or one is interrupted:
\* process_snapshots removes a snapshot after it has saved the one made from it.
THEOREM NoRewriteLosesSnapshot ==
  ASSUME OpsKeepData, SetupsOfTrees
  PROVE  Spec => []NothingForgotten
<1>1. Inv => NothingForgotten
  BY DEF Inv, OpsInv, LatestKept, NothingForgotten
<1> QED BY <1>1, Invariance, PTL

=============================================================================
