----------------------------- MODULE MCSnapshots -----------------------------
(***************************************************************************)
(* What becomes of snapshots, one at a time: a retention policy removes    *)
(* them, and rewrite, merge and copy make others of them.                  *)
(***************************************************************************)
EXTENDS SnapshotOps, TreeOps

CONSTANTS d1, d2, d3,    \* data blobs
          p1, p2,        \* processes
          Calendar, Hosts, Deletes, Policies, MaxSnapshots

VARIABLES topic,         \* "forget" or "ops"
          now, f_snaps, made, given, policy, append_only  \* see Forget

F == INSTANCE Forget WITH snaps <- f_snaps, Trees <- {"t", "u"}

\* Its options, with which policies are written down
K == INSTANCE Forget WITH snaps <- f_snaps, Trees <- {}, Policies <- {}, Deletes <- {}, Calendar <- <<>>

(***************************************************************************)
(* Times and policies for Forget                                           *)
(***************************************************************************)
instant(at, date, iso_week, time) ==
  [at |-> at, year |-> date[1], month |-> date[2], doy |-> date[3],
   week_year |-> iso_week[1], week |-> iso_week[2], hour |-> time[1], minute |-> time[2]]

\* In minutes since the first.
McCalendar ==
  << instant(0,       <<2022, 6, 152>>, <<2022, 22>>, <<10, 30>>),    \* 2022-06-01 10:30
     instant(308160,  <<2023, 1, 1>>,   <<2022, 52>>, <<10, 30>>),    \* 2023-01-01 10:30
     instant(833760,  <<2024, 1, 1>>,   <<2024, 1>>,  <<10, 30>>),    \* 2024-01-01 10:30
     instant(833820,  <<2024, 1, 1>>,   <<2024, 1>>,  <<11, 30>>),
     instant(833835,  <<2024, 1, 1>>,   <<2024, 1>>,  <<11, 45>>),
     instant(884160,  <<2024, 2, 36>>,  <<2024, 6>>,  <<10, 30>>) >>  \* 2024-02-05 10:30

\* The Mondays of two weeks that are the first of their years: 2024-12-30 is
\* in the first week of 2025.
McTurnOfYear ==
  << instant(0,       <<2023, 6, 152>>, <<2023, 22>>, <<10, 30>>),    \* 2023-06-01 10:30
     instant(308160,  <<2024, 1, 1>>,   <<2024, 1>>,  <<10, 30>>),    \* 2024-01-01 10:30
     instant(832320,  <<2024, 12, 365>>, <<2025, 1>>, <<10, 30>>) >>  \* 2024-12-30 10:30

keep(counters) ==
  [K!NoKeep EXCEPT !.keep = [r \in K!Rules |-> IF r \in DOMAIN counters THEN <<counters[r]>> ELSE <<>>]]

McPolicies ==
  { keep([hourly |-> 2]), keep([daily |-> 2]),
    keep([daily |-> 2, hourly |-> 1, yearly |-> -1]),
    keep([weekly |-> 1, monthly |-> 2]),
    keep([last |-> 1, quarter_yearly |-> 2, half_yearly |-> 2]),
    [keep([last |-> 1]) EXCEPT !.within["daily"] = <<60000>>],
    [keep([last |-> -1]) EXCEPT !.delete_unchanged = TRUE],
    [K!NoKeep EXCEPT !.ids = {1}, !.none = TRUE],
    K!NoKeep }

McWeekly == {keep([weekly |-> -1])}
McMinutely == {keep([minutely |-> -1])}

McDeletes == {K!NotSet, K!After(70)}

(***************************************************************************)
(* Repositories and commands for SnapshotOps                               *)
(***************************************************************************)
file(name, mtime, content) ==
  [name |-> name, type |-> "file", mtime |-> mtime, content |-> content, subtree |-> <<>>]
dir(name, mtime, subtree) ==
  [name |-> name, type |-> "dir", mtime |-> mtime, content |-> <<>>, subtree |-> <<subtree>>]

\* /1/3 goes, and so does a file /2.
McExcluded(path, is_dir) == path = <<1, 3>> \/ (path = <<2>> /\ ~is_dir)
McModify(n) == n

McRewrite(t) == RewriteRoot(t)
\* One of the results: which one matters to TreesExact only.
McMerge(trees) == CHOOSE t \in merge_trees(SetToSeq(trees)) : TRUE

sub1 == <<file(2, 1, <<d1>>), file(3, 1, <<d2>>)>>
sub2 == <<file(3, 1, <<d3>>), file(4, 1, <<d1>>)>>
root1 == <<dir(1, 1, sub1), file(2, 1, <<d1>>)>>
root2 == <<dir(1, 3, sub2), dir(2, 2, sub1)>>
root3 == <<file(1, 2, <<d3>>), file(3, 1, <<>>)>>

snap(i, t, time) ==
  [id |-> <<0, i>>, original |-> <<0, i>>, tree |-> t, time |-> time, tags |-> {}, label |-> "none",
   delete |-> "not set", summary |-> IF i = 1 THEN "right" ELSE "none"]

blobs(trees) == UNION {BlobsUnder(t) : t \in trees}
setup(S, D) ==
  [snaps |-> [r \in {"src", "dst"} |-> IF r = "src" THEN S ELSE D],
   stored |-> [r \in {"src", "dst"} |-> blobs({s.tree : s \in IF r = "src" THEN S ELSE D})]]

McSetups ==
  { setup({snap(1, root1, 1), snap(2, root2, 2)}, {}),
    setup({snap(1, root1, 1), snap(2, root3, 1)}, {snap(1, root2, 1)}) }

none == [set_tags |-> {}, add_tags |-> {}, remove_tags |-> {}, set_label |-> <<>>, set_time |-> <<>>,
         set_delete |-> <<>>]
McModifications == {none, [none EXCEPT !.add_tags = {"a"}, !.set_time = <<2>>]}

\* What the theorems about SnapshotOps take for granted of the trees that are made
McTrees == {root1, root2, root3, sub1, sub2}
ASSUME McDataAssumption ==
  /\ \A t \in McTrees : DataUnder(Rewrite(t)) \subseteq DataUnder(t)
  /\ \A ts \in SUBSET McTrees : DataUnder(Merge(ts)) \subseteq UNION {DataUnder(t) : t \in ts}

McRequests == {<<Latest(0), Latest(1)>>, <<Latest(1), StartsWith({<<0, 1>>, <<0, 3>>})>>, <<Latest(0), ById(<<0, 3>>)>>}

Symmetry == Permutations(Procs)

-----------------------------------------------------------------------------
forgetVars == <<now, f_snaps, made, given, policy, append_only>>

ForgetIdle == now = 1 /\ f_snaps = {} /\ made = {} /\ given = {} /\ policy = F!NoKeep /\ append_only = FALSE
OpsIdle ==
  /\ stored = <<>> /\ listed = <<>> /\ snaps = <<>> /\ op = [p \in Procs |-> Idle]
  /\ commands = 0 /\ crashes = 0 /\ ever = {} /\ forgotten = {}

SnapshotsInit ==
  \/ topic = "forget" /\ F!ForgetInit /\ OpsIdle
  \/ topic = "ops" /\ Init /\ ForgetIdle

SnapshotsNext ==
  \/ topic = "forget" /\ F!ForgetNext /\ UNCHANGED <<topic, vars>>
  \/ topic = "ops" /\ Next /\ UNCHANGED <<topic, forgetVars>>

SnapshotsSpec == SnapshotsInit /\ [][SnapshotsNext]_<<topic, vars, forgetVars>>

-----------------------------------------------------------------------------
\* Trees that are merged (one of them twice) and rewritten are those of the definition
\* by paths.
TreesExact ==
  \A p \in Procs : op[p].stage = "trees" =>
    /\ op[p].kind = "merge" => \A u \in op[p].inputs : MergeExact(Append(SetToSeq(op[p].inputs), u))
    /\ op[p].kind = "rewrite" => \A s \in snaps["src"] : RewriteExact(s.tree)

\* Applying a policy early and often, and being interrupted at it, loses nothing that
\* it would keep now, and no content (see Forget).
HistoryKept == F!HistoryKept

\* What a policy keeps is what its counters are documented to keep (see Forget): with
\* McCalendar and McPolicies, but neither with McTurnOfYear nor with McMinutely.
RetentionExact == F!RetentionExact
=============================================================================
