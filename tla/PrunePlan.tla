----------------------------- MODULE PrunePlan -----------------------------
(***************************************************************************)
(* The planning half of `prune`: PrunePlan::from_prune_options in          *)
(* crates/core/src/commands/prune.rs, phase by phase.                      *)
(*                                                                         *)
(*   New            one entry per pack, however often index files list it  *)
(*   CountUsed      how many entries hold each used blob (saturating)      *)
(*   DecidePack     one pack after the other, marked packs first: is it    *)
(*                  the last one left for some used blob?                  *)
(*   DecideRepack   one repack candidate after the other, worst ratio      *)
(*                  first, until a limit is reached; DecideResize          *)
(*   CheckPacks     packs which are to stay or to be read must exist       *)
(*   FilterIndex    which index files are rebuilt                          *)
(*                                                                         *)
(* BackupPrune takes any plan that keeps PrunePromise; this module shows   *)
(* that the algorithm keeps it, for any index, also one with duplicates.   *)
(*                                                                         *)
(* Abstractions.  The size of a pack is the sum of its blobs' lengths: the *)
(* header is left out.  Whether a blob is compressed belongs to the blob.  *)
(***************************************************************************)
EXTENDS Integers, Sequences, SequencesExt, FiniteSets, PrunePromise

CONSTANTS Blob,
          TreeBlob,     \* the blobs that are trees; the others are data
          Plain,        \* the blobs that are not compressed
          Length,       \* Length[x]: bytes of blob x in a pack
          Inputs,       \* families of what a run of prune can find, see VARIABLE in
          Now,          \* PrunePlan::time
          MaxCount,     \* limit of the saturating counters (255)
          MinIndexLen,  \* index files with fewer blobs are rebuilt
          TargetSize,   \* PackSizer::pack_size of both blob types
          MinPercent,   \* tolerated pack size in percent of the target ...
          MaxPercent,   \* ... and its upper limit
          NoTime,       \* an entry without a time
          Infinite      \* u64::MAX

ASSUME PlanAssumption ==
    /\ TreeBlob \subseteq Blob /\ Plain \subseteq Blob
    /\ Length \in [Blob -> Nat \ {0}]
    /\ Now \in Nat /\ MaxCount \in Nat \ {0} /\ NoTime \notin Int
    /\ {MinIndexLen, TargetSize, MinPercent, MaxPercent, Infinite} \subseteq Nat

VARIABLES
    in,      \* the index files, snapshots, stored packs and options
    pc,      \* the phase
    plan,    \* plan[p]: the PrunePack of pack p
    dirty,   \* the index files in which duplicates have been found
    undecided, \* packs on which decide_packs has not decided yet
    count,   \* count[x]: used_ids, the counter of used blob x
    cand,    \* repack_candidates
    resize,  \* resize_packs
    stats,   \* sizes: used, unused, remove, repackrm
    volume,  \* repack_size per blob type
    forced,  \* do_repack: blob types repacked for another reason than size
    keepIds, \* used_ids that repacking still has to save
    unref,   \* existing_packs that are in no index file
    rebuild  \* the index files to process

vars == <<in, pc, plan, dirty, undecided, count, cand, resize, stats, volume, forced,
          keepIds, unref, rebuild>>

(***************************************************************************)
(* Input: files is a sequence of index files with sections `packs` and     *)
(* `packs_to_delete`, each a sequence of entries [id, time, blobs]; used   *)
(* are the blobs of the snapshots; stored are the packs on the backend,    *)
(* intact those with the size the index tells; opts are the options.       *)
(***************************************************************************)
SectionName == {"packs", "packs_to_delete"}
EntryOK(e) == e.time \in Nat \cup {NoTime} /\ e.blobs \in Seq(Blob)

ASSUME InputAssumption ==
    \A family \in DOMAIN Inputs : \A input \in Inputs[family] :
        /\ DOMAIN input.files \subseteq Nat /\ IsFiniteSet(DOMAIN input.files)
        /\ \A i \in DOMAIN input.files : \A s \in SectionName :
              LET section == input.files[i][s]
              IN /\ DOMAIN section \subseteq Nat /\ IsFiniteSet(DOMAIN section)
                 /\ \A k \in DOMAIN section : EntryOK(section[k])
        /\ \A limit \in {input.opts.max_repack, input.opts.max_unused} :
              limit.kind \in {"unlimited", "size", "percent"} /\ limit.n \in Nat

BlobType == {"tree", "data"}
TypeOf(blobs) == IF blobs # <<>> /\ blobs[1] \in TreeBlob THEN "tree" ELSE "data"

\* The bytes of the blobs at some places of a pack, or at all of them
SumTo(f, n) == LET sum[k \in 0 .. n] == IF k = 0 THEN 0 ELSE sum[k - 1] + f[k] IN sum[n]
SizeAt(blobs, places) ==
    SumTo([k \in DOMAIN blobs |-> IF k \in places THEN Length[blobs[k]] ELSE 0], Len(blobs))
SizeOf(blobs) == SizeAt(blobs, DOMAIN blobs)

Reasons == {"PartlyUsed", "ToCompress", "SizeMismatch"}
Todos == {"Undecided", "Keep", "Repack", "MarkDelete", "KeepMarked",
          "KeepMarkedAndCorrect", "Recover", "Delete"}

NoStats == [used |-> 0, unused |-> 0, remove |-> 0, repackrm |-> 0]

Init ==
    /\ \E family \in DOMAIN Inputs : in \in Inputs[family]
    /\ pc = "new"
    /\ plan = <<>> /\ dirty = {} /\ undecided = {} /\ count = <<>>
    /\ cand = {} /\ resize = {} /\ stats = NoStats
    /\ volume = [t \in BlobType |-> 0] /\ forced = {}
    /\ keepIds = {} /\ unref = {} /\ rebuild = {}

-----------------------------------------------------------------------------
(***************************************************************************)
(* New                                                                     *)
(***************************************************************************)

\* The entries of a section, each with its file and its place in it.  Files are read
\* one after the other.
SectionOf(files, s) ==
    UNION {{[file |-> i, pos |-> k, entry |-> files[i][s][k]] : k \in DOMAIN files[i][s]} :
              i \in DOMAIN files}
Section(s) == SectionOf(in.files, s)
ReadBefore(e, f) == e.file < f.file \/ (e.file = f.file /\ e.pos < f.pos)
IdsOf(section) == {e.entry.id : e \in section}

\* Of several entries of a pack the first is taken ...
Listings(section, p) == {e \in section : e.entry.id = p}
FirstOf(section, p) ==
    CHOOSE e \in Listings(section, p) : \A f \in Listings(section, p) : ~ReadBefore(f, e)

PrunePackOf(section, p, mark) ==
    LET e == FirstOf(section, p)
    IN [file |-> e.file, pos |-> e.pos, mark |-> mark, time |-> e.entry.time,
        blobs |-> e.entry.blobs, todo |-> "Undecided"]

\* ... and an index file is modified if one of its entries is another one.
Duplicates(section, i) ==
    \E e \in section : e.file = i /\ \E f \in Listings(section, e.entry.id) : ReadBefore(f, e)

\* The packs that some index file lists as not marked.
Normal == IdsOf(Section("packs"))
Marked == IdsOf(Section("packs_to_delete")) \ Normal

New ==
    /\ pc = "new"
    /\ plan' = [p \in Normal \cup Marked |->
                   IF p \in Normal THEN PrunePackOf(Section("packs"), p, FALSE)
                                   ELSE PrunePackOf(Section("packs_to_delete"), p, TRUE)]
    /\ dirty' = {i \in DOMAIN in.files :
                    \/ Duplicates(Section("packs"), i)
                    \/ Duplicates(Section("packs_to_delete"), i)
                    \/ \E k \in DOMAIN in.files[i].packs_to_delete :
                          in.files[i].packs_to_delete[k].id \in Normal}
    /\ undecided' = DOMAIN plan'
    /\ pc' = "count"
    /\ UNCHANGED <<in, count, cand, resize, stats, volume, forced, keepIds, unref, rebuild>>

(***************************************************************************)
(* CountUsed, and the check that no used blob is missing                   *)
(***************************************************************************)
Times(x, blobs) == Cardinality({k \in DOMAIN blobs : blobs[k] = x})
Occurrences(x, p) == {<<p, k>> : k \in {j \in DOMAIN plan[p].blobs : plan[p].blobs[j] = x}}
Copies(x, packs) == Cardinality(UNION {Occurrences(x, p) : p \in packs})

Saturated(n) == IF n > MaxCount THEN MaxCount ELSE n
Counters == [x \in in.used |-> Saturated(Copies(x, DOMAIN plan))]

CountUsed ==
    /\ pc = "count"
    /\ count' = Counters
    /\ pc' = IF \E x \in in.used : count'[x] = 0 THEN "error" ELSE "decide"
    /\ UNCHANGED <<in, plan, dirty, undecided, cand, resize, stats, volume, forced, keepIds,
                   unref, rebuild>>

-----------------------------------------------------------------------------
(***************************************************************************)
(* DecidePack                                                              *)
(***************************************************************************)

\* Mutant of NeededFor: duplicates of a blob in one pack are not counted.
NeededOnce(blobs) == \E x \in ToSet(blobs) \cap in.used : count[x] = 1

\* The pack is the last one that is left for some used blob, counting the
\* duplicates within the pack.
NeededFor(blobs) == \E x \in ToSet(blobs) \cap in.used : count[x] > 0 /\ Times(x, blobs) >= count[x]

\* PackInfo: a pack that is needed at all serves all blobs not yet served.
ServedBy(blobs) ==
    IF NeededFor(blobs) THEN {x \in ToSet(blobs) \cap in.used : count[x] > 0} ELSE {}

CountAfter(blobs) ==
    [x \in in.used |->
        IF x \notin ToSet(blobs) \/ count[x] = 0 THEN count[x]
        ELSE IF NeededFor(blobs) THEN 0
        ELSE count[x] - Times(x, blobs)]

\* Of the places of a blob within the pack one counts as used, the others do not.
Counted(blobs) ==
    {k \in DOMAIN blobs : blobs[k] \in ServedBy(blobs) /\ \A j \in 1 .. k - 1 : blobs[j] # blobs[k]}
UsedSize(blobs) == SizeAt(blobs, Counted(blobs))
HasUnused(blobs) == Counted(blobs) # DOMAIN blobs

Older(time, age) == time # NoTime /\ Now - age >= time
TooYoung(p) == plan[p].time # NoTime /\ plan[p].time > Now - in.opts.keep_pack
KeepUncacheable(p) == in.opts.cacheable_only /\ TypeOf(plan[p].blobs) # "tree"
ToCompress(p) == in.opts.uncompressed /\ ToSet(plan[p].blobs) \cap Plain # {}
SizeMismatch(p) ==
    \/ SizeOf(plan[p].blobs) * 100 < TargetSize * MinPercent
    \/ SizeOf(plan[p].blobs) * 100 > TargetSize * MaxPercent

DecideMarked(p) ==
    IF ServedBy(plan[p].blobs) # {} THEN "Recover"
    ELSE IF plan[p].time = NoTime THEN "KeepMarkedAndCorrect"
    ELSE IF Older(plan[p].time, in.opts.keep_delete) THEN "Delete"
    ELSE "KeepMarked"

\* What to do with an unmarked pack, or why it is a candidate for repacking.
DecideNormal(p) ==
    IF ServedBy(plan[p].blobs) = {}
    THEN IF TooYoung(p) THEN "Keep" ELSE "MarkDelete"
    ELSE IF TooYoung(p) \/ KeepUncacheable(p) THEN "Keep"
    ELSE IF HasUnused(plan[p].blobs) THEN "PartlyUsed"
    ELSE IF ToCompress(p) \/ in.opts.repack_all THEN "ToCompress"
    ELSE IF SizeMismatch(p) THEN "SizeMismatch"
    ELSE "Keep"

Decision(p) == IF plan[p].mark THEN DecideMarked(p) ELSE DecideNormal(p)

\* PrunePack::set_todo with its effect on the sizes.
StatsAfter(st, todo, unusedSize) ==
    CASE todo = "Repack" -> [st EXCEPT !.repackrm = @ + unusedSize]
      [] todo = "MarkDelete" -> [st EXCEPT !.remove = @ + unusedSize]
      [] OTHER -> st

\* The loop over the marked packs comes first; each goes through the index files in order.
DecidedBefore(p, q) ==
    \/ plan[p].mark /\ ~plan[q].mark
    \/ plan[p].mark = plan[q].mark /\ ReadBefore(plan[p], plan[q])

DecidePack ==
    /\ pc = "decide"
    /\ \E p \in undecided :
          /\ \A q \in undecided \ {p} : DecidedBefore(p, q)
          /\ LET blobs == plan[p].blobs
                 used == UsedSize(blobs)
                 unused == SizeOf(blobs) - used
                 counted == [stats EXCEPT !.used = @ + used, !.unused = @ + unused]
                 d == Decision(p)
             IN IF d \in Reasons
                THEN /\ cand' = cand \cup {[id |-> p, reason |-> d, type |-> TypeOf(blobs),
                                            used |-> used, unused |-> unused]}
                     /\ stats' = counted
                     /\ UNCHANGED plan
                ELSE /\ plan' = [plan EXCEPT ![p].todo = d]
                     /\ stats' = StatsAfter(counted, d, unused)
                     /\ UNCHANGED cand
          /\ count' = CountAfter(plan[p].blobs)
          /\ undecided' = undecided \ {p}
    /\ UNCHANGED <<in, pc, dirty, resize, volume, forced, keepIds, unref, rebuild>>

-----------------------------------------------------------------------------
(***************************************************************************)
(* DecideRepack                                                            *)
(***************************************************************************)
UnusedAfter == stats.unused - stats.remove - stats.repackrm
RepackAll == in.opts.uncompressed \/ in.opts.repack_all
Total == volume["tree"] + volume["data"]

\* `100 - p` is a divisor: a limit of 100 percent is a division by zero, above
\* 100 percent the difference wraps around.
MaxUnusedPanics ==
    ~RepackAll /\ in.opts.max_unused.kind = "percent" /\ in.opts.max_unused.n = 100
MaxUnused ==
    LET n == in.opts.max_unused.n
    IN IF RepackAll THEN 0
       ELSE CASE in.opts.max_unused.kind = "unlimited" -> Infinite
              [] in.opts.max_unused.kind = "size" -> n
              [] OTHER -> IF n > 100 THEN 0 ELSE (n * stats.used) \div (100 - n)
MaxRepack ==
    CASE in.opts.max_repack.kind = "unlimited" -> Infinite
      [] in.opts.max_repack.kind = "size" -> in.opts.max_repack.n
      [] OTHER -> (in.opts.max_repack.n * (stats.used + stats.unused)) \div 100

StartRepack ==
    /\ pc = "decide" /\ undecided = {}
    /\ pc' = IF MaxUnusedPanics THEN "panic" ELSE "repack"
    /\ UNCHANGED <<in, plan, dirty, undecided, count, cand, resize, stats, volume, forced,
                   keepIds, unref, rebuild>>

\* PackInfo::cmp: trees first, then the highest ratio of unused to used space.
Before(c, d) ==
    \/ c.type = "tree" /\ d.type = "data"
    \/ c.type = d.type /\ d.unused * c.used < c.unused * d.used

\* Mutant of Dismissed: the limit is checked before the pack is added.
DismissedLate(c) ==
    \/ Total >= MaxRepack
    \/ UnusedAfter < MaxUnused /\ c.reason = "PartlyUsed" /\ c.type = "data"
    \/ c.reason = "SizeMismatch" /\ in.opts.no_resize

\* Candidate c stays as it is.
Dismissed(c) ==
    \/ Total + c.used >= MaxRepack
    \/ UnusedAfter < MaxUnused /\ c.reason = "PartlyUsed" /\ c.type = "data"
    \/ c.reason = "SizeMismatch" /\ in.opts.no_resize

SetTodo(c, todo) ==
    /\ plan' = [plan EXCEPT ![c.id].todo = todo]
    /\ stats' = StatsAfter(stats, todo, c.unused)

\* The candidates are sorted; which of two equal ones comes first is open.
DecideRepack ==
    /\ pc = "repack"
    /\ \E c \in cand :
          /\ \A d \in cand : ~Before(d, c)
          /\ cand' = cand \ {c}
          /\ \/ /\ Dismissed(c)
                /\ SetTodo(c, "Keep")
                /\ UNCHANGED <<resize, volume, forced>>
             \/ /\ ~Dismissed(c) /\ c.reason = "SizeMismatch"
                /\ resize' = resize \cup {c}
                /\ volume' = [volume EXCEPT ![c.type] = @ + c.used]
                /\ UNCHANGED <<plan, stats, forced>>
             \/ /\ ~Dismissed(c) /\ c.reason # "SizeMismatch"
                /\ SetTodo(c, "Repack")
                /\ volume' = [volume EXCEPT ![c.type] = @ + c.used]
                /\ forced' = forced \cup {c.type}
                /\ UNCHANGED resize
    /\ UNCHANGED <<in, pc, dirty, undecided, count, keepIds, unref, rebuild>>

\* Packs of an odd size are repacked only together with others of their type, or
\* if they fill a pack of the target size.
DecideResize ==
    /\ pc = "repack" /\ cand = {}
    /\ LET Worth(t) == t \in forced \/ volume[t] > TargetSize
       IN plan' = [p \in DOMAIN plan |->
                      IF \E c \in resize : c.id = p
                      THEN [plan[p] EXCEPT !.todo = IF Worth(TypeOf(plan[p].blobs))
                                                    THEN "Repack" ELSE "Keep"]
                      ELSE plan[p]]
    /\ resize' = {}
    /\ pc' = "check"
    /\ UNCHANGED <<in, dirty, undecided, count, cand, stats, volume, forced, keepIds, unref, rebuild>>

-----------------------------------------------------------------------------
(***************************************************************************)
(* CheckPacks and FilterIndex                                              *)
(***************************************************************************)
WithTodo(todos) == {p \in DOMAIN plan : plan[p].todo \in todos}
BlobsOf(packs) == UNION {ToSet(plan[p].blobs) : p \in packs}

CheckPacks ==
    /\ pc = "check"
    /\ pc' = IF WithTodo({"Keep", "Recover", "Repack"}) \subseteq in.intact THEN "filter" ELSE "error"
    /\ keepIds' = in.used \ BlobsOf(WithTodo({"Keep", "Recover"}))
    /\ unref' = in.stored \ DOMAIN plan
    /\ UNCHANGED <<in, plan, dirty, undecided, count, cand, resize, stats, volume, forced, rebuild>>

PacksOfFile(i) == {p \in DOMAIN plan : plan[p].file = i}
IndexLen(i) == FoldSet(LAMBDA p, n : n + Len(plan[p].blobs), 0, PacksOfFile(i))
Stays(p) == \/ plan[p].todo = "Keep"
            \/ plan[p].todo = "KeepMarked" /\ ~in.opts.instant_delete

MustModify(i) == i \in dirty \/ \E p \in PacksOfFile(i) : ~Stays(p)

FilterIndex ==
    /\ pc = "filter"
    /\ LET process == {i \in DOMAIN in.files : MustModify(i) \/ IndexLen(i) < MinIndexLen}
       IN rebuild' = IF Cardinality(process) = 1 /\ \A i \in DOMAIN in.files : ~MustModify(i)
                     THEN {} ELSE process
    /\ pc' = "planned"
    /\ UNCHANGED <<in, plan, dirty, undecided, count, cand, resize, stats, volume, forced,
                   keepIds, unref>>

Planning == New \/ CountUsed \/ DecidePack \/ StartRepack \/ DecideRepack
              \/ DecideResize \/ CheckPacks \/ FilterIndex
Ended == pc \in {"error", "panic", "planned"}

Next == Planning
Spec == Init /\ [][Next]_vars

-----------------------------------------------------------------------------
(***************************************************************************)
(* Properties                                                              *)
(***************************************************************************)
\* The complete plan keeps the promise on which BackupPrune rests.
Todo(t) == WithTodo({t})
KeepsPromise ==
    pc = "planned" =>
        PlanOK(Normal, Marked, [p \in DOMAIN plan |-> ToSet(plan[p].blobs)], in.used,
               {p \in Marked : Older(plan[p].time, in.opts.keep_delete)},
               [keep |-> Todo("Keep"), repack |-> Todo("Repack"), markDelete |-> Todo("MarkDelete"),
                recover |-> Todo("Recover"), delete |-> Todo("Delete"),
                keepMarked |-> WithTodo({"KeepMarked", "KeepMarkedAndCorrect"})])

\* A marked pack is recovered only for a used blob that no unmarked pack has, as
\* long as no counter saturates: marked packs are decided on first.
RecoveredForReason ==
    pc = "planned" /\ (\A x \in in.used : Copies(x, DOMAIN plan) <= MaxCount) =>
        \A p \in Todo("Recover") :
            (ToSet(plan[p].blobs) \cap in.used) \ BlobsOf(Normal) # {}

\* Packs younger than keep_pack are neither repacked nor marked for deletion, and
\* with repack_cacheable_only no data pack is repacked.
YoungPacksKept ==
    pc = "planned" =>
        /\ \A p \in WithTodo({"Repack", "MarkDelete"}) : ~TooYoung(p)
        /\ in.opts.cacheable_only => \A p \in Todo("Repack") : TypeOf(plan[p].blobs) = "tree"

\* The used data that is repacked stays below max_repack ...
RepackLimited == pc \in {"check", "filter", "planned"} /\ Total > 0 => Total < MaxRepack

UsedPlaces(p) == {k \in DOMAIN plan[p].blobs : plan[p].blobs[k] \in in.used}

\* ... and a data pack with unused blobs is only kept if it must be, if max_unused
\* is kept, or if max_repack does not allow to repack it as well.
UnusedLimited ==
    pc = "planned" =>
        \A p \in Todo("Keep") :
            \/ TooYoung(p) \/ KeepUncacheable(p)
            \/ ToSet(plan[p].blobs) \subseteq in.used
            \/ UnusedAfter < MaxUnused
            \/ Total + SizeAt(plan[p].blobs, UsedPlaces(p)) >= MaxRepack
=============================================================================
