------------------------------ MODULE HotCold ------------------------------
(***************************************************************************)
(* A hot/cold repository: HotColdBackend (backend/hotcold.rs) keeps every  *)
(* file in the cold part and copies of all but the data packs in the hot   *)
(* part.  Files are listed in the cold part, but all that is in the hot    *)
(* part is read there.  Each write and each removal is therefore two steps *)
(* whose order matters when a process stops between them.                  *)
(* `repair hotcold` (commands/repair/hotcold.rs) copies missing files from *)
(* one part to the other.                                                  *)
(*                                                                         *)
(* Abstractions.  A file is its size: 0 if absent, Full if complete.  File *)
(* ids are hashes, a file that has been removed is not written again.  The *)
(* config file, which differs between the two parts, is left out.          *)
(***************************************************************************)
EXTENDS Naturals

CONSTANTS Meta,       \* index, snapshot and key files
          TreePack,   \* packs with tree blobs
          DataPack,   \* packs with data blobs
          Proc,       \* processes that use the repository
          Full,       \* size of a complete file
          StartHot, StartCold,  \* the parts at the beginning
          Exclusive   \* BOOLEAN: is repair run while nothing else is?

File == Meta \cup TreePack \cup DataPack

ASSUME HotColdAssumption ==
    /\ Meta \cap TreePack = {} /\ (Meta \cup TreePack) \cap DataPack = {}
    /\ Full \in Nat \ {0} /\ Exclusive \in BOOLEAN
    /\ StartHot \in [File -> 0 .. Full] /\ StartCold \in [File -> 0 .. Full]

VARIABLES
    hot, cold,  \* size of each file in the two parts
    born,       \* files that have ever been written
    op,         \* op[p]: what process p is about to do in the other part
    rep         \* the repair process

vars == <<hot, cold, born, op, rep>>

Idle == [pc |-> "idle"]
NoRepair == [pc |-> "idle", toCold |-> {}, toHot |-> {}, missing |-> {}]

TypeOK ==
    /\ hot \in [File -> 0 .. Full] /\ cold \in [File -> 0 .. Full]
    /\ born \subseteq File
    /\ op \in [Proc -> {Idle} \cup [pc : {"write", "remove", "failed"}, file : File]]
    /\ rep \in [pc : {"idle", "copy", "done"}, toCold : SUBSET File, toHot : SUBSET File,
                missing : SUBSET File]

Init ==
    /\ hot = StartHot /\ cold = StartCold
    /\ born = {f \in File : StartHot[f] # 0 \/ StartCold[f] # 0}
    /\ op = [p \in Proc |-> Idle]
    /\ rep = NoRepair

\* The copies which the backend keeps, and reads, in the hot part.
InHot(f) == f \in Meta \cup TreePack

MayStart(p) == op[p] = Idle /\ (Exclusive => rep.pc # "copy")

-----------------------------------------------------------------------------
(***************************************************************************)
(* HotColdBackend                                                          *)
(***************************************************************************)

\* Mutant of WriteFirst: the cold part is written first.
WriteColdFirst(p, f) ==
    /\ MayStart(p) /\ f \notin born
    /\ born' = born \cup {f}
    /\ cold' = [cold EXCEPT ![f] = Full]
    /\ op' = [op EXCEPT ![p] = Idle]
    /\ UNCHANGED <<hot, rep>>

\* write_bytes: first the hot part, unless it is a data pack ...
WriteFirst(p, f) ==
    /\ MayStart(p) /\ f \notin born
    /\ born' = born \cup {f}
    /\ hot' = IF InHot(f) THEN [hot EXCEPT ![f] = Full] ELSE hot
    /\ op' = [op EXCEPT ![p] = [pc |-> "write", file |-> f]]
    /\ UNCHANGED <<cold, rep>>

\* ... then the cold part.
WriteCold(p) ==
    /\ op[p].pc = "write"
    /\ cold' = [cold EXCEPT ![op[p].file] = Full]
    /\ op' = [op EXCEPT ![p] = Idle]
    /\ UNCHANGED <<hot, born, rep>>

\* remove: first the cold file ...
RemoveFileFirst(p, f, cacheable) ==
    /\ MayStart(p) /\ cold[f] # 0
    /\ cold' = [cold EXCEPT ![f] = 0]
    /\ op' = [op EXCEPT ![p] = IF cacheable \/ f \in Meta THEN [pc |-> "remove", file |-> f] ELSE Idle]
    /\ UNCHANGED <<hot, born, rep>>

\* ... then the hot one, which is an error if there is none.
RemoveHot(p) ==
    /\ op[p].pc = "remove"
    /\ \/ /\ hot[op[p].file] # 0
          /\ hot' = [hot EXCEPT ![op[p].file] = 0]
          /\ op' = [op EXCEPT ![p] = Idle]
       \/ /\ hot[op[p].file] = 0
          /\ op' = [op EXCEPT ![p].pc = "failed"]
          /\ UNCHANGED hot
    /\ UNCHANGED <<cold, born, rep>>

\* Packs are removed as cacheable or not: tree packs as cacheable unless they have
\* been marked without their blobs, data packs as not cacheable unless they are in
\* no index file and deleted instantly.
RemoveFile(p) == \E f \in File, cacheable \in BOOLEAN : RemoveFileFirst(p, f, cacheable)

\* The process is killed, or the operation fails in one part.
Crash(p) ==
    /\ op[p] # Idle
    /\ op' = [op EXCEPT ![p] = Idle]
    /\ UNCHANGED <<hot, cold, born, rep>>

-----------------------------------------------------------------------------
(***************************************************************************)
(* repair hotcold                                                          *)
(***************************************************************************)

\* The files that are in order: present in both parts with the same size.
Common == {f \in File : hot[f] # 0 /\ cold[f] # 0 /\ hot[f] = cold[f]}

\* Both parts are listed.  Relevant are all files which are not packs, and the
\* tree packs that the index knows.  A file with two sizes is in neither part in order,
\* so it is in both lists of files to copy (hotcold.rs:150-176); `missing` are the others.
RepairStart ==
    /\ rep.pc # "copy"
    /\ Exclusive => \A p \in Proc : op[p] = Idle
    /\ \E known \in SUBSET TreePack :
          rep' = [pc |-> "copy", missing |-> {f \in Meta \cup known : (hot[f] = 0) # (cold[f] = 0)},
                  toCold |-> {f \in Meta \cup known : hot[f] # 0} \ Common,
                  toHot |-> {f \in Meta \cup known : cold[f] # 0} \ Common]
    /\ UNCHANGED <<hot, cold, born, op>>

\* First the files which the cold part misses are copied, then the others.
RepairCopy ==
    /\ rep.pc = "copy"
    /\ \/ \E f \in rep.toCold :
             /\ hot[f] # 0
             /\ cold' = [cold EXCEPT ![f] = hot[f]]
             /\ rep' = [rep EXCEPT !.toCold = @ \ {f}]
             /\ UNCHANGED hot
       \/ /\ rep.toCold = {}
          /\ \E f \in rep.toHot :
             /\ cold[f] # 0
             /\ hot' = [hot EXCEPT ![f] = cold[f]]
             /\ rep' = [rep EXCEPT !.toHot = @ \ {f}]
          /\ UNCHANGED cold
    /\ UNCHANGED <<born, op>>

\* Mutant of RepairDone: without files for the hot part there is nothing to do.
RepairDoneEarly ==
    /\ rep.pc = "copy" /\ rep.toHot = {}
    /\ rep' = [rep EXCEPT !.pc = "done"]
    /\ UNCHANGED <<hot, cold, born, op>>

RepairDone ==
    /\ rep.pc = "copy" /\ rep.toCold = {} /\ rep.toHot = {}
    /\ rep' = [rep EXCEPT !.pc = "done"]
    /\ UNCHANGED <<hot, cold, born, op>>

RepairStop ==
    /\ rep.pc = "copy"
    /\ rep' = NoRepair
    /\ UNCHANGED <<hot, cold, born, op>>

-----------------------------------------------------------------------------
ProcNext(p) == \/ \E f \in File : WriteFirst(p, f)
               \/ WriteCold(p) \/ RemoveFile(p) \/ RemoveHot(p) \/ Crash(p)
RepairNext == RepairStart \/ RepairCopy \/ RepairDone \/ RepairStop

Next == RepairNext \/ \E p \in Proc : ProcNext(p)
Spec == Init /\ [][Next]_vars

-----------------------------------------------------------------------------
(***************************************************************************)
(* Properties                                                              *)
(***************************************************************************)

\* Every file that a listing names can be read: it is in the part from which
\* HotColdBackend reads it, wherever writes, removals and repairs have stopped.
ListedReadable == \A f \in File : cold[f] # 0 /\ InHot(f) => hot[f] # 0

\* Once `repair hotcold` is done, each relevant file that one part was missing when the
\* parts were listed is in both of them, and the same (hotcold.rs:18: "copying missing
\* files over from one to the other part").
RepairRestores ==
    [][RepairDone => \A f \in rep.missing : hot[f] = cold[f] /\ hot[f] # 0]_vars

\* `repair hotcold` copies missing files only: one that both parts have, with sizes that
\* do not match, is ignored (the warning at hotcold.rs:158) and stays as it is.
MismatchesIgnored ==
    [][RepairCopy => \A f \in File : (hot[f] # 0 => hot'[f] = hot[f]) /\ (cold[f] # 0 => cold'[f] = cold[f])]_vars

\* The repository is in order at the beginning.
StartsReadable == \A f \in File : StartCold[f] # 0 /\ InHot(f) => StartHot[f] # 0

\* What makes ListedReadable inductive: half-done operations own their file.
OwnsFile ==
    /\ \A p \in Proc : op[p].pc \in {"write", "remove", "failed"} =>
          op[p].file \in born /\ cold[op[p].file] = 0
    /\ \A p \in Proc : op[p].pc = "write" /\ InHot(op[p].file) => hot[op[p].file] # 0
    /\ \A p, q \in Proc :
          p # q /\ op[p].pc = "write" /\ op[q].pc # "idle" => op[p].file # op[q].file
    /\ \A f \in File : hot[f] # 0 \/ cold[f] # 0 => f \in born
    /\ rep.pc = "copy" => \A p \in Proc : op[p] = Idle

HotColdInv == TypeOK /\ ListedReadable /\ OwnsFile

\* What makes RepairRestores inductive, in whatever state the repository is at the
\* beginning: a repair is alone, and what was missing and need not be copied any more is
\* in order.
RepairAlone == rep.pc = "copy" => \A p \in Proc : op[p] = Idle
RestoredSoFar == rep.pc = "copy" =>
    \A f \in rep.missing \ (rep.toCold \cup rep.toHot) : hot[f] = cold[f] /\ hot[f] # 0
RepairInv == TypeOK /\ RepairAlone /\ RestoredSoFar
=============================================================================
