---------------------------- MODULE PrunePromise ----------------------------
(***************************************************************************)
(* What the planning half of `prune` (PrunePlan::from_prune_options in     *)
(* crates/core/src/commands/prune.rs) promises to its executing half       *)
(* (prune_repository) about the to-do it gives every indexed pack.         *)
(*                                                                         *)
(* The promise is a predicate on the plan, not an algorithm: BackupPrune   *)
(* lets prune take ANY plan that satisfies it, and PrunePlan, which        *)
(* translates the deciding code statement by statement, is checked to      *)
(* produce only plans that do.                                             *)
(*                                                                         *)
(*   normal   packs listed in the section `packs` of an index file         *)
(*   marked   packs listed only in a section `packs_to_delete`             *)
(*   blobs    the blobs the planner sees in each of them                   *)
(*   used     the blobs some snapshot refers to                            *)
(*   expired  the marked packs whose mark is at least keep_delete old      *)
(*   plan     the to-do of each of them, as one set of packs per PackToDo  *)
(***************************************************************************)

\* The blobs of a set of packs.
BlobsIn(packs, blobs) == UNION {blobs[p] : p \in packs}

\* Every pack gets exactly one of the to-dos that its mark allows.
PlanDecidesAll(normal, marked, plan) ==
    /\ plan.keep \cup plan.repack \cup plan.markDelete = normal
    /\ plan.keep \cap plan.repack = {}
    /\ plan.markDelete \cap (plan.keep \cup plan.repack) = {}
    /\ plan.recover \cup plan.delete \cup plan.keepMarked = marked
    /\ plan.recover \cap plan.delete = {}
    /\ plan.keepMarked \cap (plan.recover \cup plan.delete) = {}

\* A used blob is in a pack that stays, comes back, or is copied.
PlanCovers(blobs, used, plan) ==
    used \subseteq BlobsIn(plan.keep \cup plan.repack \cup plan.recover, blobs)

\* Only packs with a used blob are copied or recovered.
PlanHasReason(blobs, used, plan) ==
    \A p \in plan.repack \cup plan.recover : blobs[p] \cap used # {}

\* A marked pack that is not recovered is deleted if and only if its mark has
\* expired.
PlanRespectsMarks(expired, plan) ==
    /\ plan.delete \subseteq expired
    /\ plan.keepMarked \cap expired = {}

PlanOK(normal, marked, blobs, used, expired, plan) ==
    /\ PlanDecidesAll(normal, marked, plan)
    /\ PlanCovers(blobs, used, plan)
    /\ PlanHasReason(blobs, used, plan)
    /\ PlanRespectsMarks(expired, plan)
=============================================================================
