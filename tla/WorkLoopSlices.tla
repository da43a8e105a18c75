--------------------------- MODULE WorkLoopSlices ---------------------------
(***************************************************************************)
(* The slices of a work loop: which one comes next, how the end of a run   *)
(* is judged and what the verdict makes of slice and loop.  Pure functions *)
(* of selection.ts, adjudication.ts and review.ts, and the hosted          *)
(* executor's updateWorkLoopAfterCodexRun.  slices is [Slice -> status].   *)
(*                                                                         *)
(* Slices have distinct ids; the schema checks neither that nor what       *)
(* dependsOn names, so a dependency may come later or form a cycle.        *)
(***************************************************************************)
EXTENDS Naturals

CONSTANTS
    Slice,      \* the slices of the loop
    Place,      \* their places in the loop's list
    DependsOn   \* slice.dependsOn

ASSUME SliceAssumption ==
    /\ Slice # {}
    /\ Place \in [Slice -> Nat]
    /\ \A r, s \in Slice : Place[r] = Place[s] => r = s
    /\ DependsOn \in [Slice -> SUBSET Slice]

SliceStatus ==
    {"ready", "running", "reviewing", "repair_queued", "blocked",
     "needs_stefan", "done", "canceled"}

LoopStatus == {"active", "blocked", "needs_stefan", "done", "canceled"}

AllDone(slices) == \A s \in Slice : slices[s] = "done"

(* Array.find: s is the first of the set in the loop's order. *)
IsFirst(s, set) == s \in set /\ \A r \in set : Place[s] <= Place[r]

(* Mutants of Selectable: a dependency that was tried counts; a slice is   *)
(* taken unless it is finished.                                            *)
SelectableOnceTried(slices) ==
    {s \in Slice : /\ slices[s] \in {"repair_queued", "ready"}
                   /\ \A d \in DependsOn[s] : slices[d] \notin {"ready", "running"}}

SelectableUnlessDone(slices) ==
    {s \in Slice : /\ slices[s] \notin {"running", "done"}
                   /\ \A d \in DependsOn[s] : slices[d] = "done"}

(* selectNextWorkLoopSlice takes the first of these ... *)
Selectable(slices) ==
    {s \in Slice : /\ slices[s] \in {"repair_queued", "ready"}
                   /\ \A d \in DependsOn[s] : slices[d] = "done"}

(* ... and selectRunningWorkLoopSlice the first of these. *)
Running(slices) == {s \in Slice : slices[s] = "running"}

-----------------------------------------------------------------------------
(* Adjudication *)

(***************************************************************************)
(* An outcome artifact is the set of things it says: that a human is       *)
(* needed, that the work stopped or is blocked, or, in its decision or its *)
(* follow-up notes, that there is more to do.  It may say several.         *)
(***************************************************************************)
Outcome == SUBSET {"needs_stefan", "stopped", "more_to_do"}

(* WorkLoopPeerReviewLike, or none when no review was run. *)
PeerReview == {"none", "pending", "passed", "failed", "process_failed"}

IsBlocking(review) == review \in {"failed", "process_failed"}

(* Mutant: what the outcome says of itself is read before the review. *)
DecisionTrusting(slices, s, outcome, review) ==
    IF "needs_stefan" \in outcome THEN "needs_stefan"
    ELSE IF "stopped" \in outcome THEN "blocked"
    ELSE IF "more_to_do" \in outcome THEN "continue"
    ELSE IF IsBlocking(review) THEN "repair"
    ELSE IF \A r \in Slice \ {s} : slices[r] = "done" THEN "done" ELSE "continue"

(* adjudicateWorkLoopSlice, when there is an outcome: a ladder of early    *)
(* returns, the review first.                                              *)
Decision(slices, s, outcome, review) ==
    IF IsBlocking(review) THEN "repair"
    ELSE IF "needs_stefan" \in outcome THEN "needs_stefan"
    ELSE IF "stopped" \in outcome THEN "blocked"
    ELSE IF "more_to_do" \in outcome THEN "continue"
    ELSE IF \A r \in Slice \ {s} : slices[r] = "done" THEN "done" ELSE "continue"

(* ... and when the run left none. *)
DecisionWithoutOutcome == "continue"

(* Mutant of SliceAfter: a slice to repair waits for its review. *)
SliceAfterReviewing(action, evidence) ==
    CASE action = "repair" -> "reviewing"
      [] action \in {"done", "blocked", "needs_stefan", "canceled"} -> action
      [] action = "continue" -> IF evidence THEN "done" ELSE "ready"

(* applyWorkLoopDecision: what the slice becomes.  To continue with the    *)
(* path of an outcome in hand, whether or not there is a file, is to go on *)
(* to the next slice.                                                      *)
SliceAfter(action, evidence) ==
    CASE action = "repair" -> "repair_queued"
      [] action \in {"done", "blocked", "needs_stefan", "canceled"} -> action
      [] action = "continue" -> IF evidence THEN "done" ELSE "ready"

(* Mutant of LoopAfter: a decision that says done is believed. *)
LoopAfterBelieving(action, slices) ==
    IF action \in {"blocked", "needs_stefan", "canceled"} THEN action
    ELSE IF \E s \in Slice : slices[s] = "done" THEN "done" ELSE "active"

(* ... and what the loop becomes, its slices already changed. *)
LoopAfter(action, slices) ==
    IF action \in {"blocked", "needs_stefan", "canceled"} THEN action
    ELSE IF AllDone(slices) THEN "done" ELSE "active"

-----------------------------------------------------------------------------
(* The hosted executor judges a run by its exit code. *)

(* Mutant of LoopAfterRun: the loop is done when the slice that ran is. *)
LoopAfterLastRun(slices, result) == IF result = "failed" THEN "blocked" ELSE "done"

SliceAfterRun(result) == IF result = "completed" THEN "done" ELSE "blocked"

LoopAfterRun(slices, result) ==
    IF result = "failed" THEN "blocked"
    ELSE IF AllDone(slices) THEN "done" ELSE "active"

=============================================================================
