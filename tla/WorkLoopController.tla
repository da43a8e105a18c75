------------------------- MODULE WorkLoopController -------------------------
(***************************************************************************)
(* A host driving one work loop with the library: it resumes a running     *)
(* slice or selects the next one, marks it running, prepares the launch,   *)
(* runs it, has the result reviewed, adjudicates and applies the decision. *)
(* The loop, the outcome files and the list of reviews are durable, what   *)
(* the host is doing is not: it can die between any two steps and start    *)
(* over.  Meanwhile a human cancels slices or sends stopped ones back.     *)
(*                                                                         *)
(* The host itself is not in this repository: its order of calls is the    *)
(* one the package map and the launcher's documentation describe, and it   *)
(* stops where completionPolicy.stopOnlyFor tells it to.                   *)
(***************************************************************************)
EXTENDS WorkLoopSlices, Sequences

CONSTANTS
    Outcomes,     \* what the runs of this loop may write
    MaxAttempts,  \* bound of attemptCount, per slice
    Idle          \* a host that has not picked a slice

HostCall ==
    [next : {"run", "review"}, slice : Slice]
       \cup [next : {"apply"}, slice : Slice, review : PeerReview]

ASSUME ControllerAssumption ==
    /\ Outcomes \subseteq Outcome
    /\ MaxAttempts \in Nat
    /\ Idle \notin HostCall

(* There is no file at the outcome path. *)
NoOutcome == {"none"}

VARIABLES
    status,    \* workLoop.status
    slices,    \* workLoop.slices[].status
    attempts,  \* workLoop.slices[].attemptCount
    outcomes,  \* the file at each slice's outcomePath
    reviews,   \* the execution reviews on record, per slice
    host       \* the call the host has to make next, and on which slice

hostVars == <<status, slices, attempts, outcomes, reviews, host>>

HostInit ==
    /\ status = "active"
    /\ slices = [s \in Slice |-> "ready"]
    /\ attempts = [s \in Slice |-> 0]
    /\ outcomes = [s \in Slice |-> NoOutcome]
    /\ reviews = [s \in Slice |-> <<>>]
    /\ host = Idle

(* Mutant of NextSlices: a host that starts over takes the next slice. *)
NextSlicesAfresh == Selectable(slices)

(* What the host may pick: a slice left running, before any other. *)
NextSlices == IF Running(slices) # {} THEN Running(slices) ELSE Selectable(slices)

(* markSliceRunning *)
MarkRunning(s) ==
    /\ status' = "active"
    /\ slices' = [slices EXCEPT ![s] = "running"]
    /\ attempts' = [attempts EXCEPT ![s] = @ + 1]

(***************************************************************************)
(* Selection, then prepareWorkLoopCodexLaunch: prompt and launch record    *)
(* are written anew; the outcome path depends on the slice alone, and      *)
(* whatever an earlier attempt left there stays.                           *)
(***************************************************************************)
Launch(s) ==
    /\ host = Idle
    /\ status = "active"
    /\ IsFirst(s, NextSlices)
    /\ attempts[s] < MaxAttempts
    /\ MarkRunning(s)
    /\ host' = [next |-> "run", slice |-> s]
    /\ UNCHANGED <<outcomes, reviews>>

(* runPreparedWorkLoopCodexLaunch: the agent writes an outcome, or exits   *)
(* without one.                                                            *)
Run(s) ==
    /\ host = [next |-> "run", slice |-> s]
    /\ \E o \in Outcomes \cup {outcomes[s]} : outcomes' = [outcomes EXCEPT ![s] = o]
    /\ host' = [next |-> "review", slice |-> s]
    /\ UNCHANGED <<status, slices, attempts, reviews>>

(* runWorkLoopAiQualityReview: a review of the outcome that is there, put  *)
(* on record with its slice (withWorkLoopSliceReviewIdentity).             *)
ReviewOutcome(s) ==
    /\ host = [next |-> "review", slice |-> s]
    /\ outcomes[s] # NoOutcome
    /\ \E r \in {"passed", "failed", "process_failed"} :
          /\ reviews' = [reviews EXCEPT ![s] = Append(@, r)]
          /\ host' = [next |-> "apply", slice |-> s, review |-> r]
    /\ UNCHANGED <<status, slices, attempts, outcomes>>

(* applyWorkLoopDecision *)
Apply(s, action, evidence) ==
    /\ slices' = [slices EXCEPT ![s] = SliceAfter(action, evidence)]
    /\ status' = LoopAfter(action, slices')

(* adjudicateWorkLoopSlice and applyWorkLoopDecision, on the loop as it is *)
(* by now.                                                                 *)
Adjudicate(s) ==
    /\ \E r \in PeerReview :
          /\ host = [next |-> "apply", slice |-> s, review |-> r]
          /\ Apply(s, Decision(slices, s, outcomes[s], r), TRUE)
    /\ host' = Idle
    /\ UNCHANGED <<attempts, outcomes, reviews>>

(* Mutant: the host asks the run, not the file, whether there is an        *)
(* outcome, and so judges a slice by an outcome nobody reviewed.           *)
AdjudicateUnreviewed(s) ==
    /\ host = [next |-> "review", slice |-> s]
    /\ \E evidence \in BOOLEAN : Apply(s, DecisionWithoutOutcome, evidence)
    /\ host' = Idle
    /\ UNCHANGED <<attempts, outcomes, reviews>>

(***************************************************************************)
(* There is no file to review.  The launch has an outcomePath all the same *)
(* and a host may pass it on as evidence: applyWorkLoopDecision does not   *)
(* look whether anything is there.                                         *)
(***************************************************************************)
AdjudicateWithoutOutcome(s) ==
    /\ host = [next |-> "review", slice |-> s]
    /\ outcomes[s] = NoOutcome
    /\ \E evidence \in BOOLEAN : Apply(s, DecisionWithoutOutcome, evidence)
    /\ host' = Idle
    /\ UNCHANGED <<attempts, outcomes, reviews>>

(* A human decision: a stopped slice goes on, with no evidence. *)
SendBack(s) ==
    /\ slices[s] \in {"blocked", "needs_stefan"}
    /\ Apply(s, "continue", FALSE)
    /\ UNCHANGED <<attempts, outcomes, reviews, host>>

(* A human decision: the slice is not wanted any more. *)
Cancel(s) ==
    /\ slices[s] \notin {"done", "canceled"}
    /\ Apply(s, "canceled", FALSE)
    /\ UNCHANGED <<attempts, outcomes, reviews, host>>

HostCrash ==
    /\ host # Idle
    /\ host' = Idle
    /\ UNCHANGED <<status, slices, attempts, outcomes, reviews>>

HostNext ==
    \/ \E s \in Slice : \/ Launch(s) \/ Run(s) \/ ReviewOutcome(s)
                        \/ Adjudicate(s) \/ AdjudicateWithoutOutcome(s)
                        \/ SendBack(s) \/ Cancel(s)
    \/ HostCrash

HostSpec == HostInit /\ [][HostNext]_hostVars

-----------------------------------------------------------------------------
(* The final gate *)

(* Mutant: the first review of a slice decides. *)
FailedFirstReview(s) == reviews[s] # <<>> /\ IsBlocking(Head(reviews[s]))

(* latestWorkLoopSliceReviews and isBlockingReview, for one provider. *)
FailedReview(s) == reviews[s] # <<>> /\ IsBlocking(reviews[s][Len(reviews[s])])

(* evaluateWorkLoopFinalReview *)
PassesFinalReview ==
    /\ status = "done"
    /\ AllDone(slices)
    /\ \A s \in Slice : slices[s] = "done" => ~FailedReview(s)

-----------------------------------------------------------------------------
(* Properties *)

HostTypeOK ==
    /\ status \in LoopStatus
    /\ slices \in [Slice -> SliceStatus]
    /\ attempts \in [Slice -> 0..MaxAttempts]
    /\ outcomes \in [Slice -> Outcome \cup {NoOutcome}]
    /\ reviews \in [Slice -> Seq(PeerReview)]
    /\ host \in HostCall \cup {Idle}

(***************************************************************************)
(* The loop is done exactly when every slice is, whatever outcomes claim,  *)
(* reviews find and humans decide meanwhile (applyWorkLoopDecision).       *)
(***************************************************************************)
DoneLoopHasDoneSlices == status = "done" <=> AllDone(slices)

(***************************************************************************)
(* No slice runs or is done before everything it depends on is done, and   *)
(* stays so however slices are repaired, sent back or canceled             *)
(* (selectNextWorkLoopSlice).                                              *)
(***************************************************************************)
DependenciesComeFirst ==
    \A s \in Slice : slices[s] \in {"running", "done"} =>
        \A d \in DependsOn[s] : slices[d] = "done"

(* A host that dies and starts over never has two slices running, because  *)
(* it looks for a running one first (selectRunningWorkLoopSlice).          *)
OneSliceRuns == \A r, s \in Running(slices) : r = s

(***************************************************************************)
(* A loop that is done passes the final gate: every slice that a review    *)
(* failed was repaired and reviewed again, also when the host died between *)
(* putting a review on record and acting on it.                            *)
(***************************************************************************)
DoneLoopPassesTheGate == status = "done" => PassesFinalReview

(***************************************************************************)
(* An outcome makes a slice done only with a review of it that did not     *)
(* fail, the last one on record, whatever earlier attempts left at the     *)
(* outcome path.  What can be done unreviewed is a slice whose runs left   *)
(* no outcome at all (adjudicateWorkLoopSlice and applyWorkLoopDecision).  *)
(***************************************************************************)
DoneIsReviewed ==
    \A s \in Slice :
        slices[s] = "done" /\ outcomes[s] # NoOutcome
            => reviews[s] # <<>> /\ ~FailedReview(s)

(***************************************************************************)
(* A loop that says active has a slice to run, unless somebody canceled    *)
(* one or some slices wait for each other: no decision leaves the loop     *)
(* active with a slice in a status that nothing selects.                   *)
(***************************************************************************)
WaitForEachOther(set) == set # {} /\ \A s \in set : DependsOn[s] \cap set # {}

ActiveLoopCanGoOn ==
    status = "active" =>
        \/ NextSlices # {}
        \/ \E s \in Slice : slices[s] = "canceled"
        \/ \E set \in SUBSET Slice : WaitForEachOther(set)

(***************************************************************************)
(* Only the run that was in flight when a human canceled its slice can     *)
(* bring the slice back, by applying its decision late.                    *)
(***************************************************************************)
OnlyTheRunInFlightRevives ==
    [][\A s \in Slice :
          slices[s] = "canceled" /\ slices'[s] # "canceled"
              => host # Idle /\ host.slice = s]_hostVars

(* A finished slice is never run or judged again. *)
DoneIsFinal == [][\A s \in Slice : slices[s] = "done" => slices'[s] = "done"]_hostVars

=============================================================================
