--------------------------- MODULE WorkLoopProofs ---------------------------
(***************************************************************************)
(* Who works a loop off: the host that drives one with the library, and    *)
(* the executors of run-codex, for any slices in any order with any        *)
(* dependencies, any plans, executors and leases, any number of attempts.  *)
(*                                                                         *)
(* The first half is about WorkLoopController.  Its inductive invariant    *)
(* says of the host's volatile state what its last durable step left: the  *)
(* slice in hand was running with everything it depends on done, no other  *)
(* slice is running, and the review in hand is the last on record.         *)
(*                                                                         *)
(* The second half is about CodexExecutor.  The executors are clients of   *)
(* PlanStore, so its theorems hold of them too; what is new is how their   *)
(* copies of the loops relate to the store.                                *)
(***************************************************************************)
EXTENDS WorkLoopController, CodexExecutor, PlanStoreProofs, SequenceTheorems

-----------------------------------------------------------------------------
(* The host's invariant *)

Action == {"continue", "repair", "blocked", "needs_stefan", "done", "canceled"}

IsReady(s) == \A d \in DependsOn[s] : slices[d] = "done"

(* What the host may rely on about the slice it has in hand. *)
Held(s) ==
    /\ slices[s] \in {"running", "canceled"}
    /\ IsReady(s)
    /\ Running(slices) \subseteq {s}

HostIsSound ==
    host # Idle =>
        /\ Held(host.slice)
        /\ host.next = "apply" =>
              /\ outcomes[host.slice] # NoOutcome
              /\ reviews[host.slice] # <<>>
              /\ reviews[host.slice][Len(reviews[host.slice])] = host.review

DoneWasReviewed == \A s \in Slice : slices[s] = "done" => ~FailedReview(s)

(* Only outcomes are reviewed. *)
ReviewsHaveOutcomes == \A s \in Slice : reviews[s] # <<>> => outcomes[s] # NoOutcome

HostInv ==
    /\ HostTypeOK
    /\ DoneLoopHasDoneSlices
    /\ DependenciesComeFirst
    /\ OneSliceRuns
    /\ DoneIsReviewed
    /\ DoneWasReviewed
    /\ ReviewsHaveOutcomes
    /\ HostIsSound

-----------------------------------------------------------------------------
(* What the pure functions return *)

LEMMA DecisionType ==
    ASSUME NEW t, NEW s, NEW o, NEW r
    PROVE  Decision(t, s, o, r) \in Action
BY DEF Decision, Action

LEMMA GoodDecision ==
    ASSUME NEW t, NEW s, NEW o, NEW r, IsBlocking(r)
    PROVE  Decision(t, s, o, r) = "repair"
BY DEF Decision

LEMMA SliceAfterType ==
    ASSUME NEW action \in Action, NEW e \in BOOLEAN
    PROVE  SliceAfter(action, e) \in SliceStatus \ {"running", "reviewing"}
BY DEF SliceAfter, Action, SliceStatus

(* Only done, and continue with evidence, finish a slice. *)
LEMMA SliceDone ==
    ASSUME NEW action \in Action, NEW e \in BOOLEAN, SliceAfter(action, e) = "done"
    PROVE  action \in {"done", "continue"} /\ (action = "continue" => e)
BY DEF SliceAfter, Action

LEMMA LoopAfterType ==
    ASSUME NEW action \in Action, NEW t
    PROVE  LoopAfter(action, t) \in LoopStatus
BY DEF LoopAfter, Action, LoopStatus

(* A slice that stopped keeps the loop from being done. *)
LEMMA LoopDone ==
    ASSUME NEW t \in [Slice -> SliceStatus], NEW s \in Slice,
           NEW action \in Action, NEW e \in BOOLEAN,
           t[s] = SliceAfter(action, e)
    PROVE  LoopAfter(action, t) = "done" <=> AllDone(t)
<1>1. CASE action \in {"blocked", "needs_stefan", "canceled"}
  BY <1>1 DEF SliceAfter, LoopAfter, AllDone
<1>2. CASE action \notin {"blocked", "needs_stefan", "canceled"}
  BY <1>2 DEF LoopAfter
<1> QED BY <1>1, <1>2

-----------------------------------------------------------------------------
(* What a decision does to the loop *)

LEMMA Applied ==
    ASSUME HostTypeOK, NEW s \in Slice, NEW action \in Action, NEW e \in BOOLEAN,
           Apply(s, action, e), slices[s] # "done"
    PROVE  /\ slices' \in [Slice -> SliceStatus]
           /\ status' \in LoopStatus
           /\ status' = "done" <=> AllDone(slices')
           /\ slices'[s] = SliceAfter(action, e)
           /\ \A r \in Slice \ {s} : slices'[r] = slices[r]
           /\ Running(slices') \subseteq Running(slices)
           /\ s \notin Running(slices')
           /\ \A r \in Slice : slices[r] = "done" => slices'[r] = "done"
<1> DEFINE after == SliceAfter(action, e)
<1>1. after \in SliceStatus \ {"running", "reviewing"}
  BY SliceAfterType
<1>2. slices \in [Slice -> SliceStatus]
  BY DEF HostTypeOK
<1>3. slices' = [slices EXCEPT ![s] = after] /\ status' = LoopAfter(action, slices')
  BY DEF Apply
<1> HIDE DEF after
<1>4. slices' \in [Slice -> SliceStatus]
  BY <1>1, <1>2, <1>3
<1>5. slices'[s] = after /\ \A r \in Slice \ {s} : slices'[r] = slices[r]
  BY <1>2, <1>3
<1>6. status' = "done" <=> AllDone(slices')
  <2>1. slices'[s] = SliceAfter(action, e)
    BY <1>5 DEF after
  <2> QED BY <2>1, <1>3, <1>4, LoopDone
<1>7. status' \in LoopStatus
  BY <1>3, LoopAfterType
<1>8. Running(slices') \subseteq Running(slices) /\ s \notin Running(slices')
  BY <1>1, <1>5 DEF Running
<1>9. \A r \in Slice : slices[r] = "done" => slices'[r] = "done"
  BY <1>5
<1> QED BY <1>4, <1>5, <1>6, <1>7, <1>8, <1>9 DEF after

(* What is done stays done, so nothing that was ready becomes unready. *)
LEMMA DependenciesStay ==
    ASSUME NEW s \in Slice, DependenciesComeFirst,
           \A r \in Slice : slices[r] = "done" => slices'[r] = "done",
           \A r \in Slice \ {s} : slices'[r] = slices[r],
           slices'[s] \in {"running", "done"} => IsReady(s)
    PROVE  DependenciesComeFirst'
<1> SUFFICES ASSUME NEW r \in Slice, slices'[r] \in {"running", "done"},
                    NEW d \in DependsOn[r]
             PROVE  slices'[d] = "done"
  BY DEF DependenciesComeFirst
<1>1. d \in Slice
  BY SliceAssumption
<1>2. slices[d] = "done"
  BY DEF DependenciesComeFirst, IsReady
<1> QED BY <1>1, <1>2

-----------------------------------------------------------------------------
(* One lemma per action *)

LEMMA InitIsSound == HostInit => HostInv
<1> SUFFICES ASSUME HostInit PROVE HostInv
  OBVIOUS
<1>1. HostTypeOK
  BY ControllerAssumption DEF HostInit, HostTypeOK, LoopStatus, SliceStatus
<1>2. DoneLoopHasDoneSlices
  BY SliceAssumption DEF HostInit, DoneLoopHasDoneSlices, AllDone
<1> QED BY <1>1, <1>2 DEF HostInv, HostInit, DependenciesComeFirst, OneSliceRuns, Running,
           DoneIsReviewed, DoneWasReviewed, ReviewsHaveOutcomes, HostIsSound

LEMMA LaunchKeeps ==
    ASSUME HostInv, NEW s \in Slice, Launch(s)
    PROVE  HostInv'
<1> USE DEF HostInv
<1>1. /\ host = Idle /\ s \in NextSlices /\ attempts[s] < MaxAttempts
      /\ status' = "active" /\ slices' = [slices EXCEPT ![s] = "running"]
      /\ attempts' = [attempts EXCEPT ![s] = @ + 1]
      /\ host' = [next |-> "run", slice |-> s]
      /\ outcomes' = outcomes /\ reviews' = reviews
  BY DEF Launch, MarkRunning, IsFirst
<1>2. slices \in [Slice -> SliceStatus]
  BY DEF HostTypeOK
<1>3. slices' \in [Slice -> SliceStatus] /\ slices'[s] = "running"
      /\ \A r \in Slice \ {s} : slices'[r] = slices[r]
  BY <1>1, <1>2 DEF SliceStatus
<1>4. host' \in HostCall /\ host'.slice = s /\ host'.next = "run"
  BY <1>1 DEF HostCall
<1>5. IsReady(s) /\ slices[s] # "done" /\ Running(slices) \subseteq {s}
  BY <1>1 DEF NextSlices, Running, Selectable, DependenciesComeFirst, OneSliceRuns, IsReady
<1>6. HostTypeOK'
  <2>1. attempts' \in [Slice -> 0..MaxAttempts]
    BY <1>1, ControllerAssumption DEF HostTypeOK
  <2> QED BY <1>1, <1>3, <1>4, <2>1 DEF HostTypeOK, LoopStatus
<1>7. DoneLoopHasDoneSlices'
  BY <1>1, <1>3 DEF DoneLoopHasDoneSlices, AllDone
<1>8. \A r \in Slice : slices[r] = "done" <=> slices'[r] = "done"
  BY <1>3, <1>5
<1>9. DependenciesComeFirst'
  BY <1>3, <1>5, <1>8, DependenciesStay
<1>10. Running(slices') \subseteq {s}
  BY <1>3, <1>5 DEF Running
<1>11. IsReady(s)'
  BY <1>5, <1>8, SliceAssumption DEF IsReady
<1>12. DoneIsReviewed' /\ DoneWasReviewed' /\ ReviewsHaveOutcomes'
  BY <1>1, <1>8 DEF DoneIsReviewed, DoneWasReviewed, ReviewsHaveOutcomes, FailedReview
<1>13. HostIsSound'
  BY <1>3, <1>4, <1>10, <1>11 DEF HostIsSound, Held
<1> QED BY <1>6, <1>7, <1>9, <1>10, <1>12, <1>13 DEF OneSliceRuns

(* The loop itself does not change while the agent and the reviewer work. *)
LEMMA RunKeeps ==
    ASSUME HostInv, NEW s \in Slice, Run(s)
    PROVE  HostInv'
<1> USE DEF HostInv
<1>1. PICK o \in Outcomes \cup {outcomes[s]} : outcomes' = [outcomes EXCEPT ![s] = o]
  BY DEF Run
<1>2. /\ host = [next |-> "run", slice |-> s] /\ host' = [next |-> "review", slice |-> s]
      /\ UNCHANGED <<status, slices, attempts, reviews>>
  BY DEF Run
<1>3. host \in HostCall /\ host.slice = s /\ host' \in HostCall
      /\ host'.slice = s /\ host'.next = "review" /\ host # Idle
  BY <1>2, ControllerAssumption DEF HostCall
<1>4. outcomes' \in [Slice -> Outcome \cup {NoOutcome}]
      /\ \A r \in Slice \ {s} : outcomes'[r] = outcomes[r]
  BY <1>1, ControllerAssumption DEF HostTypeOK
<1>5. HostTypeOK'
  BY <1>2, <1>3, <1>4 DEF HostTypeOK
<1>6. Held(s) /\ Held(s)'
  BY <1>2, <1>3 DEF HostIsSound, Held, IsReady
<1>7. DoneIsReviewed'
  BY <1>2, <1>4, <1>6 DEF DoneIsReviewed, FailedReview, Held
<1>8. ReviewsHaveOutcomes'
  <2>1. o = outcomes[s] \/ o # NoOutcome
    BY ControllerAssumption DEF Outcome, NoOutcome
  <2>2. outcomes'[s] = o
    BY <1>1 DEF HostTypeOK
  <2> QED BY <1>2, <1>4, <2>1, <2>2 DEF ReviewsHaveOutcomes
<1> QED BY <1>2, <1>3, <1>5, <1>6, <1>7, <1>8
        DEF DoneLoopHasDoneSlices, DependenciesComeFirst, OneSliceRuns,
            DoneWasReviewed, FailedReview, HostIsSound

LEMMA ReviewKeeps ==
    ASSUME HostInv, NEW s \in Slice, ReviewOutcome(s)
    PROVE  HostInv'
<1> USE DEF HostInv
<1>1. PICK r \in {"passed", "failed", "process_failed"} :
          /\ reviews' = [reviews EXCEPT ![s] = Append(@, r)]
          /\ host' = [next |-> "apply", slice |-> s, review |-> r]
  BY DEF ReviewOutcome
<1>2. /\ host = [next |-> "review", slice |-> s] /\ outcomes[s] # NoOutcome
      /\ UNCHANGED <<status, slices, attempts, outcomes>>
  BY DEF ReviewOutcome
<1>3. r \in PeerReview
  BY DEF PeerReview
<1>4. host' \in HostCall /\ host'.slice = s /\ host'.review = r /\ host'.next = "apply"
  BY <1>1, <1>3 DEF HostCall
<1>5. host.slice = s /\ host # Idle
  BY <1>2, ControllerAssumption DEF HostCall
<1>6. reviews' \in [Slice -> Seq(PeerReview)] /\ reviews'[s] = Append(reviews[s], r)
      /\ \A q \in Slice \ {s} : reviews'[q] = reviews[q]
  BY <1>1, <1>3 DEF HostTypeOK
<1>7. reviews'[s] # <<>> /\ reviews'[s][Len(reviews'[s])] = r
  <2> DEFINE before == reviews[s]
  <2>1. before \in Seq(PeerReview)
    BY DEF HostTypeOK
  <2> HIDE DEF before
  <2>2. Append(before, r) # <<>> /\ Append(before, r)[Len(Append(before, r))] = r
    BY <2>1, <1>3, AppendProperties
  <2> QED BY <2>2, <1>6 DEF before
<1>8. HostTypeOK'
  BY <1>2, <1>4, <1>6 DEF HostTypeOK
<1>9. Held(s) /\ Held(s)'
  BY <1>2, <1>5 DEF HostIsSound, Held, IsReady
<1>10. DoneIsReviewed' /\ DoneWasReviewed'
  BY <1>2, <1>6, <1>9 DEF DoneIsReviewed, DoneWasReviewed, FailedReview, Held
<1>11. ReviewsHaveOutcomes'
  BY <1>2, <1>6 DEF ReviewsHaveOutcomes
<1> QED BY <1>2, <1>4, <1>7, <1>8, <1>9, <1>10, <1>11
        DEF DoneLoopHasDoneSlices, DependenciesComeFirst, OneSliceRuns, HostIsSound

(***************************************************************************)
(* A decision about a slice that is not done: the conjuncts that speak of  *)
(* the loop follow for whatever the decision is, provided it finishes the  *)
(* slice only when that slice is ready and has no failed review, nor an    *)
(* outcome without a review.                                               *)
(***************************************************************************)
LEMMA DecisionKeeps ==
    ASSUME HostInv, NEW s \in Slice, NEW action \in Action, NEW e \in BOOLEAN,
           Apply(s, action, e), slices[s] # "done",
           SliceAfter(action, e) = "done" =>
               /\ IsReady(s) /\ ~FailedReview(s)
               /\ outcomes[s] # NoOutcome => reviews[s] # <<>>,
           UNCHANGED <<attempts, outcomes, reviews>>,
           host' \in HostCall \cup {Idle}
    PROVE  /\ HostTypeOK' /\ DoneLoopHasDoneSlices' /\ DependenciesComeFirst'
           /\ OneSliceRuns' /\ DoneIsReviewed' /\ DoneWasReviewed'
           /\ ReviewsHaveOutcomes'
<1> USE DEF HostInv
<1> DEFINE after == SliceAfter(action, e)
<1>1. /\ slices' \in [Slice -> SliceStatus] /\ status' \in LoopStatus
      /\ status' = "done" <=> AllDone(slices')
      /\ slices'[s] = after
      /\ \A r \in Slice \ {s} : slices'[r] = slices[r]
      /\ Running(slices') \subseteq Running(slices)
      /\ \A r \in Slice : slices[r] = "done" => slices'[r] = "done"
  BY Applied
<1>2. after = "done" => /\ IsReady(s) /\ ~FailedReview(s)
                        /\ outcomes[s] # NoOutcome => reviews[s] # <<>>
  OBVIOUS
<1>3. after # "running"
  BY SliceAfterType
<1> HIDE DEF after
<1>4. HostTypeOK'
  BY <1>1 DEF HostTypeOK
<1>5. DoneLoopHasDoneSlices'
  BY <1>1 DEF DoneLoopHasDoneSlices
<1>6. DependenciesComeFirst'
  BY <1>1, <1>2, <1>3, DependenciesStay
<1>7. OneSliceRuns'
  BY <1>1 DEF OneSliceRuns
<1>8. DoneIsReviewed' /\ DoneWasReviewed'
  BY <1>1, <1>2 DEF DoneIsReviewed, DoneWasReviewed, FailedReview
<1>9. ReviewsHaveOutcomes'
  BY DEF ReviewsHaveOutcomes
<1> QED BY <1>4, <1>5, <1>6, <1>7, <1>8, <1>9

LEMMA AdjudicateKeeps ==
    ASSUME HostInv, NEW s \in Slice, Adjudicate(s)
    PROVE  HostInv'
<1>1. PICK r \in PeerReview :
          /\ host = [next |-> "apply", slice |-> s, review |-> r]
          /\ Apply(s, Decision(slices, s, outcomes[s], r), TRUE)
  BY DEF Adjudicate
<1>2. host' = Idle /\ UNCHANGED <<attempts, outcomes, reviews>>
  BY DEF Adjudicate
<1>3. host # Idle /\ host.next = "apply" /\ host.slice = s /\ host.review = r
  BY <1>1, ControllerAssumption DEF HostCall
<1>4. /\ Held(s) /\ outcomes[s] # NoOutcome
      /\ reviews[s] # <<>> /\ reviews[s][Len(reviews[s])] = r
  BY <1>3 DEF HostInv, HostIsSound
<1> DEFINE action == Decision(slices, s, outcomes[s], r)
<1>5. action \in Action
  BY DecisionType
<1>6. SliceAfter(action, TRUE) = "done" => ~IsBlocking(r)
  BY <1>5, GoodDecision, SliceDone
<1>7. SliceAfter(action, TRUE) = "done" =>
          /\ IsReady(s) /\ ~FailedReview(s)
          /\ outcomes[s] # NoOutcome => reviews[s] # <<>>
  BY <1>4, <1>6 DEF Held, FailedReview
<1> HIDE DEF action
<1>8. Apply(s, action, TRUE) /\ slices[s] # "done"
  BY <1>1, <1>4 DEF action, Held
<1> QED BY <1>2, <1>5, <1>7, <1>8, DecisionKeeps DEF HostInv, HostIsSound

LEMMA AdjudicateWithoutOutcomeKeeps ==
    ASSUME HostInv, NEW s \in Slice, AdjudicateWithoutOutcome(s)
    PROVE  HostInv'
<1>1. PICK e \in BOOLEAN : Apply(s, "continue", e)
  BY DEF AdjudicateWithoutOutcome, DecisionWithoutOutcome
<1>2. /\ host = [next |-> "review", slice |-> s] /\ outcomes[s] = NoOutcome
      /\ host' = Idle /\ UNCHANGED <<attempts, outcomes, reviews>>
  BY DEF AdjudicateWithoutOutcome
<1>3. host # Idle /\ host.slice = s
  BY <1>2, ControllerAssumption DEF HostCall
<1>4. slices[s] # "done" /\ IsReady(s)
  BY <1>3 DEF HostInv, HostIsSound, Held
<1>5. ~FailedReview(s)
  BY <1>2 DEF HostInv, ReviewsHaveOutcomes, FailedReview
<1>6. "continue" \in Action
  BY DEF Action
<1> QED BY <1>1, <1>2, <1>4, <1>5, <1>6, DecisionKeeps DEF HostInv, HostIsSound

(***************************************************************************)
(* A human decides while the host may have another slice in hand, or, when *)
(* the slice is canceled, the very same one.                               *)
(***************************************************************************)
LEMMA HostStaysSound ==
    ASSUME HostInv, NEW s \in Slice, NEW action \in Action, NEW e \in BOOLEAN,
           Apply(s, action, e), slices[s] # "done",
           slices[s] \in {"running", "canceled"} => SliceAfter(action, e) = "canceled",
           UNCHANGED <<outcomes, reviews, host>>
    PROVE  HostIsSound'
<1> SUFFICES ASSUME host # Idle PROVE HostIsSound'
  BY DEF HostIsSound
<1>1. /\ slices'[s] = SliceAfter(action, e)
      /\ \A r \in Slice \ {s} : slices'[r] = slices[r]
      /\ Running(slices') \subseteq Running(slices)
      /\ \A r \in Slice : slices[r] = "done" => slices'[r] = "done"
  BY Applied DEF HostInv
<1>2. host.slice \in Slice
  BY DEF HostInv, HostTypeOK, HostCall
<1>3. Held(host.slice)
  BY DEF HostInv, HostIsSound
<1>4. slices'[host.slice] \in {"running", "canceled"}
  BY <1>1, <1>2, <1>3 DEF Held
<1>5. IsReady(host.slice)'
  BY <1>1, <1>2, <1>3, SliceAssumption DEF Held, IsReady
<1>6. Held(host.slice)'
  BY <1>1, <1>3, <1>4, <1>5 DEF Held
<1> QED BY <1>6 DEF HostInv, HostIsSound

LEMMA SendBackKeeps ==
    ASSUME HostInv, NEW s \in Slice, SendBack(s)
    PROVE  HostInv'
<1>1. /\ slices[s] \in {"blocked", "needs_stefan"}
      /\ Apply(s, "continue", FALSE)
      /\ UNCHANGED <<attempts, outcomes, reviews, host>>
  BY DEF SendBack
<1>2. "continue" \in Action /\ SliceAfter("continue", FALSE) # "done"
  BY DEF Action, SliceAfter
<1>3. HostIsSound'
  BY <1>1, <1>2, HostStaysSound
<1>4. host' \in HostCall \cup {Idle}
  BY <1>1 DEF HostInv, HostTypeOK
<1> QED BY <1>1, <1>2, <1>3, <1>4, DecisionKeeps DEF HostInv

LEMMA CancelKeeps ==
    ASSUME HostInv, NEW s \in Slice, Cancel(s)
    PROVE  HostInv'
<1>1. /\ slices[s] # "done"
      /\ Apply(s, "canceled", FALSE)
      /\ UNCHANGED <<attempts, outcomes, reviews, host>>
  BY DEF Cancel
<1>2. "canceled" \in Action /\ SliceAfter("canceled", FALSE) = "canceled"
  BY DEF Action, SliceAfter
<1>3. HostIsSound'
  BY <1>1, <1>2, HostStaysSound
<1>4. host' \in HostCall \cup {Idle}
  BY <1>1 DEF HostInv, HostTypeOK
<1> QED BY <1>1, <1>2, <1>3, <1>4, DecisionKeeps DEF HostInv

LEMMA CrashKeeps ==
    ASSUME HostInv, HostCrash
    PROVE  HostInv'
BY DEF HostCrash, HostInv, HostTypeOK, DoneLoopHasDoneSlices, DependenciesComeFirst, OneSliceRuns,
       DoneIsReviewed, DoneWasReviewed, ReviewsHaveOutcomes, FailedReview, HostIsSound

LEMMA StutterKeeps ==
    ASSUME HostInv, UNCHANGED hostVars
    PROVE  HostInv'
BY DEF hostVars, HostInv, HostTypeOK, DoneLoopHasDoneSlices, DependenciesComeFirst, OneSliceRuns,
       DoneIsReviewed, DoneWasReviewed, ReviewsHaveOutcomes, FailedReview, HostIsSound, Held, IsReady

-----------------------------------------------------------------------------
(* The theorems *)

(* The inductive invariant holds in every reachable state. *)
THEOREM ControllerIsSafe == HostSpec => []HostInv
<1>1. HostInit => HostInv
  BY InitIsSound
<1>2. HostInv /\ [HostNext]_hostVars => HostInv'
  <2> SUFFICES ASSUME HostInv, [HostNext]_hostVars PROVE HostInv'
    OBVIOUS
  <2>1. ASSUME NEW s \in Slice, Launch(s) PROVE HostInv'
    BY <2>1, LaunchKeeps
  <2>2. ASSUME NEW s \in Slice, Run(s) PROVE HostInv'
    BY <2>2, RunKeeps
  <2>3. ASSUME NEW s \in Slice, ReviewOutcome(s) PROVE HostInv'
    BY <2>3, ReviewKeeps
  <2>4. ASSUME NEW s \in Slice, Adjudicate(s) PROVE HostInv'
    BY <2>4, AdjudicateKeeps
  <2>5. ASSUME NEW s \in Slice, AdjudicateWithoutOutcome(s) PROVE HostInv'
    BY <2>5, AdjudicateWithoutOutcomeKeeps
  <2>6. ASSUME NEW s \in Slice, SendBack(s) PROVE HostInv'
    BY <2>6, SendBackKeeps
  <2>7. ASSUME NEW s \in Slice, Cancel(s) PROVE HostInv'
    BY <2>7, CancelKeeps
  <2>8. CASE HostCrash
    BY <2>8, CrashKeeps
  <2>9. CASE UNCHANGED hostVars
    BY <2>9, StutterKeeps
  <2> QED BY <2>1, <2>2, <2>3, <2>4, <2>5, <2>6, <2>7, <2>8, <2>9 DEF HostNext
<1> QED BY <1>1, <1>2, PTL DEF HostSpec

(* The variables of the controller keep their types. *)
THEOREM ControllerTypeCorrect == HostSpec => []HostTypeOK
<1>1. HostInv => HostTypeOK
  BY DEF HostInv
<1> QED BY <1>1, ControllerIsSafe, PTL

(* A loop is done exactly when all its slices are. *)
THEOREM DoneMeansDone == HostSpec => []DoneLoopHasDoneSlices
<1>1. HostInv => DoneLoopHasDoneSlices
  BY DEF HostInv
<1> QED BY <1>1, ControllerIsSafe, PTL

(* No slice runs before what it depends on is done. *)
THEOREM DependenciesFirst == HostSpec => []DependenciesComeFirst
<1>1. HostInv => DependenciesComeFirst
  BY DEF HostInv
<1> QED BY <1>1, ControllerIsSafe, PTL

(* However often the host dies, one slice runs at a time. *)
THEOREM OneAtATime == HostSpec => []OneSliceRuns
<1>1. HostInv => OneSliceRuns
  BY DEF HostInv
<1> QED BY <1>1, ControllerIsSafe, PTL

(* An outcome makes a slice done only with its last review in favour. *)
THEOREM OutcomesAreReviewed == HostSpec => []DoneIsReviewed
<1>1. HostInv => DoneIsReviewed
  BY DEF HostInv
<1> QED BY <1>1, ControllerIsSafe, PTL

(* A loop that is done passes the final gate. *)
THEOREM TheGateOpens == HostSpec => []DoneLoopPassesTheGate
<1>1. HostInv => DoneLoopPassesTheGate
  BY DEF HostInv, DoneLoopPassesTheGate, PassesFinalReview, DoneLoopHasDoneSlices,
         DoneWasReviewed
<1> QED BY <1>1, ControllerIsSafe, PTL

(***************************************************************************)
(* A decision about one slice, seen from any slice: done stays done, and a *)
(* canceled slice comes back only if the decision is about it.             *)
(***************************************************************************)
LEMMA SlicesChange ==
    ASSUME HostInv, [HostNext]_hostVars, NEW s \in Slice
    PROVE  /\ slices[s] = "done" => slices'[s] = "done"
           /\ slices[s] = "canceled" /\ slices'[s] # "canceled"
                 => host # Idle /\ host.slice = s
<1> USE DEF HostInv
<1>1. ASSUME NEW r \in Slice, Launch(r)
      PROVE  slices[r] \notin {"done", "canceled"} /\ \A q \in Slice \ {r} : slices'[q] = slices[q]
  BY <1>1 DEF Launch, MarkRunning, IsFirst, NextSlices, Running, Selectable, HostTypeOK
<1>2. ASSUME NEW r \in Slice, Run(r) \/ ReviewOutcome(r)
      PROVE  slices' = slices
  BY <1>2 DEF Run, ReviewOutcome
<1>3. ASSUME NEW r \in Slice, Adjudicate(r)
      PROVE  host # Idle /\ host.slice = r /\ \A q \in Slice \ {r} : slices'[q] = slices[q]
  BY <1>3, ControllerAssumption DEF Adjudicate, Apply, HostCall, HostTypeOK
<1>4. ASSUME NEW r \in Slice, AdjudicateWithoutOutcome(r)
      PROVE  host # Idle /\ host.slice = r /\ \A q \in Slice \ {r} : slices'[q] = slices[q]
  BY <1>4, ControllerAssumption DEF AdjudicateWithoutOutcome, Apply, HostCall, HostTypeOK
<1>5. ASSUME NEW r \in Slice, SendBack(r) \/ Cancel(r)
      PROVE  slices[r] \notin {"done", "canceled"} /\ \A q \in Slice \ {r} : slices'[q] = slices[q]
  BY <1>5 DEF SendBack, Cancel, Apply, HostTypeOK
<1>6. host # Idle => slices[host.slice] # "done"
  BY DEF HostIsSound, Held
<1>7. HostCrash \/ UNCHANGED hostVars => slices' = slices
  BY DEF HostCrash, hostVars
<1> QED BY <1>1, <1>2, <1>3, <1>4, <1>5, <1>6, <1>7 DEF HostNext

(* A finished slice is never run or judged again. *)
THEOREM DoneStaysDone == HostSpec => DoneIsFinal
<1>1. HostInv /\ [HostNext]_hostVars => [\A s \in Slice : slices[s] = "done" => slices'[s] = "done"]_hostVars
  BY SlicesChange
<1> QED BY <1>1, ControllerIsSafe, PTL DEF HostSpec, DoneIsFinal

(* A canceled slice is brought back by the run in flight or not at all. *)
THEOREM OnlyInFlight == HostSpec => OnlyTheRunInFlightRevives
<1>1. HostInv /\ [HostNext]_hostVars =>
        [\A s \in Slice : slices[s] = "canceled" /\ slices'[s] # "canceled"
                               => host # Idle /\ host.slice = s]_hostVars
  BY SlicesChange
<1> QED BY <1>1, ControllerIsSafe, PTL DEF HostSpec, OnlyTheRunInFlightRevives

-----------------------------------------------------------------------------
(* An active loop goes on *)

Stopped(t) == {s \in Slice : t[s] \in {"blocked", "needs_stefan"}}

(***************************************************************************)
(* Why no decision leaves an active loop with a slice in a status nothing  *)
(* selects: a loop that stops a slice stops with it, nothing is launched   *)
(* before a human sends that slice back, and then no slice is stopped.     *)
(* Nothing puts a slice in "reviewing".                                    *)
(***************************************************************************)
StopsAreAlone ==
    /\ host # Idle \/ status = "active" => Stopped(slices) = {}
    /\ \A r, s \in Stopped(slices) : r = s
    /\ \A s \in Slice : slices[s] # "reviewing"

(* A decision stops the loop if it stops the slice. *)
LEMMA StoppedAfter ==
    ASSUME HostTypeOK, NEW s \in Slice, NEW action \in Action, NEW e \in BOOLEAN,
           Apply(s, action, e), slices[s] # "done",
           \A r \in Slice : slices[r] # "reviewing"
    PROVE  /\ Stopped(slices') \ {s} = Stopped(slices) \ {s}
           /\ status' = "active" => s \notin Stopped(slices')
           /\ SliceAfter(action, e) \notin {"blocked", "needs_stefan"}
                 => s \notin Stopped(slices')
           /\ \A r \in Slice : slices'[r] # "reviewing"
<1>1. /\ slices' \in [Slice -> SliceStatus]
      /\ slices'[s] = SliceAfter(action, e)
      /\ \A r \in Slice \ {s} : slices'[r] = slices[r]
  BY Applied
<1>2. SliceAfter(action, e) # "reviewing"
  BY SliceAfterType
<1>3. SliceAfter(action, e) \in {"blocked", "needs_stefan"} => status' # "active"
  <2>1. status' = LoopAfter(action, slices')
    BY DEF Apply
  <2>2. SliceAfter(action, e) \in {"blocked", "needs_stefan"}
            => action \in {"blocked", "needs_stefan"}
    BY DEF SliceAfter, Action
  <2> QED BY <2>1, <2>2 DEF LoopAfter
<1> QED BY <1>1, <1>2, <1>3 DEF Stopped

(* The host decides about a slice while none is stopped. *)
LEMMA HostStopsAlone ==
    ASSUME HostInv, StopsAreAlone, NEW s \in Slice, NEW action \in Action, NEW e \in BOOLEAN,
           Apply(s, action, e), slices[s] # "done", host # Idle, host' = Idle
    PROVE  StopsAreAlone'
<1>1. HostTypeOK /\ Stopped(slices) = {} /\ \A r \in Slice : slices[r] # "reviewing"
  BY DEF HostInv, StopsAreAlone
<1>2. /\ Stopped(slices') \subseteq {s}
      /\ status' = "active" => s \notin Stopped(slices')
      /\ \A r \in Slice : slices'[r] # "reviewing"
  BY <1>1, StoppedAfter
<1> QED BY <1>2 DEF StopsAreAlone

LEMMA StopsStayAlone ==
    ASSUME HostInv, StopsAreAlone, [HostNext]_hostVars
    PROVE  StopsAreAlone'
<1>1. ASSUME NEW s \in Slice, Launch(s) PROVE StopsAreAlone'
  <2>1. slices \in [Slice -> SliceStatus] /\ status = "active"
        /\ slices' = [slices EXCEPT ![s] = "running"]
    BY <1>1 DEF Launch, MarkRunning, HostInv, HostTypeOK
  <2>2. Stopped(slices') = {} /\ \A r \in Slice : slices'[r] # "reviewing"
    BY <2>1 DEF StopsAreAlone, Stopped
  <2> QED BY <2>2 DEF StopsAreAlone
<1>2. ASSUME NEW s \in Slice, Run(s) \/ ReviewOutcome(s) PROVE StopsAreAlone'
  <2>1. host # Idle /\ UNCHANGED <<status, slices>>
    BY <1>2, ControllerAssumption DEF Run, ReviewOutcome, HostCall
  <2> QED BY <2>1 DEF StopsAreAlone
<1>3. ASSUME NEW s \in Slice, Adjudicate(s) PROVE StopsAreAlone'
  <2>1. PICK r \in PeerReview :
            /\ host = [next |-> "apply", slice |-> s, review |-> r]
            /\ Apply(s, Decision(slices, s, outcomes[s], r), TRUE)
    BY <1>3 DEF Adjudicate
  <2>2. host # Idle /\ host.slice = s /\ host' = Idle
    BY <1>3, <2>1, ControllerAssumption DEF Adjudicate, HostCall
  <2>3. slices[s] # "done"
    BY <2>2 DEF HostInv, HostIsSound, Held
  <2> DEFINE action == Decision(slices, s, outcomes[s], r)
  <2>4. action \in Action
    BY DecisionType
  <2>5. Apply(s, action, TRUE)
    BY <2>1
  <2> HIDE DEF action
  <2> QED BY <2>2, <2>3, <2>4, <2>5, HostStopsAlone
<1>4. ASSUME NEW s \in Slice, AdjudicateWithoutOutcome(s) PROVE StopsAreAlone'
  <2>1. PICK e \in BOOLEAN :
            host = [next |-> "review", slice |-> s] /\ Apply(s, "continue", e) /\ host' = Idle
    BY <1>4 DEF AdjudicateWithoutOutcome, DecisionWithoutOutcome
  <2>2. host # Idle /\ host.slice = s /\ "continue" \in Action
    BY <2>1, ControllerAssumption DEF HostCall, Action
  <2>3. slices[s] # "done"
    BY <2>2 DEF HostInv, HostIsSound, Held
  <2> QED BY <2>1, <2>2, <2>3, HostStopsAlone
<1>5. ASSUME NEW s \in Slice, SendBack(s) PROVE StopsAreAlone'
  <2>1. slices[s] \in {"blocked", "needs_stefan"} /\ Apply(s, "continue", FALSE)
        /\ "continue" \in Action
    BY <1>5 DEF SendBack, Action
  <2>2. SliceAfter("continue", FALSE) = "ready"
    BY DEF SliceAfter
  <2>3. Stopped(slices) = {s}
    BY <2>1 DEF StopsAreAlone, Stopped
  <2>4. /\ Stopped(slices') \ {s} = Stopped(slices) \ {s}
        /\ s \notin Stopped(slices')
        /\ \A r \in Slice : slices'[r] # "reviewing"
    BY <2>1, <2>2, StoppedAfter DEF HostInv, StopsAreAlone
  <2> QED BY <2>3, <2>4 DEF StopsAreAlone
<1>6. ASSUME NEW s \in Slice, Cancel(s) PROVE StopsAreAlone'
  <2>1. slices[s] # "done" /\ Apply(s, "canceled", FALSE) /\ host' = host
        /\ "canceled" \in Action
    BY <1>6 DEF Cancel, Action
  <2>2. SliceAfter("canceled", FALSE) = "canceled" /\ status' = "canceled"
    BY <2>1 DEF SliceAfter, LoopAfter, Apply
  <2>3. /\ Stopped(slices') \ {s} = Stopped(slices) \ {s}
        /\ s \notin Stopped(slices')
        /\ \A r \in Slice : slices'[r] # "reviewing"
    BY <2>1, <2>2, StoppedAfter DEF HostInv, StopsAreAlone
  <2> QED BY <2>1, <2>2, <2>3 DEF StopsAreAlone
<1>7. ASSUME HostCrash \/ UNCHANGED hostVars PROVE StopsAreAlone'
  BY <1>7 DEF HostCrash, hostVars, StopsAreAlone
<1> QED BY <1>1, <1>2, <1>3, <1>4, <1>5, <1>6, <1>7 DEF HostNext

(***************************************************************************)
(* In an active loop where nothing runs, nothing can be selected and       *)
(* nothing was canceled, the slices not done are ready or to be repaired   *)
(* and each waits for another one of them.                                 *)
(***************************************************************************)
LEMMA StuckSlicesWait ==
    ASSUME HostInv, StopsAreAlone
    PROVE  ActiveLoopCanGoOn
<1> SUFFICES ASSUME status = "active", NextSlices = {},
                    \A s \in Slice : slices[s] # "canceled"
             PROVE  \E set \in SUBSET Slice : WaitForEachOther(set)
  BY DEF ActiveLoopCanGoOn
<1> DEFINE left == {s \in Slice : slices[s] \in {"ready", "repair_queued"}}
<1>1. Running(slices) = {} /\ Selectable(slices) = {}
  BY DEF NextSlices
<1>2. \A s \in Slice : slices[s] = "done" \/ s \in left
  BY <1>1 DEF HostInv, HostTypeOK, SliceStatus, StopsAreAlone, Stopped, Running
<1>3. left # {}
  BY <1>2 DEF HostInv, DoneLoopHasDoneSlices, AllDone
<1>4. ASSUME NEW s \in left PROVE DependsOn[s] \cap left # {}
  <2>1. PICK d \in DependsOn[s] : slices[d] # "done"
    BY <1>1 DEF Selectable
  <2>2. d \in Slice
    BY SliceAssumption
  <2> QED BY <1>2, <2>1, <2>2
<1> HIDE DEF left
<1>5. WaitForEachOther(left)
  BY <1>3, <1>4 DEF WaitForEachOther
<1>6. left \in SUBSET Slice
  BY DEF left
<1> QED BY <1>5, <1>6

(***************************************************************************)
(* An active loop has a slice to run, unless a slice was canceled or some  *)
(* wait for each other.                                                    *)
(***************************************************************************)
THEOREM ActiveGoesOn == HostSpec => []ActiveLoopCanGoOn
<1>1. HostInit => StopsAreAlone
  BY DEF HostInit, StopsAreAlone, Stopped
<1>2. HostInv /\ StopsAreAlone /\ [HostNext]_hostVars => StopsAreAlone'
  BY StopsStayAlone
<1>3. HostInv /\ StopsAreAlone => ActiveLoopCanGoOn
  BY StuckSlicesWait
<1> QED BY <1>1, <1>2, <1>3, ControllerIsSafe, PTL DEF HostSpec

-----------------------------------------------------------------------------
(* The executors' work loops *)

(* The work loops run-codex submits and reports are among those modelled. *)
LEMMA LoopFacts ==
  ASSUME TypeOK, NEW p \in Plan, NEW ending \in {"active", "blocked", "done"}
  PROVE  /\ [plans[p].workLoop EXCEPT !.status = ending] \in LoopInput
         /\ [plans[p].workLoop EXCEPT !.status = ending].status = ending
<1>1. plans[p].workLoop \in WorkLoop
  BY StateTypes
<1>2. [plans[p].workLoop EXCEPT !.status = ending]
        \in [status : {"active", "blocked", "done"}, projectId : Project]
  BY <1>1 DEF WorkLoop
<1> QED
  BY <1>1, <1>2, ExecutorAssumption DEF WorkLoop

-----------------------------------------------------------------------------
(* The executors use the store and nothing else *)

LEMMA SubmitIsCreate ==
  ASSUME NEW p \in Plan, NEW project \in Project, NEW asked \in BOOLEAN,
         Submit(p, project, asked)
  PROVE  \E loop \in LoopInput, ok \in BOOLEAN :
            loop.status = "active" /\ CreatePlan(p, loop, asked, ok)
<1> DEFINE loop == [status |-> "active", projectId |-> project]
<1>1. loop \in LoopInput
  BY ExecutorAssumption
<1> QED
  BY <1>1 DEF Submit

(* A report with its loop named: a completion or one of two releases.      *)
Reported(t, loop) ==
    \/ /\ loop.status = "done"
       /\ AllDone(SlicesAfterRun(executors[t]))
       /\ \E ok \in BOOLEAN :
             CompletePlan(executors[t].plan, executors[t].lease, t, loop, ok)
    \/ /\ loop.status # "done"
       /\ \E reason \in ReleaseReason, ok \in BOOLEAN :
             ReleasePlan(executors[t].plan, executors[t].lease, t, loop, reason, ok)

(* updateWorkLoopAfterCodexRun says done only when every slice is done.    *)
LEMMA StatusFacts ==
  ASSUME NEW run
  PROVE  /\ StatusAfterRun(run) \in {"active", "blocked", "done"}
         /\ StatusAfterRun(run) = "done" => AllDone(SlicesAfterRun(run))
BY DEF StatusAfterRun, LoopAfterRun

LEMMA ReportIsReported ==
  ASSUME TypeOK, NEW t \in Token, executors[t].plan \in Plan, Report(t)
  PROVE  \E loop \in LoopInput : Reported(t, loop)
<1> DEFINE run    == executors[t]
           ending == StatusAfterRun(run)
           loop   == [plans[run.plan].workLoop EXCEPT !.status = ending]
<1>1. ending \in {"active", "blocked", "done"} /\ (ending = "done" => AllDone(SlicesAfterRun(run)))
  BY StatusFacts
<1>2. PICK ok \in BOOLEAN :
        \/ ending = "done"   /\ CompletePlan(run.plan, run.lease, t, loop, ok)
        \/ ending = "active" /\ ReleasePlan(run.plan, run.lease, t, loop, "ready", ok)
        \/ ending = "blocked" /\ ReleasePlan(run.plan, run.lease, t, loop, "failed", ok)
  BY DEF Report
<1> HIDE DEF ending
<1>3. loop \in LoopInput /\ loop.status = ending
  BY <1>1, LoopFacts
<1> HIDE DEF loop
<1>4. {"ready", "failed"} \subseteq ReleaseReason
  BY DEF ReleaseReason
<1> QED
  BY <1>1, <1>2, <1>3, <1>4 DEF Reported

(* Every step of the executors and the rest is a step of the store.        *)
LEMMA ReportedIsNext ==
  ASSUME NEW t \in Token, NEW loop \in LoopInput, Reported(t, loop),
         executors[t].plan \in Plan, executors[t].lease \in Lease
  PROVE  Next
BY DEF Reported, Next, ExecutorStep

LEMMA ClaimIsNext ==
  ASSUME NEW t \in Token, NEW p \in Plan, NEW l \in Lease, Claim(t, p, l) \/ ClaimFails(t, p, l)
  PROVE  Next
<1>1. PICK ok \in BOOLEAN, plan \in Plan \cup {AnyPlan}, project \in Project \cup {AnyProject} :
        ClaimNextPlan(t, l, p, plan, project, ok)
  BY DEF Claim, ClaimFails
<1> QED
  BY <1>1 DEF Next, ExecutorStep

LEMMA StepIsStoreStep ==
  ASSUME TypeOK, [ExecutorNext]_allVars,
         executors \in [Token -> RunState \cup {NoRun}]
  PROVE  [Next]_vars
<1>1. CASE \E p \in Plan, project \in Project, asked \in BOOLEAN : Submit(p, project, asked)
  BY <1>1, SubmitIsCreate DEF Next
<1>2. CASE \E t \in Token, p \in Plan, l \in Lease : Claim(t, p, l) \/ ClaimFails(t, p, l)
  BY <1>2, ClaimIsNext
<1>3. CASE \E t \in Token : Report(t)
  <2> PICK t \in Token : Report(t)
    BY <1>3
  <2>1. executors[t] \in RunState
    BY DEF Report, HasResult
  <2>2. executors[t].plan \in Plan /\ executors[t].lease \in Lease
    BY <2>1 DEF RunState
  <2> QED
    BY <2>2, ReportIsReported, ReportedIsNext
<1>4. CASE \E t \in Token : Finish(t) \/ ReportRefused(t) \/ Crash(t)
  BY <1>4 DEF Finish, ReportRefused, Crash
<1>5. CASE Others
  BY <1>5 DEF Others, Next
<1>6. CASE UNCHANGED allVars
  BY <1>6 DEF allVars
<1> QED
  BY <1>1, <1>2, <1>3, <1>4, <1>5, <1>6 DEF ExecutorNext

-----------------------------------------------------------------------------
(* The inductive invariant *)

(***************************************************************************)
(* A run presents a lease that was granted to it; if that lease is still   *)
(* on the plan, expired or not, nobody has written the loop since; and the *)
(* slice it runs is the one its copy asks for.                             *)
(***************************************************************************)
IsCurrent(run, p, s) ==
    p[run.plan].lock # NoLock /\ p[run.plan].lock.leaseId = run.lease
        => s[run.plan] = run.copy

IsGrantedTo(t, run, g) ==
    g[run.lease] # NoGrant /\ g[run.lease].plan = run.plan /\ g[run.lease].token = t

RunsAreSound ==
    \A t \in Token :
        executors[t] # NoRun =>
            /\ IsGrantedTo(t, executors[t], grants)
            /\ IsCurrent(executors[t], plans, stored)
            /\ IsPicked(executors[t].slice, executors[t].copy)

XInv == IInv /\ ExecutorTypeOK /\ RunsAreSound /\ CompletedPlanIsWorkedOff

(* What a step leaves of leases, locks and stored slices, for the runs     *)
(* that do not take it.                                                    *)
KeepsLeases ==
    \A l \in Lease :
        grants[l] # NoGrant =>
            /\ grants'[l] # NoGrant
            /\ grants'[l].plan = grants[l].plan
            /\ grants'[l].token = grants[l].token

KeepsLocks ==
    \A p \in Plan :
        plans'[p].lock # NoLock =>
            \/ plans'[p].lock = plans[p].lock /\ stored'[p] = stored[p]
            \/ grants[plans'[p].lock.leaseId] = NoGrant

(* What is true of a run stays true of it. *)
LEMMA SoundRunsStaySound ==
  ASSUME RunsAreSound, KeepsLeases, KeepsLocks,
         NEW t \in Token, executors[t] \in RunState, executors[t] # NoRun
  PROVE  /\ IsGrantedTo(t, executors[t], grants')
         /\ IsCurrent(executors[t], plans', stored')
         /\ IsPicked(executors[t].slice, executors[t].copy)
<1>1. executors[t].plan \in Plan /\ executors[t].lease \in Lease
  BY DEF RunState
<1>2. /\ IsGrantedTo(t, executors[t], grants)
      /\ IsCurrent(executors[t], plans, stored)
      /\ IsPicked(executors[t].slice, executors[t].copy)
  BY DEF RunsAreSound
<1>3. IsGrantedTo(t, executors[t], grants')
  BY <1>1, <1>2 DEF IsGrantedTo, KeepsLeases
<1>4. IsCurrent(executors[t], plans', stored')
  BY <1>1, <1>2 DEF IsGrantedTo, IsCurrent, KeepsLocks
<1> QED
  BY <1>2, <1>3, <1>4

(* A step in which no run begins, and no run changes but by ending or by   *)
(* getting its result.                                                     *)
StartsNoRun ==
    \A t \in Token :
        \/ executors'[t] = NoRun
        \/ /\ executors[t] # NoRun
           /\ executors'[t] \in RunState
           /\ executors'[t].plan = executors[t].plan
           /\ executors'[t].lease = executors[t].lease
           /\ executors'[t].slice = executors[t].slice
           /\ executors'[t].copy = executors[t].copy

LEMMA RunsStaySound ==
  ASSUME ExecutorTypeOK, RunsAreSound, KeepsLeases, KeepsLocks, StartsNoRun
  PROVE  RunsAreSound'
<1> SUFFICES ASSUME NEW t \in Token, executors'[t] # NoRun
             PROVE  /\ IsGrantedTo(t, executors'[t], grants')
                    /\ IsCurrent(executors'[t], plans', stored')
                    /\ IsPicked(executors'[t].slice, executors'[t].copy)
  BY DEF RunsAreSound, IsGrantedTo, IsCurrent
<1>1. executors[t] \in RunState /\ executors[t] # NoRun
  BY DEF StartsNoRun, ExecutorTypeOK
<1>2. /\ executors'[t].plan = executors[t].plan
      /\ executors'[t].lease = executors[t].lease
      /\ executors'[t].slice = executors[t].slice
      /\ executors'[t].copy = executors[t].copy
  BY DEF StartsNoRun
<1>3. /\ IsGrantedTo(t, executors[t], grants')
      /\ IsCurrent(executors[t], plans', stored')
      /\ IsPicked(executors[t].slice, executors[t].copy)
  BY <1>1, SoundRunsStaySound
<1>4. IsGrantedTo(t, executors'[t], grants') /\ IsCurrent(executors'[t], plans', stored')
  BY <1>2, <1>3 DEF IsGrantedTo, IsCurrent
<1> QED
  BY <1>2, <1>3, <1>4

(* The plan's side: only the plan p is written, its status and work loop   *)
(* agreeing with its slices afterwards.                                    *)
IsWorkedOff(r, list) ==
    /\ Exists(r) => (r.status = "completed" <=> r.workLoop.status = "done")
    /\ r.status = "completed" => AllDone(list)

LEMMA WorkedOffAfter ==
  ASSUME CompletedPlanIsWorkedOff, NEW p \in Plan, NEW r, NEW event,
         Writes(p, r, event), IsWorkedOff(r, stored'[p]),
         \A q \in Plan : q # p => stored'[q] = stored[q]
  PROVE  CompletedPlanIsWorkedOff'
<1> SUFFICES ASSUME NEW q \in Plan PROVE IsWorkedOff(plans'[q], stored'[q])
  BY DEF CompletedPlanIsWorkedOff, IsWorkedOff, Exists, AllDone
<1>1. CASE q = p
  BY <1>1 DEF Writes
<1>2. CASE q # p
  <2>1. IsWorkedOff(plans[q], stored[q])
    BY DEF CompletedPlanIsWorkedOff, IsWorkedOff
  <2> QED
    BY <1>2, <2>1 DEF Writes
<1> QED
  BY <1>1, <1>2

-----------------------------------------------------------------------------
(* Step by step *)

LEMMA SubmitKeeps ==
  ASSUME XInv, NEW p \in Plan, NEW project \in Project, NEW asked \in BOOLEAN,
         Submit(p, project, asked)
  PROVE  KeepsLeases /\ KeepsLocks /\ StartsNoRun
         /\ CompletedPlanIsWorkedOff' /\ ExecutorTypeOK'
<1>0. IInv /\ TypeOK /\ ExecutorTypeOK /\ CompletedPlanIsWorkedOff
  BY DEF XInv, ExecutorTypeOK
<1>1. PICK loop \in LoopInput, ok \in BOOLEAN :
        loop.status = "active" /\ CreatePlan(p, loop, asked, ok)
  BY SubmitIsCreate
<1>2. PICK required \in BOOLEAN :
         /\ Writes(p, Submitted(loop, required, now),
                   IF required THEN "submit_for_approval" ELSE "submit")
         /\ grants' = grants
  BY <1>0, <1>1, CreateEffect
<1>3. loop \in WorkLoop /\ now \in Nat
  BY <1>0, StateTypes
<1>4. /\ Submitted(loop, required, now).status = "queued"
      /\ Submitted(loop, required, now).lock = NoLock
      /\ Submitted(loop, required, now).workLoop = loop
  <2>1. Submitted(loop, required, now).workLoop = loop
    BY <1>3, NoPlanFacts DEF Submitted, Record
  <2> QED
    BY <1>3, <2>1, SubmittedFacts
<1>5. PICK list \in Submissions : stored' = [stored EXCEPT ![p] = list]
  BY DEF Submit
<1>6. executors' = executors
  BY DEF Submit
<1>7. stored' \in [Plan -> [Slice -> SliceStatus]] /\ \A q \in Plan : q # p => stored'[q] = stored[q]
  BY <1>0, <1>5, ExecutorAssumption DEF ExecutorTypeOK
<1>8. TypeOK'
  BY <1>0, <1>1, CreateStep DEF IInv
<1>9. CompletedPlanIsWorkedOff'
  BY <1>0, <1>1, <1>2, <1>4, <1>7, WorkedOffAfter DEF IsWorkedOff
<1>10. KeepsLocks
  BY <1>2, <1>4, <1>7 DEF KeepsLocks, Writes
<1> QED
  BY <1>0, <1>2, <1>6, <1>7, <1>8, <1>9, <1>10 DEF KeepsLeases, StartsNoRun, ExecutorTypeOK

(* A report writes the loop back under a lease that is the plan's lock,    *)
(* and takes the lock away.                                                *)
LEMMA ReportEffect ==
  ASSUME XInv, NEW t \in Token, Report(t)
  PROVE  \E loop \in LoopInput, r \in Record, event \in AuditType :
           /\ executors[t] \in RunState
           /\ HoldsLease(plans[executors[t].plan], executors[t].lease, t, now)
           /\ Writes(executors[t].plan, r, event)
           /\ Regrants(executors[t].lease,
                       GrantOf(executors[t].plan, plans[executors[t].plan].lock, FALSE))
           /\ r.lock = NoLock
           /\ IsWorkedOff(r, SlicesAfterRun(executors[t]))
<1>0. TypeOK /\ LockIsGranted /\ executors[t] \in RunState
  BY DEF XInv, IInv, ExecutorTypeOK, Report, HasResult
<1> DEFINE p == executors[t].plan
           l == executors[t].lease
<1>1. p \in Plan /\ l \in Lease
  BY <1>0 DEF RunState
<1>2. PICK loop \in LoopInput : Reported(t, loop)
  BY <1>0, <1>1, ReportIsReported
<1>3. loop \in WorkLoop /\ plans[p] \in Record
  BY <1>0, <1>1, StateTypes
<1>4. ASSUME loop.status = "done", AllDone(SlicesAfterRun(executors[t])),
             NEW ok \in BOOLEAN, CompletePlan(p, l, t, loop, ok)
      PROVE  \E r \in Record, event \in AuditType :
               /\ HoldsLease(plans[p], l, t, now)
               /\ Writes(p, r, event)
               /\ Regrants(l, GrantOf(p, plans[p].lock, FALSE))
               /\ r.lock = NoLock
               /\ IsWorkedOff(r, SlicesAfterRun(executors[t]))
  <2>1. /\ HoldsLease(plans[p], l, t, now)
        /\ Writes(p, Completed(plans[p], loop, t), "complete")
        /\ Regrants(l, GrantOf(p, plans[p].lock, FALSE))
    BY <1>0, <1>1, <1>4, CompleteEffect
  <2>2. /\ Completed(plans[p], loop, t) \in Record
        /\ Completed(plans[p], loop, t).lock = NoLock
        /\ Completed(plans[p], loop, t).status = "completed"
    BY <1>3, CompletedFacts
  <2>3. Completed(plans[p], loop, t).workLoop = loop
    BY <1>3 DEF Completed, Record
  <2>4. IsWorkedOff(Completed(plans[p], loop, t), SlicesAfterRun(executors[t]))
    BY <1>4, <2>2, <2>3 DEF IsWorkedOff
  <2> QED
    BY <1>0, <2>1, <2>2, <2>4 DEF AuditType
<1>5. ASSUME loop.status # "done", NEW reason \in ReleaseReason,
             NEW ok \in BOOLEAN, ReleasePlan(p, l, t, loop, reason, ok)
      PROVE  \E r \in Record, event \in AuditType :
               /\ HoldsLease(plans[p], l, t, now)
               /\ Writes(p, r, event)
               /\ Regrants(l, GrantOf(p, plans[p].lock, FALSE))
               /\ r.lock = NoLock
               /\ IsWorkedOff(r, SlicesAfterRun(executors[t]))
  <2>1. /\ HoldsLease(plans[p], l, t, now)
        /\ Writes(p, Released(plans[p], loop, reason), "release")
        /\ Regrants(l, GrantOf(p, plans[p].lock, FALSE))
    BY <1>0, <1>1, <1>5, ReleaseEffect
  <2>2. /\ Released(plans[p], loop, reason) \in Record
        /\ Released(plans[p], loop, reason).lock = NoLock
        /\ Released(plans[p], loop, reason).status \in {"queued", "blocked", "canceled"}
    BY <1>3, ReleasedFacts
  <2>3. Released(plans[p], loop, reason).workLoop = loop
    BY <1>3 DEF Released, Record
  <2>4. IsWorkedOff(Released(plans[p], loop, reason), SlicesAfterRun(executors[t]))
    BY <1>5, <2>2, <2>3 DEF IsWorkedOff
  <2> QED
    BY <2>1, <2>2, <2>4 DEF AuditType
<1> QED
  BY <1>0, <1>2, <1>4, <1>5 DEF Reported

LEMMA SlicesAfterRunType ==
  ASSUME NEW run \in RunState
  PROVE  /\ SlicesAfterRun(run) \in [Slice -> SliceStatus]
         /\ \A s \in Slice : s # run.slice => SlicesAfterRun(run)[s] = run.copy[s]
<1>1. run.copy \in [Slice -> SliceStatus]
  BY DEF RunState
<1>2. SliceAfterRun(run.result) \in SliceStatus
  BY DEF SliceAfterRun, SliceStatus
<1> QED
  BY <1>1, <1>2 DEF SlicesAfterRun

LEMMA ReportKeeps ==
  ASSUME XInv, NEW t \in Token, Report(t), TypeOK'
  PROVE  KeepsLeases /\ KeepsLocks /\ StartsNoRun
         /\ CompletedPlanIsWorkedOff' /\ ExecutorTypeOK'
<1>0. TypeOK /\ LockIsGranted /\ ExecutorTypeOK /\ CompletedPlanIsWorkedOff
  BY DEF XInv, IInv
<1> DEFINE p == executors[t].plan
           l == executors[t].lease
<1>1. PICK loop \in LoopInput, r \in Record, event \in AuditType :
           /\ executors[t] \in RunState
           /\ HoldsLease(plans[p], l, t, now)
           /\ Writes(p, r, event)
           /\ Regrants(l, GrantOf(p, plans[p].lock, FALSE))
           /\ r.lock = NoLock
           /\ IsWorkedOff(r, SlicesAfterRun(executors[t]))
  BY ReportEffect
<1>2. p \in Plan /\ l \in Lease
  BY <1>1 DEF RunState
<1>3. /\ stored' = [stored EXCEPT ![p] = SlicesAfterRun(executors[t])]
      /\ executors' = [executors EXCEPT ![t] = NoRun]
  BY DEF Report
<1>4. /\ stored' \in [Plan -> [Slice -> SliceStatus]]
      /\ stored'[p] = SlicesAfterRun(executors[t])
      /\ \A q \in Plan : q # p => stored'[q] = stored[q]
  BY <1>0, <1>1, <1>2, <1>3, SlicesAfterRunType DEF ExecutorTypeOK
<1>5. executors' \in [Token -> RunState \cup {NoRun}] /\ StartsNoRun
  BY <1>0, <1>3 DEF ExecutorTypeOK, StartsNoRun
<1>6. KeepsLeases
  <2>1. grants[l] = GrantOf(p, plans[p].lock, TRUE)
    BY <1>0, <1>1, <1>2, HolderHasGrant
  <2>2. /\ grants'[l] = GrantOf(p, plans[p].lock, FALSE)
        /\ grants'[l] # NoGrant
        /\ \A k \in Lease : k # l => grants'[k] = grants[k]
    BY <1>1, GrantAssumption DEF Regrants
  <2>3. grants'[l].plan = grants[l].plan /\ grants'[l].token = grants[l].token
    BY <2>1, <2>2 DEF GrantOf
  <2> QED
    BY <2>2, <2>3 DEF KeepsLeases
<1>7. KeepsLocks
  BY <1>1, <1>4 DEF KeepsLocks, Writes
<1>8. CompletedPlanIsWorkedOff'
  BY <1>0, <1>1, <1>2, <1>4, WorkedOffAfter
<1> QED
  BY <1>4, <1>5, <1>6, <1>7, <1>8 DEF ExecutorTypeOK

(* claimNextPlan takes a plan that is not completed, under a fresh lease,  *)
(* and leaves the stored loops alone.                                      *)
LEMMA ClaimedKeeps ==
  ASSUME XInv, NEW t \in Token, NEW p \in Plan, NEW l \in Lease, NEW ok \in BOOLEAN,
         NEW plan, NEW project, ClaimNextPlan(t, l, p, plan, project, ok), stored' = stored
  PROVE  /\ KeepsLeases /\ KeepsLocks /\ CompletedPlanIsWorkedOff'
         /\ grants'[l] # NoGrant /\ grants'[l].plan = p /\ grants'[l].token = t
<1>0. TypeOK /\ ExecutorTypeOK /\ CompletedPlanIsWorkedOff
  BY DEF XInv, ExecutorTypeOK
<1>1. /\ plans[p].status \in {"queued", "locked"}
      /\ grants[l] = NoGrant
      /\ Writes(p, Locked(plans[p], l, t, now), "claim")
      /\ Regrants(l, GrantOf(p, Locked(plans[p], l, t, now).lock, TRUE))
  BY <1>0, ClaimEffect
<1>2. plans[p] \in Record /\ now \in Nat
  BY <1>0, StateTypes
<1>3. /\ Locked(plans[p], l, t, now).status = "locked"
      /\ Locked(plans[p], l, t, now).lock =
            [leaseId |-> l, clientTokenId |-> t, expiresAt |-> now + LeaseTimeout]
  BY <1>2, LockedFacts
<1>4. Locked(plans[p], l, t, now).workLoop = plans[p].workLoop
  BY <1>2 DEF Locked, Record
<1>5. KeepsLeases
  BY <1>1 DEF KeepsLeases, Regrants
<1>6. plans'[p].lock.leaseId = l
  BY <1>1, <1>3 DEF Writes
<1>7. KeepsLocks
  BY <1>1, <1>6 DEF KeepsLocks, Writes
<1>8. CompletedPlanIsWorkedOff'
  <2>1. Exists(plans[p]) /\ plans[p].status # "completed"
    BY <1>1 DEF Exists
  <2>2. plans[p].workLoop.status # "done"
    BY <1>0, <2>1 DEF CompletedPlanIsWorkedOff
  <2>3. IsWorkedOff(Locked(plans[p], l, t, now), stored'[p])
    BY <1>3, <1>4, <2>2 DEF IsWorkedOff
  <2> QED
    BY <1>0, <1>1, <2>3, WorkedOffAfter
<1>9. grants'[l] = GrantOf(p, Locked(plans[p], l, t, now).lock, TRUE) /\ grants'[l] # NoGrant
  BY <1>1, GrantAssumption DEF Regrants
<1>10. grants'[l].plan = p /\ grants'[l].token = t
  BY <1>3, <1>9 DEF GrantOf
<1> QED
  BY <1>5, <1>7, <1>8, <1>9, <1>10

(* The answer to a claim is the loop as it is stored, and a run of it      *)
(* begins.                                                                 *)
LEMMA ClaimKeeps ==
  ASSUME XInv, NEW t \in Token, NEW p \in Plan, NEW l \in Lease, Claim(t, p, l), TypeOK'
  PROVE  KeepsLeases /\ KeepsLocks
         /\ CompletedPlanIsWorkedOff' /\ ExecutorTypeOK' /\ RunsAreSound'
<1>0. TypeOK /\ ExecutorTypeOK /\ RunsAreSound
  BY DEF XInv, ExecutorTypeOK
<1>1. PICK plan \in Plan \cup {AnyPlan}, project \in Project \cup {AnyProject} :
         ClaimNextPlan(t, l, p, plan, project, TRUE)
  BY DEF Claim
<1>2. stored' = stored
  BY DEF Claim
<1>3. /\ KeepsLeases /\ KeepsLocks /\ CompletedPlanIsWorkedOff'
      /\ grants'[l] # NoGrant /\ grants'[l].plan = p /\ grants'[l].token = t
  BY <1>1, <1>2, ClaimedKeeps
<1>6. PICK s \in Slice :
         /\ IsPicked(s, stored[p])
         /\ executors' = [executors EXCEPT ![t] =
               [plan |-> p, lease |-> l, slice |-> s, copy |-> stored[p], result |-> "none"]]
  BY DEF Claim
<1> DEFINE run == [plan |-> p, lease |-> l, slice |-> s, copy |-> stored[p], result |-> "none"]
<1>8. run \in RunState
  BY <1>0 DEF RunState, ExecutorTypeOK
<1>9. executors' \in [Token -> RunState \cup {NoRun}]
  BY <1>0, <1>6, <1>8 DEF ExecutorTypeOK
<1>10. /\ executors'[t] = run
       /\ \A u \in Token : u # t => executors'[u] = executors[u]
  BY <1>0, <1>6 DEF ExecutorTypeOK
<1>11. ExecutorTypeOK'
  BY <1>0, <1>2, <1>9 DEF ExecutorTypeOK
<1>16. RunsAreSound'
  <2> SUFFICES ASSUME NEW u \in Token, executors'[u] # NoRun
               PROVE  /\ IsGrantedTo(u, executors'[u], grants')
                      /\ IsCurrent(executors'[u], plans', stored')
                      /\ IsPicked(executors'[u].slice, executors'[u].copy)
    BY DEF RunsAreSound, IsGrantedTo, IsCurrent
  <2>1. CASE u # t
    <3>1. executors'[u] = executors[u] /\ executors[u] \in RunState
      BY <1>0, <1>10, <2>1 DEF ExecutorTypeOK
    <3> QED
      BY <1>0, <1>3, <3>1, SoundRunsStaySound
  <2>2. CASE u = t
    <3>3. IsGrantedTo(t, run, grants')
      BY <1>3 DEF IsGrantedTo
    <3>4. IsCurrent(run, plans', stored') /\ IsPicked(run.slice, run.copy)
      BY <1>2, <1>6 DEF IsCurrent
    <3> QED
      BY <1>10, <2>2, <3>3, <3>4
  <2> QED
    BY <2>1, <2>2
<1> QED
  BY <1>3, <1>11, <1>16

(* A claim that fails after its write starts no run.                       *)
LEMMA ClaimFailsKeeps ==
  ASSUME XInv, NEW t \in Token, NEW p \in Plan, NEW l \in Lease, ClaimFails(t, p, l), TypeOK'
  PROVE  KeepsLeases /\ KeepsLocks /\ StartsNoRun
         /\ CompletedPlanIsWorkedOff' /\ ExecutorTypeOK'
<1>1. PICK plan \in Plan \cup {AnyPlan}, project \in Project \cup {AnyProject} :
         ClaimNextPlan(t, l, p, plan, project, FALSE)
  BY DEF ClaimFails
<1>2. stored' = stored /\ executors' = executors
  BY DEF ClaimFails
<1>3. KeepsLeases /\ KeepsLocks /\ CompletedPlanIsWorkedOff'
  BY <1>1, <1>2, ClaimedKeeps
<1> QED
  BY <1>2, <1>3 DEF XInv, ExecutorTypeOK, StartsNoRun

(* The child exits, the report is refused, the process dies: the store     *)
(* sees nothing of it.                                                     *)
LEMMA PrivateKeeps ==
  ASSUME XInv, NEW t \in Token, Finish(t) \/ ReportRefused(t) \/ Crash(t)
  PROVE  KeepsLeases /\ KeepsLocks /\ StartsNoRun
         /\ CompletedPlanIsWorkedOff' /\ ExecutorTypeOK'
<1>0. TypeOK /\ ExecutorTypeOK /\ CompletedPlanIsWorkedOff
  BY DEF XInv, ExecutorTypeOK
<1>1. UNCHANGED <<vars, stored>>
  BY DEF Finish, ReportRefused, Crash
<1>2. TypeOK'
  BY <1>0, <1>1 DEF vars, TypeOK
<1>3. \/ executors' = [executors EXCEPT ![t] = NoRun]
      \/ /\ executors[t] # NoRun
         /\ \E result \in {"completed", "failed"} :
               executors' = [executors EXCEPT ![t].result = result]
  BY DEF Finish, ReportRefused, Crash
<1>4. StartsNoRun /\ executors' \in [Token -> RunState \cup {NoRun}]
  <2>1. CASE executors' = [executors EXCEPT ![t] = NoRun]
    BY <1>0, <2>1 DEF ExecutorTypeOK, StartsNoRun
  <2>2. ASSUME executors[t] # NoRun, NEW result \in {"completed", "failed"},
               executors' = [executors EXCEPT ![t].result = result]
        PROVE  StartsNoRun /\ executors' \in [Token -> RunState \cup {NoRun}]
    <3> DEFINE run == [executors[t] EXCEPT !.result = result]
    <3>1. executors[t] \in RunState
      BY <1>0, <2>2 DEF ExecutorTypeOK
    <3>2. /\ run \in RunState
          /\ run.plan = executors[t].plan
          /\ run.lease = executors[t].lease
          /\ run.slice = executors[t].slice
          /\ run.copy = executors[t].copy
      BY <3>1 DEF RunState
    <3>3. executors' = [executors EXCEPT ![t] = run]
      BY <2>2
    <3> HIDE DEF run
    <3> QED
      BY <1>0, <2>2, <3>2, <3>3 DEF ExecutorTypeOK, StartsNoRun
  <2> QED
    BY <1>3, <2>1, <2>2
<1>5. CompletedPlanIsWorkedOff'
  BY <1>0, <1>1 DEF vars, CompletedPlanIsWorkedOff, Exists, AllDone
<1> QED
  BY <1>0, <1>1, <1>2, <1>4, <1>5 DEF vars, KeepsLeases, KeepsLocks, ExecutorTypeOK

LEMMA OthersKeep ==
  ASSUME XInv, Others, TypeOK'
  PROVE  KeepsLeases /\ KeepsLocks /\ StartsNoRun
         /\ CompletedPlanIsWorkedOff' /\ ExecutorTypeOK'
<1>0. TypeOK /\ ExecutorTypeOK /\ CompletedPlanIsWorkedOff
  BY DEF XInv, ExecutorTypeOK
<1>1. stored' = stored /\ executors' = executors
  BY DEF Others
<1>2. StartsNoRun /\ ExecutorTypeOK'
  BY <1>0, <1>1 DEF StartsNoRun, ExecutorTypeOK
<1>3. CASE \E p \in Plan, ok \in BOOLEAN : ReviewerStep(p, ok)
  <2> PICK p \in Plan, ok \in BOOLEAN : ReviewerStep(p, ok)
    BY <1>3
  <2>1. PICK r \in Record, event \in {"approve", "reject", "request_review"} :
           /\ Exists(plans[p])
           /\ SameButApproval(plans[p], r)
           /\ Writes(p, r, event)
           /\ grants' = grants
    BY <1>0, ReviewEffect
  <2>2. IsWorkedOff(plans[p], stored[p])
    BY <1>0 DEF CompletedPlanIsWorkedOff, IsWorkedOff
  <2>3. IsWorkedOff(r, stored'[p])
    BY <1>1, <2>1, <2>2 DEF IsWorkedOff, SameButApproval, Exists
  <2>4. CompletedPlanIsWorkedOff'
    BY <1>0, <1>1, <2>1, <2>3, WorkedOffAfter
  <2>5. KeepsLocks
    BY <1>1, <2>1 DEF KeepsLocks, Writes, SameButApproval
  <2> QED
    BY <1>2, <2>1, <2>4, <2>5 DEF KeepsLeases
<1>4. CASE Tick
  <2>1. plans' = plans /\ grants' = grants
    BY <1>4 DEF Tick
  <2> QED
    BY <1>0, <1>1, <1>2, <2>1 DEF KeepsLeases, KeepsLocks, CompletedPlanIsWorkedOff, Exists, AllDone
<1> QED
  BY <1>3, <1>4 DEF Others

-----------------------------------------------------------------------------
(* The theorems *)

LEMMA InitXInv == ExecutorInit => XInv
<1> SUFFICES ASSUME ExecutorInit PROVE XInv
  OBVIOUS
<1>1. IInv
  BY InitIInv DEF ExecutorInit
<1>2. TypeOK
  BY <1>1 DEF IInv
<1>3. ExecutorTypeOK
  BY <1>2 DEF ExecutorInit, ExecutorTypeOK, SliceStatus
<1>4. RunsAreSound
  BY DEF ExecutorInit, RunsAreSound
<1>5. CompletedPlanIsWorkedOff
  BY NoPlanFacts DEF ExecutorInit, Init, CompletedPlanIsWorkedOff, Exists
<1> QED
  BY <1>1, <1>3, <1>4, <1>5 DEF XInv

LEMMA NextXInv == XInv /\ [ExecutorNext]_allVars => XInv'
<1> SUFFICES ASSUME XInv, [ExecutorNext]_allVars PROVE XInv'
  OBVIOUS
<1>0. IInv /\ TypeOK /\ ExecutorTypeOK /\ RunsAreSound
  BY DEF XInv, ExecutorTypeOK
<1>1. IInv'
  <2>1. [Next]_vars
    BY <1>0, StepIsStoreStep DEF ExecutorTypeOK
  <2> QED
    BY <1>0, <2>1, NextIInv
<1>2. TypeOK'
  BY <1>1 DEF IInv
<1>3. ASSUME KeepsLeases, KeepsLocks, StartsNoRun, CompletedPlanIsWorkedOff', ExecutorTypeOK'
      PROVE  XInv'
  BY <1>0, <1>1, <1>3, RunsStaySound DEF XInv
<1>4. CASE \E p \in Plan, project \in Project, asked \in BOOLEAN : Submit(p, project, asked)
  BY <1>3, <1>4, SubmitKeeps
<1>5. CASE \E t \in Token, p \in Plan, l \in Lease : Claim(t, p, l)
  BY <1>1, <1>2, <1>5, ClaimKeeps DEF XInv
<1>10. CASE \E t \in Token, p \in Plan, l \in Lease : ClaimFails(t, p, l)
  BY <1>2, <1>3, <1>10, ClaimFailsKeeps
<1>6. CASE \E t \in Token : Report(t)
  BY <1>2, <1>3, <1>6, ReportKeeps
<1>7. CASE \E t \in Token : Finish(t) \/ ReportRefused(t) \/ Crash(t)
  BY <1>3, <1>7, PrivateKeeps
<1>8. CASE Others
  BY <1>2, <1>3, <1>8, OthersKeep
<1>9. CASE UNCHANGED allVars
  <2>1. UNCHANGED vars /\ stored' = stored /\ executors' = executors
    BY <1>9 DEF allVars
  <2>2. CompletedPlanIsWorkedOff' /\ ExecutorTypeOK' /\ RunsAreSound'
    BY <1>2, <2>1 DEF XInv, vars, CompletedPlanIsWorkedOff, Exists, AllDone, ExecutorTypeOK,
                      RunsAreSound, IsGrantedTo, IsCurrent, IsPicked
  <2> QED
    BY <1>1, <2>2 DEF XInv
<1> QED
  BY <1>4, <1>5, <1>6, <1>7, <1>8, <1>9, <1>10 DEF ExecutorNext

(* The invariant of the executors and the store together holds in every    *)
(* reachable state.                                                        *)
THEOREM ExecutorsAreSafe == ExecutorSpec => []XInv
BY InitXInv, NextXInv, PTL DEF ExecutorSpec

(* run-codex is a client of the plan store: a behaviour of executors,      *)
(* reviewers and submitters is a behaviour of PlanStore, so all that is    *)
(* proved of the store holds of it.                                        *)
THEOREM ExecutorsUseTheStore == ExecutorSpec => Spec
<1>1. ExecutorInit => Init
  BY DEF ExecutorInit
<1>2. XInv /\ [ExecutorNext]_allVars => [Next]_vars
  BY StepIsStoreStep DEF XInv, ExecutorTypeOK
<1> QED
  BY <1>1, <1>2, ExecutorsAreSafe, PTL DEF ExecutorSpec, Spec

(* Store, stored slices and executors keep their types. *)
THEOREM ExecutorsTypeCorrect == ExecutorSpec => []ExecutorTypeOK
<1>1. XInv => ExecutorTypeOK
  BY DEF XInv
<1> QED
  BY <1>1, ExecutorsAreSafe, PTL

(* A completed plan has all its slices done (runClaimedCodexPlan,          *)
(* updateWorkLoopAfterCodexRun, completePlan).                             *)
THEOREM WorkIsDone == ExecutorSpec => []CompletedPlanIsWorkedOff
<1>1. XInv => CompletedPlanIsWorkedOff
  BY DEF XInv
<1> QED
  BY <1>1, ExecutorsAreSafe, PTL

(* A copy under a live lease is what the store holds, however long the     *)
(* child process blocked the executor (claimNextPlan, spawnSync).          *)
THEOREM CopiesAreCurrent == ExecutorSpec => []CopyIsCurrent
<1>1. XInv => CopyIsCurrent
  <2> SUFFICES ASSUME XInv, NEW t \in Token, executors[t] # NoRun, IsLive(executors[t].lease)
               PROVE  stored[executors[t].plan] = executors[t].copy
    BY DEF CopyIsCurrent
  <2>1. executors[t] \in RunState /\ LiveLeaseIsHonoured
    BY DEF XInv, IInv, ExecutorTypeOK
  <2>2. executors[t].plan \in Plan /\ executors[t].lease \in Lease
    BY <2>1 DEF RunState
  <2>3. grants[executors[t].lease].plan = executors[t].plan /\ IsCurrent(executors[t], plans, stored)
    BY DEF XInv, RunsAreSound, IsGrantedTo
  <2>4. /\ plans[executors[t].plan].lock # NoLock
        /\ plans[executors[t].plan].lock.leaseId = executors[t].lease
    BY <2>1, <2>2, <2>3 DEF LiveLeaseIsHonoured, HoldsLease
  <2> QED
    BY <2>3, <2>4 DEF IsCurrent
<1> QED
  BY <1>1, ExecutorsAreSafe, PTL

(* A report changes only the slice that was next in what the store holds.  *)
KeepsOtherSlices ==
    \A p \in Plan :
        Exists(plans[p]) /\ Changed(p) # {} =>
            \E s \in Slice :
                /\ Changed(p) = {s}
                /\ IsFirst(s, Selectable(stored[p])) \/ Selectable(stored[p]) = {}

LEMMA ReportChangesTheNext ==
  ASSUME XInv, NEW t \in Token, Report(t)
  PROVE  KeepsOtherSlices
<1> SUFFICES ASSUME NEW p \in Plan, Changed(p) # {}
             PROVE  \E s \in Slice :
                      /\ Changed(p) = {s}
                      /\ IsFirst(s, Selectable(stored[p])) \/ Selectable(stored[p]) = {}
  BY DEF KeepsOtherSlices
<1> DEFINE run == executors[t]
<1>1. run \in RunState /\ run # NoRun /\ HoldsLease(plans[run.plan], run.lease, t, now)
  BY ReportEffect DEF Report, HasResult
<1>2. run.plan \in Plan /\ run.slice \in Slice
  BY <1>1 DEF RunState
<1>3. stored \in [Plan -> [Slice -> SliceStatus]]
  BY DEF XInv, ExecutorTypeOK
<1>4. stored' = [stored EXCEPT ![run.plan] = SlicesAfterRun(run)]
  BY DEF Report
<1>5. p = run.plan
  BY <1>2, <1>3, <1>4 DEF Changed
<1>6. stored[p] = run.copy /\ IsPicked(run.slice, run.copy)
  BY <1>1, <1>2, <1>5 DEF XInv, RunsAreSound, IsCurrent, HoldsLease
<1>7. stored'[p] = SlicesAfterRun(run)
  BY <1>3, <1>4, <1>5
<1>8. \A s \in Slice : s # run.slice => stored'[p][s] = stored[p][s]
  BY <1>1, <1>6, <1>7, SlicesAfterRunType
<1>9. Changed(p) = {run.slice}
  BY <1>2, <1>8 DEF Changed
<1>10. IsFirst(run.slice, Selectable(stored[p])) \/ Selectable(stored[p]) = {}
  BY <1>6 DEF IsPicked
<1> QED
  BY <1>2, <1>9, <1>10

LEMMA NextKeepsOtherSlices == XInv /\ [ExecutorNext]_allVars => KeepsOtherSlices
<1> SUFFICES ASSUME XInv, [ExecutorNext]_allVars PROVE KeepsOtherSlices
  OBVIOUS
<1>1. CASE stored' = stored
  BY <1>1 DEF KeepsOtherSlices, Changed
<1>2. CASE \E t \in Token : Report(t)
  BY <1>2, ReportChangesTheNext
<1>3. ASSUME NEW p \in Plan, NEW project \in Project, NEW asked \in BOOLEAN,
             Submit(p, project, asked)
      PROVE  KeepsOtherSlices
  <2>1. ~Exists(plans[p]) /\ \A q \in Plan : q # p => stored'[q] = stored[q]
    BY <1>3 DEF Submit, CreatePlan, XInv, ExecutorTypeOK
  <2> QED
    BY <2>1 DEF KeepsOtherSlices, Changed
<1> QED
  BY <1>1, <1>2, <1>3 DEF ExecutorNext, Claim, ClaimFails, Finish, ReportRefused, Crash, Others, allVars

(* No report of an overtaken executor undoes what another one did.         *)
THEOREM NoWorkIsUndone == ExecutorSpec => ReportsTheNextSlice
<1>1. XInv /\ [ExecutorNext]_allVars => [KeepsOtherSlices]_allVars
  BY NextKeepsOtherSlices
<1>2. [KeepsOtherSlices]_allVars =>
        [\A p \in Plan :
          Exists(plans[p]) /\ Changed(p) # {} =>
              \E s \in Slice :
                  /\ Changed(p) = {s}
                  /\ IsFirst(s, Selectable(stored[p])) \/ Selectable(stored[p]) = {}]_allVars
  BY DEF KeepsOtherSlices
<1> QED
  BY <1>1, <1>2, ExecutorsAreSafe, PTL DEF ExecutorSpec, ReportsTheNextSlice

=============================================================================
