--------------------------- MODULE PlanStoreProofs ---------------------------
(***************************************************************************)
(* The safety of PlanStore for every set of plans, tokens and leases and   *)
(* every lease timeout.  The first part says what each pure function of    *)
(* PlanRecord returns, the second that every operation preserves each      *)
(* conjunct of the inductive invariant IInv, the third draws the theorems. *)
(***************************************************************************)
EXTENDS PlanStore, TLAPS

-----------------------------------------------------------------------------
(* What the functions of PlanRecord return *)

(* An id nobody has used holds a well-formed, empty record. *)
LEMMA NoPlanFacts ==
  /\ NoPlan \in Record
  /\ NoPlan.status = "absent"
  /\ NoPlan.lock = NoLock
  /\ NoPlan.completion = NoToken
  /\ NoPlan.reviewEvidence = {}
  /\ NoPlan.approvalStatus = "not_required"
<1>1. (CHOOSE w \in WorkLoop : TRUE) \in WorkLoop
  BY StoreAssumption
<1> QED
  BY <1>1 DEF NoPlan, Record, ApprovalStatus

(* createPlan: a submission is queued, unlocked and, when review is        *)
(* required, pending.                                                      *)
LEMMA SubmittedFacts ==
  ASSUME NEW loop \in WorkLoop, NEW required \in BOOLEAN, NEW n \in Nat
  PROVE  /\ Submitted(loop, required, n) \in Record
         /\ Submitted(loop, required, n).status = "queued"
         /\ Submitted(loop, required, n).lock = NoLock
         /\ Submitted(loop, required, n).completion = NoToken
         /\ Submitted(loop, required, n).reviewEvidence = {}
         /\ Submitted(loop, required, n).approvalStatus = IF required THEN "pending" ELSE "not_required"
BY NoPlanFacts DEF Submitted, Record, PlanStatus, ApprovalStatus

(* approvePlan, rejectPlan, requestPlanReview: only the approval changes. *)
SameButApproval(r, s) ==
  /\ s \in Record
  /\ s.status = r.status
  /\ s.workLoop = r.workLoop
  /\ s.lock = r.lock
  /\ s.completion = r.completion
  /\ s.reviewEvidence = r.reviewEvidence

(* Each reviewer decision changes the approval and nothing else.          *)
LEMMA ReviewFacts ==
  ASSUME NEW r \in Record
  PROVE  /\ SameButApproval(r, Approved(r))
         /\ Approved(r).approvalStatus = "approved"
         /\ SameButApproval(r, Rejected(r))
         /\ Rejected(r).approvalStatus = "rejected"
         /\ SameButApproval(r, ReviewRequested(r))
         /\ ReviewRequested(r).approvalStatus = "pending"
BY DEF SameButApproval, Approved, Rejected, ReviewRequested, Record, ApprovalStatus

(* claimNextPlan: the plan is locked under the new lease. *)
LEMMA LockedFacts ==
  ASSUME NEW r \in Record, NEW l \in Lease, NEW t \in Token, NEW n \in Nat
  PROVE  /\ Locked(r, l, t, n) \in Record
         /\ Locked(r, l, t, n).status = "locked"
         /\ Locked(r, l, t, n).lock = [leaseId |-> l, clientTokenId |-> t, expiresAt |-> n + LeaseTimeout]
         /\ Locked(r, l, t, n).lock # NoLock
         /\ Locked(r, l, t, n).completion = r.completion
         /\ Locked(r, l, t, n).reviewEvidence = r.reviewEvidence
         /\ Locked(r, l, t, n).approvalStatus = r.approvalStatus
<1>1. [leaseId |-> l, clientTokenId |-> t, expiresAt |-> n + LeaseTimeout] \in Lock
  BY TimeoutAssumption DEF Lock
<1> QED
  BY <1>1, SentinelAssumption DEF Locked, Record, PlanStatus

(* extendLease: only the lock changes, and it keeps its lease. *)
LEMMA ExtendedFacts ==
  ASSUME NEW r \in Record, NEW l \in Lease, NEW t \in Token, NEW n \in Nat
  PROVE  /\ Extended(r, l, t, n) \in Record
         /\ Extended(r, l, t, n).status = r.status
         /\ Extended(r, l, t, n).lock = [leaseId |-> l, clientTokenId |-> t, expiresAt |-> n + LeaseTimeout]
         /\ Extended(r, l, t, n).lock # NoLock
         /\ Extended(r, l, t, n).completion = r.completion
         /\ Extended(r, l, t, n).reviewEvidence = r.reviewEvidence
         /\ Extended(r, l, t, n).approvalStatus = r.approvalStatus
<1>1. [leaseId |-> l, clientTokenId |-> t, expiresAt |-> n + LeaseTimeout] \in Lock
  BY TimeoutAssumption DEF Lock
<1> QED
  BY <1>1, SentinelAssumption DEF Extended, Record

(* progressPlan: the work loop changes, the lock does not. *)
LEMMA ProgressedFacts ==
  ASSUME NEW r \in Record, NEW loop \in WorkLoop
  PROVE  /\ Progressed(r, loop) \in Record
         /\ Progressed(r, loop).status = "locked"
         /\ Progressed(r, loop).lock = r.lock
         /\ Progressed(r, loop).completion = r.completion
         /\ Progressed(r, loop).reviewEvidence = r.reviewEvidence
         /\ Progressed(r, loop).approvalStatus = r.approvalStatus
BY DEF Progressed, Record, PlanStatus

(* releaseStatus: a released plan waits for approval or needs none, and is *)
(* queued, blocked or canceled.                                            *)
LEMMA ReleaseStatusFacts ==
  ASSUME NEW loop \in WorkLoop, NEW reason \in ReleaseReason
  PROVE  /\ ReleaseStatus(loop, reason).required \in BOOLEAN
         /\ ReleaseStatus(loop, reason).approval \in {"pending", "not_required"}
         /\ ReleaseStatus(loop, reason).status \in {"queued", "blocked", "canceled"}
BY DEF ReleaseStatus

(* releasePlan: the lock is gone. *)
LEMMA ReleasedFacts ==
  ASSUME NEW r \in Record, NEW loop \in WorkLoop, NEW reason \in ReleaseReason
  PROVE  /\ Released(r, loop, reason) \in Record
         /\ Released(r, loop, reason).status \in {"queued", "blocked", "canceled"}
         /\ Released(r, loop, reason).lock = NoLock
         /\ Released(r, loop, reason).completion = r.completion
         /\ Released(r, loop, reason).reviewEvidence = r.reviewEvidence
         /\ Released(r, loop, reason).approvalStatus \in {"pending", "not_required"}
BY ReleaseStatusFacts DEF Released, Record, PlanStatus, ApprovalStatus

(* completePlan: the plan is archived under the token that completed it. *)
LEMMA CompletedFacts ==
  ASSUME NEW r \in Record, NEW loop \in WorkLoop, NEW t \in Token
  PROVE  /\ Completed(r, loop, t) \in Record
         /\ Completed(r, loop, t).status = "completed"
         /\ Completed(r, loop, t).lock = NoLock
         /\ Completed(r, loop, t).completion # NoToken
         /\ Completed(r, loop, t).reviewEvidence = r.reviewEvidence
         /\ Completed(r, loop, t).approvalStatus = r.approvalStatus
BY SentinelAssumption DEF Completed, Record, PlanStatus

(* attachPlanReviewEvidence: only the evidence grows. *)
LEMMA EvidenceFacts ==
  ASSUME NEW r \in Record, NEW e \in Evidence
  PROVE  /\ WithEvidence(r, e) \in Record
         /\ WithEvidence(r, e).status = r.status
         /\ WithEvidence(r, e).workLoop = r.workLoop
         /\ WithEvidence(r, e).lock = r.lock
         /\ WithEvidence(r, e).completion = r.completion
         /\ r.reviewEvidence \subseteq WithEvidence(r, e).reviewEvidence
         /\ WithEvidence(r, e).approvalStatus = r.approvalStatus
BY DEF WithEvidence, Record

-----------------------------------------------------------------------------
(* What each operation does to the store, as the invariant proofs use it *)

(* One record changes, and one event took place, logged or not (writePlan, *)
(* appendAuditUnlocked).                                                   *)
Writes(p, r, event) ==
    /\ r \in Record
    /\ plans' \in [Plan -> Record]
    /\ plans'[p] = r
    /\ \A q \in Plan : q # p => plans'[q] = plans[q]
    /\ audit' \in [Plan -> SUBSET AuditType]
    /\ unlogged' \in [Plan -> SUBSET AuditType]
    /\ audit'[p] \cup unlogged'[p] = With(Happened(p), event)
    /\ \A q \in Plan : q # p => Happened(q)' = Happened(q)
    /\ now' = now

(* One grant changes, to g. *)
Regrants(l, g) ==
    /\ g \in Grant
    /\ grants' \in [Lease -> Grant \cup {NoGrant}]
    /\ grants'[l] = g
    /\ \A k \in Lease : k # l => grants'[k] = grants[k]

(* The grant behind a lock. *)
GrantOf(p, lock, open) ==
    [plan |-> p, token |-> lock.clientTokenId, expiresAt |-> lock.expiresAt, open |-> open]

(* Changing one field of a grant leaves the others. *)
LEMMA GrantExpiry ==
  ASSUME NEW g \in Grant, NEW n \in Nat, NEW h \in Grant,
         h.plan = g.plan, h.token = g.token, h.expiresAt = n, h.open = g.open
  PROVE  [g EXCEPT !.expiresAt = n] = h
BY DEF Grant

(* An executor that gives up a lease keeps the rest of what it was told.  *)
LEMMA GrantClosing ==
  ASSUME NEW g \in Grant, NEW h \in Grant,
         h.plan = g.plan, h.token = g.token, h.expiresAt = g.expiresAt, h.open = FALSE
  PROVE  [g EXCEPT !.open = FALSE] = h
BY DEF Grant

(* writePlan and appendAuditUnlocked: one record, one event, typed.        *)
LEMMA SaveEffect ==
  ASSUME TypeOK, NEW p \in Plan, NEW r \in Record, NEW event, NEW ok \in BOOLEAN,
         Save(p, r, event, ok)
  PROVE  Writes(p, r, event)
<1>1. \A log \in SUBSET AuditType : With(log, event) \in SUBSET AuditType
  BY DEF With
<1>2. CASE ok
  BY <1>1, <1>2 DEF Save, Writes, TypeOK, Happened, With
<1>3. CASE ~ok
  BY <1>1, <1>3 DEF Save, Writes, TypeOK, Happened, With
<1> QED
  BY <1>2, <1>3

(* One lease is granted, extended or given up at a time.                  *)
LEMMA RegrantEffect ==
  ASSUME TypeOK, NEW l \in Lease, NEW g \in Grant,
         grants' = [grants EXCEPT ![l] = g]
  PROVE  Regrants(l, g)
BY DEF Regrants, TypeOK

(* The values the operations read are typed. *)
LEMMA StateTypes ==
  ASSUME TypeOK
  PROVE  /\ now \in Nat
         /\ LoopInput \subseteq WorkLoop
         /\ \A p \in Plan : plans[p] \in Record
         /\ \A p \in Plan : plans[p].workLoop \in WorkLoop
         /\ \A p \in Plan : plans[p].lock # NoLock => plans[p].lock \in Lock
BY StoreAssumption DEF TypeOK, Record

(* A lock belongs to a grant of its own plan, so no two plans share one. *)
LEMMA LockHasGrant ==
  ASSUME TypeOK, LockIsGranted, NEW q \in Plan, plans[q].lock # NoLock
  PROVE  /\ plans[q].lock \in Lock
         /\ plans[q].lock.leaseId \in Lease
         /\ plans[q].lock.expiresAt \in Nat
         /\ grants[plans[q].lock.leaseId] = GrantOf(q, plans[q].lock, TRUE)
         /\ grants[plans[q].lock.leaseId] \in Grant
         /\ grants[plans[q].lock.leaseId] # NoGrant
         /\ grants[plans[q].lock.leaseId].plan = q
<1>1. plans[q].lock \in Lock
  BY StateTypes
<1>2. /\ plans[q].lock.leaseId \in Lease
      /\ plans[q].lock.clientTokenId \in Token
      /\ plans[q].lock.expiresAt \in Nat
  BY <1>1 DEF Lock
<1>3. grants[plans[q].lock.leaseId] = GrantOf(q, plans[q].lock, TRUE)
  BY DEF LockIsGranted, GrantOf
<1>4. GrantOf(q, plans[q].lock, TRUE) \in Grant /\ GrantOf(q, plans[q].lock, TRUE).plan = q
  BY <1>2 DEF GrantOf, Grant
<1> QED
  BY <1>1, <1>2, <1>3, <1>4, GrantAssumption

(* Whoever passes assertLease was granted that lease on that plan. *)
LEMMA HolderHasGrant ==
  ASSUME TypeOK, LockIsGranted, NEW p \in Plan, NEW l, NEW t,
         HoldsLease(plans[p], l, t, now)
  PROVE  /\ l = plans[p].lock.leaseId
         /\ t = plans[p].lock.clientTokenId
         /\ plans[p].lock # NoLock
         /\ plans[p].status = "locked"
         /\ grants[l] = GrantOf(p, plans[p].lock, TRUE)
BY LockHasGrant DEF HoldsLease

(* createPlan writes an unused id, never overwrites a plan.               *)
LEMMA CreateEffect ==
  ASSUME TypeOK, NEW p \in Plan, NEW loop \in LoopInput, NEW asked \in BOOLEAN,
         NEW ok \in BOOLEAN, CreatePlan(p, loop, asked, ok)
  PROVE  \E required \in BOOLEAN :
           /\ ForceApproval => required
           /\ plans[p].status = "absent"
           /\ Writes(p, Submitted(loop, required, now),
                     IF required THEN "submit_for_approval" ELSE "submit")
           /\ grants' = grants
           /\ verdict' = verdict
<1> DEFINE required == ApprovalRequired(asked)
           event == IF required THEN "submit_for_approval" ELSE "submit"
<1>1. /\ required \in BOOLEAN
      /\ ForceApproval => required
  BY StoreAssumption DEF ApprovalRequired
<1>2. Submitted(loop, required, now) \in Record
  BY <1>1, SubmittedFacts, StateTypes
<1>3. Save(p, Submitted(loop, required, now), event, ok)
  BY DEF CreatePlan
<1>4. Writes(p, Submitted(loop, required, now), event)
  BY <1>1, <1>2, <1>3, SaveEffect
<1> QED
  BY <1>1, <1>4 DEF CreatePlan, Exists

(* The three reviewer operations share their effect. *)
ApprovalAfter ==
    [event \in {"approve", "reject", "request_review"} |->
        CASE event = "approve" -> "approved"
          [] event = "reject"  -> "rejected"
          [] event = "request_review" -> "pending"]

(* approvePlan, rejectPlan, requestPlanReview: only approval changes.     *)
LEMMA ReviewEffect ==
  ASSUME TypeOK, NEW p \in Plan, NEW ok \in BOOLEAN, ReviewerStep(p, ok)
  PROVE  \E r \in Record, event \in {"approve", "reject", "request_review"} :
           /\ Exists(plans[p])
           /\ SameButApproval(plans[p], r)
           /\ r.approvalStatus = ApprovalAfter[event]
           /\ Writes(p, r, event)
           /\ grants' = grants
           /\ verdict' = [verdict EXCEPT ![p] = event]
<1>1. ASSUME NEW r \in Record, NEW event \in {"approve", "reject", "request_review"},
             Review(p, r, event, ok)
      PROVE  /\ Exists(plans[p])
             /\ Writes(p, r, event)
             /\ grants' = grants
             /\ verdict' = [verdict EXCEPT ![p] = event]
  BY <1>1, SaveEffect DEF Review
<1>2. plans[p] \in Record
  BY StateTypes
<1>3. CASE ApprovePlan(p, ok)
  BY <1>1, <1>2, <1>3, ReviewFacts DEF ApprovePlan, SameButApproval, ApprovalAfter
<1>4. CASE RejectPlan(p, ok)
  BY <1>1, <1>2, <1>4, ReviewFacts DEF RejectPlan, SameButApproval, ApprovalAfter
<1>5. CASE RequestPlanReview(p, ok)
  BY <1>1, <1>2, <1>5, ReviewFacts DEF RequestPlanReview, SameButApproval, ApprovalAfter
<1> QED
  BY <1>3, <1>4, <1>5 DEF ReviewerStep

(* claimNextPlan locks a queued plan, or one whose lock has expired.      *)
LEMMA ClaimEffect ==
  ASSUME TypeOK, NEW p \in Plan, NEW l \in Lease, NEW t \in Token,
         NEW plan, NEW project, NEW ok \in BOOLEAN, ClaimNextPlan(t, l, p, plan, project, ok)
  PROVE  /\ plans[p].approvalStatus \in {"approved", "not_required"}
         /\ \/ plans[p].status = "queued"
            \/ /\ plans[p].status = "locked"
               /\ plans[p].lock # NoLock
               /\ HasExpired(plans[p].lock, now)
         /\ grants[l] = NoGrant
         /\ Writes(p, Locked(plans[p], l, t, now), "claim")
         /\ Regrants(l, GrantOf(p, Locked(plans[p], l, t, now).lock, TRUE))
         /\ verdict' = verdict
<1>1. Locked(plans[p], l, t, now) \in Record
  BY LockedFacts, StateTypes
<1>2. Writes(p, Locked(plans[p], l, t, now), "claim")
  BY <1>1, SaveEffect DEF ClaimNextPlan
<1>3. GrantOf(p, Locked(plans[p], l, t, now).lock, TRUE) =
        [plan |-> p, token |-> t, expiresAt |-> now + LeaseTimeout, open |-> TRUE]
  <2>1. Locked(plans[p], l, t, now).lock = [leaseId |-> l, clientTokenId |-> t, expiresAt |-> now + LeaseTimeout]
    BY LockedFacts, StateTypes
  <2>2. Locked(plans[p], l, t, now).lock.clientTokenId = t /\ Locked(plans[p], l, t, now).lock.expiresAt = now + LeaseTimeout
    BY <2>1
  <2> QED
    BY <2>2 DEF GrantOf
<1>4. GrantOf(p, Locked(plans[p], l, t, now).lock, TRUE) \in Grant
  <2>1. now + LeaseTimeout \in Nat
    BY StateTypes, TimeoutAssumption
  <2>2. [plan |-> p, token |-> t, expiresAt |-> now + LeaseTimeout, open |-> TRUE] \in Grant
    BY <2>1 DEF Grant
  <2> QED
    BY <1>3, <2>2
<1>5. Regrants(l, GrantOf(p, Locked(plans[p], l, t, now).lock, TRUE))
  BY <1>3, <1>4, RegrantEffect DEF ClaimNextPlan
<1> QED
  BY <1>2, <1>5 DEF ClaimNextPlan, Candidates, Claimable

(* extendLease: the holder's lock and what the holder knows move along.   *)
LEMMA ExtendEffect ==
  ASSUME TypeOK, LockIsGranted, NEW p \in Plan, NEW l \in Lease, NEW t \in Token,
         NEW ok \in BOOLEAN, ExtendLease(p, l, t, ok)
  PROVE  /\ HoldsLease(plans[p], l, t, now)
         /\ Writes(p, Extended(plans[p], l, t, now), "heartbeat")
         /\ Regrants(l, GrantOf(p, Extended(plans[p], l, t, now).lock, TRUE))
         /\ verdict' = verdict
<1> DEFINE lock == Extended(plans[p], l, t, now).lock
<1>1. Extended(plans[p], l, t, now) \in Record
  BY ExtendedFacts, StateTypes
<1>2. Writes(p, Extended(plans[p], l, t, now), "heartbeat")
  BY <1>1, SaveEffect DEF ExtendLease
<1>3. GrantOf(p, lock, TRUE) =
        [plan |-> p, token |-> t, expiresAt |-> now + LeaseTimeout, open |-> TRUE]
  <2>1. lock = [leaseId |-> l, clientTokenId |-> t, expiresAt |-> now + LeaseTimeout]
    BY ExtendedFacts, StateTypes
  <2>2. lock.clientTokenId = t /\ lock.expiresAt = now + LeaseTimeout
    BY <2>1
  <2> QED
    BY <2>2 DEF GrantOf
<1>4. GrantOf(p, lock, TRUE) \in Grant
  <2>1. now + LeaseTimeout \in Nat
    BY StateTypes, TimeoutAssumption
  <2>2. [plan |-> p, token |-> t, expiresAt |-> now + LeaseTimeout, open |-> TRUE] \in Grant
    BY <2>1 DEF Grant
  <2> QED
    BY <1>3, <2>2
<1>5. grants[l] = [plan |-> p, token |-> t,
                   expiresAt |-> plans[p].lock.expiresAt, open |-> TRUE]
  BY HolderHasGrant DEF ExtendLease, GrantOf
<1>6. grants' = [grants EXCEPT ![l] = GrantOf(p, lock, TRUE)]
  <2>1. [grants[l] EXCEPT !.expiresAt = now + LeaseTimeout] = GrantOf(p, lock, TRUE)
    <3>1. HoldsLease(plans[p], l, t, now)
      BY DEF ExtendLease
    <3>2. grants[l] \in Grant
      BY <3>1, HolderHasGrant, LockHasGrant
    <3>3. now + LeaseTimeout \in Nat
      BY StateTypes, TimeoutAssumption
    <3>4. /\ GrantOf(p, lock, TRUE).plan = p
          /\ GrantOf(p, lock, TRUE).token = t
          /\ GrantOf(p, lock, TRUE).expiresAt = now + LeaseTimeout
          /\ GrantOf(p, lock, TRUE).open = TRUE
      <4>1. lock = [leaseId |-> l, clientTokenId |-> t, expiresAt |-> now + LeaseTimeout]
        BY ExtendedFacts, StateTypes
      <4>2. lock.clientTokenId = t /\ lock.expiresAt = now + LeaseTimeout
        BY <4>1
      <4> QED
        BY <4>2 DEF GrantOf
    <3>5. grants[l].plan = p /\ grants[l].token = t /\ grants[l].open = TRUE
      BY <1>5
    <3> QED
      BY <1>4, <3>2, <3>3, <3>4, <3>5, GrantExpiry
  <2>2. grants' = [grants EXCEPT ![l] = [grants[l] EXCEPT !.expiresAt = now + LeaseTimeout]]
    BY DEF ExtendLease
  <2> QED
    BY <2>1, <2>2
<1>7. Regrants(l, GrantOf(p, lock, TRUE))
  BY <1>4, <1>6, RegrantEffect
<1> QED
  BY <1>2, <1>7 DEF ExtendLease

(* progressPlan: the holder reports a work loop and keeps its lease.      *)
LEMMA ProgressEffect ==
  ASSUME TypeOK, NEW p \in Plan, NEW l \in Lease, NEW t \in Token,
         NEW loop \in LoopInput, NEW ok \in BOOLEAN, ProgressPlan(p, l, t, loop, ok)
  PROVE  /\ HoldsLease(plans[p], l, t, now)
         /\ Writes(p, Progressed(plans[p], loop), "progress")
         /\ grants' = grants
         /\ verdict' = verdict
<1>1. Progressed(plans[p], loop) \in Record
  BY ProgressedFacts, StateTypes
<1> QED
  BY <1>1, SaveEffect DEF ProgressPlan

(* An executor that releases or completes a plan gives up its grant. *)
LEMMA GiveUpEffect ==
  ASSUME TypeOK, LockIsGranted, NEW p \in Plan, NEW l \in Lease, NEW t \in Token,
         HoldsLease(plans[p], l, t, now),
         grants' = [grants EXCEPT ![l].open = FALSE]
  PROVE  Regrants(l, GrantOf(p, plans[p].lock, FALSE))
<1>1. grants[l] = GrantOf(p, plans[p].lock, TRUE) /\ plans[p].lock # NoLock
  BY HolderHasGrant
<1>2. GrantOf(p, plans[p].lock, FALSE) \in Grant
  BY <1>1, LockHasGrant DEF GrantOf, Grant, Lock
<1>3. grants' = [grants EXCEPT ![l] = GrantOf(p, plans[p].lock, FALSE)]
  <2>1. [grants[l] EXCEPT !.open = FALSE] = GrantOf(p, plans[p].lock, FALSE)
    <3>1. grants[l] \in Grant
      BY HolderHasGrant, LockHasGrant
    <3>2. /\ GrantOf(p, plans[p].lock, FALSE).plan = grants[l].plan
          /\ GrantOf(p, plans[p].lock, FALSE).token = grants[l].token
          /\ GrantOf(p, plans[p].lock, FALSE).expiresAt = grants[l].expiresAt
          /\ GrantOf(p, plans[p].lock, FALSE).open = FALSE
      BY <1>1 DEF GrantOf
    <3> QED
      BY <1>2, <3>1, <3>2, GrantClosing
  <2>2. grants' = [grants EXCEPT ![l] = [grants[l] EXCEPT !.open = FALSE]]
    OBVIOUS
  <2> QED
    BY <2>1, <2>2
<1> QED
  BY <1>2, <1>3, RegrantEffect

(* releasePlan: the holder gives up its lease.                             *)
LEMMA ReleaseEffect ==
  ASSUME TypeOK, LockIsGranted, NEW p \in Plan, NEW l \in Lease, NEW t \in Token,
         NEW loop \in LoopInput, NEW reason \in ReleaseReason,
         NEW ok \in BOOLEAN, ReleasePlan(p, l, t, loop, reason, ok)
  PROVE  /\ HoldsLease(plans[p], l, t, now)
         /\ Writes(p, Released(plans[p], loop, reason), "release")
         /\ Regrants(l, GrantOf(p, plans[p].lock, FALSE))
         /\ verdict' = verdict
<1>1. Released(plans[p], loop, reason) \in Record
  BY ReleasedFacts, StateTypes
<1> QED
  BY <1>1, SaveEffect, GiveUpEffect DEF ReleasePlan

(* completePlan: the holder archives the plan and gives up its lease.     *)
LEMMA CompleteEffect ==
  ASSUME TypeOK, LockIsGranted, NEW p \in Plan, NEW l \in Lease, NEW t \in Token,
         NEW loop \in LoopInput \cup {plans[p].workLoop}, NEW ok \in BOOLEAN, CompletePlan(p, l, t, loop, ok)
  PROVE  /\ loop \in WorkLoop
         /\ HoldsLease(plans[p], l, t, now)
         /\ Writes(p, Completed(plans[p], loop, t), "complete")
         /\ Regrants(l, GrantOf(p, plans[p].lock, FALSE))
         /\ verdict' = verdict
<1>1. loop \in WorkLoop
  BY StateTypes
<1>2. Completed(plans[p], loop, t) \in Record
  BY <1>1, CompletedFacts, StateTypes
<1> QED
  BY <1>1, <1>2, SaveEffect, GiveUpEffect DEF CompletePlan

(* attachPlanReviewEvidence changes completed plans only.                 *)
LEMMA AttachEffect ==
  ASSUME TypeOK, NEW p \in Plan, NEW e \in Evidence, NEW ok \in BOOLEAN, AttachReviewEvidence(p, e, ok)
  PROVE  /\ plans[p].status = "completed"
         /\ Writes(p, WithEvidence(plans[p], e), "attach_review_evidence")
         /\ grants' = grants
         /\ verdict' = verdict
<1>1. WithEvidence(plans[p], e) \in Record
  BY EvidenceFacts, StateTypes
<1> QED
  BY <1>1, SaveEffect DEF AttachReviewEvidence, CanAttachEvidence

-----------------------------------------------------------------------------
(* The invariant *)

(* Submitted for approval, and no approval on record. *)
IsUnapproved(events) == "submit_for_approval" \in events /\ "approve" \notin events

(***************************************************************************)
(* A plan submitted for approval that nobody has approved is waiting or    *)
(* rejected, and was never leased: the strengthening that makes            *)
(* ApprovedBeforeFirstClaim inductive.                                     *)
(***************************************************************************)
GateIsShut ==
    \A p \in Plan :
        IsUnapproved(Happened(p))
            => /\ plans[p].approvalStatus \in {"pending", "rejected"}
               /\ "claim" \notin Happened(p)

IInv ==
    /\ TypeOK
    /\ RecordShape
    /\ LockIsGranted
    /\ LiveLeaseIsHonoured
    /\ AuditExplainsRecord
    /\ GateIsShut

(* The initial store satisfies every conjunct. *)
LEMMA InitIInv == Init => IInv
<1> SUFFICES ASSUME Init PROVE IInv
  OBVIOUS
<1>1. TypeOK
  BY NoPlanFacts, StoreAssumption DEF Init, TypeOK, Verdict
<1>2. RecordShape /\ LockIsGranted
  BY NoPlanFacts DEF Init, RecordShape, IsWellShaped, LockIsGranted
<1>3. LiveLeaseIsHonoured
  BY DEF Init, LiveLeaseIsHonoured, IsLive
<1>4. AuditExplainsRecord /\ GateIsShut
  BY NoPlanFacts DEF Init, AuditExplainsRecord, IsAccountedFor, GateIsShut, IsUnapproved, Exists, Happened
<1> QED
  BY <1>1, <1>2, <1>3, <1>4 DEF IInv

-----------------------------------------------------------------------------
(* What a write must satisfy for each conjunct to survive it *)

(* A write and a change of what executors and reviewers know keep the types. *)
LEMMA TypeAfter ==
  ASSUME TypeOK, NEW p \in Plan, NEW r, NEW event, Writes(p, r, event),
         grants' \in [Lease -> Grant \cup {NoGrant}],
         verdict' \in [Plan -> Verdict]
  PROVE  TypeOK'
BY DEF TypeOK, Writes

(* RecordShape survives the write of a record of that shape. *)
LEMMA ShapeAfter ==
  ASSUME RecordShape, NEW p \in Plan, NEW r, NEW event, Writes(p, r, event),
         IsWellShaped(r)
  PROVE  RecordShape'
<1> SUFFICES ASSUME NEW q \in Plan PROVE IsWellShaped(plans'[q])
  BY DEF RecordShape
<1> QED
  BY DEF RecordShape, Writes

(* AuditExplainsRecord survives a write the appended event accounts for. *)
LEMMA AuditAfter ==
  ASSUME AuditExplainsRecord, NEW p \in Plan, NEW r, NEW event, Writes(p, r, event),
         IsAccountedFor(r, With(Happened(p), event))
  PROVE  AuditExplainsRecord'
<1> SUFFICES ASSUME NEW q \in Plan PROVE IsAccountedFor(plans'[q], Happened(q)')
  BY DEF AuditExplainsRecord
<1> QED
  BY DEF AuditExplainsRecord, Writes, Happened

(* The gate stays shut over an event that is neither a submission nor a    *)
(* claim, and that leaves the approval waiting.                            *)
LEMMA GateAfter ==
  ASSUME GateIsShut, NEW p \in Plan, NEW r, NEW event, Writes(p, r, event),
         IsUnapproved(With(Happened(p), event))
           => /\ r.approvalStatus \in {"pending", "rejected"}
              /\ "claim" \notin With(Happened(p), event)
  PROVE  GateIsShut'
<1> SUFFICES ASSUME NEW q \in Plan, IsUnapproved(Happened(q)')
             PROVE  /\ plans'[q].approvalStatus \in {"pending", "rejected"}
                    /\ "claim" \notin Happened(q)'
  BY DEF GateIsShut
<1>1. CASE q = p
  BY <1>1 DEF Writes, Happened
<1>2. CASE q # p
  BY <1>2 DEF Writes, GateIsShut
<1> QED
  BY <1>1, <1>2

(* The locks keep their grants over a write that leaves the lock alone. *)
LEMMA LockAfterWrite ==
  ASSUME LockIsGranted, NEW p \in Plan, NEW r, NEW event, Writes(p, r, event),
         r.lock = plans[p].lock, grants' = grants
  PROVE  LockIsGranted'
<1> SUFFICES ASSUME NEW q \in Plan, plans'[q].lock # NoLock
             PROVE  grants'[plans'[q].lock.leaseId] = GrantOf(q, plans'[q].lock, TRUE)
  BY DEF LockIsGranted, GrantOf
<1>1. plans'[q].lock = plans[q].lock
  BY DEF Writes
<1> QED
  BY <1>1 DEF LockIsGranted, GrantOf

(* They also keep them when lease l of plan p is granted, extended or      *)
(* given up along with the lock: no lock of another plan is l.             *)
LEMMA LockAfterRegrant ==
  ASSUME TypeOK, LockIsGranted, NEW p \in Plan, NEW r, NEW event, Writes(p, r, event),
         NEW l \in Lease, NEW g, Regrants(l, g),
         grants[l] = NoGrant \/ grants[l].plan = p,
         r.lock # NoLock => r.lock.leaseId = l /\ g = GrantOf(p, r.lock, TRUE)
  PROVE  LockIsGranted'
<1> SUFFICES ASSUME NEW q \in Plan, plans'[q].lock # NoLock
             PROVE  grants'[plans'[q].lock.leaseId] = GrantOf(q, plans'[q].lock, TRUE)
  BY DEF LockIsGranted, GrantOf
<1>1. CASE q = p
  BY <1>1 DEF Writes, Regrants
<1>2. CASE q # p
  <2>1. plans'[q] = plans[q]
    BY <1>2 DEF Writes
  <2>2. /\ plans[q].lock.leaseId \in Lease
        /\ grants[plans[q].lock.leaseId] = GrantOf(q, plans[q].lock, TRUE)
        /\ grants[plans[q].lock.leaseId] # NoGrant
        /\ grants[plans[q].lock.leaseId].plan = q
    BY <2>1, LockHasGrant
  <2>3. plans[q].lock.leaseId # l
    BY <1>2, <2>2
  <2> QED
    BY <2>1, <2>2, <2>3 DEF Regrants
<1> QED
  BY <1>1, <1>2

(* A live lease is honoured as long as the write keeps status and lock. *)
LEMMA LiveAfterWrite ==
  ASSUME TypeOK, LiveLeaseIsHonoured, NEW p \in Plan, NEW r, NEW event, Writes(p, r, event),
         r.lock = plans[p].lock, grants' = grants,
         plans[p].status = "locked" => r.status = "locked"
  PROVE  LiveLeaseIsHonoured'
<1> SUFFICES ASSUME NEW k \in Lease, IsLive(k)'
             PROVE  /\ HoldsLease(plans'[grants[k].plan], k, grants[k].token, now)
                    /\ plans'[grants[k].plan].lock.expiresAt = grants[k].expiresAt
  BY DEF LiveLeaseIsHonoured, Writes
<1>1. IsLive(k)
  BY DEF IsLive, Writes
<1>2. grants[k].plan \in Plan
  BY <1>1 DEF IsLive, TypeOK, Grant
<1>3. /\ HoldsLease(plans[grants[k].plan], k, grants[k].token, now)
      /\ plans[grants[k].plan].lock.expiresAt = grants[k].expiresAt
  BY <1>1 DEF LiveLeaseIsHonoured
<1> QED
  BY <1>2, <1>3 DEF HoldsLease, Writes

(* It is honoured over a write that changes lease l of plan p if the new   *)
(* record honours l, should it be live, and no other lease of p was live.  *)
LEMMA LiveAfterRegrant ==
  ASSUME TypeOK, LiveLeaseIsHonoured, NEW p \in Plan, NEW r, NEW event, Writes(p, r, event),
         NEW l \in Lease, NEW g, Regrants(l, g), g.plan = p,
         g.open /\ ~HasExpired(g, now) => /\ HoldsLease(r, l, g.token, now)
                                          /\ r.lock.expiresAt = g.expiresAt,
         \A k \in Lease : k # l /\ IsLive(k) => grants[k].plan # p
  PROVE  LiveLeaseIsHonoured'
<1> SUFFICES ASSUME NEW k \in Lease, IsLive(k)'
             PROVE  /\ HoldsLease(plans'[grants'[k].plan], k, grants'[k].token, now)
                    /\ plans'[grants'[k].plan].lock.expiresAt = grants'[k].expiresAt
  BY DEF LiveLeaseIsHonoured, Writes
<1>1. CASE k = l
  BY <1>1 DEF IsLive, Writes, Regrants
<1>2. CASE k # l
  <2>1. grants'[k] = grants[k]
    BY <1>2 DEF Regrants
  <2>2. IsLive(k)
    BY <2>1 DEF IsLive, Writes
  <2>3. grants[k].plan \in Plan /\ grants[k].plan # p
    BY <1>2, <2>2 DEF IsLive, TypeOK, Grant
  <2>4. plans'[grants[k].plan] = plans[grants[k].plan]
    BY <2>3 DEF Writes
  <2> QED
    BY <2>1, <2>2, <2>4 DEF LiveLeaseIsHonoured
<1> QED
  BY <1>1, <1>2

(* The lease in the lock is the only one of its plan that can be live. *)
LEMMA OnlyTheLockIsLive ==
  ASSUME LiveLeaseIsHonoured, NEW k \in Lease, NEW p \in Plan,
         IsLive(k), grants[k].plan = p
  PROVE  /\ plans[p].status = "locked"
         /\ plans[p].lock.leaseId = k
         /\ ~HasExpired(plans[p].lock, now)
BY DEF LiveLeaseIsHonoured, HoldsLease

-----------------------------------------------------------------------------
(* Every operation preserves the invariant *)

(* createPlan: the new plan is unlocked and its gate is shut if asked for. *)
LEMMA CreateStep ==
  ASSUME IInv, NEW p \in Plan, NEW loop \in LoopInput, NEW asked \in BOOLEAN,
         NEW ok \in BOOLEAN, CreatePlan(p, loop, asked, ok)
  PROVE  IInv'
<1> USE DEF IInv
<1>1. PICK required \in BOOLEAN :
        /\ ForceApproval => required
        /\ plans[p].status = "absent"
        /\ Writes(p, Submitted(loop, required, now),
                  IF required THEN "submit_for_approval" ELSE "submit")
        /\ grants' = grants
        /\ verdict' = verdict
  BY CreateEffect
<1> DEFINE r == Submitted(loop, required, now)
           event == IF required THEN "submit_for_approval" ELSE "submit"
<1>2. /\ r.status = "queued"
      /\ r.lock = NoLock
      /\ r.completion = NoToken
      /\ r.reviewEvidence = {}
      /\ r.approvalStatus = IF required THEN "pending" ELSE "not_required"
  BY SubmittedFacts, StateTypes
<1>3. plans[p].lock = NoLock /\ Happened(p) = {}
  BY <1>1 DEF RecordShape, IsWellShaped, AuditExplainsRecord, IsAccountedFor, Exists
<1> HIDE DEF r
<1>4. TypeOK'
  BY <1>1, TypeAfter DEF TypeOK
<1>5. RecordShape'
  <2>1. IsWellShaped(r)
    BY <1>2 DEF IsWellShaped
  <2> QED
    BY <1>1, <2>1, ShapeAfter DEF r
<1>6. LockIsGranted' /\ LiveLeaseIsHonoured'
  BY <1>1, <1>2, <1>3, LockAfterWrite, LiveAfterWrite DEF r
<1>7. AuditExplainsRecord'
  <2>1. IsAccountedFor(r, With(Happened(p), event))
    BY <1>2, <1>3 DEF With, AuditType, IsAccountedFor, Exists
  <2> QED
    BY <1>1, <2>1, AuditAfter DEF r
<1>8. GateIsShut'
  <2>1. IsUnapproved(With(Happened(p), event))
          => r.approvalStatus \in {"pending", "rejected"} /\ "claim" \notin With(Happened(p), event)
    BY <1>2, <1>3 DEF With, AuditType, IsUnapproved
  <2> QED
    BY <1>1, <2>1, GateAfter DEF r
<1> QED
  BY <1>4, <1>5, <1>6, <1>7, <1>8

(* approvePlan, rejectPlan and requestPlanReview leave status and lock     *)
(* alone, so they cannot take a lease away.                                *)
LEMMA ReviewStep ==
  ASSUME IInv, NEW p \in Plan, NEW ok \in BOOLEAN, ReviewerStep(p, ok)
  PROVE  IInv'
<1> USE DEF IInv
<1>1. PICK r \in Record, event \in {"approve", "reject", "request_review"} :
        /\ Exists(plans[p])
        /\ SameButApproval(plans[p], r)
        /\ r.approvalStatus = ApprovalAfter[event]
        /\ Writes(p, r, event)
        /\ grants' = grants
        /\ verdict' = [verdict EXCEPT ![p] = event]
  BY ReviewEffect
<1>2. TypeOK'
  BY <1>1, TypeAfter DEF TypeOK, Verdict
<1>3. RecordShape'
  <2>1. IsWellShaped(r)
    BY <1>1 DEF RecordShape, IsWellShaped, SameButApproval
  <2> QED
    BY <1>1, <2>1, ShapeAfter
<1>4. LockIsGranted' /\ LiveLeaseIsHonoured'
  BY <1>1, LockAfterWrite, LiveAfterWrite DEF SameButApproval
<1>5. AuditExplainsRecord'
  <2>1. IsAccountedFor(plans[p], Happened(p))
    BY DEF AuditExplainsRecord
  <2>2. r.approvalStatus = "approved" => event = "approve"
    BY <1>1 DEF ApprovalAfter
  <2>3. r.approvalStatus = "rejected" => event = "reject"
    BY <1>1 DEF ApprovalAfter
  <2>4. IsAccountedFor(r, With(Happened(p), event))
    BY <1>1, <2>1, <2>2, <2>3 DEF With, AuditType, IsAccountedFor, SameButApproval, Exists
  <2> QED
    BY <1>1, <2>4, AuditAfter
<1>6. GateIsShut'
  <2>1. event # "approve" => r.approvalStatus \in {"pending", "rejected"}
    BY <1>1 DEF ApprovalAfter
  <2>2. IsUnapproved(With(Happened(p), event))
          => r.approvalStatus \in {"pending", "rejected"} /\ "claim" \notin With(Happened(p), event)
    BY <1>1, <2>1 DEF With, AuditType, IsUnapproved, GateIsShut
  <2> QED
    BY <1>1, <2>2, GateAfter
<1> QED
  BY <1>2, <1>3, <1>4, <1>5, <1>6

(* claimNextPlan: the plan was unlocked or its lock had expired, so the    *)
(* new lease takes nothing from anybody.                                   *)
LEMMA ClaimStep ==
  ASSUME IInv, NEW p \in Plan, NEW l \in Lease, NEW t \in Token,
         NEW plan, NEW project, NEW ok \in BOOLEAN, ClaimNextPlan(t, l, p, plan, project, ok)
  PROVE  IInv'
<1> USE DEF IInv
<1> DEFINE r == Locked(plans[p], l, t, now)
           g == GrantOf(p, r.lock, TRUE)
<1>1. /\ plans[p].approvalStatus \in {"approved", "not_required"}
      /\ \/ plans[p].status = "queued"
         \/ plans[p].status = "locked" /\ plans[p].lock # NoLock /\ HasExpired(plans[p].lock, now)
      /\ grants[l] = NoGrant
      /\ Writes(p, r, "claim")
      /\ Regrants(l, g)
      /\ verdict' = verdict
  BY ClaimEffect
<1>2. /\ r.status = "locked"
      /\ r.lock = [leaseId |-> l, clientTokenId |-> t, expiresAt |-> now + LeaseTimeout]
      /\ r.lock # NoLock
      /\ r.completion = plans[p].completion
      /\ r.reviewEvidence = plans[p].reviewEvidence
      /\ r.approvalStatus = plans[p].approvalStatus
  BY LockedFacts, StateTypes
<1>3. /\ r.lock.leaseId = l
      /\ r.lock.clientTokenId = t
      /\ r.lock.expiresAt = now + LeaseTimeout
  BY <1>2
<1>4. IsAccountedFor(plans[p], Happened(p)) /\ IsWellShaped(plans[p])
  BY DEF AuditExplainsRecord, RecordShape
<1> HIDE DEF r
<1>5. TypeOK'
  BY <1>1, TypeAfter DEF TypeOK, Regrants
<1>6. RecordShape'
  <2>1. IsWellShaped(r)
    BY <1>1, <1>2, <1>4 DEF IsWellShaped
  <2> QED
    BY <1>1, <2>1, ShapeAfter
<1>7. LockIsGranted'
  BY <1>1, <1>3, LockAfterRegrant
<1>8. LiveLeaseIsHonoured'
  <2>1. g.plan = p /\ g.token = t /\ g.expiresAt = r.lock.expiresAt
    BY <1>3 DEF GrantOf
  <2>2. HoldsLease(r, l, t, now)
    BY <1>2, <1>3, StateTypes, TimeoutAssumption DEF HoldsLease, HasExpired
  <2>3. \A k \in Lease : k # l /\ IsLive(k) => grants[k].plan # p
    BY <1>1, OnlyTheLockIsLive
  <2> HIDE DEF g
  <2> QED
    BY <1>1, <2>1, <2>2, <2>3, LiveAfterRegrant
<1>9. AuditExplainsRecord'
  <2>1. IsAccountedFor(r, With(Happened(p), "claim"))
    BY <1>1, <1>2, <1>4 DEF With, AuditType, IsAccountedFor, Exists
  <2> QED
    BY <1>1, <2>1, AuditAfter
<1>10. GateIsShut'
  <2>1. ~IsUnapproved(With(Happened(p), "claim"))
    BY <1>1 DEF With, AuditType, IsUnapproved, GateIsShut
  <2> QED
    BY <1>1, <2>1, GateAfter
<1> QED
  BY <1>5, <1>6, <1>7, <1>8, <1>9, <1>10

(* extendLease: the holder's lease gets a later expiry and stays the only  *)
(* one of its plan.                                                        *)
LEMMA ExtendStep ==
  ASSUME IInv, NEW p \in Plan, NEW l \in Lease, NEW t \in Token, NEW ok \in BOOLEAN, ExtendLease(p, l, t, ok)
  PROVE  IInv'
<1> USE DEF IInv
<1> DEFINE r == Extended(plans[p], l, t, now)
           g == GrantOf(p, r.lock, TRUE)
<1>1. /\ HoldsLease(plans[p], l, t, now)
      /\ Writes(p, r, "heartbeat")
      /\ Regrants(l, g)
      /\ verdict' = verdict
  BY ExtendEffect
<1>2. /\ r.status = plans[p].status
      /\ r.lock = [leaseId |-> l, clientTokenId |-> t, expiresAt |-> now + LeaseTimeout]
      /\ r.lock # NoLock
      /\ r.completion = plans[p].completion
      /\ r.reviewEvidence = plans[p].reviewEvidence
      /\ r.approvalStatus = plans[p].approvalStatus
  BY ExtendedFacts, StateTypes
<1>3. /\ r.lock.leaseId = l
      /\ r.lock.clientTokenId = t
      /\ r.lock.expiresAt = now + LeaseTimeout
  BY <1>2
<1>4. IsAccountedFor(plans[p], Happened(p)) /\ IsWellShaped(plans[p])
  BY DEF AuditExplainsRecord, RecordShape
<1>5. plans[p].status = "locked" /\ plans[p].lock # NoLock /\ plans[p].lock.leaseId = l
  BY <1>1 DEF HoldsLease
<1>6. grants[l].plan = p
  BY <1>5, LockHasGrant
<1> HIDE DEF r
<1>7. TypeOK'
  BY <1>1, TypeAfter DEF TypeOK, Regrants
<1>8. RecordShape'
  <2>1. IsWellShaped(r)
    BY <1>2, <1>4, <1>5 DEF IsWellShaped
  <2> QED
    BY <1>1, <2>1, ShapeAfter
<1>9. LockIsGranted'
  BY <1>1, <1>3, <1>6, LockAfterRegrant
<1>10. LiveLeaseIsHonoured'
  <2>1. g.plan = p /\ g.token = t /\ g.expiresAt = r.lock.expiresAt
    BY <1>3 DEF GrantOf
  <2>2. HoldsLease(r, l, t, now)
    BY <1>2, <1>3, <1>5, StateTypes, TimeoutAssumption DEF HoldsLease, HasExpired
  <2>3. \A k \in Lease : k # l /\ IsLive(k) => grants[k].plan # p
    BY <1>5, OnlyTheLockIsLive
  <2> HIDE DEF g
  <2> QED
    BY <1>1, <2>1, <2>2, <2>3, LiveAfterRegrant
<1>11. AuditExplainsRecord'
  <2>1. IsAccountedFor(r, With(Happened(p), "heartbeat"))
    BY <1>2, <1>4, <1>5 DEF With, AuditType, IsAccountedFor, Exists
  <2> QED
    BY <1>1, <2>1, AuditAfter
<1>12. GateIsShut'
  <2>1. ~IsUnapproved(With(Happened(p), "heartbeat"))
    BY <1>4, <1>5 DEF With, AuditType, IsUnapproved, GateIsShut, IsAccountedFor
  <2> QED
    BY <1>1, <2>1, GateAfter
<1> QED
  BY <1>7, <1>8, <1>9, <1>10, <1>11, <1>12

(* progressPlan changes neither status nor lock of the plan it holds.      *)
LEMMA ProgressStep ==
  ASSUME IInv, NEW p \in Plan, NEW l \in Lease, NEW t \in Token,
         NEW loop \in LoopInput, NEW ok \in BOOLEAN, ProgressPlan(p, l, t, loop, ok)
  PROVE  IInv'
<1> USE DEF IInv
<1> DEFINE r == Progressed(plans[p], loop)
<1>1. /\ HoldsLease(plans[p], l, t, now)
      /\ Writes(p, r, "progress")
      /\ grants' = grants
      /\ verdict' = verdict
  BY ProgressEffect
<1>2. /\ r.status = "locked"
      /\ r.lock = plans[p].lock
      /\ r.completion = plans[p].completion
      /\ r.reviewEvidence = plans[p].reviewEvidence
      /\ r.approvalStatus = plans[p].approvalStatus
  BY ProgressedFacts, StateTypes
<1>3. IsAccountedFor(plans[p], Happened(p)) /\ IsWellShaped(plans[p])
  BY DEF AuditExplainsRecord, RecordShape
<1>4. plans[p].status = "locked" /\ plans[p].lock # NoLock
  BY <1>1 DEF HoldsLease
<1> HIDE DEF r
<1>5. TypeOK'
  BY <1>1, TypeAfter DEF TypeOK
<1>6. RecordShape'
  <2>1. IsWellShaped(r)
    BY <1>2, <1>3, <1>4 DEF IsWellShaped
  <2> QED
    BY <1>1, <2>1, ShapeAfter
<1>7. LockIsGranted' /\ LiveLeaseIsHonoured'
  BY <1>1, <1>2, LockAfterWrite, LiveAfterWrite
<1>8. AuditExplainsRecord'
  <2>1. IsAccountedFor(r, With(Happened(p), "progress"))
    BY <1>2, <1>3, <1>4 DEF With, AuditType, IsAccountedFor, Exists
  <2> QED
    BY <1>1, <2>1, AuditAfter
<1>9. GateIsShut'
  <2>1. ~IsUnapproved(With(Happened(p), "progress"))
    BY <1>3, <1>4 DEF With, AuditType, IsUnapproved, GateIsShut, IsAccountedFor
  <2> QED
    BY <1>1, <2>1, GateAfter
<1> QED
  BY <1>5, <1>6, <1>7, <1>8, <1>9

(* releasePlan and completePlan end in a record without a lock, and the    *)
(* lease they close was the only one of the plan.                          *)
LEMMA GiveUpStep ==
  ASSUME IInv, NEW p \in Plan, NEW l \in Lease, NEW t \in Token,
         NEW r \in Record, NEW event \in {"release", "complete"},
         HoldsLease(plans[p], l, t, now),
         Writes(p, r, event),
         Regrants(l, GrantOf(p, plans[p].lock, FALSE)),
         verdict' = verdict,
         r.lock = NoLock,
         IsWellShaped(r),
         IsAccountedFor(r, With(Happened(p), event))
  PROVE  IInv'
<1> USE DEF IInv
<1>1. plans[p].status = "locked" /\ plans[p].lock # NoLock /\ plans[p].lock.leaseId = l
  BY DEF HoldsLease
<1>2. grants[l].plan = p
  BY <1>1, LockHasGrant
<1>3. TypeOK'
  BY TypeAfter DEF TypeOK, Regrants
<1>4. RecordShape' /\ AuditExplainsRecord'
  BY ShapeAfter, AuditAfter
<1>5. LockIsGranted'
  BY <1>2, LockAfterRegrant
<1>6. LiveLeaseIsHonoured'
  <2> DEFINE g == GrantOf(p, plans[p].lock, FALSE)
  <2>1. g.plan = p /\ ~g.open
    BY DEF GrantOf
  <2>2. \A k \in Lease : k # l /\ IsLive(k) => grants[k].plan # p
    BY <1>1, OnlyTheLockIsLive
  <2>3. Regrants(l, g)
    OBVIOUS
  <2> HIDE DEF g
  <2> QED
    BY <2>1, <2>2, <2>3, LiveAfterRegrant
<1>7. GateIsShut'
  <2>1. "claim" \in Happened(p)
    BY <1>1 DEF AuditExplainsRecord, IsAccountedFor
  <2>2. ~IsUnapproved(With(Happened(p), event))
    BY <2>1 DEF With, AuditType, IsUnapproved, GateIsShut
  <2> QED
    BY <2>2, GateAfter
<1> QED
  BY <1>3, <1>4, <1>5, <1>6, <1>7

(* releasePlan: wherever releaseStatus sends it, the plan is unlocked.     *)
LEMMA ReleaseStep ==
  ASSUME IInv, NEW p \in Plan, NEW l \in Lease, NEW t \in Token,
         NEW loop \in LoopInput, NEW reason \in ReleaseReason,
         NEW ok \in BOOLEAN, ReleasePlan(p, l, t, loop, reason, ok)
  PROVE  IInv'
<1> USE DEF IInv
<1> DEFINE r == Released(plans[p], loop, reason)
<1>1. /\ HoldsLease(plans[p], l, t, now)
      /\ Writes(p, r, "release")
      /\ Regrants(l, GrantOf(p, plans[p].lock, FALSE))
      /\ verdict' = verdict
  BY ReleaseEffect
<1>2. /\ r \in Record
      /\ r.status \in {"queued", "blocked", "canceled"}
      /\ r.lock = NoLock
      /\ r.completion = plans[p].completion
      /\ r.reviewEvidence = plans[p].reviewEvidence
      /\ r.approvalStatus \in {"pending", "not_required"}
  BY ReleasedFacts, StateTypes
<1>3. IsAccountedFor(plans[p], Happened(p)) /\ IsWellShaped(plans[p])
  BY DEF AuditExplainsRecord, RecordShape
<1>4. plans[p].status = "locked" /\ plans[p].lock # NoLock
  BY <1>1 DEF HoldsLease
<1> HIDE DEF r
<1>5. IsWellShaped(r)
  BY <1>2, <1>3, <1>4 DEF IsWellShaped
<1>6. IsAccountedFor(r, With(Happened(p), "release"))
  BY <1>2, <1>3, <1>4, <1>5 DEF With, AuditType, IsAccountedFor, Exists, IsWellShaped
<1> QED
  BY <1>1, <1>2, <1>5, <1>6, GiveUpStep

(* completePlan: the plan is archived, unlocked, under its last holder.    *)
LEMMA CompleteStep ==
  ASSUME IInv, NEW p \in Plan, NEW l \in Lease, NEW t \in Token,
         NEW loop \in LoopInput \cup {plans[p].workLoop}, NEW ok \in BOOLEAN, CompletePlan(p, l, t, loop, ok)
  PROVE  IInv'
<1> USE DEF IInv
<1> DEFINE r == Completed(plans[p], loop, t)
<1>1. /\ loop \in WorkLoop
      /\ HoldsLease(plans[p], l, t, now)
      /\ Writes(p, r, "complete")
      /\ Regrants(l, GrantOf(p, plans[p].lock, FALSE))
      /\ verdict' = verdict
  BY CompleteEffect
<1>2. /\ r \in Record
      /\ r.status = "completed"
      /\ r.lock = NoLock
      /\ r.completion # NoToken
      /\ r.reviewEvidence = plans[p].reviewEvidence
      /\ r.approvalStatus = plans[p].approvalStatus
  BY <1>1, CompletedFacts, StateTypes
<1>3. IsAccountedFor(plans[p], Happened(p)) /\ IsWellShaped(plans[p])
  BY DEF AuditExplainsRecord, RecordShape
<1>4. plans[p].status = "locked" /\ plans[p].lock # NoLock
  BY <1>1 DEF HoldsLease
<1> HIDE DEF r
<1>5. IsWellShaped(r)
  BY <1>2, <1>3, <1>4 DEF IsWellShaped
<1>6. IsAccountedFor(r, With(Happened(p), "complete"))
  BY <1>2, <1>3, <1>4, <1>5 DEF With, AuditType, IsAccountedFor, Exists, IsWellShaped
<1> QED
  BY <1>1, <1>2, <1>5, <1>6, GiveUpStep

(* attachPlanReviewEvidence leaves everything but the evidence alone.      *)
LEMMA AttachStep ==
  ASSUME IInv, NEW p \in Plan, NEW e \in Evidence, NEW ok \in BOOLEAN, AttachReviewEvidence(p, e, ok)
  PROVE  IInv'
<1> USE DEF IInv
<1> DEFINE r == WithEvidence(plans[p], e)
           event == "attach_review_evidence"
<1>1. /\ plans[p].status = "completed"
      /\ Writes(p, r, event)
      /\ grants' = grants
      /\ verdict' = verdict
  BY AttachEffect
<1>2. /\ r.status = plans[p].status
      /\ r.lock = plans[p].lock
      /\ r.completion = plans[p].completion
      /\ r.approvalStatus = plans[p].approvalStatus
  BY EvidenceFacts, StateTypes
<1>3. IsAccountedFor(plans[p], Happened(p)) /\ IsWellShaped(plans[p])
  BY DEF AuditExplainsRecord, RecordShape
<1> HIDE DEF r
<1>4. TypeOK'
  BY <1>1, TypeAfter DEF TypeOK
<1>5. RecordShape'
  <2>1. IsWellShaped(r)
    BY <1>1, <1>2, <1>3 DEF IsWellShaped
  <2> QED
    BY <1>1, <2>1, ShapeAfter
<1>6. LockIsGranted' /\ LiveLeaseIsHonoured'
  BY <1>1, <1>2, LockAfterWrite, LiveAfterWrite
<1>7. AuditExplainsRecord'
  <2>1. IsAccountedFor(r, With(Happened(p), event))
    BY <1>1, <1>2, <1>3 DEF With, AuditType, IsAccountedFor, Exists
  <2> QED
    BY <1>1, <2>1, AuditAfter
<1>8. GateIsShut'
  <2>1. IsUnapproved(With(Happened(p), event))
          => r.approvalStatus \in {"pending", "rejected"} /\ "claim" \notin With(Happened(p), event)
    BY <1>2 DEF With, AuditType, IsUnapproved, GateIsShut
  <2> QED
    BY <1>1, <2>1, GateAfter
<1> QED
  BY <1>4, <1>5, <1>6, <1>7, <1>8

(* The passage of time only ends leases.                                   *)
LEMMA TickStep ==
  ASSUME IInv, Tick
  PROVE  IInv'
<1> USE DEF IInv
<1>1. /\ now' \in 0..MaxTime
      /\ now' = now + 1
      /\ plans' = plans /\ audit' = audit /\ unlogged' = unlogged /\ verdict' = verdict /\ grants' = grants
  BY StoreAssumption DEF Tick, TypeOK
<1>2. TypeOK'
  BY <1>1 DEF TypeOK
<1>3. RecordShape' /\ LockIsGranted' /\ AuditExplainsRecord' /\ GateIsShut'
  BY <1>1 DEF RecordShape, LockIsGranted, AuditExplainsRecord, GateIsShut, Happened
<1>4. LiveLeaseIsHonoured'
  <2> SUFFICES ASSUME NEW l \in Lease, IsLive(l)'
               PROVE  /\ HoldsLease(plans[grants[l].plan], l, grants[l].token, now')
                      /\ plans[grants[l].plan].lock.expiresAt = grants[l].expiresAt
    BY <1>1 DEF LiveLeaseIsHonoured
  <2>1. /\ grants[l] # NoGrant
        /\ grants[l].open
        /\ ~(grants[l].expiresAt <= now + 1)
        /\ grants[l].expiresAt \in Nat
        /\ now \in Nat
    BY <1>1, StoreAssumption DEF IsLive, HasExpired, TypeOK, Grant
  <2>2. IsLive(l)
    BY <2>1 DEF IsLive, HasExpired
  <2> QED
    BY <1>1, <2>1, <2>2 DEF LiveLeaseIsHonoured, HoldsLease, HasExpired
<1> QED
  BY <1>2, <1>3, <1>4

(* A step that changes nothing.                                            *)
LEMMA StutterStep ==
  ASSUME IInv, UNCHANGED vars
  PROVE  IInv'
BY DEF IInv, Happened, vars, TypeOK, RecordShape, LockIsGranted, LiveLeaseIsHonoured, IsLive,
       AuditExplainsRecord, GateIsShut

(* So does every step of the store.                                        *)
LEMMA NextIInv == IInv /\ [Next]_vars => IInv'
<1> SUFFICES ASSUME IInv, [Next]_vars PROVE IInv'
  OBVIOUS
<1>1. ASSUME NEW p \in Plan, NEW loop \in LoopInput, NEW asked \in BOOLEAN,
             NEW ok \in BOOLEAN, CreatePlan(p, loop, asked, ok)
      PROVE  IInv'
  BY <1>1, CreateStep
<1>2. ASSUME NEW p \in Plan, NEW ok \in BOOLEAN, ReviewerStep(p, ok) PROVE IInv'
  BY <1>2, ReviewStep
<1>3. ASSUME NEW p \in Plan, NEW l \in Lease, NEW t \in Token, NEW ok \in BOOLEAN, ExecutorStep(p, l, t, ok)
      PROVE  IInv'
  BY <1>3, ClaimStep, ExtendStep, ProgressStep, ReleaseStep, CompleteStep DEF ExecutorStep
<1>4. ASSUME NEW p \in Plan, NEW e \in Evidence, NEW ok \in BOOLEAN, AttachReviewEvidence(p, e, ok) PROVE IInv'
  BY <1>4, AttachStep
<1>5. CASE Tick
  BY <1>5, TickStep
<1>6. CASE UNCHANGED vars
  BY <1>6, StutterStep
<1> QED
  BY <1>1, <1>2, <1>3, <1>4, <1>5, <1>6 DEF Next

-----------------------------------------------------------------------------
(* Theorems *)

(* In every reachable state of the store the whole invariant holds.        *)
THEOREM StoreIsSafe == Spec => []IInv
BY InitIInv, NextIInv, PTL DEF Spec

(* The variables keep their types, whatever callers do.                    *)
THEOREM TypeCorrectness == Spec => []TypeOK
<1>1. IInv => TypeOK
  BY DEF IInv
<1> QED
  BY <1>1, StoreIsSafe, PTL

(***************************************************************************)
(* Until the expiry it answered, the store accepts every heartbeat,        *)
(* progress, release and completion of a lease (claimNextPlan,             *)
(* extendLease, assertLease), for any number of executors and leases.      *)
(***************************************************************************)
THEOREM LeaseIsHonoured == Spec => []LiveLeaseIsHonoured
<1>1. IInv => LiveLeaseIsHonoured
  BY DEF IInv
<1> QED
  BY <1>1, StoreIsSafe, PTL

(***************************************************************************)
(* Mutual exclusion: of the leases granted on a plan at most one is live,  *)
(* because a live lease is the one in the plan's lock.                     *)
(***************************************************************************)
THEOREM MutualExclusion == Spec => []ExclusiveLease
<1>1. IInv => ExclusiveLease
  BY DEF IInv, ExclusiveLease, LiveLeaseIsHonoured, HoldsLease
<1> QED
  BY <1>1, StoreIsSafe, PTL

(***************************************************************************)
(* A plan submitted for approval is never claimed before its first         *)
(* approval, through every review, release and reclaim.                    *)
(***************************************************************************)
THEOREM HumanGate == Spec => []ApprovedBeforeFirstClaim
<1>1. IInv => ApprovedBeforeFirstClaim
  BY DEF IInv, GateIsShut, IsUnapproved, ApprovedBeforeFirstClaim
<1> QED
  BY <1>1, StoreIsSafe, PTL

(* Status, lock, completion and evidence of a record agree (Released,      *)
(* Completed and Locked change them together).                             *)
THEOREM RecordsKeepShape == Spec => []RecordShape
<1>1. IInv => RecordShape
  BY DEF IInv
<1> QED
  BY <1>1, StoreIsSafe, PTL

(* Every stored lock is a lease some claim granted and nobody gave up.     *)
THEOREM LocksAreGranted == Spec => []LockIsGranted
<1>1. IInv => LockIsGranted
  BY DEF IInv
<1> QED
  BY <1>1, StoreIsSafe, PTL

(***************************************************************************)
(* Every record is explained by the audit events on record for it and by   *)
(* those whose append failed, and by nothing else: as long as no append    *)
(* fails, by the log (writePlan, appendAuditUnlocked).                     *)
(***************************************************************************)
THEOREM AuditIsComplete == Spec => []AuditExplainsRecord
<1>1. IInv => AuditExplainsRecord
  BY DEF IInv
<1> QED
  BY <1>1, StoreIsSafe, PTL

(***************************************************************************)
(* Finished plans stay finished: no operation but a review or evidence     *)
(* accepts one, and those keep its end (createPlan to claimNextPlan).      *)
(***************************************************************************)
IsFinished(r) == r.status \in {"completed", "canceled"}

KeepsFinished == \A p \in Plan : IsFinished(plans[p]) => IsContinuation(plans[p], plans'[p])

(* A write keeps the end of every plan if it keeps that of its own.        *)
LEMMA FinishedAfter ==
  ASSUME RecordShape, NEW p \in Plan, NEW r, NEW event, Writes(p, r, event),
         IsFinished(plans[p]) => IsContinuation(plans[p], r)
  PROVE  KeepsFinished
<1> SUFFICES ASSUME NEW q \in Plan, IsFinished(plans[q])
             PROVE  IsContinuation(plans[q], plans'[q])
  BY DEF KeepsFinished
<1>1. CASE q = p
  BY <1>1 DEF Writes
<1>2. CASE q # p
  BY <1>2 DEF Writes, IsContinuation, RecordShape, IsWellShaped, IsFinished
<1> QED
  BY <1>1, <1>2

(* Every step of the store keeps the end of every finished plan.           *)
LEMMA NextKeepsFinished == IInv /\ Next => KeepsFinished
<1> SUFFICES ASSUME IInv, Next PROVE KeepsFinished
  OBVIOUS
<1> USE DEF IInv
<1>1. ASSUME NEW p \in Plan, NEW loop \in LoopInput, NEW asked \in BOOLEAN,
             NEW ok \in BOOLEAN, CreatePlan(p, loop, asked, ok)
      PROVE  KeepsFinished
  BY <1>1, CreateEffect, FinishedAfter DEF IsFinished
<1>2. ASSUME NEW p \in Plan, NEW ok \in BOOLEAN, ReviewerStep(p, ok) PROVE KeepsFinished
  <2>1. PICK r \in Record, event \in {"approve", "reject", "request_review"} :
          SameButApproval(plans[p], r) /\ Writes(p, r, event)
    BY <1>2, ReviewEffect
  <2>2. IsFinished(plans[p]) => IsContinuation(plans[p], r)
    BY <2>1 DEF IsFinished, IsContinuation, SameButApproval, RecordShape, IsWellShaped
  <2> QED
    BY <2>1, <2>2, FinishedAfter
<1>3. ASSUME NEW p \in Plan, NEW l \in Lease, NEW t \in Token, NEW ok \in BOOLEAN, ExecutorStep(p, l, t, ok)
      PROVE  KeepsFinished
  <2>1. ASSUME NEW plan, NEW project, ClaimNextPlan(t, l, p, plan, project, ok)
        PROVE  KeepsFinished
    BY <2>1, ClaimEffect, FinishedAfter DEF IsFinished
  <2>2. ASSUME HoldsLease(plans[p], l, t, now) PROVE ~IsFinished(plans[p])
    BY <2>2 DEF HoldsLease, IsFinished
  <2>3. CASE ExtendLease(p, l, t, ok)
    BY <2>2, <2>3, ExtendEffect, FinishedAfter
  <2>4. ASSUME NEW loop \in LoopInput, ProgressPlan(p, l, t, loop, ok) PROVE KeepsFinished
    BY <2>2, <2>4, ProgressEffect, FinishedAfter
  <2>5. ASSUME NEW loop \in LoopInput, NEW reason \in ReleaseReason,
               ReleasePlan(p, l, t, loop, reason, ok)
        PROVE  KeepsFinished
    BY <2>2, <2>5, ReleaseEffect, FinishedAfter
  <2>6. ASSUME NEW loop \in LoopInput \cup {plans[p].workLoop}, CompletePlan(p, l, t, loop, ok)
        PROVE  KeepsFinished
    BY <2>2, <2>6, CompleteEffect, FinishedAfter
  <2> QED
    BY <1>3, <2>1, <2>3, <2>4, <2>5, <2>6 DEF ExecutorStep
<1>4. ASSUME NEW p \in Plan, NEW e \in Evidence, NEW ok \in BOOLEAN, AttachReviewEvidence(p, e, ok)
      PROVE  KeepsFinished
  <2>1. Writes(p, WithEvidence(plans[p], e), "attach_review_evidence")
    BY <1>4, AttachEffect
  <2>2. IsFinished(plans[p]) => IsContinuation(plans[p], WithEvidence(plans[p], e))
    BY EvidenceFacts, StateTypes DEF IsFinished, IsContinuation, RecordShape, IsWellShaped
  <2> QED
    BY <2>1, <2>2, FinishedAfter
<1>5. CASE Tick
  BY <1>5 DEF Tick, KeepsFinished, IsFinished, IsContinuation, RecordShape, IsWellShaped
<1> QED
  BY <1>1, <1>2, <1>3, <1>4, <1>5 DEF Next

(* The end of a plan is final (completePlan, releasePlan).                 *)
THEOREM TheEndIsFinal == Spec => FinishedIsFinal
<1>1. IInv /\ [Next]_vars => [KeepsFinished]_vars
  BY NextKeepsFinished
<1>2. [KeepsFinished]_vars
        => [\A p \in Plan : plans[p].status \in {"completed", "canceled"}
                              => IsContinuation(plans[p], plans'[p])]_vars
  BY DEF KeepsFinished, IsFinished
<1> QED
  BY <1>1, <1>2, StoreIsSafe, PTL DEF Spec, FinishedIsFinal

(***************************************************************************)
(* A plan can come to two dead ends, and nothing leads out of them: it is  *)
(* blocked, or its lock has expired under a work loop that a progress      *)
(* report left inactive.  No claim, heartbeat, report or review, in any    *)
(* order, gives anybody a lease on it again.                               *)
(***************************************************************************)
IsStuck(r, n) ==
    \/ r.status = "blocked"
    \/ /\ r.status = "locked"
       /\ r.workLoop.status # "active"
       /\ HasExpired(r.lock, n)

StuckStaysStuck ==
    [][\A p \in Plan : IsStuck(plans[p], now) => IsStuck(plans'[p], now')]_vars

(* What a write makes of its own plan decides about dead ends.             *)
KeepsStuck == \A p \in Plan : IsStuck(plans[p], now) => IsStuck(plans'[p], now')

LEMMA StuckAfter ==
  ASSUME NEW p \in Plan, NEW r, NEW event, Writes(p, r, event),
         IsStuck(plans[p], now) => IsStuck(r, now)
  PROVE  KeepsStuck
<1> SUFFICES ASSUME NEW q \in Plan, IsStuck(plans[q], now)
             PROVE  IsStuck(plans'[q], now')
  BY DEF KeepsStuck
<1>1. CASE q = p
  BY <1>1 DEF Writes
<1>2. CASE q # p
  BY <1>2 DEF Writes
<1> QED
  BY <1>1, <1>2

(* Every step of the store keeps a plan at its dead end.                   *)
LEMMA NextKeepsStuck == IInv /\ [Next]_vars => KeepsStuck
<1> SUFFICES ASSUME IInv, [Next]_vars PROVE KeepsStuck
  OBVIOUS
<1> USE DEF IInv
<1>1. ASSUME NEW p \in Plan, NEW loop \in LoopInput, NEW asked \in BOOLEAN,
             NEW ok \in BOOLEAN, CreatePlan(p, loop, asked, ok)
      PROVE  KeepsStuck
  BY <1>1, CreateEffect, StuckAfter DEF IsStuck
<1>2. ASSUME NEW p \in Plan, NEW ok \in BOOLEAN, ReviewerStep(p, ok) PROVE KeepsStuck
  <2>1. PICK r \in Record, event \in {"approve", "reject", "request_review"} :
          SameButApproval(plans[p], r) /\ Writes(p, r, event)
    BY <1>2, ReviewEffect
  <2>2. IsStuck(plans[p], now) => IsStuck(r, now)
    BY <2>1 DEF IsStuck, SameButApproval
  <2> QED
    BY <2>1, <2>2, StuckAfter
<1>3. ASSUME NEW p \in Plan, NEW l \in Lease, NEW t \in Token, NEW ok \in BOOLEAN, ExecutorStep(p, l, t, ok)
      PROVE  KeepsStuck
  <2>1. ASSUME NEW plan, NEW project, ClaimNextPlan(t, l, p, plan, project, ok)
        PROVE  KeepsStuck
    <3>1. Claimable(plans[p], project, now)
      BY <2>1 DEF ClaimNextPlan, Candidates
    <3>2. ~IsStuck(plans[p], now)
      BY <3>1 DEF Claimable, IsStuck
    <3> QED
      BY <2>1, <3>2, ClaimEffect, StuckAfter
  <2>2. ASSUME HoldsLease(plans[p], l, t, now) PROVE ~IsStuck(plans[p], now)
    BY <2>2 DEF HoldsLease, IsStuck
  <2>3. CASE ExtendLease(p, l, t, ok)
    BY <2>2, <2>3, ExtendEffect, StuckAfter
  <2>4. ASSUME NEW loop \in LoopInput, ProgressPlan(p, l, t, loop, ok) PROVE KeepsStuck
    BY <2>2, <2>4, ProgressEffect, StuckAfter
  <2>5. ASSUME NEW loop \in LoopInput, NEW reason \in ReleaseReason,
               ReleasePlan(p, l, t, loop, reason, ok)
        PROVE  KeepsStuck
    BY <2>2, <2>5, ReleaseEffect, StuckAfter
  <2>6. ASSUME NEW loop \in LoopInput \cup {plans[p].workLoop}, CompletePlan(p, l, t, loop, ok)
        PROVE  KeepsStuck
    BY <2>2, <2>6, CompleteEffect, StuckAfter
  <2> QED
    BY <1>3, <2>1, <2>3, <2>4, <2>5, <2>6 DEF ExecutorStep
<1>4. ASSUME NEW p \in Plan, NEW e \in Evidence, NEW ok \in BOOLEAN, AttachReviewEvidence(p, e, ok)
      PROVE  KeepsStuck
  BY <1>4, AttachEffect, StuckAfter DEF IsStuck
<1>5. CASE Tick
  <2>1. plans' = plans /\ now' = now + 1 /\ now \in Nat
    BY <1>5, StateTypes DEF Tick
  <2> SUFFICES ASSUME NEW p \in Plan, IsStuck(plans[p], now) PROVE IsStuck(plans[p], now + 1)
    BY <2>1 DEF KeepsStuck
  <2>2. plans[p].status = "locked" => plans[p].lock.expiresAt \in Nat
    BY StateTypes DEF RecordShape, IsWellShaped, Lock
  <2> QED
    BY <2>1, <2>2 DEF IsStuck, HasExpired
<1>6. CASE UNCHANGED vars
  BY <1>6 DEF vars, KeepsStuck
<1> QED
  BY <1>1, <1>2, <1>3, <1>4, <1>5, <1>6 DEF Next

(* A blocked plan, and an expired lock over an inactive work loop, stay as *)
(* they are for ever (claimNextPlan, progressPlan, releaseStatus).         *)
THEOREM DeadEndsStay == Spec => StuckStaysStuck
<1>1. IInv /\ [Next]_vars => [KeepsStuck]_vars
  BY NextKeepsStuck
<1>2. [KeepsStuck]_vars
        => [\A p \in Plan : IsStuck(plans[p], now) => IsStuck(plans'[p], now')]_vars
  BY DEF KeepsStuck
<1> QED
  BY <1>1, <1>2, StoreIsSafe, PTL DEF Spec, StuckStaysStuck

(***************************************************************************)
(* With forced approval every plan was submitted for approval, and a lease *)
(* is only granted by a claim: what ForcedApproval needs beyond the gate.  *)
(***************************************************************************)
ForcedInv ==
    /\ ForceApproval => \A p \in Plan : Happened(p) # {} => "submit_for_approval" \in Happened(p)
    /\ \A l \in Lease : grants[l] # NoGrant => "claim" \in Happened(grants[l].plan)

(* Any write whose event follows a submission keeps it, when leases are    *)
(* granted on claimed plans only.                                          *)
LEMMA ForcedAfter ==
  ASSUME TypeOK, ForcedInv, NEW p \in Plan, NEW r, NEW event, Writes(p, r, event),
         ForceApproval => Happened(p) # {} \/ event = "submit_for_approval",
         \A l \in Lease : \/ grants'[l] = grants[l]
                          \/ grants'[l].plan = p /\ "claim" \in With(Happened(p), event)
  PROVE  ForcedInv'
<1>1. ASSUME ForceApproval, NEW q \in Plan, Happened(q)' # {}
      PROVE  "submit_for_approval" \in Happened(q)'
  BY <1>1 DEF ForcedInv, Writes, With, AuditType, Happened
<1>2. ASSUME NEW l \in Lease, grants'[l] # NoGrant
      PROVE  "claim" \in Happened(grants[l].plan)'
  <2>1. CASE grants'[l] = grants[l]
    <3>1. grants[l].plan \in Plan
      BY <1>2, <2>1 DEF TypeOK, Grant
    <3> QED
      BY <1>2, <2>1, <3>1 DEF ForcedInv, Writes, With, AuditType, Happened
  <2>2. CASE grants'[l].plan = p /\ "claim" \in With(Happened(p), event)
    BY <2>2 DEF Writes, Happened
  <2> QED
    BY <2>1, <2>2
<1> QED
  BY <1>1, <1>2 DEF ForcedInv

(* Every step of the store keeps it.                                       *)
LEMMA NextForcedInv == IInv /\ ForcedInv /\ [Next]_vars => ForcedInv'
<1> SUFFICES ASSUME IInv, ForcedInv, [Next]_vars PROVE ForcedInv'
  OBVIOUS
<1> USE DEF IInv
<1>1. ASSUME NEW p \in Plan, NEW loop \in LoopInput, NEW asked \in BOOLEAN,
             NEW ok \in BOOLEAN, CreatePlan(p, loop, asked, ok)
      PROVE  ForcedInv'
  BY <1>1, CreateEffect, ForcedAfter
<1>2. \A p \in Plan : plans[p].status # "absent" => Happened(p) # {}
  BY DEF AuditExplainsRecord, IsAccountedFor, Exists
<1>3. ASSUME NEW p \in Plan, NEW ok \in BOOLEAN, ReviewerStep(p, ok) PROVE ForcedInv'
  BY <1>2, <1>3, ReviewEffect, ForcedAfter DEF Exists
<1>4. ASSUME NEW p \in Plan, NEW l \in Lease, NEW t \in Token, NEW ok \in BOOLEAN, ExecutorStep(p, l, t, ok)
      PROVE  ForcedInv'
  <2>1. ASSUME NEW plan, NEW project, ClaimNextPlan(t, l, p, plan, project, ok)
        PROVE  ForcedInv'
    <3> DEFINE g == GrantOf(p, Locked(plans[p], l, t, now).lock, TRUE)
    <3>1. /\ plans[p].status # "absent"
          /\ Writes(p, Locked(plans[p], l, t, now), "claim")
          /\ Regrants(l, g)
      BY <2>1, ClaimEffect
    <3>2. g.plan = p
      BY DEF GrantOf
    <3> HIDE DEF g
    <3> QED
      BY <1>2, <3>1, <3>2, ForcedAfter DEF Regrants, With, AuditType
  <2>2. ASSUME HoldsLease(plans[p], l, t, now) PROVE "claim" \in Happened(p)
    BY <2>2 DEF HoldsLease, AuditExplainsRecord, IsAccountedFor
  <2>3. CASE ExtendLease(p, l, t, ok)
    <3> DEFINE g == GrantOf(p, Extended(plans[p], l, t, now).lock, TRUE)
    <3>1. /\ "claim" \in Happened(p)
          /\ Writes(p, Extended(plans[p], l, t, now), "heartbeat")
          /\ Regrants(l, g)
      BY <2>2, <2>3, ExtendEffect
    <3>2. g.plan = p
      BY DEF GrantOf
    <3> HIDE DEF g
    <3> QED
      BY <3>1, <3>2, ForcedAfter DEF Regrants, With, AuditType
  <2>4. ASSUME NEW loop \in LoopInput, ProgressPlan(p, l, t, loop, ok) PROVE ForcedInv'
    BY <2>2, <2>4, ProgressEffect, ForcedAfter
  <2> DEFINE closed == GrantOf(p, plans[p].lock, FALSE)
  <2>5. closed.plan = p
    BY DEF GrantOf
  <2> HIDE DEF closed
  <2>6. ASSUME NEW loop \in LoopInput, NEW reason \in ReleaseReason,
               ReleasePlan(p, l, t, loop, reason, ok)
        PROVE  ForcedInv'
    <3>1. /\ "claim" \in Happened(p)
          /\ Writes(p, Released(plans[p], loop, reason), "release")
          /\ Regrants(l, closed)
      BY <2>2, <2>6, ReleaseEffect DEF closed
    <3> QED
      BY <2>5, <3>1, ForcedAfter DEF Regrants, With, AuditType
  <2>7. ASSUME NEW loop \in LoopInput \cup {plans[p].workLoop}, CompletePlan(p, l, t, loop, ok)
        PROVE  ForcedInv'
    <3>1. /\ "claim" \in Happened(p)
          /\ Writes(p, Completed(plans[p], loop, t), "complete")
          /\ Regrants(l, closed)
      BY <2>2, <2>7, CompleteEffect DEF closed
    <3> QED
      BY <2>5, <3>1, ForcedAfter DEF Regrants, With, AuditType
  <2> QED
    BY <1>4, <2>1, <2>3, <2>4, <2>6, <2>7 DEF ExecutorStep
<1>5. ASSUME NEW p \in Plan, NEW e \in Evidence, NEW ok \in BOOLEAN, AttachReviewEvidence(p, e, ok)
      PROVE  ForcedInv'
  BY <1>2, <1>5, AttachEffect, ForcedAfter
<1>6. CASE Tick \/ UNCHANGED vars
  BY <1>6 DEF Tick, vars, ForcedInv, Happened
<1> QED
  BY <1>1, <1>3, <1>4, <1>5, <1>6 DEF Next

(***************************************************************************)
(* AWL_FORCE_APPROVAL_REQUIRED keeps its promise for every plan (createPlan *)
(* route, claimNextPlan).                                                  *)
(***************************************************************************)
THEOREM ForcedGate == Spec => []ForcedApproval
<1>1. Init => ForcedInv
  BY DEF Init, ForcedInv, Happened
<1>2. IInv /\ ForcedInv => ForcedApproval
  BY DEF IInv, TypeOK, Grant, GateIsShut, IsUnapproved, ForcedInv, ForcedApproval
<1> QED
  BY <1>1, <1>2, NextForcedInv, StoreIsSafe, PTL DEF Spec

-----------------------------------------------------------------------------
(* The promise about leases *)

(* A lease that is live for PlanLeases is live here, and the plan's lock.  *)
LEMMA LiveLeaseIsTheLock ==
  ASSUME IInv, NEW l \in Lease, Leases!IsLive(l)
  PROVE  /\ grants[l].plan \in Plan
         /\ HoldsLease(plans[grants[l].plan], l, grants[l].token, now)
<1>1. grants[l] \in Grant /\ now \in Nat
  BY StateTypes DEF Leases!IsLive, IInv, TypeOK
<1>2. IsLive(l) /\ grants[l].plan \in Plan
  BY <1>1 DEF Leases!IsLive, IsLive, HasExpired, Grant
<1> QED
  BY <1>2 DEF IInv, LiveLeaseIsHonoured

(* The deadline an operation answers lies within the timeout.              *)
LEMMA DeadlineInReach ==
  ASSUME IInv
  PROVE  now + LeaseTimeout \in Leases!Deadline
<1>1. now \in Nat
  BY StateTypes DEF IInv
<1> QED
  BY <1>1, TimeoutAssumption DEF Leases!Deadline

(* claimNextPlan: no lease on a queued plan, or on one whose lock has      *)
(* expired, is live.                                                       *)
LEMMA ClaimIsGrant ==
  ASSUME IInv, NEW p \in Plan, NEW l \in Lease, NEW t \in Token,
         NEW plan, NEW project, NEW ok \in BOOLEAN, ClaimNextPlan(t, l, p, plan, project, ok)
  PROVE  Leases!Grant(l, p, t)
<1>1. /\ \/ plans[p].status = "queued"
         \/ /\ plans[p].lock # NoLock
            /\ HasExpired(plans[p].lock, now)
      /\ grants[l] = NoGrant
  BY ClaimEffect DEF IInv
<1>2. Leases!NoOtherIsLive(p, l)
  <2> SUFFICES ASSUME NEW other \in Lease, Leases!IsLive(other), grants[other].plan = p
               PROVE  FALSE
    BY DEF Leases!NoOtherIsLive
  <2> QED
    BY <1>1, LiveLeaseIsTheLock DEF HoldsLease
<1>3. grants' = [grants EXCEPT ![l] = [plan |-> p, token |-> t,
                                       expiresAt |-> now + LeaseTimeout, open |-> TRUE]]
  BY DEF ClaimNextPlan
<1>4. now' = now
  BY DEF ClaimNextPlan, Save
<1> QED
  BY <1>1, <1>2, <1>3, <1>4, DeadlineInReach DEF Leases!Grant

(* Whoever holds the lock of a plan has the only lease that can be live.   *)
LEMMA HolderIsAlone ==
  ASSUME IInv, NEW p \in Plan, NEW l \in Lease, NEW t \in Token,
         HoldsLease(plans[p], l, t, now)
  PROVE  /\ grants[l] # NoGrant
         /\ grants[l].open
         /\ grants[l].plan = p
         /\ Leases!NoOtherIsLive(p, l)
<1>1. /\ plans[p].lock # NoLock
      /\ l = plans[p].lock.leaseId
      /\ grants[l] = GrantOf(p, plans[p].lock, TRUE)
  BY HolderHasGrant DEF IInv
<1>2. grants[l] # NoGrant
  BY <1>1, LockHasGrant DEF IInv
<1>3. grants[l].open /\ grants[l].plan = p
  BY <1>1 DEF GrantOf
<1>4. Leases!NoOtherIsLive(p, l)
  <2> SUFFICES ASSUME NEW other \in Lease \ {l}, Leases!IsLive(other), grants[other].plan = p
               PROVE  FALSE
    BY DEF Leases!NoOtherIsLive
  <2> QED
    BY <1>1, LiveLeaseIsTheLock DEF HoldsLease
<1> QED
  BY <1>2, <1>3, <1>4

(* extendLease moves the deadline of the only lease.                       *)
LEMMA HeartbeatIsExtend ==
  ASSUME IInv, NEW p \in Plan, NEW l \in Lease, NEW t \in Token, NEW ok \in BOOLEAN, ExtendLease(p, l, t, ok)
  PROVE  Leases!Extend(l)
<1>1. /\ HoldsLease(plans[p], l, t, now)
      /\ grants' = [grants EXCEPT ![l].expiresAt = now + LeaseTimeout]
      /\ now' = now
  BY DEF ExtendLease, Save
<1> QED
  BY <1>1, HolderIsAlone, DeadlineInReach DEF Leases!Extend

(* releasePlan and completePlan close it.                                  *)
LEMMA GiveUpIsClose ==
  ASSUME IInv, NEW p \in Plan, NEW l \in Lease, NEW t \in Token,
         HoldsLease(plans[p], l, t, now), now' = now,
         grants' = [grants EXCEPT ![l].open = FALSE]
  PROVE  Leases!Close(l)
BY HolderIsAlone DEF Leases!Close

(* Every step of the store is a step of PlanLeases or changes no lease.    *)
LEMMA NextIsLeaseStep == IInv /\ [Next]_vars => [Leases!Next]_Leases!vars
<1> SUFFICES ASSUME IInv, [Next]_vars
             PROVE  Leases!Next \/ (now' = now /\ grants' = grants)
  BY DEF Leases!vars
<1>1. ASSUME NEW p \in Plan, NEW loop \in LoopInput, NEW asked \in BOOLEAN,
             NEW ok \in BOOLEAN, CreatePlan(p, loop, asked, ok)
      PROVE  now' = now /\ grants' = grants
  BY <1>1 DEF CreatePlan, Save
<1>2. ASSUME NEW p \in Plan, NEW ok \in BOOLEAN, ReviewerStep(p, ok)
      PROVE  now' = now /\ grants' = grants
  BY <1>2 DEF ReviewerStep, ApprovePlan, RejectPlan, RequestPlanReview, Review, Save
<1>3. ASSUME NEW p \in Plan, NEW l \in Lease, NEW t \in Token, NEW ok \in BOOLEAN, ExecutorStep(p, l, t, ok)
      PROVE  Leases!Next \/ (now' = now /\ grants' = grants)
  <2>1. ASSUME NEW plan, NEW project, ClaimNextPlan(t, l, p, plan, project, ok)
        PROVE  Leases!Next
    BY <2>1, ClaimIsGrant DEF Leases!Next
  <2>2. CASE ExtendLease(p, l, t, ok)
    BY <2>2, HeartbeatIsExtend DEF Leases!Next
  <2>3. ASSUME NEW loop \in LoopInput, ProgressPlan(p, l, t, loop, ok)
        PROVE  now' = now /\ grants' = grants
    BY <2>3 DEF ProgressPlan, Save
  <2>4. ASSUME NEW loop \in LoopInput, NEW reason \in ReleaseReason,
               ReleasePlan(p, l, t, loop, reason, ok)
        PROVE  Leases!Next
    BY <2>4, GiveUpIsClose DEF ReleasePlan, Save, Leases!Next
  <2>5. ASSUME NEW loop \in LoopInput \cup {plans[p].workLoop}, CompletePlan(p, l, t, loop, ok)
        PROVE  Leases!Next
    BY <2>5, GiveUpIsClose DEF CompletePlan, Save, Leases!Next
  <2> QED
    BY <1>3, <2>1, <2>2, <2>3, <2>4, <2>5 DEF ExecutorStep
<1>4. ASSUME NEW p \in Plan, NEW e \in Evidence, NEW ok \in BOOLEAN, AttachReviewEvidence(p, e, ok)
      PROVE  now' = now /\ grants' = grants
  BY <1>4 DEF AttachReviewEvidence, Save
<1>5. CASE Tick
  BY <1>5 DEF Tick, Leases!Next, Leases!Tick
<1>6. CASE UNCHANGED vars
  BY <1>6 DEF vars
<1> QED
  BY <1>1, <1>2, <1>3, <1>4, <1>5, <1>6 DEF Next

(***************************************************************************)
(* The atomic plan store implements PlanLeases: a plan is leased out again *)
(* only when no lease on it is live (claimNextPlan, assertLease).          *)
(***************************************************************************)
THEOREM StoreImplementsLeases == Spec => ImplementsLeases
<1>1. Init => Leases!Init
  BY DEF Init, Leases!Init
<1> QED
  BY <1>1, NextIsLeaseStep, StoreIsSafe, PTL DEF Spec, Leases!Spec, ImplementsLeases

=============================================================================
