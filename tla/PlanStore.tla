------------------------------ MODULE PlanStore ------------------------------
(***************************************************************************)
(* The plan store whose operations are atomic: FilesystemPlanStore, where  *)
(* every operation runs inside withLock, and SqlPlanStore, where each one  *)
(* is a transaction over the row it locks.  Submitters, reviewers and any  *)
(* number of executors call it in any order while time passes; an executor *)
(* may stop (it just never calls again), and may present any lease id it   *)
(* was ever given, however stale.                                          *)
(*                                                                         *)
(* FilesystemPlanStore writes the plan and then appends the audit event,   *)
(* two files one after the other under the lock.  When the append fails or *)
(* the server dies before it, the plan stays written and the caller gets   *)
(* an error or no answer.  Every operation therefore has a parameter ok,   *)
(* whether the append took place, and unlogged keeps what the log missed.  *)
(*                                                                         *)
(* grants are the leases given out, as the locks recorded them.  It is     *)
(* history the store does not keep, and no action reads it except to draw  *)
(* an unused lease id.  An executor knows of its lease at most this: the   *)
(* answer may be lost, or be an error because the append failed.           *)
(***************************************************************************)
EXTENDS PlanRecord

CONSTANTS
    Plan,           \* plan ids
    LoopInput,      \* the work loops callers submit, report or release
    ForceApproval,  \* config.approval.forceRequired
    AnyPlan,        \* a claim without a planId filter
    NoGrant,        \* a lease id not yet drawn
    MaxTime,        \* bound of the clock
    MaxFailures     \* bound of the kinds of event a plan's log misses

ASSUME StoreAssumption ==
    /\ LoopInput \subseteq WorkLoop
    /\ LoopInput # {}
    /\ ForceApproval \in BOOLEAN
    /\ MaxTime \in Nat
    /\ MaxFailures \in Nat
    /\ AnyPlan \notin Plan

VARIABLES
    now,      \* the clock of the server
    plans,    \* the stored records
    audit,    \* the kinds of audit event on record for each plan
    unlogged, \* the kinds of event that took place and were not appended
    verdict,  \* the last reviewer event of each plan
    grants    \* the leases given out

vars == <<now, plans, audit, unlogged, verdict, grants>>

(* The kinds of event that tell something of the record.  A heartbeat, a   *)
(* progress report and a request for review are appended too and not kept. *)
AuditType ==
    {"submit", "submit_for_approval", "approve", "reject", "claim", "release",
     "complete", "attach_review_evidence"}

With(log, event) == log \cup ({event} \cap AuditType)

Verdict == {"none", "approve", "reject", "request_review"}

Grant == [plan : Plan, token : Token, expiresAt : Nat, open : BOOLEAN]

ASSUME GrantAssumption == NoGrant \notin Grant

Init ==
    /\ now = 0
    /\ plans = [p \in Plan |-> NoPlan]
    /\ audit = [p \in Plan |-> {}]
    /\ unlogged = [p \in Plan |-> {}]
    /\ verdict = [p \in Plan |-> "none"]
    /\ grants = [l \in Lease |-> NoGrant]

(* Mutant of Save: the event is appended before the plan is written. *)
SaveAfterAudit(p, r, event, ok) ==
    /\ audit' = [audit EXCEPT ![p] = With(@, event)]
    /\ plans' = IF ok THEN [plans EXCEPT ![p] = r] ELSE plans
    /\ UNCHANGED <<unlogged, now>>

(***************************************************************************)
(* Every operation ends by writing the plan and then appending one audit   *)
(* event.  Nothing takes the plan back when the append does not happen.    *)
(***************************************************************************)
Save(p, r, event, ok) ==
    /\ plans' = [plans EXCEPT ![p] = r]
    /\ IF ok
         THEN /\ audit' = [audit EXCEPT ![p] = With(@, event)]
              /\ UNCHANGED unlogged
         ELSE /\ Cardinality(unlogged[p]) < MaxFailures
              /\ unlogged' = [unlogged EXCEPT ![p] = With(@, event)]
              /\ UNCHANGED audit
    /\ UNCHANGED now

(* The route decides: the server may force what the submitter did not ask. *)
ApprovalRequired(asked) == ForceApproval \/ asked

(* POST /plans.  The audit event of a submission carries approvalRequired. *)
CreatePlan(p, loop, asked, ok) ==
    LET required == ApprovalRequired(asked) IN
    /\ ~Exists(plans[p])
    /\ Save(p, Submitted(loop, required, now),
            IF required THEN "submit_for_approval" ELSE "submit", ok)
    /\ UNCHANGED <<verdict, grants>>

(* A reviewer approves, rejects or sends a plan back for review. *)
Review(p, r, event, ok) ==
    /\ Exists(plans[p])
    /\ Save(p, r, event, ok)
    /\ verdict' = [verdict EXCEPT ![p] = event]
    /\ UNCHANGED grants

ApprovePlan(p, ok) == Review(p, Approved(plans[p]), "approve", ok)

RejectPlan(p, ok) == Review(p, Rejected(plans[p]), "reject", ok)

RequestPlanReview(p, ok) == Review(p, ReviewRequested(plans[p]), "request_review", ok)

(* The plans a claim with these filters may take. *)
Candidates(plan, project) ==
    {p \in Plan : plan \in {AnyPlan, p} /\ Claimable(plans[p], project, now)}

(* POST /plans/claim: the oldest candidate gets a fresh lease.  Plans      *)
(* created in the same tick are in no particular order.                    *)
ClaimNextPlan(t, l, p, plan, project, ok) ==
    /\ p \in Candidates(plan, project)
    /\ \A q \in Candidates(plan, project) : plans[p].createdAt <= plans[q].createdAt
    /\ grants[l] = NoGrant
    /\ Save(p, Locked(plans[p], l, t, now), "claim", ok)
    /\ grants' = [grants EXCEPT ![l] =
                    [plan |-> p, token |-> t,
                     expiresAt |-> now + LeaseTimeout, open |-> TRUE]]
    /\ UNCHANGED verdict

(* POST /plans/:id/heartbeat; the answer tells the executor the new expiry. *)
ExtendLease(p, l, t, ok) ==
    /\ HoldsLease(plans[p], l, t, now)
    /\ Save(p, Extended(plans[p], l, t, now), "heartbeat", ok)
    /\ grants' = [grants EXCEPT ![l].expiresAt = now + LeaseTimeout]
    /\ UNCHANGED verdict

(* POST /plans/:id/progress *)
ProgressPlan(p, l, t, loop, ok) ==
    /\ HoldsLease(plans[p], l, t, now)
    /\ Save(p, Progressed(plans[p], loop), "progress", ok)
    /\ UNCHANGED <<verdict, grants>>

(* POST /plans/:id/release; the executor gives up the lease. *)
ReleasePlan(p, l, t, loop, reason, ok) ==
    /\ HoldsLease(plans[p], l, t, now)
    /\ Save(p, Released(plans[p], loop, reason), "release", ok)
    /\ grants' = [grants EXCEPT ![l].open = FALSE]
    /\ UNCHANGED verdict

(* POST /plans/:id/complete; loop is the submitted work loop, or the       *)
(* stored one when the request carries none.                               *)
CompletePlan(p, l, t, loop, ok) ==
    /\ HoldsLease(plans[p], l, t, now)
    /\ IsTerminalWorkLoop(loop)
    /\ Save(p, Completed(plans[p], loop, t), "complete", ok)
    /\ grants' = [grants EXCEPT ![l].open = FALSE]
    /\ UNCHANGED verdict

(* POST /plans/:id/review-evidence *)
AttachReviewEvidence(p, e, ok) ==
    /\ CanAttachEvidence(plans[p], e)
    /\ Save(p, WithEvidence(plans[p], e), "attach_review_evidence", ok)
    /\ UNCHANGED <<verdict, grants>>

Tick ==
    /\ now < MaxTime
    /\ now' = now + 1
    /\ UNCHANGED <<plans, audit, unlogged, verdict, grants>>

ReviewerStep(p, ok) == ApprovePlan(p, ok) \/ RejectPlan(p, ok) \/ RequestPlanReview(p, ok)

ExecutorStep(p, l, t, ok) ==
    \/ \E plan \in Plan \cup {AnyPlan}, project \in Project \cup {AnyProject} :
           ClaimNextPlan(t, l, p, plan, project, ok)
    \/ ExtendLease(p, l, t, ok)
    \/ \E loop \in LoopInput : ProgressPlan(p, l, t, loop, ok)
    \/ \E loop \in LoopInput, reason \in ReleaseReason : ReleasePlan(p, l, t, loop, reason, ok)
    \/ \E loop \in LoopInput \cup {plans[p].workLoop} : CompletePlan(p, l, t, loop, ok)

Next ==
    \/ \E ok \in BOOLEAN :
          \/ \E p \in Plan, loop \in LoopInput, asked \in BOOLEAN : CreatePlan(p, loop, asked, ok)
          \/ \E p \in Plan : ReviewerStep(p, ok)
          \/ \E p \in Plan, l \in Lease, t \in Token : ExecutorStep(p, l, t, ok)
          \/ \E p \in Plan, e \in Evidence : AttachReviewEvidence(p, e, ok)
    \/ Tick

Spec == Init /\ [][Next]_vars

-----------------------------------------------------------------------------
(* Properties *)

TypeOK ==
    /\ now \in 0..MaxTime
    /\ plans \in [Plan -> Record]
    /\ audit \in [Plan -> SUBSET AuditType]
    /\ unlogged \in [Plan -> SUBSET AuditType]
    /\ verdict \in [Plan -> Verdict]
    /\ grants \in [Lease -> Grant \cup {NoGrant}]

(* A lease that has not been given up and, as far as its executor may have *)
(* been told, has not expired.                                             *)
IsLive(l) ==
    /\ grants[l] # NoGrant
    /\ grants[l].open
    /\ ~HasExpired(grants[l], now)

(***************************************************************************)
(* A plan is locked exactly while it has a lock, completed exactly once    *)
(* somebody completed it, and carries evidence only then.                  *)
(***************************************************************************)
IsWellShaped(r) ==
    /\ r.status = "locked" <=> r.lock # NoLock
    /\ r.status = "completed" <=> r.completion # NoToken
    /\ r.reviewEvidence # {} => r.status = "completed"

RecordShape == \A p \in Plan : IsWellShaped(plans[p])

(***************************************************************************)
(* Every lock, expired or not, is a lease that was granted on that plan to *)
(* the token in the lock, with the expiry given with it, and that has not  *)
(* been given up.                                                          *)
(***************************************************************************)
LockIsGranted ==
    \A p \in Plan :
        plans[p].lock # NoLock =>
            LET lock == plans[p].lock IN
            grants[lock.leaseId] =
                [plan |-> p, token |-> lock.clientTokenId,
                 expiresAt |-> lock.expiresAt, open |-> TRUE]

(***************************************************************************)
(* Two executors never run one plan at the same time: of all the leases    *)
(* ever given out on a plan, at most one can be live in the eyes of its    *)
(* executor (claimNextPlan, assertLease and the lock it leaves behind).    *)
(***************************************************************************)
ExclusiveLease ==
    \A l1, l2 \in Lease :
        IsLive(l1) /\ IsLive(l2) /\ grants[l1].plan = grants[l2].plan => l1 = l2

(***************************************************************************)
(* The store honours what it told the executor: until the expiry it        *)
(* answered, whatever reviewers and other executors do, the plan's lock is *)
(* that lease, so no heartbeat, release or completion of it is refused.    *)
(***************************************************************************)
LiveLeaseIsHonoured ==
    \A l \in Lease :
        IsLive(l) => /\ HoldsLease(plans[grants[l].plan], l, grants[l].token, now)
                     /\ plans[grants[l].plan].lock.expiresAt = grants[l].expiresAt

(***************************************************************************)
(* The human gate: a plan submitted for approval is not leased to anybody  *)
(* before a reviewer approved it for the first time, however the plan is   *)
(* reviewed, released and claimed, and whichever of these calls failed to  *)
(* log what it did (claimNextPlan's approvalStatus filter).                *)
(***************************************************************************)
Happened(p) == audit[p] \cup unlogged[p]

ApprovedBeforeFirstClaim ==
    \A p \in Plan :
        "submit_for_approval" \in Happened(p) /\ "claim" \in Happened(p)
            => "approve" \in Happened(p)

(***************************************************************************)
(* A failed append is the only way the log and the record part: a plan is  *)
(* approved, locked, out of the queue, completed or carries evidence only  *)
(* if the event that does that is on record, or belongs to a call that was *)
(* not answered with success; and what either of them tells has been done. *)
(* While no append fails the log alone accounts for the record (writePlan  *)
(* before appendAuditUnlocked in every operation).                         *)
(***************************************************************************)
IsAccountedFor(r, events) ==
    /\ Exists(r) <=> events # {}
    /\ r.approvalStatus = "approved" => "approve" \in events
    /\ r.approvalStatus = "rejected" => "reject" \in events
    /\ r.lock # NoLock => "claim" \in events
    /\ r.status \in {"blocked", "canceled"} => "release" \in events
    /\ r.status = "completed" <=> "complete" \in events
    /\ r.reviewEvidence # {} => "attach_review_evidence" \in events

AuditExplainsRecord == \A p \in Plan : IsAccountedFor(plans[p], Happened(p))

(***************************************************************************)
(* The end of a plan is final: once completed it keeps its work loop and   *)
(* who completed it, is never leased again and only gains review evidence; *)
(* once canceled it stays canceled, whatever a reviewer decides about it   *)
(* (completePlan, releasePlan, attachPlanReviewEvidence, claimNextPlan).   *)
(***************************************************************************)
IsContinuation(r, s) ==
    /\ s.status = r.status
    /\ s.workLoop = r.workLoop
    /\ s.completion = r.completion
    /\ s.lock = NoLock
    /\ r.reviewEvidence \subseteq s.reviewEvidence

FinishedIsFinal ==
    [][\A p \in Plan :
          plans[p].status \in {"completed", "canceled"}
              => IsContinuation(plans[p], plans'[p])]_vars

(***************************************************************************)
(* With AWL_FORCE_APPROVAL_REQUIRED no plan at all is leased before a      *)
(* reviewer approved it, whatever its submitter asked for.                 *)
(***************************************************************************)
ForcedApproval ==
    ForceApproval =>
        \A l \in Lease : grants[l] # NoGrant => "approve" \in Happened(grants[l].plan)

(***************************************************************************)
(* The store keeps the promise about leases that PlanLeases states and     *)
(* that every plan store is measured by.                                   *)
(***************************************************************************)
Leases == INSTANCE PlanLeases

ImplementsLeases == Leases!Spec

-----------------------------------------------------------------------------
(* What the documentation says and the code does not do *)

(***************************************************************************)
(* "Reject this plan? Executors will not be able to claim it unless a      *)
(* reviewer changes it later": no lease is granted on a plan whose last    *)
(* review is a rejection.                                                  *)
(***************************************************************************)
IsGranted(p) ==
    \E l \in Lease : grants[l] = NoGrant /\ grants'[l] # NoGrant /\ grants'[l].plan = p

RejectedIsNotClaimed ==
    [][\A p \in Plan : IsGranted(p) => verdict[p] # "reject"]_vars

(***************************************************************************)
(* "The plan is locked by a lease that has expired and can be reclaimed by *)
(* an executor": a plan whose lock has expired, and whose approval does    *)
(* not stand in the way, is there for a claim to take.                     *)
(***************************************************************************)
HasLapsed(r) == r.status = "locked" /\ HasExpired(r.lock, now)

ExpiredCanBeReclaimed ==
    \A p \in Plan :
        HasLapsed(plans[p]) /\ plans[p].approvalStatus \in {"approved", "not_required"}
            => p \in Candidates(p, AnyProject)

=============================================================================
