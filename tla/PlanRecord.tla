----------------------------- MODULE PlanRecord -----------------------------
(***************************************************************************)
(* The record a plan store keeps for one hosted plan, and the pure         *)
(* functions the three stores (filesystem, SQL, MongoDB) apply to it: the  *)
(* lease check, the claim filter and the value each operation writes back. *)
(* Timestamps are ticks of a discrete clock; a work loop is reduced to the *)
(* two fields the stores read, its status and its project.                 *)
(***************************************************************************)
EXTENDS Naturals, FiniteSets

CONSTANTS
    Project,       \* project ids a work loop can name
    Token,         \* client tokens (one per executor)
    Lease,         \* lease ids: the fresh UUIDs a store may ever draw
    Evidence,      \* review evidence ids
    LeaseTimeout,  \* config.locks.timeoutMs, in ticks
    NoLock,        \* plan.lock = undefined
    NoToken,       \* plan.completion = undefined
    AnyProject     \* a claim without a projectId filter

ASSUME TimeoutAssumption == LeaseTimeout \in Nat \ {0}

WorkLoopStatus == {"active", "blocked", "needs_stefan", "done", "canceled"}
ApprovalStatus == {"not_required", "pending", "approved", "rejected"}
PlanStatus     == {"queued", "locked", "blocked", "completed", "canceled"}

ReleaseReason ==
    {"ready", "review_needed", "blocked", "needs_stefan", "failed",
     "canceled", "max_slices"}

WorkLoop == [status : WorkLoopStatus, projectId : Project]
Lock == [leaseId : Lease, clientTokenId : Token, expiresAt : Nat]

ASSUME SentinelAssumption ==
    /\ NoLock \notin Lock
    /\ NoToken \notin Token
    /\ AnyProject \notin Project

(***************************************************************************)
(* completion is the token that completed the plan; "absent" is the id of  *)
(* a plan nobody has submitted yet, so that a store is a total function.   *)
(***************************************************************************)
Record ==
    [status           : PlanStatus \cup {"absent"},
     approvalRequired : BOOLEAN,
     approvalStatus   : ApprovalStatus,
     workLoop         : WorkLoop,
     lock             : Lock \cup {NoLock},
     completion       : Token \cup {NoToken},
     reviewEvidence   : SUBSET Evidence,
     createdAt        : Nat]

Exists(r) == r.status # "absent"

NoPlan ==
    [status           |-> "absent",
     approvalRequired |-> FALSE,
     approvalStatus   |-> "not_required",
     workLoop         |-> CHOOSE w \in WorkLoop : TRUE,
     lock             |-> NoLock,
     completion       |-> NoToken,
     reviewEvidence   |-> {},
     createdAt        |-> 0]

(***************************************************************************)
(* createPlan: every submission starts queued.  The route asks for review  *)
(* when the server forces it or the submitter wants it.                    *)
(***************************************************************************)
Submitted(loop, required, now) ==
    [NoPlan EXCEPT !.status = "queued",
                   !.approvalRequired = required,
                   !.approvalStatus = IF required THEN "pending" ELSE "not_required",
                   !.workLoop = loop,
                   !.createdAt = now]

(* Mutants of two decisions: the plan goes back to the queue. *)
RejectedAndUnlocked(r) ==
    [r EXCEPT !.approvalStatus = "rejected", !.status = "queued", !.lock = NoLock]

ReviewRequestedInQueue(r) ==
    [r EXCEPT !.approvalRequired = TRUE, !.approvalStatus = "pending", !.status = "queued"]

(* The three reviewer decisions.  None of them looks at the plan's status  *)
(* or touches its lock.                                                    *)
Approved(r) == [r EXCEPT !.approvalStatus = "approved"]

Rejected(r) == [r EXCEPT !.approvalStatus = "rejected"]

ReviewRequested(r) ==
    [r EXCEPT !.approvalRequired = TRUE, !.approvalStatus = "pending"]

HasExpired(lock, now) == lock.expiresAt <= now

(* Mutants of Claimable: the expiry of the lock is not looked at; only a    *)
(* rejection keeps a plan from being claimed.                               *)
ClaimableWhileLeased(r, project, now) ==
    /\ project \in {AnyProject, r.workLoop.projectId}
    /\ r.approvalStatus \in {"approved", "not_required"}
    /\ r.workLoop.status = "active"
    /\ r.status \in {"queued", "locked"}

ClaimableUnlessRejected(r, project, now) ==
    /\ project \in {AnyProject, r.workLoop.projectId}
    /\ r.approvalStatus # "rejected"
    /\ r.workLoop.status = "active"
    /\ r.status = "queued" \/ (r.lock # NoLock /\ HasExpired(r.lock, now))

(* The find() predicate of claimNextPlan. *)
Claimable(r, project, now) ==
    /\ project \in {AnyProject, r.workLoop.projectId}
    /\ r.approvalStatus \in {"approved", "not_required"}
    /\ r.workLoop.status = "active"
    /\ \/ r.status = "queued"
       \/ /\ r.status = "locked"
          /\ r.lock # NoLock
          /\ HasExpired(r.lock, now)

Locked(r, lease, token, now) ==
    [r EXCEPT !.status = "locked",
              !.lock = [leaseId |-> lease,
                        clientTokenId |-> token,
                        expiresAt |-> now + LeaseTimeout]]

(* Mutant of HoldsLease: the plan is leased, to whomever. *)
HoldsAnyLease(r, lease, token, now) ==
    r.status = "locked" /\ r.lock # NoLock /\ ~HasExpired(r.lock, now)

(* assertLease: what an executor must present to heartbeat, progress,      *)
(* release or complete.                                                    *)
HoldsLease(r, lease, token, now) ==
    /\ r.status = "locked"
    /\ r.lock # NoLock
    /\ r.lock.leaseId = lease
    /\ r.lock.clientTokenId = token
    /\ ~HasExpired(r.lock, now)

Extended(r, lease, token, now) ==
    [r EXCEPT !.lock = [leaseId |-> lease,
                        clientTokenId |-> token,
                        expiresAt |-> now + LeaseTimeout]]

Progressed(r, loop) == [r EXCEPT !.workLoop = loop, !.status = "locked"]

(* releaseStatus: the first branch that applies decides where a released   *)
(* plan goes; the later ones assume the earlier ones did not apply.        *)
ReleaseStatus(loop, reason) ==
    CASE reason = "review_needed" ->
           [required |-> TRUE, approval |-> "pending", status |-> "queued"]
      [] reason # "review_needed" /\ (loop.status = "canceled" \/ reason = "canceled") ->
           [required |-> FALSE, approval |-> "not_required", status |-> "canceled"]
      [] loop.status = "active" /\ reason \in {"ready", "max_slices"} ->
           [required |-> FALSE, approval |-> "not_required", status |-> "queued"]
      [] OTHER ->
           [required |-> TRUE, approval |-> "pending", status |-> "blocked"]

Released(r, loop, reason) ==
    LET next == ReleaseStatus(loop, reason) IN
    [r EXCEPT !.approvalRequired = next.required,
              !.approvalStatus = next.approval,
              !.status = next.status,
              !.workLoop = loop,
              !.lock = NoLock]

(* assertTerminalWorkLoop guards a completion. *)
IsTerminalWorkLoop(loop) == loop.status = "done"

(* Mutant of Completed: the archive names the lease, not the token. *)
CompletedByLease(r, loop, token) ==
    [r EXCEPT !.workLoop = loop,
              !.status = "completed",
              !.lock = NoLock,
              !.completion = r.lock.leaseId]

Completed(r, loop, token) ==
    [r EXCEPT !.workLoop = loop,
              !.status = "completed",
              !.lock = NoLock,
              !.completion = token]

(* assertCanAttachReviewEvidence and the duplicate check of                *)
(* normalizePlanReviewEvidence.                                            *)
CanAttachEvidence(r, e) ==
    /\ r.status = "completed"
    /\ r.completion # NoToken
    /\ e \notin r.reviewEvidence

WithEvidence(r, e) == [r EXCEPT !.reviewEvidence = @ \cup {e}]

=============================================================================
