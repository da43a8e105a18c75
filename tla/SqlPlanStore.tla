---------------------------- MODULE SqlPlanStore ----------------------------
(***************************************************************************)
(* SqlPlanStore: every operation is a transaction that locks the row of    *)
(* its plan, computes, writes the record and the audit event, and commits. *)
(* Others wait for the row, except the claim, which skips it.  A statement *)
(* may fail, or the server stop, anywhere before the commit.  The clock    *)
(* runs on between the moment a transaction reads it and its commit.       *)
(*                                                                         *)
(* The variables are those of PlanStore and, besides, the transactions;    *)
(* its properties are stated of this store through the instance Store, in  *)
(* which nothing is unlogged: the record and its event are one commit.     *)
(***************************************************************************)
EXTENDS PlanRequest

CONSTANTS
    Plan,           \* plan ids
    Call,           \* connections of the pool
    OpInput,        \* the operations clients call
    ForceApproval,  \* config.approval.forceRequired
    AnyPlan,        \* a claim without a planId filter
    NoGrant,        \* a lease id not yet drawn
    MaxTime         \* bound of the clock

VARIABLES
    now,      \* the clock the servers share
    plans,    \* the table durable_workloop_plans
    audit,    \* the kinds of event in durable_workloop_audit, for each plan
    verdict,  \* the last reviewer event there
    grants,   \* the leases of committed claims
    calls     \* the transaction of each connection

Store == INSTANCE PlanStore WITH unlogged <- [p \in Plan |-> {}], MaxFailures <- 0

ASSUME SqlAssumption ==
    /\ LoopInput # {}
    /\ ForceApproval \in BOOLEAN
    /\ MaxTime \in Nat
    /\ AnyPlan \notin Plan
    /\ NoGrant \notin Store!Grant

vars == <<now, plans, audit, verdict, grants, calls>>

Idle == [pc |-> "idle"]

Init == Store!Init /\ calls = [c \in Call |-> Idle]

IsIdle(c) == calls[c] = Idle

Goto(c, state) == calls' = [calls EXCEPT ![c] = state]

UnchangedTables == UNCHANGED <<plans, audit, verdict, grants>>

(* The row of p is locked, or inserted, by a transaction that is not over. *)
IsLocked(p) == \E c \in Call : calls[c].pc = "commit" /\ calls[c].plan = p

(* The transaction holds p until it commits r and event, or rolls back. *)
Hold(c, p, r, event, lease) ==
    /\ Goto(c, [pc |-> "commit", plan |-> p, next |-> r, event |-> event, lease |-> lease])
    /\ UnchangedTables
    /\ UNCHANGED now

(* The lease an operation speaks of; it is only looked at by the leased ones. *)
AnyLease == CHOOSE l \in Lease : TRUE

-----------------------------------------------------------------------------
CreatePlan(c, p, loop, asked) ==
    LET required == ForceApproval \/ asked IN
    /\ IsIdle(c)
    /\ ~Exists(plans[p]) /\ ~IsLocked(p)
    /\ Hold(c, p, Submitted(loop, required, now),
            IF required THEN "submit_for_approval" ELSE "submit", AnyLease)

(* A claim on its way has drawn the id l. *)
Draws(call, l) ==
    /\ call.pc = "claim" \/ (call.pc = "commit" /\ call.event = "claim")
    /\ call.lease = l

IsDrawn(l) == grants[l] # NoGrant \/ \E c \in Call : Draws(calls[c], l)

(* claimNextPlan reads the clock ... *)
ClaimNextPlan(c, t, l, plan, project) ==
    /\ IsIdle(c)
    /\ ~IsDrawn(l)
    /\ Goto(c, [pc |-> "claim", token |-> t, lease |-> l, plan |-> plan,
                project |-> project, at |-> now])
    /\ UnchangedTables
    /\ UNCHANGED now

(* ... and selects "order by created_at for update skip locked limit 1":   *)
(* the oldest candidate whose row nobody holds, possibly none.             *)
SelectSkipLocked(c) ==
    LET call == calls[c]
        found == {p \in Plan : /\ call.plan \in {AnyPlan, p}
                               /\ Claimable(plans[p], call.project, call.at)
                               /\ ~IsLocked(p)}
    IN
    /\ call.pc = "claim"
    /\ \/ found = {} /\ Goto(c, Idle) /\ UnchangedTables /\ UNCHANGED now
       \/ \E p \in found :
             /\ \A q \in found : plans[p].createdAt <= plans[q].createdAt
             /\ Hold(c, p, Locked(plans[p], call.lease, call.token, call.at),
                     "claim", call.lease)

-----------------------------------------------------------------------------
(* updatePlan gets the row once nobody else holds it.  A callback that     *)
(* throws rolls back, and nothing has happened.                            *)
UpdatePlan(c, p, q, lease) ==
    /\ IsIdle(c)
    /\ q.op \in OpInput
    /\ Exists(plans[p]) /\ ~IsLocked(p)
    /\ Accepts(plans[p], q, now)
    /\ Hold(c, p, Updated(plans[p], q, now), q.op, lease)

ApprovePlan(c, p) == UpdatePlan(c, p, [op |-> "approve"], AnyLease)

RejectPlan(c, p) == UpdatePlan(c, p, [op |-> "reject"], AnyLease)

RequestPlanReview(c, p) == UpdatePlan(c, p, [op |-> "request_review"], AnyLease)

ExtendLease(c, p, l, t) ==
    UpdatePlan(c, p, [op |-> "heartbeat", lease |-> l, token |-> t], l)

CompletePlan(c, p, l, t, loop) ==
    UpdatePlan(c, p, [op |-> "complete", lease |-> l, token |-> t, loop |-> loop], l)

AttachReviewEvidence(c, p, e) ==
    UpdatePlan(c, p, [op |-> "attach_review_evidence", evidence |-> e], AnyLease)

ProgressPlan(c, p, l, t, loop) ==
    UpdatePlan(c, p, [op |-> "progress", lease |-> l, token |-> t, loop |-> loop], l)

ReleasePlan(c, p, l, t, loop, reason) ==
    UpdatePlan(c, p, [op |-> "release", lease |-> l, token |-> t, loop |-> loop,
                      reason |-> reason], l)

-----------------------------------------------------------------------------
(* What the executors are told when the transaction is through. *)
Regranted(call) ==
    LET lock == call.next.lock IN
    CASE call.event = "claim" ->
           [grants EXCEPT ![call.lease] =
              [plan |-> call.plan, token |-> lock.clientTokenId,
               expiresAt |-> lock.expiresAt, open |-> TRUE]]
      [] call.event = "heartbeat" -> [grants EXCEPT ![call.lease].expiresAt = lock.expiresAt]
      [] call.event \in {"release", "complete"} -> [grants EXCEPT ![call.lease].open = FALSE]
      [] OTHER -> grants

(* Mutant of Commit: the two statements are not one transaction, and the   *)
(* second one fails.                                                       *)
CommitWithoutAudit(c) ==
    LET call == calls[c] IN
    /\ call.pc = "commit"
    /\ plans' = [plans EXCEPT ![call.plan] = call.next]
    /\ grants' = Regranted(call)
    /\ Goto(c, Idle)
    /\ UNCHANGED <<now, audit, verdict>>

(* The record and its audit event become visible together. *)
Commit(c) ==
    LET call == calls[c] IN
    /\ call.pc = "commit"
    /\ plans' = [plans EXCEPT ![call.plan] = call.next]
    /\ audit' = [audit EXCEPT ![call.plan] = Store!With(@, call.event)]
    /\ verdict' = [verdict EXCEPT ![call.plan] =
                     IF call.event \in Store!Verdict THEN call.event ELSE @]
    /\ grants' = Regranted(call)
    /\ Goto(c, Idle)
    /\ UNCHANGED now

(* A statement fails, or the connection breaks: the row is free again. *)
Rollback(c) ==
    /\ ~IsIdle(c)
    /\ Goto(c, Idle)
    /\ UnchangedTables
    /\ UNCHANGED now

Tick == Store!Tick /\ UNCHANGED calls

ReviewerCall(c, p) == ApprovePlan(c, p) \/ RejectPlan(c, p) \/ RequestPlanReview(c, p)

ExecutorCall(c, p, l, t) ==
    \/ ExtendLease(c, p, l, t)
    \/ \E loop \in LoopInput : ProgressPlan(c, p, l, t, loop)
    \/ \E loop \in LoopInput, reason \in ReasonInput : ReleasePlan(c, p, l, t, loop, reason)
    \/ \E loop \in LoopInput \cup {NoLoop} : CompletePlan(c, p, l, t, loop)

Step(c) == SelectSkipLocked(c) \/ Commit(c) \/ Rollback(c)

Next ==
    \/ \E c \in Call, p \in Plan :
          \/ \E loop \in LoopInput, asked \in BOOLEAN : CreatePlan(c, p, loop, asked)
          \/ ReviewerCall(c, p)
          \/ \E l \in Lease, t \in Token : ExecutorCall(c, p, l, t)
          \/ \E e \in Evidence : AttachReviewEvidence(c, p, e)
    \/ \E c \in Call, t \in Token, l \in Lease, plan \in Plan \cup {AnyPlan},
          project \in Project \cup {AnyProject} : ClaimNextPlan(c, t, l, plan, project)
    \/ \E c \in Call : Step(c)
    \/ Tick

Spec == Init /\ [][Next]_vars

-----------------------------------------------------------------------------
(* Properties *)

(***************************************************************************)
(* The store keeps the promise of PlanLeases: however old the clock a      *)
(* transaction read, a lease is granted or extended only while no other    *)
(* lease on the plan is live, and never beyond the timeout.                *)
(***************************************************************************)
Leases == INSTANCE PlanLeases

ImplementsLeases == Leases!Spec

(***************************************************************************)
(* Failures leave no gap between the record and the audit log, and late    *)
(* commits no record that breaks its types (PlanStore states both of the   *)
(* atomic store).                                                          *)
(***************************************************************************)
AuditExplainsRecord == Store!TypeOK /\ Store!AuditExplainsRecord

=============================================================================
