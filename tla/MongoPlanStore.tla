--------------------------- MODULE MongoPlanStore ---------------------------
(***************************************************************************)
(* MongoPlanStore: an operation on a plan reads the document, computes the *)
(* next record in the server, writes the whole record back by id and then  *)
(* inserts the audit event.  Only the claim is one conditional update.     *)
(* Requests of any number of clients, on any number of servers over one    *)
(* database, interleave between these statements, and each may fail.       *)
(*                                                                         *)
(* The driver stores a field that is undefined as null (the client is not  *)
(* told to ignore it), and PlanRecordSchema, whose fields are optional but *)
(* not nullable, refuses such a record whenever the store parses one.      *)
(* nulls is what a document holds as null.                                 *)
(*                                                                         *)
(* grants, written and overwritten are history: the leases the store has   *)
(* granted, the milestones whose write took place, and the plans where a   *)
(* write replaced a record other than the one it was computed from.        *)
(***************************************************************************)
EXTENDS PlanRequest

CONSTANTS
    Plan,           \* plan ids
    Call,           \* requests in progress at once; a slot is used again and again
    OpInput,        \* the operations clients call
    Milestone,      \* the events a run follows; the others leave no trace
    ForceApproval,  \* config.approval.forceRequired
    AnyPlan,        \* a claim without a planId filter
    NoGrant,        \* a lease id not yet drawn
    MaxTime         \* bound of the clock

Grant == [plan : Plan, token : Token, expiresAt : Nat, open : BOOLEAN]

(* A run that follows the claims follows the approvals they depend on.     *)
ASSUME MongoAssumption ==
    /\ LoopInput # {}
    /\ "claim" \in Milestone => "approve" \in Milestone
    /\ ForceApproval \in BOOLEAN
    /\ MaxTime \in Nat
    /\ AnyPlan \notin Plan
    /\ NoGrant \notin Grant

VARIABLES
    now,         \* the clock the servers share
    plans,       \* the collection of plans, null read as absent
    nulls,       \* the fields of each document that are null
    calls,       \* where each request stands
    grants,
    written,
    overwritten

vars == <<now, plans, nulls, calls, grants, written, overwritten>>

With(events, event) == events \cup ({event} \cap Milestone)

Idle == [pc |-> "idle"]

Init ==
    /\ now = 0
    /\ plans = [p \in Plan |-> NoPlan]
    /\ nulls = [p \in Plan |-> {}]
    /\ calls = [c \in Call |-> Idle]
    /\ grants = [l \in Lease |-> NoGrant]
    /\ written = [p \in Plan |-> {}]
    /\ overwritten = {}

IsIdle(c) == calls[c] = Idle

Goto(c, state) == calls' = [calls EXCEPT ![c] = state]

Nullable == {"lock", "submitterTokenId"}

(* PlanRecordSchema.parse does not throw. *)
IsReadable(p) == nulls[p] = {}

(* The statement that changes the document. *)
Put(p, r, n, event) ==
    /\ plans' = [plans EXCEPT ![p] = r]
    /\ nulls' = [nulls EXCEPT ![p] = n]
    /\ written' = [written EXCEPT ![p] = With(@, event)]
    /\ UNCHANGED now

(* Its audit event is still to come. *)
AuditNext(c) == Goto(c, [pc |-> "audit"])

-----------------------------------------------------------------------------
(* createPlan: insertOne.  A browser session has no token id to submit     *)
(* with.  The record answered is the one in memory.                        *)
CreatePlan(c, p, loop, asked, session) ==
    LET required == ForceApproval \/ asked IN
    /\ IsIdle(c)
    /\ ~Exists(plans[p])
    /\ Put(p, Submitted(loop, required, now),
           IF session THEN {"submitterTokenId"} ELSE {},
           IF required THEN "submit_for_approval" ELSE "submit")
    /\ AuditNext(c)
    /\ UNCHANGED <<grants, overwritten>>

(* claimNextPlan reads the clock and draws a lease id ...                  *)
ClaimNextPlan(c, t, l, plan, project) ==
    /\ IsIdle(c)
    /\ grants[l] = NoGrant
    /\ \A d \in Call : calls[d].pc = "claim" => calls[d].lease # l
    /\ Goto(c, [pc |-> "claim", token |-> t, lease |-> l, plan |-> plan,
                project |-> project, at |-> now])
    /\ UNCHANGED <<now, plans, nulls, grants, written, overwritten>>

Candidates(plan, project, at) ==
    {p \in Plan : plan \in {AnyPlan, p} /\ Claimable(plans[p], project, at)}

(* ... and findOneAndUpdate sets the lock of the oldest candidate.  The    *)
(* update names the fields it sets: whatever else the record holds stays,  *)
(* a null among it.  The answer is parsed after that: where it is refused  *)
(* the plan is locked, and nobody is told of the lease.                    *)
FindOneAndUpdate(c) ==
    LET call == calls[c]
        found == Candidates(call.plan, call.project, call.at)
    IN
    /\ call.pc = "claim"
    /\ \/ /\ found = {}
          /\ Goto(c, Idle)
          /\ UNCHANGED <<now, plans, nulls, grants, written>>
       \/ \E p \in found :
             LET n == nulls[p] \ {"lock"} IN
             /\ \A q \in found : plans[p].createdAt <= plans[q].createdAt
             /\ Put(p, Locked(plans[p], call.lease, call.token, call.at), n, "claim")
             /\ IF n = {} THEN AuditNext(c) ELSE Goto(c, Idle)
             /\ grants' = [grants EXCEPT ![call.lease] =
                             [plan |-> p, token |-> call.token,
                              expiresAt |-> call.at + LeaseTimeout, open |-> n = {}]]
    /\ UNCHANGED overwritten

-----------------------------------------------------------------------------
(* updatePlan: getPlan, then the callback as soon as the document is here.  *)
(* A callback that throws ends the request, and nothing has happened; so   *)
(* does a document getPlan cannot parse.                                   *)
UpdatePlan(c, p, q) ==
    /\ IsIdle(c)
    /\ Exists(plans[p])
    /\ IsReadable(p)
    /\ q.op \in OpInput
    /\ Accepts(plans[p], q, now)
    /\ Goto(c, [pc |-> "write", plan |-> p, op |-> q.op, seen |-> plans[p],
                next |-> Updated(plans[p], q, now)])
    /\ UNCHANGED <<now, plans, nulls, grants, written, overwritten>>

ApprovePlan(c, p) == UpdatePlan(c, p, [op |-> "approve"])

RejectPlan(c, p) == UpdatePlan(c, p, [op |-> "reject"])

RequestPlanReview(c, p) == UpdatePlan(c, p, [op |-> "request_review"])

ExtendLease(c, p, l, t) ==
    UpdatePlan(c, p, [op |-> "heartbeat", lease |-> l, token |-> t])

ProgressPlan(c, p, l, t, loop) ==
    UpdatePlan(c, p, [op |-> "progress", lease |-> l, token |-> t, loop |-> loop])

ReleasePlan(c, p, l, t, loop, reason) ==
    UpdatePlan(c, p, [op |-> "release", lease |-> l, token |-> t, loop |-> loop,
                      reason |-> reason])

CompletePlan(c, p, l, t, loop) ==
    UpdatePlan(c, p, [op |-> "complete", lease |-> l, token |-> t, loop |-> loop])

(* What an executor knows of its lease once the write is through. *)
Regranted(call) ==
    CASE call.op = "heartbeat" ->
           [grants EXCEPT ![call.seen.lock.leaseId].expiresAt = call.next.lock.expiresAt]
      [] call.op \in {"release", "complete"} ->
           [grants EXCEPT ![call.seen.lock.leaseId].open = FALSE]
      [] OTHER -> grants

(* ... and findOneAndUpdate.  The filter is the id alone: the write lands  *)
(* whatever the document is by now.  A release and a completion hand the   *)
(* driver an undefined lock.  attachPlanReviewEvidence has no action: it   *)
(* asks for a completed plan, and the null no longer lets one be read.     *)
Write(c) ==
    LET call == calls[c]
        p == call.plan
    IN
    /\ call.pc = "write"
    /\ Put(p, call.next, IF call.op \in {"release", "complete"} THEN {"lock"} ELSE {}, call.op)
    /\ AuditNext(c)
    /\ grants' = Regranted(call)
    /\ overwritten' = overwritten \cup
                        (IF plans[p] = call.seen /\ IsReadable(p) THEN {} ELSE {p})

(* insertOne of the audit event.  The collection itself is left out: no    *)
(* operation reads it.  What updatePlan answers is parsed after this: the  *)
(* caller of a release or a completion gets an error for what took place.  *)
AppendAudit(c) ==
    /\ calls[c].pc = "audit"
    /\ Goto(c, Idle)
    /\ UNCHANGED <<now, plans, nulls, grants, written, overwritten>>

(* A statement fails or the server stops: the request ends where it is. *)
Fail(c) ==
    /\ ~IsIdle(c)
    /\ Goto(c, Idle)
    /\ UNCHANGED <<now, plans, nulls, grants, written, overwritten>>

Tick ==
    /\ now < MaxTime
    /\ now' = now + 1
    /\ UNCHANGED <<plans, nulls, calls, grants, written, overwritten>>

ReviewerCall(c, p) == ApprovePlan(c, p) \/ RejectPlan(c, p) \/ RequestPlanReview(c, p)

ExecutorCall(c, p, l, t) ==
    \/ ExtendLease(c, p, l, t)
    \/ \E loop \in LoopInput : ProgressPlan(c, p, l, t, loop)
    \/ \E loop \in LoopInput, reason \in ReasonInput : ReleasePlan(c, p, l, t, loop, reason)
    \/ \E loop \in LoopInput \cup {NoLoop} : CompletePlan(c, p, l, t, loop)

Step(c) == FindOneAndUpdate(c) \/ Write(c) \/ AppendAudit(c) \/ Fail(c)

Next ==
    \/ \E c \in Call, p \in Plan :
          \/ \E loop \in LoopInput, asked, session \in BOOLEAN :
                CreatePlan(c, p, loop, asked, session)
          \/ ReviewerCall(c, p)
          \/ \E l \in Lease, t \in Token : ExecutorCall(c, p, l, t)
    \/ \E c \in Call, t \in Token, l \in Lease, plan \in Plan \cup {AnyPlan},
          project \in Project \cup {AnyProject} : ClaimNextPlan(c, t, l, plan, project)
    \/ \E c \in Call : Step(c)
    \/ Tick

Spec == Init /\ [][Next]_vars

-----------------------------------------------------------------------------
(* Properties *)

(***************************************************************************)
(* The human gate survives every lost update: a plan submitted for review  *)
(* is leased only after an approval of it was written, whatever is written *)
(* over whatever.  An approval may be lost, never invented.                *)
(***************************************************************************)
ApprovedBeforeClaim ==
    \A p \in Plan :
        "submit_for_approval" \in written[p] /\ "claim" \in written[p]
            => "approve" \in written[p]

IsLive(l) ==
    /\ grants[l] # NoGrant
    /\ grants[l].open
    /\ ~HasExpired(grants[l], now)

(***************************************************************************)
(* Where no update was lost the store honours its leases: a live lease is  *)
(* the plan's lock, so it is the only one, its plan can be read, and it is *)
(* accepted.                                                               *)
(***************************************************************************)
LiveLeaseIsHonoured ==
    \A l \in Lease :
        IsLive(l) /\ grants[l].plan \notin overwritten
            => /\ IsReadable(grants[l].plan)
               /\ HoldsLease(plans[grants[l].plan], l, grants[l].token, now)

-----------------------------------------------------------------------------
(* What the documentation says and the code does not do *)

(***************************************************************************)
(* "lets client tokens atomically claim approved and unlocked plans,       *)
(* expires leases after a configurable timeout": two live leases on one    *)
(* plan are one.                                                           *)
(***************************************************************************)
ExclusiveLease ==
    \A l1, l2 \in Lease :
        IsLive(l1) /\ IsLive(l2) /\ grants[l1].plan = grants[l2].plan => l1 = l2

=============================================================================
