------------------------ MODULE MongoPlanStoreProofs ------------------------
(***************************************************************************)
(* MongoPlanStore for any plans, tokens, leases, requests and timeout.     *)
(* A request between its read and its write holds a record that another    *)
(* request may have made stale.  PendingWritesFit says what such a record  *)
(* still is: whole, computed from the record it was read from, under a     *)
(* lease that was granted on this plan, and no approval nobody gave.       *)
(***************************************************************************)
EXTENDS MongoPlanStore, TLAPS

-----------------------------------------------------------------------------
(* The invariant *)

(* Submitted for approval, with no approval written so far.                *)
IsUnapproved(events) ==
    /\ "approve" \in Milestone
    /\ "submit_for_approval" \in events
    /\ "approve" \notin events

(* The lock, if any, is a lease that was granted on p to the lock's token. *)
IsTold(p, lock, given) ==
    lock # NoLock =>
        /\ given[lock.leaseId] # NoGrant
        /\ given[lock.leaseId].plan = p
        /\ given[lock.leaseId].token = lock.clientTokenId

(* A plan nobody has approved waits or is rejected, and is not leased.     *)
WaitsUnleased(r) ==
    /\ r.approvalStatus \in {"pending", "rejected"}
    /\ r.lock = NoLock

IsLeasedAs(r, l) == r.status = "locked" /\ r.lock # NoLock /\ r.lock.leaseId = l

(* What the callback of op made of the lock and the end of the record seen. *)
Follows(r, s, op) ==
    /\ op = "heartbeat" =>
         /\ IsLeasedAs(r, s.lock.leaseId)
         /\ IsLeasedAs(s, s.lock.leaseId)
         /\ s.lock.clientTokenId = r.lock.clientTokenId
    /\ op \in {"release", "complete"} => IsLeasedAs(r, r.lock.leaseId) /\ s.lock = NoLock
    /\ op \notin {"heartbeat", "release", "complete"} =>
         /\ s.lock = r.lock
         /\ r.status = "locked" => s.status = "locked"
    /\ s.status = "completed" => op = "complete"

(* Locked with a lock, completed by somebody, evidence only then.          *)
IsWellShaped(r) ==
    /\ r.status = "locked" <=> r.lock # NoLock
    /\ r.status = "completed" <=> r.completion # NoToken
    /\ r.reviewEvidence # {} => r.status = "completed"

IsWhole(r) == r \in Record /\ IsWellShaped(r) /\ Exists(r)

WriteOp == {"approve", "reject", "request_review", "heartbeat", "progress",
            "release", "complete"}

(* The write a request on p is about to make.                              *)
Fits(p, seen, next, op, given, events) ==
    /\ op \in WriteOp
    /\ IsWhole(seen) /\ IsWhole(next)
    /\ IsTold(p, seen.lock, given) /\ IsTold(p, next.lock, given)
    /\ Follows(seen, next, op)
    /\ IsUnapproved(events) =>
         /\ seen.lock = NoLock /\ next.lock = NoLock
         /\ op # "approve" => WaitsUnleased(next)

(* A request is well typed, and a claim's clock is not ahead.              *)
IsCall(call, n) ==
    /\ call.pc \in {"idle", "claim", "write", "audit"}
    /\ call.pc = "idle" => call = Idle
    /\ call.pc = "claim" => call.lease \in Lease /\ call.token \in Token /\ call.at \in 0..n
    /\ call.pc = "write" => call.plan \in Plan

CallsTyped ==
    /\ calls = [c \in Call |-> calls[c]]
    /\ \A c \in Call : IsCall(calls[c], now)

TablesTyped ==
    /\ now \in Nat
    /\ nulls \in [Plan -> SUBSET Nullable]
    /\ written \in [Plan -> SUBSET Milestone]

RecordsTyped ==
    /\ plans \in [Plan -> Record]
    /\ grants \in [Lease -> Grant \cup {NoGrant}]
    /\ \A p \in Plan : IsWellShaped(plans[p])

(* Whoever completes a plan stores an undefined lock, and no claim takes   *)
(* the plan after that.                                                    *)
CompletedHoldsNull ==
    \A p \in Plan : plans[p].status = "completed" => "lock" \in nulls[p]

(* No two claims draw one lease id, and none draws a lease already granted. *)
ClaimsAreFresh ==
    \A c \in Call :
        calls[c].pc = "claim"
            => /\ grants[calls[c].lease] = NoGrant
               /\ \A d \in Call :
                    calls[d].pc = "claim" /\ calls[d].lease = calls[c].lease => c = d

LocksAreTold == \A p \in Plan : IsTold(p, plans[p].lock, grants)

(* Nothing was written, lost or read of a plan nobody has submitted.       *)
AbsentIsUntouched ==
    \A p \in Plan :
        ~Exists(plans[p]) =>
            /\ written[p] = {}
            /\ \A c \in Call : calls[c].pc = "write" => calls[c].plan # p

GateIsShut == \A p \in Plan : IsUnapproved(written[p]) => WaitsUnleased(plans[p])

NoClaimUnapproved ==
    \A p \in Plan : IsUnapproved(written[p]) => "claim" \notin written[p]

(* Where no update was lost, what an executor was told is what the lock says. *)
Honours(r, l, g) ==
    /\ IsLeasedAs(r, l)
    /\ r.lock.clientTokenId = g.token
    /\ r.lock.expiresAt = g.expiresAt

GrantsAreHonoured ==
    \A l \in Lease :
        IsLive(l) /\ grants[l].plan \notin overwritten
            => /\ IsReadable(grants[l].plan)
               /\ Honours(plans[grants[l].plan], l, grants[l])

PendingWritesFit ==
    \A c \in Call :
        calls[c].pc = "write" =>
            Fits(calls[c].plan, calls[c].seen, calls[c].next, calls[c].op,
                 grants, written[calls[c].plan])

MongoInv ==
    /\ TablesTyped
    /\ CallsTyped
    /\ RecordsTyped
    /\ ClaimsAreFresh
    /\ LocksAreTold
    /\ AbsentIsUntouched
    /\ GateIsShut
    /\ NoClaimUnapproved
    /\ PendingWritesFit
    /\ GrantsAreHonoured
    /\ CompletedHoldsNull

-----------------------------------------------------------------------------
(* What a callback computes fits the document it was given *)

(* A document as an operation may find it.                                 *)
CanBeRead(p, r, given, events) ==
    /\ IsWhole(r)
    /\ r.status # "completed"
    /\ IsTold(p, r.lock, given)
    /\ IsUnapproved(events) => WaitsUnleased(r)

(* An id nobody has used holds a whole, empty record.                      *)
LEMMA NoPlanFacts ==
  /\ NoPlan \in Record
  /\ NoPlan.status = "absent"
  /\ NoPlan.lock = NoLock
  /\ NoPlan.completion = NoToken
  /\ NoPlan.reviewEvidence = {}
<1>1. (CHOOSE w \in WorkLoop : TRUE) \in WorkLoop
  BY MongoAssumption, RequestAssumption
<1> QED
  BY <1>1 DEF NoPlan, Record, ApprovalStatus

(* approvePlan, rejectPlan, requestPlanReview: only the approval changes.  *)
LEMMA ReviewFits ==
  ASSUME NEW p, NEW r, NEW s, NEW op, NEW given, NEW events, CanBeRead(p, r, given, events),
         \/ op = "approve" /\ s = Approved(r)
         \/ op = "reject" /\ s = Rejected(r)
         \/ op = "request_review" /\ s = ReviewRequested(r)
  PROVE  Fits(p, r, s, op, given, events)
<1>1. r \in Record /\ IsWellShaped(r) /\ Exists(r) /\ r.status # "completed"
  BY DEF CanBeRead, IsWhole
<1>2. /\ s \in Record
      /\ s.status = r.status
      /\ s.lock = r.lock
      /\ s.completion = r.completion
      /\ s.reviewEvidence = r.reviewEvidence
      /\ op = "reject" => s.approvalStatus = "rejected"
      /\ op = "request_review" => s.approvalStatus = "pending"
      /\ op \in {"approve", "reject", "request_review"}
  BY <1>1 DEF Approved, Rejected, ReviewRequested, Record, ApprovalStatus
<1>3. IsWhole(s)
  BY <1>1, <1>2 DEF IsWhole, IsWellShaped, Exists
<1>4. Follows(r, s, op)
  BY <1>1, <1>2 DEF Follows
<1> QED
  BY <1>1, <1>2, <1>3, <1>4 DEF Fits, CanBeRead, IsWhole, IsTold, WaitsUnleased, WriteOp

(* Whoever passes assertLease has the lock of a plan whose gate is open.   *)
LEMMA HolderFacts ==
  ASSUME NEW p, NEW r, NEW given, NEW events, CanBeRead(p, r, given, events),
         NEW l, NEW t, NEW n, HoldsLease(r, l, t, n)
  PROVE  /\ r \in Record /\ IsWhole(r)
         /\ IsLeasedAs(r, l)
         /\ r.lock.leaseId = l
         /\ r.lock.clientTokenId = t
         /\ r.completion = NoToken
         /\ r.reviewEvidence = {}
         /\ IsTold(p, r.lock, given)
         /\ ~ IsUnapproved(events)
BY DEF CanBeRead, IsWhole, HoldsLease, IsLeasedAs, IsWellShaped, WaitsUnleased

(* extendLease: the same lease, with an expiry from the clock just read.   *)
LEMMA HeartbeatFits ==
  ASSUME NEW p, NEW r, NEW given, NEW events, CanBeRead(p, r, given, events),
         NEW l \in Lease, NEW t \in Token, NEW n \in Nat, HoldsLease(r, l, t, n)
  PROVE  Fits(p, r, Extended(r, l, t, n), "heartbeat", given, events)
<1> DEFINE lock == [leaseId |-> l, clientTokenId |-> t, expiresAt |-> n + LeaseTimeout]
           s == Extended(r, l, t, n)
<1>1. /\ r \in Record /\ IsWhole(r)
      /\ IsLeasedAs(r, l) /\ r.lock.leaseId = l /\ r.lock.clientTokenId = t
      /\ r.completion = NoToken /\ r.reviewEvidence = {}
      /\ IsTold(p, r.lock, given) /\ ~ IsUnapproved(events)
  BY HolderFacts
<1>2. lock \in Lock /\ lock # NoLock /\ lock.leaseId = l /\ lock.clientTokenId = t
  BY TimeoutAssumption, SentinelAssumption DEF Lock
<1> HIDE DEF lock
<1>3. /\ s \in Record /\ s.lock = lock /\ s.status = r.status
      /\ s.completion = r.completion /\ s.reviewEvidence = r.reviewEvidence
  BY <1>1, <1>2 DEF Extended, Record, lock
<1> HIDE DEF s
<1>4. IsWhole(s)
  BY <1>1, <1>2, <1>3 DEF IsWhole, IsWellShaped, Exists, IsLeasedAs
<1>5. IsTold(p, s.lock, given)
  BY <1>1, <1>2, <1>3 DEF IsTold, IsLeasedAs
<1>6. Follows(r, s, "heartbeat")
  BY <1>1, <1>2, <1>3 DEF Follows, IsLeasedAs
<1> QED
  BY <1>1, <1>4, <1>5, <1>6 DEF Fits, WriteOp, s

(* progressPlan: the lock stays, whatever work loop is reported.           *)
LEMMA ProgressFits ==
  ASSUME NEW p, NEW r, NEW given, NEW events, CanBeRead(p, r, given, events),
         NEW l, NEW t, NEW n, HoldsLease(r, l, t, n), NEW loop \in WorkLoop
  PROVE  Fits(p, r, Progressed(r, loop), "progress", given, events)
<1> DEFINE s == Progressed(r, loop)
<1>1. /\ r \in Record /\ IsWhole(r)
      /\ IsLeasedAs(r, l) /\ r.lock.leaseId = l /\ r.lock.clientTokenId = t
      /\ r.completion = NoToken /\ r.reviewEvidence = {}
      /\ IsTold(p, r.lock, given) /\ ~ IsUnapproved(events)
  BY HolderFacts
<1>2. /\ s \in Record /\ s.lock = r.lock /\ s.status = "locked"
      /\ s.completion = r.completion /\ s.reviewEvidence = r.reviewEvidence
  BY <1>1 DEF Progressed, Record, PlanStatus
<1> HIDE DEF s
<1>3. IsWhole(s)
  BY <1>1, <1>2 DEF IsWhole, IsWellShaped, Exists, IsLeasedAs
<1>4. Follows(r, s, "progress")
  BY <1>1, <1>2 DEF Follows, IsLeasedAs
<1> QED
  BY <1>1, <1>2, <1>3, <1>4 DEF Fits, WriteOp, s

(* releasePlan: no lock is left, wherever releaseStatus sends the plan.    *)
LEMMA ReleaseFits ==
  ASSUME NEW p, NEW r, NEW given, NEW events, CanBeRead(p, r, given, events),
         NEW l, NEW t, NEW n, HoldsLease(r, l, t, n),
         NEW loop \in WorkLoop, NEW reason \in ReleaseReason
  PROVE  Fits(p, r, Released(r, loop, reason), "release", given, events)
<1> DEFINE s == Released(r, loop, reason)
<1>1. /\ r \in Record /\ IsWhole(r)
      /\ IsLeasedAs(r, l) /\ r.lock.leaseId = l /\ r.lock.clientTokenId = t
      /\ r.completion = NoToken /\ r.reviewEvidence = {}
      /\ IsTold(p, r.lock, given) /\ ~ IsUnapproved(events)
  BY HolderFacts
<1>2. /\ ReleaseStatus(loop, reason).required \in BOOLEAN
      /\ ReleaseStatus(loop, reason).approval \in {"pending", "not_required"}
      /\ ReleaseStatus(loop, reason).status \in {"queued", "blocked", "canceled"}
  BY DEF ReleaseStatus
<1>3. /\ s \in Record /\ s.lock = NoLock /\ s.status \in {"queued", "blocked", "canceled"}
      /\ s.completion = r.completion /\ s.reviewEvidence = r.reviewEvidence
  BY <1>1, <1>2 DEF Released, Record, PlanStatus, ApprovalStatus
<1> HIDE DEF s
<1>4. IsWhole(s)
  BY <1>1, <1>3 DEF IsWhole, IsWellShaped, Exists
<1>5. Follows(r, s, "release")
  BY <1>1, <1>3 DEF Follows, IsLeasedAs
<1> QED
  BY <1>1, <1>3, <1>4, <1>5 DEF Fits, WriteOp, IsTold, s

(* completePlan: no lock is left, and the token that completed it is.      *)
LEMMA CompleteFits ==
  ASSUME NEW p, NEW r, NEW given, NEW events, CanBeRead(p, r, given, events),
         NEW l, NEW t \in Token, NEW n, HoldsLease(r, l, t, n), NEW loop \in WorkLoop
  PROVE  Fits(p, r, Completed(r, loop, t), "complete", given, events)
<1> DEFINE s == Completed(r, loop, t)
<1>1. /\ r \in Record /\ IsWhole(r)
      /\ IsLeasedAs(r, l) /\ r.lock.leaseId = l /\ r.lock.clientTokenId = t
      /\ r.completion = NoToken /\ r.reviewEvidence = {}
      /\ IsTold(p, r.lock, given) /\ ~ IsUnapproved(events)
  BY HolderFacts
<1>2. /\ s \in Record /\ s.lock = NoLock /\ s.status = "completed"
      /\ s.completion # NoToken /\ s.reviewEvidence = r.reviewEvidence
  BY <1>1, SentinelAssumption DEF Completed, Record, PlanStatus
<1> HIDE DEF s
<1>3. IsWhole(s)
  BY <1>1, <1>2 DEF IsWhole, IsWellShaped, Exists
<1>4. Follows(r, s, "complete")
  BY <1>1, <1>2 DEF Follows, IsLeasedAs
<1> QED
  BY <1>1, <1>2, <1>3, <1>4 DEF Fits, WriteOp, IsTold, s

-----------------------------------------------------------------------------
(* What is left as it was *)

(* Leases are granted once and keep their plan and token for ever.         *)
GrantsGrow(old, new) ==
    \A l \in Lease :
        old[l] # NoGrant =>
            /\ new[l] # NoGrant
            /\ new[l].plan = old[l].plan
            /\ new[l].token = old[l].token

(* Once told, always told.                                                 *)
LEMMA ToldStays ==
  ASSUME NEW p, NEW r \in Record, NEW old, NEW new, GrantsGrow(old, new), IsTold(p, r.lock, old)
  PROVE  IsTold(p, r.lock, new)
<1>1. r.lock # NoLock => r.lock.leaseId \in Lease
  BY DEF Record, Lock
<1> QED
  BY <1>1 DEF GrantsGrow, IsTold

(* What others write takes nothing from a write that is under way: no      *)
(* lease is taken back, and no approval.                                   *)
LEMMA FitsStays ==
  ASSUME NEW p, NEW r, NEW s, NEW op, NEW old, NEW new, NEW events, NEW more,
         Fits(p, r, s, op, old, events), GrantsGrow(old, new),
         IsUnapproved(more) => IsUnapproved(events)
  PROVE  Fits(p, r, s, op, new, more)
<1>1. r \in Record /\ s \in Record
  BY DEF Fits, IsWhole
<1>2. IsTold(p, r.lock, new) /\ IsTold(p, s.lock, new)
  BY <1>1, ToldStays DEF Fits
<1> QED
  BY <1>2 DEF Fits

(* A request ends, draws a lease or reads: the collection stays as it is.  *)
LEMMA CallStep ==
  ASSUME MongoInv, NEW c \in Call, NEW state, Goto(c, state),
         UNCHANGED <<now, plans, nulls, grants, written, overwritten>>,
         IsCall(state, now),
         state.pc = "claim"
           => /\ grants[state.lease] = NoGrant
              /\ \A d \in Call : calls[d].pc = "claim" => calls[d].lease # state.lease,
         state.pc = "write"
           => /\ Exists(plans[state.plan])
              /\ Fits(state.plan, state.seen, state.next, state.op, grants, written[state.plan])
  PROVE  MongoInv'
<1>1. /\ calls' = [d \in Call |-> calls'[d]]
      /\ calls'[c] = state
      /\ \A d \in Call : d # c => calls'[d] = calls[d]
  BY DEF MongoInv, CallsTyped, Goto
<1>2. /\ now' = now /\ plans' = plans /\ nulls' = nulls /\ grants' = grants
      /\ written' = written /\ overwritten' = overwritten
  OBVIOUS
<1>3. CallsTyped'
  BY <1>1, <1>2 DEF MongoInv, CallsTyped
<1>4. ClaimsAreFresh'
  BY <1>1, <1>2 DEF MongoInv, ClaimsAreFresh
<1>5. AbsentIsUntouched'
  BY <1>1, <1>2 DEF MongoInv, AbsentIsUntouched
<1>6. PendingWritesFit'
  BY <1>1, <1>2 DEF MongoInv, PendingWritesFit
<1>7. /\ TablesTyped' /\ RecordsTyped' /\ LocksAreTold' /\ GateIsShut'
      /\ NoClaimUnapproved' /\ GrantsAreHonoured' /\ CompletedHoldsNull'
  BY <1>2 DEF MongoInv, TablesTyped, RecordsTyped, LocksAreTold, GateIsShut,
              NoClaimUnapproved, GrantsAreHonoured, CompletedHoldsNull, IsLive, IsReadable
<1> QED
  BY <1>3, <1>4, <1>5, <1>6, <1>7 DEF MongoInv

-----------------------------------------------------------------------------
(* What a statement on the collection does *)

(* One document and one milestone change.                                  *)
LEMMA PutEffect ==
  ASSUME MongoInv, NEW p \in Plan, NEW r \in Record, NEW n, n \subseteq Nullable, NEW event,
         Put(p, r, n, event)
  PROVE  /\ now' = now
         /\ nulls' \in [Plan -> SUBSET Nullable]
         /\ nulls'[p] = n
         /\ \A q \in Plan : q # p => nulls'[q] = nulls[q]
         /\ plans' \in [Plan -> Record]
         /\ plans'[p] = r
         /\ \A q \in Plan : q # p => plans'[q] = plans[q]
         /\ written' \in [Plan -> SUBSET Milestone]
         /\ written'[p] = With(written[p], event)
         /\ \A q \in Plan : q # p => written'[q] = written[q]
<1>1. plans \in [Plan -> Record] /\ written \in [Plan -> SUBSET Milestone]
  BY DEF MongoInv, RecordsTyped, TablesTyped
<1>2. With(written[p], event) \in SUBSET Milestone
  BY <1>1 DEF With
<1>3. plans' = [plans EXCEPT ![p] = r] /\ now' = now
  BY DEF Put
<1>4. written' = [written EXCEPT ![p] = With(written[p], event)]
  BY DEF Put
<1>5. nulls' = [nulls EXCEPT ![p] = n] /\ nulls \in [Plan -> SUBSET Nullable]
  BY DEF Put, MongoInv, TablesTyped
<1> QED
  BY <1>1, <1>2, <1>3, <1>4, <1>5

(* A whole document, under a lease its holder was told of, that keeps the  *)
(* gate shut: the requests under way are none the worse for it.            *)
LEMMA StoreStep ==
  ASSUME MongoInv, NEW c \in Call, NEW p \in Plan, NEW r, NEW event, NEW state,
         NEW n, n \subseteq Nullable, Put(p, r, n, event), Goto(c, state),
         state.pc \in {"idle", "audit"}, IsCall(state, now),
         IsWhole(r),
         r.status = "completed" => "lock" \in n,
         IsTold(p, r.lock, grants'),
         grants' \in [Lease -> Grant \cup {NoGrant}],
         GrantsGrow(grants, grants'),
         \A d \in Call : d # c /\ calls[d].pc = "claim" => grants'[calls[d].lease] = NoGrant,
         IsUnapproved(With(written[p], event)) => IsUnapproved(written[p]) \/ ~ Exists(plans[p]),
         IsUnapproved(With(written[p], event))
           => WaitsUnleased(r) /\ "claim" \notin With(written[p], event),
         GrantsAreHonoured'
  PROVE  MongoInv'
<1>1. r \in Record /\ IsWellShaped(r) /\ Exists(r)
  BY DEF IsWhole
<1>2. /\ now' = now
      /\ nulls' \in [Plan -> SUBSET Nullable]
      /\ nulls'[p] = n
      /\ \A q \in Plan : q # p => nulls'[q] = nulls[q]
      /\ plans' \in [Plan -> Record]
      /\ plans'[p] = r
      /\ \A q \in Plan : q # p => plans'[q] = plans[q]
      /\ written' \in [Plan -> SUBSET Milestone]
      /\ written'[p] = With(written[p], event)
      /\ \A q \in Plan : q # p => written'[q] = written[q]
  BY <1>1, PutEffect
<1>12. /\ calls' = [d \in Call |-> calls'[d]]
       /\ calls'[c] = state
       /\ \A d \in Call : d # c => calls'[d] = calls[d]
  BY DEF MongoInv, CallsTyped, Goto
<1>3. TablesTyped'
  BY <1>2 DEF MongoInv, TablesTyped
<1>4. CallsTyped'
  BY <1>2, <1>12 DEF MongoInv, CallsTyped
<1>5. RecordsTyped'
  BY <1>1, <1>2 DEF MongoInv, RecordsTyped
<1>6. ClaimsAreFresh'
  BY <1>2, <1>12 DEF MongoInv, ClaimsAreFresh
<1>7. LocksAreTold'
  <2> SUFFICES ASSUME NEW q \in Plan PROVE IsTold(q, plans'[q].lock, grants')
    BY DEF LocksAreTold
  <2>1. CASE q = p
    BY <1>2, <2>1
  <2>2. CASE q # p
    <3>1. plans[q] \in Record /\ IsTold(q, plans[q].lock, grants)
      BY DEF MongoInv, RecordsTyped, LocksAreTold
    <3>2. IsTold(q, plans[q].lock, grants')
      BY <3>1, ToldStays
    <3> QED
      BY <1>2, <2>2, <3>2
  <2> QED
    BY <2>1, <2>2
<1>8. AbsentIsUntouched'
  BY <1>1, <1>2, <1>12 DEF MongoInv, AbsentIsUntouched
<1>9. GateIsShut' /\ NoClaimUnapproved'
  BY <1>2 DEF MongoInv, GateIsShut, NoClaimUnapproved
<1>10. PendingWritesFit'
  <2> SUFFICES ASSUME NEW d \in Call, calls'[d].pc = "write"
               PROVE  Fits(calls'[d].plan, calls'[d].seen, calls'[d].next, calls'[d].op,
                           grants', written'[calls'[d].plan])
    BY DEF PendingWritesFit
  <2>1. d # c /\ calls'[d] = calls[d]
    BY <1>12
  <2>2. /\ calls[d].plan \in Plan
        /\ Exists(plans[calls[d].plan])
        /\ Fits(calls[d].plan, calls[d].seen, calls[d].next, calls[d].op,
                grants, written[calls[d].plan])
    BY <2>1 DEF MongoInv, CallsTyped, IsCall, AbsentIsUntouched, PendingWritesFit
  <2>3. IsUnapproved(written'[calls[d].plan]) => IsUnapproved(written[calls[d].plan])
    BY <1>2, <2>2
  <2>4. Fits(calls[d].plan, calls[d].seen, calls[d].next, calls[d].op,
             grants', written'[calls[d].plan])
    BY <2>2, <2>3, FitsStays
  <2> QED
    BY <2>1, <2>4
<1>11. CompletedHoldsNull'
  BY <1>2 DEF MongoInv, CompletedHoldsNull
<1> QED
  BY <1>3, <1>4, <1>5, <1>6, <1>7, <1>8, <1>9, <1>10, <1>11 DEF MongoInv

-----------------------------------------------------------------------------
(* The statements *)

(* createPlan: nothing is under way on an id nobody has used.              *)
LEMMA CreateStep ==
  ASSUME MongoInv, NEW c \in Call, NEW p \in Plan, NEW loop \in LoopInput, NEW asked \in BOOLEAN,
         NEW session \in BOOLEAN, CreatePlan(c, p, loop, asked, session)
  PROVE  MongoInv'
<1> DEFINE required == ForceApproval \/ asked
           r == Submitted(loop, required, now)
           event == IF required THEN "submit_for_approval" ELSE "submit"
           n == IF session THEN {"submitterTokenId"} ELSE {}
           state == [pc |-> "audit"]
<1>1. /\ ~ Exists(plans[p]) /\ Put(p, r, n, event) /\ Goto(c, state)
      /\ grants' = grants /\ overwritten' = overwritten
  BY DEF CreatePlan, AuditNext
<1>12. n \subseteq Nullable /\ state.pc = "audit"
  BY DEF Nullable
<1>2. required \in BOOLEAN /\ loop \in WorkLoop /\ now \in Nat
  BY MongoAssumption, RequestAssumption DEF MongoInv, TablesTyped
<1>3. event \in {"submit_for_approval", "submit"} /\ (event = "submit_for_approval" => required)
  OBVIOUS
<1> HIDE DEF required, event, n, state
<1>4. /\ r \in Record /\ r.status = "queued" /\ r.lock = NoLock
      /\ r.completion = NoToken /\ r.reviewEvidence = {}
      /\ required => r.approvalStatus = "pending"
  BY <1>2, NoPlanFacts DEF Submitted, Record, PlanStatus, ApprovalStatus
<1> HIDE DEF r
<1>5. IsWhole(r) /\ IsTold(p, r.lock, grants')
  BY <1>4 DEF IsWhole, IsWellShaped, Exists, IsTold
<1>6. written[p] = {} /\ plans[p].status = "absent"
  BY <1>1 DEF MongoInv, AbsentIsUntouched, Exists
<1>7. /\ "claim" \notin With(written[p], event)
      /\ IsUnapproved(With(written[p], event)) => WaitsUnleased(r)
  BY <1>3, <1>4, <1>6 DEF With, IsUnapproved, WaitsUnleased
<1>8. /\ now' = now
      /\ \A q \in Plan : q # p => nulls'[q] = nulls[q]
      /\ plans'[p] = r
      /\ \A q \in Plan : q # p => plans'[q] = plans[q]
      /\ written'[p] = With(written[p], event)
      /\ \A q \in Plan : q # p => written'[q] = written[q]
  BY <1>1, <1>4, <1>12, PutEffect
<1>9. GrantsAreHonoured'
  <2> SUFFICES ASSUME NEW l \in Lease, IsLive(l), grants[l].plan \notin overwritten
               PROVE  /\ nulls'[grants[l].plan] = {}
                      /\ Honours(plans'[grants[l].plan], l, grants[l])
    BY <1>1, <1>8 DEF GrantsAreHonoured, IsLive, IsReadable
  <2>1. grants[l].plan \in Plan
    BY DEF MongoInv, RecordsTyped, IsLive, Grant
  <2>2. nulls[grants[l].plan] = {} /\ Honours(plans[grants[l].plan], l, grants[l])
    BY DEF MongoInv, GrantsAreHonoured, IsReadable
  <2>3. grants[l].plan # p
    BY <1>6, <2>2 DEF Honours, IsLeasedAs
  <2> QED
    BY <1>8, <2>1, <2>2, <2>3
<1>10. IsCall(state, now)
  BY <1>12 DEF IsCall
<1>11. /\ GrantsGrow(grants, grants')
       /\ grants' \in [Lease -> Grant \cup {NoGrant}]
       /\ \A d \in Call : d # c /\ calls[d].pc = "claim" => grants'[calls[d].lease] = NoGrant
  BY <1>1 DEF MongoInv, RecordsTyped, ClaimsAreFresh, GrantsGrow
<1> QED
  BY <1>1, <1>4, <1>5, <1>7, <1>9, <1>10, <1>11, <1>12, StoreStep

(* findOneAndUpdate finds a plan that was free by the clock the claim had  *)
(* read, so it is free still, and nobody else has drawn the lease id.      *)
LEMMA TakeStep ==
  ASSUME MongoInv, NEW c \in Call, NEW p \in Plan, calls[c].pc = "claim",
         Claimable(plans[p], calls[c].project, calls[c].at),
         NEW n, n \subseteq Nullable,
         Put(p, Locked(plans[p], calls[c].lease, calls[c].token, calls[c].at), n, "claim"),
         NEW state, Goto(c, state), state.pc \in {"idle", "audit"}, IsCall(state, now),
         grants' = [grants EXCEPT ![calls[c].lease] =
                      [plan |-> p, token |-> calls[c].token,
                       expiresAt |-> calls[c].at + LeaseTimeout, open |-> n = {}]],
         overwritten' = overwritten
  PROVE  MongoInv'
<1> DEFINE l == calls[c].lease
           t == calls[c].token
           at == calls[c].at
           old == plans[p]
           r == Locked(plans[p], l, t, at)
           lock == [leaseId |-> l, clientTokenId |-> t, expiresAt |-> at + LeaseTimeout]
           g == [plan |-> p, token |-> t, expiresAt |-> at + LeaseTimeout, open |-> n = {}]
<1>1. l \in Lease /\ t \in Token /\ at \in Nat /\ now \in Nat /\ at <= now
  BY DEF MongoInv, CallsTyped, IsCall, TablesTyped
<1>2. grants[l] = NoGrant /\ \A d \in Call : calls[d].pc = "claim" /\ calls[d].lease = l => c = d
  BY DEF MongoInv, ClaimsAreFresh
<1>3. Claimable(old, calls[c].project, at) /\ Put(p, r, n, "claim")
  OBVIOUS
<1>4. grants' = [grants EXCEPT ![l] = g]
  OBVIOUS
<1>5. old \in Record /\ IsWellShaped(old) /\ grants \in [Lease -> Grant \cup {NoGrant}]
  BY DEF MongoInv, RecordsTyped
<1>6. /\ lock \in Lock /\ lock # NoLock
      /\ lock.leaseId = l /\ lock.clientTokenId = t /\ lock.expiresAt = at + LeaseTimeout
  BY <1>1, TimeoutAssumption, SentinelAssumption DEF Lock
<1>7. /\ g \in Grant /\ g # NoGrant
      /\ g.plan = p /\ g.token = t /\ g.expiresAt = at + LeaseTimeout /\ (g.open <=> n = {})
  <2>1. at + LeaseTimeout \in Nat
    BY <1>1, TimeoutAssumption
  <2>2. g.plan = p /\ g.token = t /\ g.expiresAt = at + LeaseTimeout /\ (g.open <=> n = {})
    OBVIOUS
  <2> HIDE DEF l, t, at
  <2>3. g \in Grant
    BY <1>1, <2>1 DEF Grant
  <2> QED
    BY <2>2, <2>3, MongoAssumption
<1>8. r = [old EXCEPT !.status = "locked", !.lock = lock]
  BY DEF Locked
<1> HIDE DEF l, t, at, old, lock, g, r
<1>9. /\ r \in Record /\ r.status = "locked" /\ r.lock = lock
      /\ r.completion = old.completion /\ r.reviewEvidence = old.reviewEvidence
  BY <1>5, <1>6, <1>8 DEF Record, PlanStatus
<1>10. old.status \in {"queued", "locked"} /\ old.approvalStatus \in {"approved", "not_required"}
  BY <1>3 DEF Claimable
<1>11. IsWhole(r)
  BY <1>5, <1>6, <1>9, <1>10 DEF IsWhole, IsWellShaped, Exists
<1>12. /\ grants' \in [Lease -> Grant \cup {NoGrant}]
       /\ grants'[l] = g
       /\ \A k \in Lease : k # l => grants'[k] = grants[k]
  BY <1>1, <1>4, <1>5, <1>7
<1>13. IsTold(p, r.lock, grants')
  BY <1>6, <1>7, <1>9, <1>12 DEF IsTold
<1>14. GrantsGrow(grants, grants')
  BY <1>2, <1>12 DEF GrantsGrow
<1>15. \A d \in Call : d # c /\ calls[d].pc = "claim" => grants'[calls[d].lease] = NoGrant
  BY <1>2, <1>12 DEF MongoInv, CallsTyped, IsCall, ClaimsAreFresh
<1>16. ~ IsUnapproved(written[p])
  BY <1>10 DEF MongoInv, GateIsShut, WaitsUnleased, old
<1>17. ~ IsUnapproved(With(written[p], "claim"))
  BY <1>16 DEF IsUnapproved, With
<1>18. /\ now' = now
       /\ nulls'[p] = n
       /\ \A q \in Plan : q # p => nulls'[q] = nulls[q]
       /\ plans'[p] = r
       /\ \A q \in Plan : q # p => plans'[q] = plans[q]
       /\ written'[p] = With(written[p], "claim")
       /\ \A q \in Plan : q # p => written'[q] = written[q]
  <2>1. r \in Record /\ Put(p, r, n, "claim")
    BY <1>3, <1>9
  <2> QED
    BY <2>1, PutEffect, SMTT(60)
<1>19. r.status # "completed"
  BY <1>9
<1>20. GrantsAreHonoured'
  <2> SUFFICES ASSUME NEW k \in Lease, grants'[k] # NoGrant, grants'[k].open,
                      ~ HasExpired(grants'[k], now), grants'[k].plan \notin overwritten
               PROVE  /\ nulls'[grants'[k].plan] = {}
                      /\ Honours(plans'[grants'[k].plan], k, grants'[k])
    BY <1>18 DEF GrantsAreHonoured, IsLive, IsReadable
  <2>1. CASE k = l
    <3>1. grants'[k] = g /\ n = {}
      BY <1>7, <1>12, <2>1
    <3>2. Honours(r, l, g)
      BY <1>6, <1>7, <1>9 DEF Honours, IsLeasedAs
    <3> QED
      BY <1>7, <1>18, <2>1, <3>1, <3>2
  <2>2. CASE k # l
    <3>1. grants'[k] = grants[k]
      BY <1>12, <2>2
    <3>2. nulls[grants[k].plan] = {} /\ Honours(plans[grants[k].plan], k, grants[k])
      BY <3>1 DEF MongoInv, GrantsAreHonoured, IsLive, IsReadable
    <3>3. grants[k] \in Grant
      BY <1>5, <3>1
    <3>4. grants[k].plan \in Plan /\ grants[k].expiresAt \in Nat
      BY <3>3 DEF Grant
    <3>5. grants[k].plan # p
      <4> SUFFICES ASSUME grants[k].plan = p PROVE FALSE
        OBVIOUS
      <4>1. /\ old.status = "locked" /\ old.lock # NoLock
            /\ old.lock.expiresAt = grants[k].expiresAt
        BY <3>2 DEF Honours, IsLeasedAs, old
      <4>2. HasExpired(old.lock, at)
        BY <1>3, <4>1 DEF Claimable
      <4> QED
        BY <1>1, <3>1, <3>4, <4>1, <4>2 DEF HasExpired
    <3> QED
      BY <1>18, <3>1, <3>2, <3>4, <3>5
  <2> QED
    BY <2>1, <2>2
<1> QED
  BY <1>3, <1>11, <1>12, <1>13, <1>14, <1>15, <1>16, <1>17, <1>19, <1>20, StoreStep

-----------------------------------------------------------------------------
(* The write of a request, whatever the document is by now *)

(* Changing one field of a grant leaves the others.                        *)
LEMMA GrantExpiry ==
  ASSUME NEW g \in Grant, NEW n \in Nat
  PROVE  /\ [g EXCEPT !.expiresAt = n] \in Grant
         /\ [g EXCEPT !.expiresAt = n].plan = g.plan
         /\ [g EXCEPT !.expiresAt = n].token = g.token
         /\ [g EXCEPT !.expiresAt = n].expiresAt = n
         /\ [g EXCEPT !.expiresAt = n].open = g.open
BY DEF Grant

(* An executor that gives up a lease keeps the rest of what it was told.   *)
LEMMA GrantClosing ==
  ASSUME NEW g \in Grant
  PROVE  /\ [g EXCEPT !.open = FALSE] \in Grant
         /\ [g EXCEPT !.open = FALSE].plan = g.plan
         /\ [g EXCEPT !.open = FALSE].token = g.token
         /\ [g EXCEPT !.open = FALSE].open = FALSE
BY DEF Grant

(* The lease an executor named is the only one whose grant it changes.     *)
Regrants(p, r, s, op) ==
    \/ grants' = grants /\ op \notin {"heartbeat", "release", "complete"}
    \/ LET l == r.lock.leaseId IN
       /\ op \in {"heartbeat", "release", "complete"}
       /\ l \in Lease
       /\ r.lock # NoLock
       /\ grants[l] # NoGrant /\ grants[l].plan = p
       /\ grants'[l] \in Grant
       /\ grants'[l].plan = p /\ grants'[l].token = grants[l].token
       /\ op = "heartbeat" => grants'[l].expiresAt = s.lock.expiresAt
       /\ op # "heartbeat" => ~ grants'[l].open
       /\ \A k \in Lease : k # l => grants'[k] = grants[k]
       /\ grants' = [k \in Lease |-> grants'[k]]

(* What the write makes of the grants, by the lock the request has read.   *)
LEMMA RegrantEffect ==
  ASSUME MongoInv, NEW call, NEW p, NEW r, NEW s, NEW op,
         call.seen = r, call.next = s, call.op = op,
         Fits(p, r, s, op, grants, written[p]),
         grants' = Regranted(call)
  PROVE  Regrants(p, r, s, op)
<1> DEFINE l == r.lock.leaseId
           g == grants[l]
<1>1. grants \in [Lease -> Grant \cup {NoGrant}]
  BY DEF MongoInv, RecordsTyped
<1>2. r \in Record /\ s \in Record /\ Follows(r, s, op) /\ IsTold(p, r.lock, grants)
  BY DEF Fits, IsWhole
<1>3. ASSUME r.lock # NoLock
      PROVE  l \in Lease /\ g # NoGrant /\ g.plan = p /\ g \in Grant
  BY <1>1, <1>2, <1>3 DEF IsTold, Record, Lock
<1>4. CASE op = "heartbeat"
  <2>1. r.lock # NoLock /\ s.lock # NoLock
    BY <1>2, <1>4 DEF Follows, IsLeasedAs
  <2>2. s.lock.expiresAt \in Nat
    BY <1>2, <2>1 DEF Record, Lock
  <2>3. grants' = [grants EXCEPT ![l] = [g EXCEPT !.expiresAt = s.lock.expiresAt]]
    BY <1>4 DEF Regranted
  <2> DEFINE h == [g EXCEPT !.expiresAt = s.lock.expiresAt]
  <2>4. h \in Grant /\ h.plan = g.plan /\ h.token = g.token /\ h.expiresAt = s.lock.expiresAt
    BY <1>3, <2>1, <2>2, GrantExpiry
  <2> HIDE DEF h
  <2>5. /\ grants' = [k \in Lease |-> grants'[k]]
        /\ grants'[l] = h
        /\ \A k \in Lease : k # l => grants'[k] = grants[k]
    BY <1>1, <1>3, <2>1, <2>3 DEF h
  <2> QED
    BY <1>3, <1>4, <2>1, <2>4, <2>5 DEF Regrants
<1>5. CASE op \in {"release", "complete"}
  <2>1. r.lock # NoLock
    BY <1>2, <1>5 DEF Follows, IsLeasedAs
  <2>2. grants' = [grants EXCEPT ![l] = [g EXCEPT !.open = FALSE]]
    BY <1>5 DEF Regranted
  <2> DEFINE h == [g EXCEPT !.open = FALSE]
  <2>3. h \in Grant /\ h.plan = g.plan /\ h.token = g.token /\ h.open = FALSE
    BY <1>3, <2>1, GrantClosing
  <2> HIDE DEF h
  <2>4. /\ grants' = [k \in Lease |-> grants'[k]]
        /\ grants'[l] = h
        /\ \A k \in Lease : k # l => grants'[k] = grants[k]
    BY <1>1, <1>3, <2>1, <2>2 DEF h
  <2> QED
    BY <1>3, <1>5, <2>1, <2>3, <2>4 DEF Regrants
<1>6. CASE op \notin {"heartbeat", "release", "complete"}
  BY <1>6 DEF Regranted, Regrants
<1> QED
  BY <1>4, <1>5, <1>6

(* A grant keeps its plan and token through a write.                       *)
LEMMA GrantsAfterWrite ==
  ASSUME MongoInv, NEW p, NEW r, NEW s, NEW op, Regrants(p, r, s, op)
  PROVE  /\ grants' \in [Lease -> Grant \cup {NoGrant}]
         /\ GrantsGrow(grants, grants')
         /\ \A k \in Lease : grants[k] = NoGrant => grants'[k] = NoGrant
<1>1. grants \in [Lease -> Grant \cup {NoGrant}]
  BY DEF MongoInv, RecordsTyped
<1>2. CASE grants' = grants
  BY <1>1, <1>2 DEF GrantsGrow
<1>3. CASE grants' # grants
  BY <1>1, <1>3, MongoAssumption DEF Regrants, GrantsGrow
<1> QED
  BY <1>2, <1>3

(* The write lands on whatever is there.  Where that is the document the   *)
(* request has read, its lease and its completion are kept; where it is    *)
(* not, the plan counts as overwritten from now on.                        *)
LEMMA WriteStep ==
  ASSUME MongoInv, NEW c \in Call, Write(c)
  PROVE  MongoInv'
<1> DEFINE call == calls[c]
           p == call.plan
           r == call.seen
           s == call.next
           op == call.op
           n == IF op \in {"release", "complete"} THEN {"lock"} ELSE {}
           state == [pc |-> "audit"]
<1>1. call.pc = "write" /\ p \in Plan
  BY DEF Write, MongoInv, CallsTyped, IsCall
<1>2. Fits(p, r, s, op, grants, written[p]) /\ Exists(plans[p])
  BY <1>1 DEF MongoInv, PendingWritesFit, AbsentIsUntouched
<1>3. /\ Put(p, s, n, op) /\ Goto(c, state)
      /\ grants' = Regranted(call)
      /\ overwritten' = overwritten \cup (IF plans[p] = r /\ IsReadable(p) THEN {} ELSE {p})
  BY DEF Write, AuditNext
<1>17. /\ n \subseteq Nullable /\ state.pc = "audit"
       /\ op \notin {"release", "complete"} => n = {}
       /\ op = "complete" => "lock" \in n
  BY DEF Nullable
<1>4. Regrants(p, r, s, op)
  BY <1>2, <1>3, RegrantEffect
<1> HIDE DEF call, p, r, s, op, n, state
<1>5. /\ op \in WriteOp /\ IsWhole(r) /\ IsWhole(s) /\ Follows(r, s, op)
      /\ IsTold(p, r.lock, grants) /\ IsTold(p, s.lock, grants)
      /\ IsUnapproved(written[p]) /\ op # "approve" => WaitsUnleased(s)
  BY <1>2 DEF Fits
<1>6. r \in Record /\ s \in Record
  BY <1>5 DEF IsWhole
<1>7. /\ grants' \in [Lease -> Grant \cup {NoGrant}]
      /\ GrantsGrow(grants, grants')
      /\ \A k \in Lease : grants[k] = NoGrant => grants'[k] = NoGrant
  BY <1>4, GrantsAfterWrite
<1>8. IsTold(p, s.lock, grants')
  BY <1>5, <1>6, <1>7, ToldStays
<1>9. \A d \in Call : d # c /\ calls[d].pc = "claim" => grants'[calls[d].lease] = NoGrant
  BY <1>7 DEF MongoInv, CallsTyped, IsCall, ClaimsAreFresh
<1>10. /\ IsUnapproved(With(written[p], op)) => IsUnapproved(written[p]) /\ op # "approve"
       /\ "claim" \in With(written[p], op) => "claim" \in written[p]
  BY <1>5 DEF IsUnapproved, With, WriteOp
<1>11. IsUnapproved(With(written[p], op))
         => WaitsUnleased(s) /\ "claim" \notin With(written[p], op)
  BY <1>1, <1>5, <1>10 DEF MongoInv, NoClaimUnapproved
<1>12. /\ now' = now
       /\ nulls'[p] = n
       /\ \A q \in Plan : q # p => nulls'[q] = nulls[q]
       /\ plans'[p] = s
       /\ \A q \in Plan : q # p => plans'[q] = plans[q]
       /\ written'[p] = With(written[p], op)
       /\ \A q \in Plan : q # p => written'[q] = written[q]
  <2>1. n \subseteq Nullable
    BY <1>17
  <2> QED
    BY <1>1, <1>3, <1>6, <2>1, PutEffect
<1>13. p \notin overwritten' => plans[p] = r /\ p \notin overwritten
  BY <1>3
<1>14. overwritten \subseteq overwritten'
  BY <1>3
<1>15. IsCall(state, now) /\ (s.status = "completed" => "lock" \in n)
  BY <1>5, <1>17 DEF IsCall, Follows
<1>16. GrantsAreHonoured'
  <2> SUFFICES ASSUME NEW k \in Lease, grants'[k] # NoGrant, grants'[k].open,
                      ~ HasExpired(grants'[k], now), grants'[k].plan \notin overwritten'
               PROVE  /\ nulls'[grants'[k].plan] = {}
                      /\ Honours(plans'[grants'[k].plan], k, grants'[k])
    BY <1>12 DEF GrantsAreHonoured, IsLive, IsReadable
  <2>1. CASE grants'[k] = grants[k]
    <3>1. nulls[grants[k].plan] = {} /\ Honours(plans[grants[k].plan], k, grants[k])
      BY <1>14, <2>1 DEF MongoInv, GrantsAreHonoured, IsLive, IsReadable
    <3>2. grants[k].plan \in Plan
      BY <2>1 DEF MongoInv, RecordsTyped, Grant
    <3>3. CASE grants[k].plan = p
      <4>1. Honours(r, k, grants[k])
        BY <1>13, <2>1, <3>1, <3>3
      <4>2. op \in {"release", "complete"} => FALSE
        BY <1>4, <2>1, <4>1 DEF Regrants, Honours, IsLeasedAs
      <4>3. op = "heartbeat" => s.lock.expiresAt = grants[k].expiresAt
        BY <1>4, <2>1, <4>1 DEF Regrants, Honours, IsLeasedAs
      <4>4. Honours(s, k, grants[k])
        BY <1>5, <4>1, <4>2, <4>3 DEF Follows, Honours, IsLeasedAs
      <4> QED
        BY <1>12, <1>17, <2>1, <3>3, <4>2, <4>4
    <3>4. CASE grants[k].plan # p
      BY <1>12, <2>1, <3>1, <3>2, <3>4
    <3> QED
      BY <3>3, <3>4
  <2>2. CASE grants'[k] # grants[k]
    <3>1. /\ k = r.lock.leaseId /\ r.lock # NoLock /\ op = "heartbeat"
          /\ grants'[k].plan = p
          /\ grants'[k].token = grants[k].token
          /\ grants'[k].expiresAt = s.lock.expiresAt
      BY <1>4, <2>2 DEF Regrants
    <3>2. IsLeasedAs(s, k) /\ s.lock.clientTokenId = r.lock.clientTokenId
      BY <1>5, <3>1 DEF Follows, IsLeasedAs
    <3>3. r.lock.clientTokenId = grants[k].token
      BY <1>5, <3>1 DEF IsTold
    <3> QED
      BY <1>12, <1>17, <3>1, <3>2, <3>3 DEF Honours
  <2> QED
    BY <2>1, <2>2
<1> QED
  BY <1>1, <1>3, <1>5, <1>7, <1>8, <1>9, <1>10, <1>11, <1>15, <1>16, <1>17, StoreStep

-----------------------------------------------------------------------------
(* Every step *)

(* An empty collection, and no request under way.                          *)
LEMMA InitMongoInv == Init => MongoInv
<1> SUFFICES ASSUME Init PROVE MongoInv
  OBVIOUS
<1>1. /\ now = 0 /\ overwritten = {}
      /\ plans = [p \in Plan |-> NoPlan]
      /\ nulls = [p \in Plan |-> {}]
      /\ calls = [c \in Call |-> Idle]
      /\ grants = [l \in Lease |-> NoGrant]
      /\ written = [p \in Plan |-> {}]
  BY DEF Init
<1>2. Idle.pc = "idle"
  BY DEF Idle
<1>3. TablesTyped /\ RecordsTyped
  BY <1>1, NoPlanFacts DEF TablesTyped, RecordsTyped, IsWellShaped
<1>4. CallsTyped /\ ClaimsAreFresh /\ PendingWritesFit
  BY <1>1, <1>2 DEF CallsTyped, IsCall, ClaimsAreFresh, PendingWritesFit
<1>5. LocksAreTold /\ AbsentIsUntouched
  BY <1>1, <1>2, NoPlanFacts DEF LocksAreTold, IsTold, AbsentIsUntouched
<1>6. GateIsShut /\ NoClaimUnapproved
  BY <1>1 DEF GateIsShut, NoClaimUnapproved, IsUnapproved
<1>7. GrantsAreHonoured /\ CompletedHoldsNull
  BY <1>1, NoPlanFacts DEF GrantsAreHonoured, IsLive, CompletedHoldsNull
<1> QED
  BY <1>3, <1>4, <1>5, <1>6, <1>7 DEF MongoInv

(* Time passes under every request; an expiry only comes nearer.           *)
LEMMA TickStep ==
  ASSUME MongoInv, Tick
  PROVE  MongoInv'
<1>1. /\ now' = now + 1 /\ plans' = plans /\ nulls' = nulls /\ calls' = calls
      /\ grants' = grants /\ written' = written /\ overwritten' = overwritten
  BY DEF Tick
<1>2. now \in Nat
  BY DEF MongoInv, TablesTyped
<1>3. TablesTyped'
  BY <1>1, <1>2 DEF MongoInv, TablesTyped
<1>4. CallsTyped'
  <2>1. 0..now \subseteq 0..(now + 1)
    BY <1>2
  <2> QED
    BY <1>1, <2>1 DEF MongoInv, CallsTyped, IsCall
<1>5. GrantsAreHonoured'
  <2> SUFFICES ASSUME NEW l \in Lease, grants[l] # NoGrant, grants[l].open,
                      ~ HasExpired(grants[l], now + 1), grants[l].plan \notin overwritten
               PROVE  IsReadable(grants[l].plan) /\ Honours(plans[grants[l].plan], l, grants[l])
    BY <1>1 DEF GrantsAreHonoured, IsLive, IsReadable
  <2>1. grants[l].expiresAt \in Nat
    BY DEF MongoInv, RecordsTyped, Grant
  <2>2. ~ HasExpired(grants[l], now)
    BY <1>2, <2>1 DEF HasExpired
  <2> QED
    BY <2>2 DEF MongoInv, GrantsAreHonoured, IsLive
<1>6. /\ RecordsTyped' /\ ClaimsAreFresh' /\ LocksAreTold' /\ AbsentIsUntouched'
      /\ GateIsShut' /\ NoClaimUnapproved' /\ PendingWritesFit' /\ CompletedHoldsNull'
  BY <1>1 DEF MongoInv, RecordsTyped, ClaimsAreFresh, LocksAreTold, AbsentIsUntouched,
              GateIsShut, NoClaimUnapproved, PendingWritesFit, CompletedHoldsNull
<1> QED
  BY <1>3, <1>4, <1>5, <1>6 DEF MongoInv

(* A request ends: its audit event is in, it found nothing, or it failed.  *)
LEMMA EndStep ==
  ASSUME MongoInv, NEW c \in Call, Goto(c, Idle),
         UNCHANGED <<now, plans, nulls, grants, written, overwritten>>
  PROVE  MongoInv'
<1>1. Idle.pc = "idle"
  BY DEF Idle
<1>2. IsCall(Idle, now)
  BY <1>1 DEF IsCall
<1> QED
  BY <1>1, <1>2, CallStep

(* claimNextPlan reads the clock and draws a lease id nobody has.          *)
LEMMA DrawStep ==
  ASSUME MongoInv, NEW c \in Call, NEW t \in Token, NEW l \in Lease, NEW plan, NEW project,
         ClaimNextPlan(c, t, l, plan, project)
  PROVE  MongoInv'
<1> DEFINE state == [pc |-> "claim", token |-> t, lease |-> l, plan |-> plan,
                     project |-> project, at |-> now]
<1>1. /\ Goto(c, state) /\ grants[l] = NoGrant
      /\ \A d \in Call : calls[d].pc = "claim" => calls[d].lease # l
      /\ UNCHANGED <<now, plans, nulls, grants, written, overwritten>>
  BY DEF ClaimNextPlan
<1>2. state.pc = "claim" /\ state.lease = l /\ state.token = t /\ state.at = now
  OBVIOUS
<1> HIDE DEF state
<1>3. now \in 0..now
  BY DEF MongoInv, TablesTyped
<1>4. IsCall(state, now)
  BY <1>2, <1>3 DEF IsCall
<1> QED
  BY <1>1, <1>2, <1>4, CallStep

(* findOneAndUpdate takes a plan or finds none.                            *)
LEMMA ClaimStep ==
  ASSUME MongoInv, NEW c \in Call, FindOneAndUpdate(c)
  PROVE  MongoInv'
<1>1. CASE Goto(c, Idle) /\ UNCHANGED <<now, plans, nulls, grants, written, overwritten>>
  BY <1>1, EndStep
<1>2. ASSUME NEW p \in Candidates(calls[c].plan, calls[c].project, calls[c].at),
             NEW n, n = nulls[p] \ {"lock"},
             Put(p, Locked(plans[p], calls[c].lease, calls[c].token, calls[c].at), n, "claim"),
             Goto(c, Idle) \/ Goto(c, [pc |-> "audit"]),
             grants' = [grants EXCEPT ![calls[c].lease] =
                          [plan |-> p, token |-> calls[c].token,
                           expiresAt |-> calls[c].at + LeaseTimeout, open |-> n = {}]]
      PROVE  MongoInv'
  <2>1. /\ p \in Plan /\ Claimable(plans[p], calls[c].project, calls[c].at)
        /\ calls[c].pc = "claim" /\ overwritten' = overwritten
    BY <1>2 DEF Candidates, FindOneAndUpdate
  <2>2. n \subseteq Nullable
    BY <1>2, <2>1 DEF MongoInv, TablesTyped
  <2>3. ASSUME NEW state, Goto(c, state), state.pc \in {"idle", "audit"}, IsCall(state, now)
        PROVE  MongoInv'
    BY <1>2, <2>1, <2>2, <2>3, TakeStep
  <2>4. IsCall(Idle, now) /\ IsCall([pc |-> "audit"], now) /\ Idle.pc = "idle"
    BY DEF IsCall, Idle
  <2> QED
    BY <1>2, <2>3, <2>4
<1> QED
  BY <1>1, <1>2 DEF FindOneAndUpdate, AuditNext

(* updatePlan reads the document and computes the next one from it.        *)
LEMMA ReadStep ==
  ASSUME MongoInv, NEW c \in Call, NEW p \in Plan, NEW q, UpdatePlan(c, p, q),
         Fits(p, plans[p], Updated(plans[p], q, now), q.op, grants, written[p])
  PROVE  MongoInv'
<1> DEFINE s == Updated(plans[p], q, now)
           state == [pc |-> "write", plan |-> p, op |-> q.op, seen |-> plans[p], next |-> s]
<1>1. /\ Goto(c, state) /\ Exists(plans[p])
      /\ UNCHANGED <<now, plans, nulls, grants, written, overwritten>>
  BY DEF UpdatePlan
<1>2. /\ state.pc = "write" /\ state.plan = p /\ state.op = q.op
      /\ state.seen = plans[p] /\ state.next = s
  OBVIOUS
<1>3. Fits(p, plans[p], s, q.op, grants, written[p])
  OBVIOUS
<1> HIDE DEF s, state
<1>4. IsCall(state, now)
  BY <1>2 DEF IsCall
<1> QED
  BY <1>1, <1>2, <1>3, <1>4, CallStep

(* What updatePlan finds in the collection.                                *)
LEMMA FoundFacts ==
  ASSUME MongoInv, NEW c, NEW p \in Plan, NEW q, UpdatePlan(c, p, q)
  PROVE  /\ CanBeRead(p, plans[p], grants, written[p])
         /\ plans[p].workLoop \in WorkLoop
         /\ now \in Nat
         /\ Accepts(plans[p], q, now)
<1>1. plans[p] \in Record /\ Exists(plans[p])
  BY DEF MongoInv, RecordsTyped, UpdatePlan
<1>2. CanBeRead(p, plans[p], grants, written[p])
  <2>1. plans[p].status # "completed"
    BY DEF MongoInv, CompletedHoldsNull, UpdatePlan, IsReadable
  <2> QED
    BY <1>1, <2>1 DEF MongoInv, RecordsTyped, LocksAreTold, GateIsShut, CanBeRead, IsWhole
<1>3. plans[p].workLoop \in WorkLoop
  BY <1>1 DEF Record
<1> QED
  BY <1>2, <1>3 DEF MongoInv, TablesTyped, UpdatePlan

(* The three reviewer operations.                                          *)
LEMMA ReviewerStep ==
  ASSUME MongoInv, NEW c \in Call, NEW p \in Plan, ReviewerCall(c, p)
  PROVE  MongoInv'
<1>1. ASSUME NEW q, UpdatePlan(c, p, q),
             \/ q.op = "approve" /\ Updated(plans[p], q, now) = Approved(plans[p])
             \/ q.op = "reject" /\ Updated(plans[p], q, now) = Rejected(plans[p])
             \/ q.op = "request_review" /\ Updated(plans[p], q, now) = ReviewRequested(plans[p])
      PROVE  MongoInv'
  <2>1. CanBeRead(p, plans[p], grants, written[p])
    BY <1>1, FoundFacts
  <2> DEFINE s == Updated(plans[p], q, now)
  <2>2. \/ q.op = "approve" /\ s = Approved(plans[p])
        \/ q.op = "reject" /\ s = Rejected(plans[p])
        \/ q.op = "request_review" /\ s = ReviewRequested(plans[p])
    BY <1>1
  <2> HIDE DEF s
  <2>3. Fits(p, plans[p], s, q.op, grants, written[p])
    BY <2>1, <2>2, ReviewFits
  <2> QED
    BY <1>1, <2>3, ReadStep DEF s
<1>2. CASE ApprovePlan(c, p)
  <2>1. Updated(plans[p], [op |-> "approve"], now) = Approved(plans[p])
    BY DEF Updated
  <2> QED
    BY <1>1, <1>2, <2>1 DEF ApprovePlan
<1>3. CASE RejectPlan(c, p)
  <2>1. Updated(plans[p], [op |-> "reject"], now) = Rejected(plans[p])
    BY DEF Updated
  <2> QED
    BY <1>1, <1>3, <2>1 DEF RejectPlan
<1>4. CASE RequestPlanReview(c, p)
  <2>1. Updated(plans[p], [op |-> "request_review"], now) = ReviewRequested(plans[p])
    BY DEF Updated
  <2> QED
    BY <1>1, <1>4, <2>1 DEF RequestPlanReview
<1> QED
  BY <1>2, <1>3, <1>4 DEF ReviewerCall

(* The operations that must present a lease.                               *)
LEMMA ExecutorStep ==
  ASSUME MongoInv, NEW c \in Call, NEW p \in Plan, NEW l \in Lease, NEW t \in Token,
         ExecutorCall(c, p, l, t)
  PROVE  MongoInv'
<1>1. CASE ExtendLease(c, p, l, t)
  <2> DEFINE q == [op |-> "heartbeat", lease |-> l, token |-> t]
  <2>1. q \in LeaseRequest /\ q.op = "heartbeat" /\ q.lease = l /\ q.token = t
    BY DEF LeaseRequest
  <2>2. UpdatePlan(c, p, q)
    BY <1>1 DEF ExtendLease
  <2> HIDE DEF q
  <2>3. CanBeRead(p, plans[p], grants, written[p]) /\ now \in Nat /\ HoldsLease(plans[p], l, t, now)
    BY <2>1, <2>2, FoundFacts DEF Accepts
  <2>4. Updated(plans[p], q, now) = Extended(plans[p], l, t, now)
    BY <2>1 DEF Updated
  <2> QED
    BY <2>1, <2>2, <2>3, <2>4, HeartbeatFits, ReadStep
<1>2. ASSUME NEW loop \in LoopInput, ProgressPlan(c, p, l, t, loop) PROVE MongoInv'
  <2> DEFINE q == [op |-> "progress", lease |-> l, token |-> t, loop |-> loop]
  <2>1. /\ q \in LeaseRequest /\ q.op = "progress"
        /\ q.lease = l /\ q.token = t /\ q.loop = loop /\ loop \in WorkLoop
    BY RequestAssumption DEF LeaseRequest
  <2>2. UpdatePlan(c, p, q)
    BY <1>2 DEF ProgressPlan
  <2> HIDE DEF q
  <2>3. CanBeRead(p, plans[p], grants, written[p]) /\ HoldsLease(plans[p], l, t, now)
    BY <2>1, <2>2, FoundFacts DEF Accepts
  <2>4. Updated(plans[p], q, now) = Progressed(plans[p], loop)
    BY <2>1 DEF Updated
  <2> QED
    BY <2>1, <2>2, <2>3, <2>4, ProgressFits, ReadStep
<1>3. ASSUME NEW loop \in LoopInput, NEW reason \in ReasonInput,
             ReleasePlan(c, p, l, t, loop, reason)
      PROVE  MongoInv'
  <2> DEFINE q == [op |-> "release", lease |-> l, token |-> t, loop |-> loop, reason |-> reason]
  <2>1. /\ q \in LeaseRequest /\ q.op = "release"
        /\ q.lease = l /\ q.token = t /\ q.loop = loop /\ q.reason = reason
        /\ loop \in WorkLoop /\ reason \in ReleaseReason
    BY RequestAssumption DEF LeaseRequest
  <2>2. UpdatePlan(c, p, q)
    BY <1>3 DEF ReleasePlan
  <2> HIDE DEF q
  <2>3. CanBeRead(p, plans[p], grants, written[p]) /\ HoldsLease(plans[p], l, t, now)
    BY <2>1, <2>2, FoundFacts DEF Accepts
  <2>4. Updated(plans[p], q, now) = Released(plans[p], loop, reason)
    BY <2>1 DEF Updated
  <2> QED
    BY <2>1, <2>2, <2>3, <2>4, ReleaseFits, ReadStep
<1>4. ASSUME NEW loop \in LoopInput \cup {NoLoop}, CompletePlan(c, p, l, t, loop)
      PROVE  MongoInv'
  <2> DEFINE q == [op |-> "complete", lease |-> l, token |-> t, loop |-> loop]
             final == FinalLoop(plans[p], q)
  <2>1. /\ q \in LeaseRequest /\ q.op = "complete"
        /\ q.lease = l /\ q.token = t /\ q.loop = loop
    BY DEF LeaseRequest
  <2>2. UpdatePlan(c, p, q)
    BY <1>4 DEF CompletePlan
  <2> HIDE DEF q
  <2>3. /\ CanBeRead(p, plans[p], grants, written[p]) /\ HoldsLease(plans[p], l, t, now)
        /\ plans[p].workLoop \in WorkLoop
    BY <2>1, <2>2, FoundFacts DEF Accepts
  <2>4. Updated(plans[p], q, now) = Completed(plans[p], final, t)
    BY <2>1 DEF Updated
  <2>5. final \in WorkLoop
    BY <2>1, <2>3, RequestAssumption DEF FinalLoop
  <2> HIDE DEF final
  <2> QED
    BY <2>1, <2>2, <2>3, <2>4, <2>5, CompleteFits, ReadStep
<1> QED
  BY <1>1, <1>2, <1>3, <1>4 DEF ExecutorCall

(* No statement of any request, no failure and no tick breaks it.          *)
LEMMA NextMongoInv == MongoInv /\ [Next]_vars => MongoInv'
<1> SUFFICES ASSUME MongoInv, [Next]_vars PROVE MongoInv'
  OBVIOUS
<1>1. ASSUME NEW c \in Call, Step(c) PROVE MongoInv'
  BY <1>1, ClaimStep, WriteStep, EndStep DEF Step, AppendAudit, Fail
<1>2. CASE UNCHANGED vars
  BY <1>2 DEF vars, MongoInv, TablesTyped, CallsTyped, RecordsTyped, ClaimsAreFresh,
              LocksAreTold, AbsentIsUntouched, GateIsShut, NoClaimUnapproved,
              PendingWritesFit, GrantsAreHonoured, IsLive, IsReadable, CompletedHoldsNull
<1> QED
  BY <1>1, <1>2, CreateStep, ReviewerStep, ExecutorStep, DrawStep, TickStep DEF Next

-----------------------------------------------------------------------------
(* Theorems *)

(* Whatever is written over whatever, every reachable state satisfies the  *)
(* invariant: each write under way is whole, under a lease that was        *)
(* granted, and carries no approval nobody gave.                           *)
THEOREM MongoStoreIsSafe == Spec => []MongoInv
BY InitMongoInv, NextMongoInv, PTL DEF Spec

(* The human gate survives every lost update: a plan submitted for review  *)
(* is leased only after an approval of it was written (approvePlan,        *)
(* claimNextPlan).                                                         *)
THEOREM GateSurvivesLostUpdates == Spec => []ApprovedBeforeClaim
<1>1. MongoInv => ApprovedBeforeClaim
  BY MongoAssumption
     DEF MongoInv, TablesTyped, NoClaimUnapproved, IsUnapproved, ApprovedBeforeClaim
<1> QED
  BY <1>1, MongoStoreIsSafe, PTL

(* Where no update was lost a live lease is the plan's lock and is         *)
(* accepted, until the expiry its executor was told (assertLease).         *)
THEOREM LeasesAreHonoured == Spec => []LiveLeaseIsHonoured
<1>1. MongoInv => LiveLeaseIsHonoured
  BY DEF MongoInv, GrantsAreHonoured, Honours, IsLeasedAs, LiveLeaseIsHonoured, IsLive,
         HoldsLease, HasExpired
<1> QED
  BY <1>1, MongoStoreIsSafe, PTL

(* A completed plan holds a null lock, so getPlan, listCompletedPlans and  *)
(* attachPlanReviewEvidence all throw on it, from the completion on and    *)
(* however the requests interleave (completePlan, PlanRecordSchema).       *)
THEOREM ArchiveIsUnreadable ==
  Spec => [](\A p \in Plan : plans[p].status = "completed" => ~IsReadable(p))
<1>1. MongoInv => \A p \in Plan : plans[p].status = "completed" => ~IsReadable(p)
  BY DEF MongoInv, CompletedHoldsNull, IsReadable
<1> QED
  BY <1>1, MongoStoreIsSafe, PTL

=============================================================================
