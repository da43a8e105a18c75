------------------------- MODULE SqlPlanStoreProofs -------------------------
(***************************************************************************)
(* SqlPlanStore for any plans, tokens, leases, connections and timeout.    *)
(* What a transaction holds between its select and its commit is described *)
(* by HeldWritesFit: the record it is about to write still fits the row,   *)
(* whatever the others did and however the clock ran on meanwhile.  The    *)
(* rest is the invariant of the atomic store, whose lemmas are taken       *)
(* through the instance Atomic.                                            *)
(***************************************************************************)
EXTENDS SqlPlanStore, TLAPS

Atomic == INSTANCE PlanStoreProofs WITH unlogged <- [p \in Plan |-> {}], MaxFailures <- 0

-----------------------------------------------------------------------------
(* The invariant *)

(* A row a claim may have selected: queued, or with a lock that expired.   *)
IsTakeable(r, n) ==
    \/ r.status = "queued"
    \/ r.status = "locked" /\ r.lock # NoLock /\ HasExpired(r.lock, n)

(* A row locked under the lease l, though that lease may have expired.     *)
IsLeasedAs(r, l) ==
    /\ r.status = "locked"
    /\ r.lock # NoLock
    /\ r.lock.leaseId = l

(* The lock lasts no longer than the timeout from now.                     *)
IsDue(lock, n) == lock.expiresAt <= n + LeaseTimeout

LeaseEvent == {"claim", "heartbeat", "release", "complete"}

(* What a transaction about to write s may do to the lock of row r.        *)
LockFits(r, s, event, l, n) ==
    /\ event = "claim"
         => l \in Lease /\ IsTakeable(r, n) /\ IsLeasedAs(s, l) /\ IsDue(s.lock, n)
    /\ event = "heartbeat"
         => /\ IsLeasedAs(r, l) /\ IsLeasedAs(s, l) /\ IsDue(s.lock, n)
            /\ s.lock.clientTokenId = r.lock.clientTokenId
    /\ event \in {"release", "complete"} => IsLeasedAs(r, l) /\ s.lock = NoLock
    /\ event \notin LeaseEvent
         => /\ s.lock = r.lock
            /\ r.status = "locked" => s.status = "locked"

(* The audit log, with the event to come, accounts for the record s and    *)
(* keeps the gate of the plan shut.                                        *)
EventFits(s, event, events) ==
    /\ Atomic!IsAccountedFor(s, Atomic!With(events, event))
    /\ Atomic!IsUnapproved(Atomic!With(events, event))
         => s.approvalStatus \in {"pending", "rejected"} /\ "claim" \notin Atomic!With(events, event)

RecordFits(s) == s \in Record /\ Atomic!IsWellShaped(s)

Fits(r, s, event, l, events, n) ==
    RecordFits(s) /\ EventFits(s, event, events) /\ LockFits(r, s, event, l, n)

(* What a connection is doing is well typed, and its clock is not ahead.   *)
IsCall(call, n) ==
    /\ call.pc \in {"idle", "claim", "commit"}
    /\ call.pc = "idle" => call = Idle
    /\ call.pc = "claim" => call.lease \in Lease /\ call.token \in Token /\ call.at \in 0..n
    /\ call.pc = "commit" => call.plan \in Plan

CallsTyped ==
    /\ calls = [c \in Call |-> calls[c]]
    /\ \A c \in Call : IsCall(calls[c], now)

(* No two claims draw one lease id, and none draws a lease already granted. *)
DrawsAreFresh ==
    \A c \in Call, l \in Lease :
        Draws(calls[c], l)
            => /\ grants[l] = NoGrant
               /\ \A d \in Call : Draws(calls[d], l) => c = d

FitsItsRow(call) ==
    Fits(plans[call.plan], call.next, call.event, call.lease, audit[call.plan], now)

HeldWritesFit == \A c \in Call : calls[c].pc = "commit" => FitsItsRow(calls[c])

(* Two transactions never hold one row: what select for update and skip    *)
(* locked do, which SqlPlanStore assumes of the database in IsLocked.      *)
RowsAreHeldOnce ==
    \A c, d \in Call :
        calls[c].pc = "commit" /\ calls[d].pc = "commit" /\ calls[c].plan = calls[d].plan
            => c = d

CallsInv == CallsTyped /\ RowsAreHeldOnce /\ DrawsAreFresh /\ HeldWritesFit

SqlInv == Atomic!IInv /\ CallsInv

-----------------------------------------------------------------------------
(* This store and the atomic one speak of the same records *)

(* What PlanStore assumes of the constants holds here.                     *)
LEMMA AtomicAssumptions ==
  /\ Atomic!StoreAssumption
  /\ Atomic!GrantAssumption
  /\ Atomic!TimeoutAssumption
  /\ Atomic!SentinelAssumption
<1>1. Atomic!StoreAssumption
  BY SqlAssumption, RequestAssumption
     DEF Atomic!StoreAssumption, WorkLoop, Atomic!WorkLoop,
         WorkLoopStatus, Atomic!WorkLoopStatus
<1>2. Atomic!GrantAssumption
  BY SqlAssumption DEF Atomic!GrantAssumption, Store!Grant, Atomic!Grant
<1>3. Atomic!TimeoutAssumption /\ Atomic!SentinelAssumption
  BY TimeoutAssumption, SentinelAssumption
     DEF Atomic!TimeoutAssumption, Atomic!SentinelAssumption, Lock, Atomic!Lock
<1> QED
  BY <1>1, <1>2, <1>3

(* PlanRecord's sets are the same through the instance ...                 *)
LEMMA SameSets ==
  /\ Lock = Atomic!Lock
  /\ WorkLoop = Atomic!WorkLoop
  /\ ReleaseReason = Atomic!ReleaseReason
  /\ Record = Atomic!Record
BY DEF Lock, Atomic!Lock, WorkLoop, Atomic!WorkLoop, WorkLoopStatus, Atomic!WorkLoopStatus,
       ReleaseReason, Atomic!ReleaseReason, Record, Atomic!Record,
       ApprovalStatus, Atomic!ApprovalStatus, PlanStatus, Atomic!PlanStatus

(* ... and so are the records its functions return.                        *)
LEMMA SameFunctions ==
  ASSUME NEW r, NEW l, NEW t, NEW n, NEW loop, NEW reason, NEW e, NEW required
  PROVE  /\ Submitted(loop, required, n) = Atomic!Submitted(loop, required, n)
         /\ Approved(r) = Atomic!Approved(r)
         /\ Rejected(r) = Atomic!Rejected(r)
         /\ ReviewRequested(r) = Atomic!ReviewRequested(r)
         /\ Locked(r, l, t, n) = Atomic!Locked(r, l, t, n)
         /\ Extended(r, l, t, n) = Atomic!Extended(r, l, t, n)
         /\ Progressed(r, loop) = Atomic!Progressed(r, loop)
         /\ Released(r, loop, reason) = Atomic!Released(r, loop, reason)
         /\ Completed(r, loop, t) = Atomic!Completed(r, loop, t)
         /\ WithEvidence(r, e) = Atomic!WithEvidence(r, e)
<1>1. NoPlan = Atomic!NoPlan
  BY SameSets DEF NoPlan, Atomic!NoPlan
<1>2. Submitted(loop, required, n) = Atomic!Submitted(loop, required, n)
  BY <1>1 DEF Submitted, Atomic!Submitted
<1>3. ReleaseStatus(loop, reason) = Atomic!ReleaseStatus(loop, reason)
  BY DEF ReleaseStatus, Atomic!ReleaseStatus
<1>4. Released(r, loop, reason) = Atomic!Released(r, loop, reason)
  BY <1>3 DEF Released, Atomic!Released
<1>5. /\ Approved(r) = Atomic!Approved(r)
      /\ Rejected(r) = Atomic!Rejected(r)
      /\ ReviewRequested(r) = Atomic!ReviewRequested(r)
      /\ WithEvidence(r, e) = Atomic!WithEvidence(r, e)
  BY DEF Approved, Atomic!Approved, Rejected, Atomic!Rejected, ReviewRequested,
         Atomic!ReviewRequested, WithEvidence, Atomic!WithEvidence
<1>6. /\ Locked(r, l, t, n) = Atomic!Locked(r, l, t, n)
      /\ Extended(r, l, t, n) = Atomic!Extended(r, l, t, n)
      /\ Progressed(r, loop) = Atomic!Progressed(r, loop)
      /\ Completed(r, loop, t) = Atomic!Completed(r, loop, t)
  BY DEF Locked, Atomic!Locked, Extended, Atomic!Extended, Progressed, Atomic!Progressed,
         Completed, Atomic!Completed
<1> QED
  BY <1>2, <1>4, <1>5, <1>6

(* Whatever took place is on record: nothing is unlogged here.             *)
LEMMA NothingUnlogged ==
  ASSUME NEW p \in Plan
  PROVE  /\ Atomic!Happened(p) = audit[p]
         /\ Atomic!Happened(p)' = audit'[p]
BY DEF Atomic!Happened

(* The invariant of the atomic store, with the types of what it speaks of. *)
LEMMA TableFacts ==
  ASSUME Atomic!IInv
  PROVE  /\ now \in Nat
         /\ \A p \in Plan : plans[p] \in Record
         /\ \A p \in Plan : plans[p].workLoop \in WorkLoop
         /\ \A p \in Plan : plans[p].lock # NoLock => plans[p].lock \in Lock
         /\ \A p \in Plan : Atomic!IsWellShaped(plans[p])
         /\ \A p \in Plan : Atomic!IsAccountedFor(plans[p], audit[p])
         /\ \A p \in Plan :
              Atomic!IsUnapproved(audit[p])
                => /\ plans[p].approvalStatus \in {"pending", "rejected"}
                   /\ "claim" \notin audit[p]
<1>1. Atomic!TypeOK
  BY DEF Atomic!IInv
<1>2. /\ now \in Nat
      /\ LoopInput \subseteq Atomic!WorkLoop
      /\ \A p \in Plan : plans[p] \in Atomic!Record
      /\ \A p \in Plan : plans[p].workLoop \in Atomic!WorkLoop
      /\ \A p \in Plan : plans[p].lock # NoLock => plans[p].lock \in Atomic!Lock
  BY <1>1, AtomicAssumptions, Atomic!StateTypes
<1>3. /\ \A p \in Plan : Atomic!IsWellShaped(plans[p])
      /\ \A p \in Plan : Atomic!IsAccountedFor(plans[p], audit[p])
  BY NothingUnlogged DEF Atomic!IInv, Atomic!RecordShape, Atomic!AuditExplainsRecord
<1>4. \A p \in Plan :
        Atomic!IsUnapproved(audit[p])
          => /\ plans[p].approvalStatus \in {"pending", "rejected"}
             /\ "claim" \notin audit[p]
  BY NothingUnlogged DEF Atomic!IInv, Atomic!GateIsShut
<1> QED
  BY <1>2, <1>3, <1>4, SameSets

-----------------------------------------------------------------------------
(* What each operation computes fits the row it has locked *)

(* createPlan: the new row is queued, and its gate is shut if asked for.   *)
LEMMA CreateFits ==
  ASSUME Atomic!IInv, NEW p \in Plan, NEW loop \in LoopInput, NEW required \in BOOLEAN,
         NEW l, ~Exists(plans[p])
  PROVE  Fits(plans[p], Submitted(loop, required, now),
              IF required THEN "submit_for_approval" ELSE "submit", l, audit[p], now)
<1> DEFINE r == plans[p]
           s == Submitted(loop, required, now)
           event == IF required THEN "submit_for_approval" ELSE "submit"
<1>1. loop \in WorkLoop /\ loop \in Atomic!WorkLoop /\ now \in Nat
  BY RequestAssumption, SameSets, TableFacts
<1>2. /\ s \in Atomic!Record
      /\ s.status = "queued"
      /\ s.lock = NoLock
      /\ s.completion = NoToken
      /\ s.reviewEvidence = {}
      /\ s.approvalStatus = IF required THEN "pending" ELSE "not_required"
  <2>1. s = Atomic!Submitted(loop, required, now)
    BY SameFunctions
  <2> HIDE DEF s
  <2> QED
    BY <1>1, <2>1, AtomicAssumptions, Atomic!SubmittedFacts
<1>3. Atomic!IsWellShaped(r) /\ Atomic!IsAccountedFor(r, audit[p])
  BY TableFacts
<1>4. r.status = "absent" /\ r.lock = NoLock /\ audit[p] = {}
  BY <1>3 DEF Exists, Atomic!IsWellShaped, Atomic!IsAccountedFor, Atomic!Exists
<1> HIDE DEF r, s
<1>5. RecordFits(s)
  BY <1>2, SameSets DEF RecordFits, Atomic!IsWellShaped
<1>6. EventFits(s, event, audit[p])
  BY <1>2, <1>4 DEF EventFits, Atomic!AuditType, Atomic!With, Atomic!IsAccountedFor, Atomic!Exists, Atomic!IsUnapproved
<1>7. LockFits(r, s, event, l, now)
  BY <1>2, <1>4 DEF LockFits, LeaseEvent
<1> QED
  BY <1>5, <1>6, <1>7 DEF Fits, r, s

(* approvePlan, rejectPlan, requestPlanReview: status and lock stay.       *)
LEMMA ReviewFits ==
  ASSUME Atomic!IInv, NEW p \in Plan, NEW s, NEW event, NEW l, Exists(plans[p]),
         \/ event = "approve" /\ s = Approved(plans[p])
         \/ event = "reject" /\ s = Rejected(plans[p])
         \/ event = "request_review" /\ s = ReviewRequested(plans[p])
  PROVE  Fits(plans[p], s, event, l, audit[p], now)
<1> DEFINE r == plans[p]
<1>1. r \in Record /\ r \in Atomic!Record
  BY TableFacts, SameSets
<1>2. /\ Atomic!SameButApproval(r, Approved(r))
      /\ Approved(r).approvalStatus = "approved"
      /\ Atomic!SameButApproval(r, Rejected(r))
      /\ Rejected(r).approvalStatus = "rejected"
      /\ Atomic!SameButApproval(r, ReviewRequested(r))
      /\ ReviewRequested(r).approvalStatus = "pending"
  BY <1>1, AtomicAssumptions, SameFunctions, Atomic!ReviewFacts
<1>3. /\ Atomic!SameButApproval(r, s)
      /\ event = "approve" => s.approvalStatus = "approved"
      /\ event = "reject" => s.approvalStatus = "rejected"
      /\ event = "request_review" => s.approvalStatus = "pending"
      /\ event \in {"approve", "reject", "request_review"}
  BY <1>2
<1>4. /\ Atomic!IsWellShaped(r)
      /\ Atomic!IsAccountedFor(r, audit[p])
      /\ Atomic!IsUnapproved(audit[p]) => "claim" \notin audit[p]
  BY TableFacts
<1> HIDE DEF r
<1>5. /\ s \in Record
      /\ s.status = r.status
      /\ s.lock = r.lock
      /\ s.completion = r.completion
      /\ s.reviewEvidence = r.reviewEvidence
  BY <1>3, SameSets DEF Atomic!SameButApproval
<1>6. RecordFits(s)
  BY <1>4, <1>5 DEF RecordFits, Atomic!IsWellShaped
<1>7. EventFits(s, event, audit[p])
  BY <1>3, <1>4, <1>5
     DEF EventFits, Atomic!AuditType, Atomic!With, Atomic!IsAccountedFor, Atomic!Exists, Exists,
         Atomic!IsUnapproved, r
<1>8. LockFits(r, s, event, l, now)
  BY <1>3, <1>5 DEF LockFits, LeaseEvent
<1> QED
  BY <1>6, <1>7, <1>8 DEF Fits, r

(* claimNextPlan: the row was queued or its lock had expired at the moment *)
(* the claim looked at the clock, so it has expired still.                 *)
LEMMA ClaimFits ==
  ASSUME Atomic!IInv, NEW p \in Plan, NEW l \in Lease, NEW t \in Token, NEW project,
         NEW at \in 0..now, Claimable(plans[p], project, at)
  PROVE  Fits(plans[p], Locked(plans[p], l, t, at), "claim", l, audit[p], now)
<1> DEFINE r == plans[p]
           s == Locked(plans[p], l, t, at)
<1>1. r \in Record /\ r \in Atomic!Record /\ now \in Nat /\ at \in Nat /\ at <= now
  BY TableFacts, SameSets
<1>2. /\ s \in Atomic!Record
      /\ s.status = "locked"
      /\ s.lock = [leaseId |-> l, clientTokenId |-> t, expiresAt |-> at + LeaseTimeout]
      /\ s.lock # NoLock
      /\ s.completion = r.completion
      /\ s.reviewEvidence = r.reviewEvidence
      /\ s.approvalStatus = r.approvalStatus
  BY <1>1, AtomicAssumptions, SameFunctions, Atomic!LockedFacts
<1>3. s.lock.leaseId = l /\ s.lock.expiresAt = at + LeaseTimeout
  BY <1>2
<1>4. /\ Atomic!IsWellShaped(r)
      /\ Atomic!IsAccountedFor(r, audit[p])
      /\ Atomic!IsUnapproved(audit[p]) => r.approvalStatus \in {"pending", "rejected"}
  BY TableFacts
<1>5. r.approvalStatus \in {"approved", "not_required"} /\ r.status \in {"queued", "locked"}
  BY DEF Claimable
<1>6. IsTakeable(r, now)
  <2>1. r.lock # NoLock => r.lock.expiresAt \in Nat
    BY TableFacts DEF Lock
  <2> QED
    BY <1>1, <2>1 DEF Claimable, IsTakeable, HasExpired
<1> HIDE DEF r, s
<1>7. RecordFits(s)
  BY <1>2, <1>4, <1>5, SameSets DEF RecordFits, Atomic!IsWellShaped
<1>8. EventFits(s, "claim", audit[p])
  BY <1>2, <1>4, <1>5
     DEF EventFits, Atomic!AuditType, Atomic!With, Atomic!IsAccountedFor, Atomic!Exists, Atomic!IsUnapproved
<1>9. LockFits(r, s, "claim", l, now)
  BY <1>1, <1>2, <1>3, <1>6, TimeoutAssumption DEF LockFits, LeaseEvent, IsLeasedAs, IsDue
<1> QED
  BY <1>7, <1>8, <1>9 DEF Fits, r, s

(* Whoever passes assertLease has the row's lease, and the row was claimed. *)
LEMMA HolderFacts ==
  ASSUME Atomic!IInv, NEW p \in Plan, NEW l, NEW t, HoldsLease(plans[p], l, t, now)
  PROVE  /\ IsLeasedAs(plans[p], l)
         /\ plans[p].lock.clientTokenId = t
         /\ plans[p] \in Atomic!Record
         /\ "claim" \in audit[p]
         /\ ~Atomic!IsUnapproved(audit[p])
         /\ plans[p].completion = NoToken
         /\ plans[p].reviewEvidence = {}
         /\ Atomic!IsAccountedFor(plans[p], audit[p])
<1>1. /\ IsLeasedAs(plans[p], l)
      /\ plans[p].lock.clientTokenId = t
  BY DEF HoldsLease, IsLeasedAs
<1>2. /\ Atomic!IsWellShaped(plans[p])
      /\ Atomic!IsAccountedFor(plans[p], audit[p])
      /\ Atomic!IsUnapproved(audit[p]) => "claim" \notin audit[p]
  BY TableFacts
<1>3. "claim" \in audit[p] /\ plans[p].completion = NoToken /\ plans[p].reviewEvidence = {}
  BY <1>1, <1>2 DEF IsLeasedAs, Atomic!IsWellShaped, Atomic!IsAccountedFor
<1>4. plans[p] \in Atomic!Record
  BY TableFacts, SameSets
<1> QED
  BY <1>1, <1>2, <1>3, <1>4

(* An event on a claimed plan other than a submission cannot open a gate.  *)
LEMMA HolderEvent ==
  ASSUME NEW s, NEW events, "claim" \in events, ~Atomic!IsUnapproved(events),
         NEW event \in {"heartbeat", "progress", "release", "complete"},
         Atomic!IsAccountedFor(s, Atomic!With(events, event))
  PROVE  EventFits(s, event, events)
BY DEF EventFits, Atomic!AuditType, Atomic!With, Atomic!IsUnapproved

(* extendLease: the same lease, with an expiry from the clock just read.   *)
LEMMA HeartbeatFits ==
  ASSUME Atomic!IInv, NEW p \in Plan, NEW l \in Lease, NEW t \in Token,
         HoldsLease(plans[p], l, t, now)
  PROVE  Fits(plans[p], Extended(plans[p], l, t, now), "heartbeat", l, audit[p], now)
<1> DEFINE r == plans[p]
           s == Extended(plans[p], l, t, now)
<1>1. /\ IsLeasedAs(r, l) /\ r.lock.clientTokenId = t /\ r \in Atomic!Record
      /\ "claim" \in audit[p] /\ ~Atomic!IsUnapproved(audit[p])
      /\ r.completion = NoToken /\ r.reviewEvidence = {}
      /\ Atomic!IsAccountedFor(r, audit[p])
      /\ now \in Nat
  BY HolderFacts, TableFacts
<1>2. /\ s \in Atomic!Record
      /\ s.status = r.status
      /\ s.lock = [leaseId |-> l, clientTokenId |-> t, expiresAt |-> now + LeaseTimeout]
      /\ s.lock # NoLock
      /\ s.completion = r.completion
      /\ s.reviewEvidence = r.reviewEvidence
      /\ s.approvalStatus = r.approvalStatus
  <2>1. s = Atomic!Extended(plans[p], l, t, now)
    BY SameFunctions
  <2> HIDE DEF s
  <2> QED
    BY <1>1, <2>1, AtomicAssumptions, Atomic!ExtendedFacts
<1>3. s.lock.leaseId = l /\ s.lock.clientTokenId = t /\ s.lock.expiresAt = now + LeaseTimeout
  BY <1>2
<1> HIDE DEF r, s
<1>4. RecordFits(s)
  BY <1>1, <1>2, SameSets DEF RecordFits, Atomic!IsWellShaped, IsLeasedAs
<1>5. Atomic!IsAccountedFor(s, Atomic!With(audit[p], "heartbeat"))
  BY <1>1, <1>2 DEF Atomic!With, Atomic!AuditType, Atomic!IsAccountedFor, Atomic!Exists, IsLeasedAs
<1>6. LockFits(r, s, "heartbeat", l, now)
  BY <1>1, <1>2, <1>3, TimeoutAssumption DEF LockFits, LeaseEvent, IsLeasedAs, IsDue
<1> QED
  BY <1>1, <1>4, <1>5, <1>6, HolderEvent DEF Fits, r, s

(* progressPlan: the lock stays, whatever work loop is reported.           *)
LEMMA ProgressFits ==
  ASSUME Atomic!IInv, NEW p \in Plan, NEW l \in Lease, NEW t \in Token, NEW loop \in WorkLoop,
         HoldsLease(plans[p], l, t, now)
  PROVE  Fits(plans[p], Progressed(plans[p], loop), "progress", l, audit[p], now)
<1> DEFINE r == plans[p]
           s == Progressed(plans[p], loop)
<1>1. /\ IsLeasedAs(r, l) /\ r.lock.clientTokenId = t /\ r \in Atomic!Record
      /\ "claim" \in audit[p] /\ ~Atomic!IsUnapproved(audit[p])
      /\ r.completion = NoToken /\ r.reviewEvidence = {}
      /\ Atomic!IsAccountedFor(r, audit[p])
      /\ loop \in Atomic!WorkLoop
  BY HolderFacts, SameSets
<1>2. /\ s \in Atomic!Record
      /\ s.status = "locked"
      /\ s.lock = r.lock
      /\ s.completion = r.completion
      /\ s.reviewEvidence = r.reviewEvidence
      /\ s.approvalStatus = r.approvalStatus
  <2>1. s = Atomic!Progressed(plans[p], loop)
    BY SameFunctions
  <2> HIDE DEF s
  <2> QED
    BY <1>1, <2>1, AtomicAssumptions, Atomic!ProgressedFacts
<1> HIDE DEF r, s
<1>3. RecordFits(s)
  BY <1>1, <1>2, SameSets DEF RecordFits, Atomic!IsWellShaped, IsLeasedAs
<1>4. Atomic!IsAccountedFor(s, Atomic!With(audit[p], "progress"))
  BY <1>1, <1>2 DEF Atomic!With, Atomic!AuditType, Atomic!IsAccountedFor, Atomic!Exists, IsLeasedAs
<1>5. LockFits(r, s, "progress", l, now)
  BY <1>2 DEF LockFits, LeaseEvent
<1> QED
  BY <1>1, <1>3, <1>4, <1>5, HolderEvent DEF Fits, r, s

(* releasePlan: no lock is left, wherever releaseStatus sends the plan.    *)
LEMMA ReleaseFits ==
  ASSUME Atomic!IInv, NEW p \in Plan, NEW l \in Lease, NEW t \in Token, NEW loop \in WorkLoop,
         NEW reason \in ReleaseReason, HoldsLease(plans[p], l, t, now)
  PROVE  Fits(plans[p], Released(plans[p], loop, reason), "release", l, audit[p], now)
<1> DEFINE r == plans[p]
           s == Released(plans[p], loop, reason)
<1>1. /\ IsLeasedAs(r, l) /\ r.lock.clientTokenId = t /\ r \in Atomic!Record
      /\ "claim" \in audit[p] /\ ~Atomic!IsUnapproved(audit[p])
      /\ r.completion = NoToken /\ r.reviewEvidence = {}
      /\ Atomic!IsAccountedFor(r, audit[p])
      /\ loop \in Atomic!WorkLoop /\ reason \in Atomic!ReleaseReason
  BY HolderFacts, SameSets
<1>2. /\ s \in Atomic!Record
      /\ s.status \in {"queued", "blocked", "canceled"}
      /\ s.lock = NoLock
      /\ s.completion = r.completion
      /\ s.reviewEvidence = r.reviewEvidence
      /\ s.approvalStatus \in {"pending", "not_required"}
  <2>1. s = Atomic!Released(plans[p], loop, reason)
    BY SameFunctions
  <2> HIDE DEF s
  <2> QED
    BY <1>1, <2>1, AtomicAssumptions, Atomic!ReleasedFacts
<1> HIDE DEF r, s
<1>3. RecordFits(s)
  BY <1>1, <1>2, SameSets DEF RecordFits, Atomic!IsWellShaped
<1>4. Atomic!IsAccountedFor(s, Atomic!With(audit[p], "release"))
  BY <1>1, <1>2 DEF Atomic!With, Atomic!AuditType, Atomic!IsAccountedFor, Atomic!Exists, IsLeasedAs
<1>5. LockFits(r, s, "release", l, now)
  BY <1>1, <1>2 DEF LockFits, LeaseEvent
<1> QED
  BY <1>1, <1>3, <1>4, <1>5, HolderEvent DEF Fits, r, s

(* completePlan: no lock is left, and the token that completed it is.      *)
LEMMA CompleteFits ==
  ASSUME Atomic!IInv, NEW p \in Plan, NEW l \in Lease, NEW t \in Token, NEW loop \in WorkLoop,
         HoldsLease(plans[p], l, t, now)
  PROVE  Fits(plans[p], Completed(plans[p], loop, t), "complete", l, audit[p], now)
<1> DEFINE r == plans[p]
           s == Completed(plans[p], loop, t)
<1>1. /\ IsLeasedAs(r, l) /\ r.lock.clientTokenId = t /\ r \in Atomic!Record
      /\ "claim" \in audit[p] /\ ~Atomic!IsUnapproved(audit[p])
      /\ r.completion = NoToken /\ r.reviewEvidence = {}
      /\ Atomic!IsAccountedFor(r, audit[p])
      /\ loop \in Atomic!WorkLoop
  BY HolderFacts, SameSets
<1>2. /\ s \in Atomic!Record
      /\ s.status = "completed"
      /\ s.lock = NoLock
      /\ s.completion # NoToken
      /\ s.reviewEvidence = r.reviewEvidence
      /\ s.approvalStatus = r.approvalStatus
  <2>1. s = Atomic!Completed(plans[p], loop, t)
    BY SameFunctions
  <2> HIDE DEF s
  <2> QED
    BY <1>1, <2>1, AtomicAssumptions, Atomic!CompletedFacts
<1> HIDE DEF r, s
<1>3. RecordFits(s)
  BY <1>1, <1>2, SameSets DEF RecordFits, Atomic!IsWellShaped
<1>4. Atomic!IsAccountedFor(s, Atomic!With(audit[p], "complete"))
  BY <1>1, <1>2 DEF Atomic!With, Atomic!AuditType, Atomic!IsAccountedFor, Atomic!Exists, IsLeasedAs
<1>5. LockFits(r, s, "complete", l, now)
  BY <1>1, <1>2 DEF LockFits, LeaseEvent
<1> QED
  BY <1>1, <1>3, <1>4, <1>5, HolderEvent DEF Fits, r, s

(* attachPlanReviewEvidence: a completed plan stays one.                   *)
LEMMA AttachFits ==
  ASSUME Atomic!IInv, NEW p \in Plan, NEW e \in Evidence, NEW l,
         CanAttachEvidence(plans[p], e)
  PROVE  Fits(plans[p], WithEvidence(plans[p], e), "attach_review_evidence", l, audit[p], now)
<1> DEFINE r == plans[p]
           s == WithEvidence(plans[p], e)
<1>1. /\ r \in Atomic!Record
      /\ r.status = "completed"
      /\ Atomic!IsWellShaped(r)
      /\ Atomic!IsAccountedFor(r, audit[p])
      /\ Atomic!IsUnapproved(audit[p])
           => r.approvalStatus \in {"pending", "rejected"} /\ "claim" \notin audit[p]
  BY TableFacts, SameSets DEF CanAttachEvidence
<1>2. /\ s \in Atomic!Record
      /\ s.status = r.status
      /\ s.workLoop = r.workLoop
      /\ s.lock = r.lock
      /\ s.completion = r.completion
      /\ r.reviewEvidence \subseteq s.reviewEvidence
      /\ s.approvalStatus = r.approvalStatus
  <2>1. s = Atomic!WithEvidence(plans[p], e)
    BY SameFunctions
  <2> HIDE DEF s
  <2> QED
    BY <1>1, <2>1, AtomicAssumptions, Atomic!EvidenceFacts
<1> HIDE DEF r, s
<1>3. RecordFits(s)
  BY <1>1, <1>2, SameSets DEF RecordFits, Atomic!IsWellShaped
<1>4. EventFits(s, "attach_review_evidence", audit[p])
  BY <1>1, <1>2
     DEF EventFits, Atomic!AuditType, Atomic!With, Atomic!IsAccountedFor, Atomic!Exists, Atomic!IsUnapproved
<1>5. LockFits(r, s, "attach_review_evidence", l, now)
  BY <1>2 DEF LockFits, LeaseEvent
<1> QED
  BY <1>3, <1>4, <1>5 DEF Fits, r, s

-----------------------------------------------------------------------------
(* Steps that leave the tables alone *)

(* The atomic store's invariant is about the tables and the clock only.    *)
LEMMA TablesStay ==
  ASSUME Atomic!IInv, UnchangedTables, UNCHANGED now
  PROVE  Atomic!IInv'
<1>1. UNCHANGED Atomic!vars
  BY DEF UnchangedTables, Atomic!vars
<1> QED
  BY <1>1, AtomicAssumptions, Atomic!StutterStep

(* One connection moves at a time.                                         *)
LEMMA OneCallMoves ==
  ASSUME CallsTyped, NEW c \in Call, NEW call, Goto(c, call)
  PROVE  /\ calls' = [d \in Call |-> calls'[d]]
         /\ calls'[c] = call
         /\ \A d \in Call : d # c => calls'[d] = calls[d]
BY DEF CallsTyped, Goto

(* A transaction that locks a row nobody holds and computes a record that  *)
(* fits it; a claim keeps the lease id it has drawn.                       *)
LEMMA HoldStep ==
  ASSUME SqlInv, NEW c \in Call, NEW p \in Plan, NEW s, NEW event, NEW l,
         calls[c].pc # "commit", ~IsLocked(p), Hold(c, p, s, event, l),
         Fits(plans[p], s, event, l, audit[p], now),
         event = "claim" => Draws(calls[c], l)
  PROVE  SqlInv'
<1> DEFINE call == [pc |-> "commit", plan |-> p, next |-> s, event |-> event, lease |-> l]
<1>1. CallsInv /\ Atomic!IInv
  BY DEF SqlInv
<1>2. Goto(c, call) /\ UnchangedTables /\ now' = now
  BY DEF Hold
<1>3. /\ call.pc = "commit" /\ call.plan = p /\ call.next = s
      /\ call.event = event /\ call.lease = l
  OBVIOUS
<1> HIDE DEF call
<1>4. /\ calls' = [d \in Call |-> calls'[d]]
      /\ calls'[c] = call
      /\ \A d \in Call : d # c => calls'[d] = calls[d]
  BY <1>1, <1>2, OneCallMoves DEF CallsInv
<1>5. plans' = plans /\ audit' = audit /\ grants' = grants
  BY <1>2 DEF UnchangedTables
<1>6. CallsTyped'
  BY <1>1, <1>2, <1>3, <1>4 DEF CallsInv, CallsTyped, IsCall
<1>7. RowsAreHeldOnce'
  <2>1. \A d \in Call : calls[d].pc = "commit" => calls[d].plan # p
    BY DEF IsLocked
  <2> QED
    BY <1>1, <1>3, <1>4, <2>1 DEF CallsInv, RowsAreHeldOnce
<1>8. \A d \in Call, k \in Lease : Draws(calls'[d], k) => Draws(calls[d], k)
  BY <1>3, <1>4 DEF Draws
<1>9. DrawsAreFresh'
  BY <1>1, <1>5, <1>8 DEF CallsInv, DrawsAreFresh
<1>10. HeldWritesFit'
  BY <1>1, <1>2, <1>3, <1>4, <1>5 DEF CallsInv, HeldWritesFit, FitsItsRow
<1> QED
  BY <1>1, <1>2, <1>6, <1>7, <1>9, <1>10, TablesStay DEF SqlInv, CallsInv

(* A transaction that rolls back, or a claim that finds nothing.           *)
LEMMA GiveUpStep ==
  ASSUME SqlInv, NEW c \in Call, Goto(c, Idle), UnchangedTables, UNCHANGED now
  PROVE  SqlInv'
<1>1. CallsInv /\ Atomic!IInv
  BY DEF SqlInv
<1>2. /\ calls' = [d \in Call |-> calls'[d]]
      /\ calls'[c] = Idle
      /\ \A d \in Call : d # c => calls'[d] = calls[d]
  BY <1>1, OneCallMoves DEF CallsInv
<1>3. Idle.pc = "idle"
  BY DEF Idle
<1>4. plans' = plans /\ audit' = audit /\ grants' = grants
  BY DEF UnchangedTables
<1>5. CallsTyped' /\ RowsAreHeldOnce'
  BY <1>1, <1>2, <1>3 DEF CallsInv, CallsTyped, IsCall, RowsAreHeldOnce
<1>6. DrawsAreFresh'
  BY <1>1, <1>2, <1>3, <1>4 DEF CallsInv, DrawsAreFresh, Draws
<1>7. HeldWritesFit'
  BY <1>1, <1>2, <1>3, <1>4 DEF CallsInv, HeldWritesFit, FitsItsRow
<1> QED
  BY <1>1, <1>5, <1>6, <1>7, TablesStay DEF SqlInv, CallsInv

(* claimNextPlan draws a lease id and reads the clock.                     *)
LEMMA DrawStep ==
  ASSUME SqlInv, NEW c \in Call, NEW t \in Token, NEW l \in Lease, NEW plan, NEW project,
         ClaimNextPlan(c, t, l, plan, project)
  PROVE  SqlInv'
<1> DEFINE call == [pc |-> "claim", token |-> t, lease |-> l, plan |-> plan,
                    project |-> project, at |-> now]
<1>1. CallsInv /\ Atomic!IInv
  BY DEF SqlInv
<1>2. Goto(c, call) /\ UnchangedTables /\ now' = now /\ ~IsDrawn(l)
  BY DEF ClaimNextPlan
<1>3. call.pc = "claim" /\ call.lease = l /\ call.token = t /\ call.at = now
  OBVIOUS
<1> HIDE DEF call
<1>4. /\ calls' = [d \in Call |-> calls'[d]]
      /\ calls'[c] = call
      /\ \A d \in Call : d # c => calls'[d] = calls[d]
  BY <1>1, <1>2, OneCallMoves DEF CallsInv
<1>5. plans' = plans /\ audit' = audit /\ grants' = grants
  BY <1>2 DEF UnchangedTables
<1>6. CallsTyped'
  <2>1. now \in 0..now
    BY <1>1, TableFacts
  <2> QED
    BY <1>1, <1>2, <1>3, <1>4, <2>1 DEF CallsInv, CallsTyped, IsCall
<1>7. RowsAreHeldOnce'
  BY <1>1, <1>3, <1>4 DEF CallsInv, RowsAreHeldOnce
<1>8. DrawsAreFresh'
  <2>1. grants[l] = NoGrant /\ \A d \in Call : ~Draws(calls[d], l)
    BY <1>2 DEF IsDrawn
  <2>2. \A k \in Lease : Draws(call, k) => k = l
    BY <1>3 DEF Draws
  <2> QED
    BY <1>1, <1>4, <1>5, <2>1, <2>2 DEF CallsInv, DrawsAreFresh
<1>9. HeldWritesFit'
  BY <1>1, <1>2, <1>3, <1>4, <1>5 DEF CallsInv, HeldWritesFit, FitsItsRow
<1> QED
  BY <1>1, <1>2, <1>6, <1>7, <1>8, <1>9, TablesStay DEF SqlInv, CallsInv

(* Time passes under an open transaction: what had expired stays expired,  *)
(* and what was due by then is due.                                        *)
LEMMA TimeStep ==
  ASSUME SqlInv, Tick
  PROVE  SqlInv'
<1>1. CallsInv /\ Atomic!IInv
  BY DEF SqlInv
<1>2. /\ now' = now + 1
      /\ plans' = plans /\ audit' = audit /\ grants' = grants /\ calls' = calls
  BY DEF Tick, Store!Tick
<1>3. now \in Nat /\ LeaseTimeout \in Nat
  BY <1>1, TableFacts, TimeoutAssumption
<1>4. Atomic!IInv'
  <2>1. Atomic!Tick
    BY DEF Tick, Store!Tick, Atomic!Tick
  <2> QED
    BY <1>1, <2>1, AtomicAssumptions, Atomic!TickStep
<1>5. CallsTyped'
  <2>1. 0..now \subseteq 0..(now + 1)
    BY <1>3
  <2> QED
    BY <1>1, <1>2, <2>1 DEF CallsInv, CallsTyped, IsCall
<1>6. RowsAreHeldOnce' /\ DrawsAreFresh'
  BY <1>1, <1>2 DEF CallsInv, RowsAreHeldOnce, DrawsAreFresh
<1>7. ASSUME NEW r \in Record, NEW s \in Record, NEW event, NEW l, LockFits(r, s, event, l, now)
      PROVE  LockFits(r, s, event, l, now + 1)
  <2>1. /\ r.lock # NoLock => r.lock.expiresAt \in Nat
        /\ s.lock # NoLock => s.lock.expiresAt \in Nat
    BY DEF Record, Lock
  <2>2. IsTakeable(r, now) => IsTakeable(r, now + 1)
    BY <1>3, <2>1 DEF IsTakeable, HasExpired
  <2>3. IsLeasedAs(s, l) /\ IsDue(s.lock, now) => IsDue(s.lock, now + 1)
    BY <1>3, <2>1 DEF IsLeasedAs, IsDue
  <2> QED
    BY <1>7, <2>2, <2>3 DEF LockFits
<1>8. HeldWritesFit'
  <2> SUFFICES ASSUME NEW c \in Call, calls[c].pc = "commit"
               PROVE  Fits(plans[calls[c].plan], calls[c].next, calls[c].event,
                           calls[c].lease, audit[calls[c].plan], now + 1)
    BY <1>2 DEF HeldWritesFit, FitsItsRow
  <2>1. Fits(plans[calls[c].plan], calls[c].next, calls[c].event,
             calls[c].lease, audit[calls[c].plan], now)
    BY <1>1 DEF CallsInv, HeldWritesFit, FitsItsRow
  <2>2. plans[calls[c].plan] \in Record /\ calls[c].next \in Record
    BY <1>1, <2>1, TableFacts DEF CallsInv, CallsTyped, IsCall, Fits, RecordFits
  <2> QED
    BY <1>7, <2>1, <2>2 DEF Fits
<1> QED
  BY <1>4, <1>5, <1>6, <1>8 DEF SqlInv, CallsInv

-----------------------------------------------------------------------------
(* The commit *)

(* What the grants become when s is written over r.                        *)
GrantsFollow(p, r, s, event, l) ==
    /\ event \in {"claim", "heartbeat"} => Atomic!Regrants(l, Atomic!GrantOf(p, s.lock, TRUE))
    /\ event \in {"release", "complete"} => Atomic!Regrants(l, Atomic!GrantOf(p, r.lock, FALSE))
    /\ event \notin LeaseEvent => grants' = grants

(* The transaction that c commits, in the terms of the atomic store.       *)
LEMMA CommitFacts ==
  ASSUME SqlInv, NEW c \in Call, Commit(c)
  PROVE  /\ calls[c].plan \in Plan
         /\ FitsItsRow(calls[c])
         /\ calls[c].next \in Atomic!Record
         /\ Atomic!Writes(calls[c].plan, calls[c].next, calls[c].event)
         /\ verdict' \in [Plan -> Atomic!Verdict]
         /\ Goto(c, Idle)
         /\ grants' = Regranted(calls[c])
         /\ now' = now
<1> DEFINE call == calls[c]
<1>1. call.pc = "commit" /\ Atomic!TypeOK
  BY DEF Commit, SqlInv, Atomic!IInv
<1>2. call.plan \in Plan /\ FitsItsRow(call)
  BY <1>1 DEF SqlInv, CallsInv, CallsTyped, IsCall, HeldWritesFit
<1>3. call.next \in Atomic!Record
  BY <1>2, SameSets DEF FitsItsRow, Fits, RecordFits, EventFits
<1> HIDE DEF call
<1>4. /\ plans' = [plans EXCEPT ![call.plan] = call.next]
      /\ audit' = [audit EXCEPT ![call.plan] = Atomic!With(@, call.event)]
      /\ verdict' = [verdict EXCEPT ![call.plan] =
                       IF call.event \in Store!Verdict THEN call.event ELSE @]
      /\ grants' = Regranted(call)
      /\ Goto(c, Idle)
      /\ now' = now
  BY DEF Commit, call, Atomic!With, Store!With, Atomic!AuditType, Store!AuditType
<1>5. Atomic!Writes(call.plan, call.next, call.event)
  <2>1. \A log \in SUBSET Atomic!AuditType :
          Atomic!With(log, call.event) \in SUBSET Atomic!AuditType
    BY DEF Atomic!With
  <2>2. audit' \in [Plan -> SUBSET Atomic!AuditType]
    BY <1>1, <1>2, <1>4, <2>1 DEF Atomic!TypeOK
  <2>3. /\ audit'[call.plan] = Atomic!With(audit[call.plan], call.event)
        /\ \A q \in Plan : q # call.plan => audit'[q] = audit[q]
    BY <1>1, <1>2, <1>4 DEF Atomic!TypeOK
  <2>4. /\ audit'[call.plan] \cup [p \in Plan |-> {}]'[call.plan]
              = Atomic!With(Atomic!Happened(call.plan), call.event)
        /\ \A q \in Plan : q # call.plan => Atomic!Happened(q)' = Atomic!Happened(q)
    BY <1>2, <2>3, NothingUnlogged DEF Atomic!Happened
  <2>5. [p \in Plan |-> {}] \in [Plan -> SUBSET Atomic!AuditType]
    OBVIOUS
  <2> QED
    BY <1>1, <1>2, <1>3, <1>4, <2>2, <2>4, <2>5 DEF Atomic!Writes, Atomic!TypeOK
<1>6. verdict' \in [Plan -> Atomic!Verdict]
  BY <1>1, <1>4 DEF Atomic!TypeOK, Atomic!Verdict, Store!Verdict
<1> QED
  BY <1>2, <1>3, <1>4, <1>5, <1>6 DEF call

(* The lock of a row is a granted lease, and a lease of this row only.     *)
LEMMA RowHasGrant ==
  ASSUME Atomic!IInv, NEW p \in Plan, NEW l, IsLeasedAs(plans[p], l)
  PROVE  /\ l \in Lease
         /\ plans[p].lock \in Lock
         /\ grants[l] = Atomic!GrantOf(p, plans[p].lock, TRUE)
         /\ grants[l] \in Atomic!Grant
         /\ grants[l] # NoGrant
         /\ grants[l].plan = p
<1>1. Atomic!TypeOK /\ Atomic!LockIsGranted /\ plans[p].lock # NoLock
  BY DEF Atomic!IInv, IsLeasedAs
<1>2. /\ plans[p].lock \in Atomic!Lock
      /\ plans[p].lock.leaseId \in Lease
      /\ plans[p].lock.expiresAt \in Nat
      /\ grants[plans[p].lock.leaseId] = Atomic!GrantOf(p, plans[p].lock, TRUE)
      /\ grants[plans[p].lock.leaseId] \in Atomic!Grant
      /\ grants[plans[p].lock.leaseId] # NoGrant
      /\ grants[plans[p].lock.leaseId].plan = p
  BY <1>1, AtomicAssumptions, Atomic!LockHasGrant
<1> QED
  BY <1>2, SameSets DEF IsLeasedAs

(* A claim's executor is told the lock it got, a heartbeat's its expiry,   *)
(* and a release or completion ends what the executor was told.            *)
LEMMA GrantsAreFollowed ==
  ASSUME Atomic!IInv, NEW p \in Plan, NEW s \in Record, NEW call,
         call.plan = p, call.next = s,
         LockFits(plans[p], s, call.event, call.lease, now),
         grants' = Regranted(call)
  PROVE  GrantsFollow(p, plans[p], s, call.event, call.lease)
<1> DEFINE r == plans[p]
           l == call.lease
           new == Atomic!GrantOf(p, s.lock, TRUE)
           closed == Atomic!GrantOf(p, r.lock, FALSE)
<1>1. Atomic!TypeOK /\ now \in Nat
  BY TableFacts DEF Atomic!IInv
<1>2. /\ new.plan = p /\ new.token = s.lock.clientTokenId
      /\ new.expiresAt = s.lock.expiresAt /\ new.open = TRUE
  BY DEF Atomic!GrantOf
<1>3. /\ closed.plan = p /\ closed.token = r.lock.clientTokenId
      /\ closed.expiresAt = r.lock.expiresAt /\ closed.open = FALSE
  BY DEF Atomic!GrantOf
<1>4. ASSUME IsLeasedAs(s, l) PROVE new \in Atomic!Grant /\ s.lock.expiresAt \in Nat
  <2>1. s.lock.clientTokenId \in Token /\ s.lock.expiresAt \in Nat
    BY <1>4 DEF IsLeasedAs, Record, Lock
  <2> QED
    BY <2>1 DEF Atomic!GrantOf, Atomic!Grant
<1>5. ASSUME IsLeasedAs(r, l)
      PROVE  /\ l \in Lease
             /\ grants[l] \in Atomic!Grant
             /\ grants[l].plan = p
             /\ grants[l].token = r.lock.clientTokenId
             /\ grants[l].expiresAt = r.lock.expiresAt
             /\ grants[l].open = TRUE
             /\ closed \in Atomic!Grant
  <2>1. /\ l \in Lease /\ r.lock \in Lock /\ grants[l] \in Atomic!Grant
        /\ grants[l] = Atomic!GrantOf(p, r.lock, TRUE)
    BY <1>5, RowHasGrant
  <2>2. closed \in Atomic!Grant
    BY <2>1 DEF Atomic!GrantOf, Atomic!Grant, Lock
  <2> QED
    BY <2>1, <2>2 DEF Atomic!GrantOf
<1> HIDE DEF new, closed
<1>6. CASE call.event = "claim"
  <2>1. l \in Lease /\ IsLeasedAs(s, l)
    BY <1>6 DEF LockFits
  <2>2. grants' = [grants EXCEPT ![l] = new]
    BY <1>6 DEF Regranted, new, Atomic!GrantOf
  <2>3. Atomic!Regrants(l, new)
    BY <1>1, <1>4, <2>1, <2>2, AtomicAssumptions, Atomic!RegrantEffect
  <2> QED
    BY <1>6, <2>3 DEF GrantsFollow, LeaseEvent, new
<1>7. CASE call.event = "heartbeat"
  <2>1. IsLeasedAs(r, l) /\ IsLeasedAs(s, l) /\ s.lock.clientTokenId = r.lock.clientTokenId
    BY <1>7 DEF LockFits
  <2>2. grants' = [grants EXCEPT ![l] = [grants[l] EXCEPT !.expiresAt = s.lock.expiresAt]]
    BY <1>7 DEF Regranted
  <2>3. [grants[l] EXCEPT !.expiresAt = s.lock.expiresAt] = new
    <3>1. /\ grants[l] \in Atomic!Grant /\ new \in Atomic!Grant /\ s.lock.expiresAt \in Nat
          /\ new.plan = grants[l].plan /\ new.token = grants[l].token
          /\ new.expiresAt = s.lock.expiresAt /\ new.open = grants[l].open
      BY <1>2, <1>4, <1>5, <2>1
    <3> QED
      BY <3>1, AtomicAssumptions, Atomic!GrantExpiry
  <2>4. Atomic!Regrants(l, new)
    BY <1>1, <1>4, <1>5, <2>1, <2>2, <2>3, AtomicAssumptions, Atomic!RegrantEffect
  <2> QED
    BY <1>7, <2>4 DEF GrantsFollow, LeaseEvent, new
<1>8. CASE call.event \in {"release", "complete"}
  <2>1. IsLeasedAs(r, l)
    BY <1>8 DEF LockFits
  <2>2. grants' = [grants EXCEPT ![l] = [grants[l] EXCEPT !.open = FALSE]]
    BY <1>8 DEF Regranted
  <2>3. [grants[l] EXCEPT !.open = FALSE] = closed
    BY <1>3, <1>5, <2>1, AtomicAssumptions, Atomic!GrantClosing
  <2>4. Atomic!Regrants(l, closed)
    BY <1>1, <1>5, <2>1, <2>2, <2>3, AtomicAssumptions, Atomic!RegrantEffect
  <2> QED
    BY <1>8, <2>4 DEF GrantsFollow, LeaseEvent, closed
<1>9. CASE call.event \notin LeaseEvent
  <2>1. grants' = grants
    BY <1>9 DEF Regranted, LeaseEvent
  <2> QED
    BY <1>9, <2>1 DEF GrantsFollow, LeaseEvent
<1> QED
  BY <1>6, <1>7, <1>8, <1>9 DEF LeaseEvent

(* The tables after a commit satisfy the atomic store's invariant, though  *)
(* the clock has moved on: the lease a late heartbeat extends is still the *)
(* row's, and the plan a late claim takes is still free.                   *)
LEMMA TablesAfterCommit ==
  ASSUME Atomic!IInv, NEW p \in Plan, NEW s \in Record, NEW event, NEW l,
         Fits(plans[p], s, event, l, audit[p], now),
         Atomic!Writes(p, s, event),
         GrantsFollow(p, plans[p], s, event, l),
         event = "claim" => grants[l] = NoGrant,
         verdict' \in [Plan -> Atomic!Verdict]
  PROVE  Atomic!IInv'
<1> DEFINE r == plans[p]
           new == Atomic!GrantOf(p, s.lock, TRUE)
           closed == Atomic!GrantOf(p, r.lock, FALSE)
<1>1. /\ Atomic!TypeOK
      /\ Atomic!RecordShape
      /\ Atomic!LockIsGranted
      /\ Atomic!LiveLeaseIsHonoured
      /\ Atomic!AuditExplainsRecord
      /\ Atomic!GateIsShut
      /\ now \in Nat
  BY TableFacts DEF Atomic!IInv
<1>2. LockFits(r, s, event, l, now) /\ EventFits(s, event, audit[p]) /\ Atomic!IsWellShaped(s)
  BY DEF Fits, RecordFits
<1>3. /\ event \in {"claim", "heartbeat"} => Atomic!Regrants(l, new)
      /\ event \in {"release", "complete"} => Atomic!Regrants(l, closed)
      /\ event \notin LeaseEvent => grants' = grants
  BY DEF GrantsFollow
<1>4. IsLeasedAs(r, l) => l \in Lease /\ grants[l].plan = p
  BY RowHasGrant
<1>5. ASSUME NEW k \in Lease, Atomic!IsLive(k), grants[k].plan = p
      PROVE  r.status = "locked" /\ r.lock.leaseId = k /\ ~HasExpired(r.lock, now)
  <2>1. /\ plans[p].status = "locked"
        /\ plans[p].lock.leaseId = k
        /\ ~Atomic!HasExpired(plans[p].lock, now)
    BY <1>1, <1>5, AtomicAssumptions, Atomic!OnlyTheLockIsLive
  <2> QED
    BY <2>1 DEF HasExpired, Atomic!HasExpired
<1>6. IsTakeable(r, now) => \A k \in Lease : Atomic!IsLive(k) => grants[k].plan # p
  BY <1>5 DEF IsTakeable
<1>7. IsLeasedAs(r, l) => \A k \in Lease : k # l /\ Atomic!IsLive(k) => grants[k].plan # p
  BY <1>5 DEF IsLeasedAs
<1>8. new.plan = p /\ new.token = s.lock.clientTokenId /\ new.expiresAt = s.lock.expiresAt
  BY DEF Atomic!GrantOf
<1>9. closed.plan = p /\ ~closed.open
  BY DEF Atomic!GrantOf
<1> HIDE DEF r, closed
<1>10. Atomic!TypeOK'
  <2>1. grants' \in [Lease -> Atomic!Grant \cup {NoGrant}]
    BY <1>1, <1>3 DEF Atomic!Regrants, Atomic!TypeOK, LeaseEvent
  <2> QED
    BY <1>1, <2>1, AtomicAssumptions, Atomic!TypeAfter
<1>11. Atomic!RecordShape'
  BY <1>1, <1>2, AtomicAssumptions, Atomic!ShapeAfter
<1>12. Atomic!AuditExplainsRecord'
  <2>1. Atomic!IsAccountedFor(s, Atomic!With(audit[p], event))
    BY <1>2 DEF EventFits
  <2> QED
    BY <1>1, <2>1, NothingUnlogged, AtomicAssumptions, Atomic!AuditAfter
<1>13. Atomic!GateIsShut'
  <2>1. Atomic!IsUnapproved(Atomic!With(audit[p], event))
          => s.approvalStatus \in {"pending", "rejected"} /\ "claim" \notin Atomic!With(audit[p], event)
    BY <1>2 DEF EventFits
  <2> QED
    BY <1>1, <2>1, NothingUnlogged, AtomicAssumptions, Atomic!GateAfter
<1>14. CASE event \in {"claim", "heartbeat"}
  <2>1. /\ IsLeasedAs(s, l) /\ l \in Lease /\ Atomic!Regrants(l, new)
        /\ event = "claim" => IsTakeable(r, now)
        /\ event = "heartbeat" => IsLeasedAs(r, l)
    BY <1>2, <1>3, <1>4, <1>14 DEF LockFits
  <2>2. grants[l] = NoGrant \/ grants[l].plan = p
    BY <1>4, <1>14, <2>1
  <2>3. s.lock.leaseId = l
    BY <2>1 DEF IsLeasedAs
  <2>4. Atomic!LockIsGranted'
    BY <1>1, <2>1, <2>2, <2>3, AtomicAssumptions, Atomic!LockAfterRegrant
  <2>5. ~Atomic!HasExpired(new, now)
          => /\ Atomic!HoldsLease(s, l, new.token, now)
             /\ s.lock.expiresAt = new.expiresAt
    BY <1>8, <2>1 DEF IsLeasedAs, Atomic!HoldsLease, Atomic!HasExpired
  <2>6. \A k \in Lease : k # l /\ Atomic!IsLive(k) => grants[k].plan # p
    BY <1>6, <1>7, <1>14, <2>1
  <2> HIDE DEF new
  <2>7. Atomic!LiveLeaseIsHonoured'
    BY <1>1, <1>8, <2>1, <2>5, <2>6, AtomicAssumptions, Atomic!LiveAfterRegrant
  <2> QED
    BY <1>10, <1>11, <1>12, <1>13, <2>4, <2>7 DEF Atomic!IInv
<1>15. CASE event \in {"release", "complete"}
  <2>1. IsLeasedAs(r, l) /\ l \in Lease /\ Atomic!Regrants(l, closed) /\ s.lock = NoLock
    BY <1>2, <1>3, <1>4, <1>15 DEF LockFits
  <2>2. Atomic!LockIsGranted'
    BY <1>1, <1>4, <2>1, AtomicAssumptions, Atomic!LockAfterRegrant
  <2>3. Atomic!LiveLeaseIsHonoured'
    BY <1>1, <1>7, <1>9, <2>1, AtomicAssumptions, Atomic!LiveAfterRegrant
  <2> QED
    BY <1>10, <1>11, <1>12, <1>13, <2>2, <2>3 DEF Atomic!IInv
<1>16. CASE event \notin LeaseEvent
  <2>1. /\ s.lock = plans[p].lock
        /\ plans[p].status = "locked" => s.status = "locked"
        /\ grants' = grants
    BY <1>2, <1>3, <1>16 DEF LockFits, r
  <2>2. Atomic!LockIsGranted'
    BY <1>1, <2>1, AtomicAssumptions, Atomic!LockAfterWrite
  <2>3. Atomic!LiveLeaseIsHonoured'
    BY <1>1, <2>1, AtomicAssumptions, Atomic!LiveAfterWrite
  <2> QED
    BY <1>10, <1>11, <1>12, <1>13, <2>2, <2>3 DEF Atomic!IInv
<1> QED
  BY <1>14, <1>15, <1>16 DEF LeaseEvent

(* The commit of one transaction leaves the others' rows and fresh leases  *)
(* alone: their rows are other rows, and no two claims draw the same id.   *)
LEMMA CommitStep ==
  ASSUME SqlInv, NEW c \in Call, Commit(c)
  PROVE  SqlInv'
<1> DEFINE call == calls[c]
           p == call.plan
           s == call.next
           event == call.event
           l == call.lease
<1>1. CallsInv /\ Atomic!IInv /\ call.pc = "commit"
  BY DEF SqlInv, Commit
<1>2. /\ p \in Plan
      /\ FitsItsRow(call)
      /\ s \in Atomic!Record
      /\ Atomic!Writes(p, s, event)
      /\ verdict' \in [Plan -> Atomic!Verdict]
      /\ Goto(c, Idle)
      /\ grants' = Regranted(call)
      /\ now' = now
  BY CommitFacts
<1> HIDE DEF call
<1>3. Fits(plans[p], s, event, l, audit[p], now) /\ s \in Record
  BY <1>2, SameSets DEF FitsItsRow
<1>4. LockFits(plans[p], s, event, l, now)
  BY <1>3 DEF Fits
<1>5. GrantsFollow(p, plans[p], s, event, l)
  BY <1>1, <1>2, <1>3, <1>4, GrantsAreFollowed
<1>6. event = "claim" => grants[l] = NoGrant /\ Draws(call, l) /\ l \in Lease
  BY <1>1, <1>4 DEF LockFits, CallsInv, DrawsAreFresh, Draws, call
<1>7. Atomic!IInv'
  BY <1>1, <1>2, <1>3, <1>5, <1>6, TablesAfterCommit
<1>8. /\ calls' = [d \in Call |-> calls'[d]]
      /\ calls'[c] = Idle
      /\ \A d \in Call : d # c => calls'[d] = calls[d]
  BY <1>1, <1>2, OneCallMoves DEF CallsInv
<1>9. Idle.pc = "idle"
  BY DEF Idle
<1>10. CallsTyped' /\ RowsAreHeldOnce'
  BY <1>1, <1>2, <1>8, <1>9 DEF CallsInv, CallsTyped, IsCall, RowsAreHeldOnce
<1>11. DrawsAreFresh'
  <2>1. ASSUME NEW d \in Call, NEW k \in Lease, d # c, Draws(calls[d], k)
        PROVE  grants'[k] = grants[k]
    <3>1. grants[k] = NoGrant
      BY <1>1, <2>1 DEF CallsInv, DrawsAreFresh
    <3>2. CASE event = "claim"
      <4>1. k # l
        BY <1>1, <1>6, <2>1, <3>2 DEF CallsInv, DrawsAreFresh, call
      <4> QED
        BY <1>5, <3>2, <4>1 DEF GrantsFollow, Atomic!Regrants
    <3>3. CASE event \in {"heartbeat", "release", "complete"}
      <4>1. IsLeasedAs(plans[p], l)
        BY <1>4, <3>3 DEF LockFits
      <4>2. k # l
        BY <1>1, <1>2, <3>1, <4>1, RowHasGrant
      <4> QED
        BY <1>5, <3>3, <4>2 DEF GrantsFollow, Atomic!Regrants
    <3>4. CASE event \notin LeaseEvent
      BY <1>5, <3>4 DEF GrantsFollow
    <3> QED
      BY <3>2, <3>3, <3>4 DEF LeaseEvent
  <2>2. \A k \in Lease : ~Draws(calls'[c], k)
    BY <1>8, <1>9 DEF Draws
  <2> QED
    BY <1>1, <1>8, <2>1, <2>2 DEF CallsInv, DrawsAreFresh
<1>12. HeldWritesFit'
  <2> SUFFICES ASSUME NEW d \in Call, calls'[d].pc = "commit"
               PROVE  Fits(plans'[calls'[d].plan], calls'[d].next, calls'[d].event,
                           calls'[d].lease, audit'[calls'[d].plan], now')
    BY DEF HeldWritesFit, FitsItsRow
  <2>1. d # c /\ calls'[d] = calls[d]
    BY <1>8, <1>9
  <2>2. calls[d].plan # p /\ calls[d].plan \in Plan /\ FitsItsRow(calls[d])
    BY <1>1, <2>1 DEF CallsInv, CallsTyped, IsCall, RowsAreHeldOnce, HeldWritesFit, call
  <2>3. plans'[calls[d].plan] = plans[calls[d].plan] /\ audit'[calls[d].plan] = audit[calls[d].plan]
    BY <1>2, <2>2, NothingUnlogged DEF Atomic!Writes
  <2> QED
    BY <1>2, <2>1, <2>2, <2>3 DEF FitsItsRow
<1> QED
  BY <1>7, <1>10, <1>11, <1>12 DEF SqlInv, CallsInv

-----------------------------------------------------------------------------
(* Every step *)

(* The initial tables are the atomic store's, and every connection is idle. *)
LEMMA InitSqlInv == Init => SqlInv
<1> SUFFICES ASSUME Init PROVE SqlInv
  OBVIOUS
<1>1. Atomic!IInv
  <2>1. Atomic!Init
    <3>1. NoPlan = Store!NoPlan /\ NoPlan = Atomic!NoPlan
      BY SameSets DEF NoPlan, Store!NoPlan, Atomic!NoPlan, WorkLoop, Store!WorkLoop,
                      WorkLoopStatus, Store!WorkLoopStatus
    <3> QED
      BY <3>1 DEF Init, Store!Init, Atomic!Init
  <2> QED
    BY <2>1, AtomicAssumptions, Atomic!InitIInv
<1>2. calls = [c \in Call |-> calls[c]] /\ \A c \in Call : calls[c] = Idle
  BY DEF Init
<1>3. Idle.pc = "idle"
  BY DEF Idle
<1>4. CallsInv
  BY <1>2, <1>3 DEF CallsInv, CallsTyped, IsCall, RowsAreHeldOnce, DrawsAreFresh, Draws,
                    HeldWritesFit
<1> QED
  BY <1>1, <1>4 DEF SqlInv

(* createPlan, updatePlan and the select of a claim hold a row that nobody *)
(* else holds, for a write that fits it.                                   *)
LEMMA CreateStep ==
  ASSUME SqlInv, NEW c \in Call, NEW p \in Plan, NEW loop \in LoopInput, NEW asked \in BOOLEAN,
         CreatePlan(c, p, loop, asked)
  PROVE  SqlInv'
<1> DEFINE required == ForceApproval \/ asked
           event == IF required THEN "submit_for_approval" ELSE "submit"
<1>1. required \in BOOLEAN
  BY SqlAssumption
<1>2. Atomic!IInv /\ calls[c].pc # "commit"
  BY DEF SqlInv, CreatePlan, IsIdle, Idle
<1>3. /\ ~Exists(plans[p]) /\ ~IsLocked(p)
      /\ Hold(c, p, Submitted(loop, required, now), event, AnyLease)
  BY DEF CreatePlan
<1>4. Fits(plans[p], Submitted(loop, required, now), event, AnyLease, audit[p], now)
  BY <1>1, <1>2, <1>3, CreateFits
<1>5. event # "claim"
  OBVIOUS
<1> HIDE DEF required, event
<1> QED
  BY <1>2, <1>3, <1>4, <1>5, HoldStep

(* The claim takes one of the rows it found, with the clock it read.       *)
LEMMA SelectStep ==
  ASSUME SqlInv, NEW c \in Call, SelectSkipLocked(c)
  PROVE  SqlInv'
<1>1. CASE Goto(c, Idle) /\ UnchangedTables /\ UNCHANGED now
  BY <1>1, GiveUpStep
<1>2. ASSUME NEW p \in Plan, Claimable(plans[p], calls[c].project, calls[c].at), ~IsLocked(p),
             Hold(c, p, Locked(plans[p], calls[c].lease, calls[c].token, calls[c].at),
                  "claim", calls[c].lease)
      PROVE  SqlInv'
  <2>1. /\ Atomic!IInv
        /\ calls[c].pc = "claim"
        /\ calls[c].lease \in Lease /\ calls[c].token \in Token /\ calls[c].at \in 0..now
    BY DEF SqlInv, CallsInv, CallsTyped, IsCall, SelectSkipLocked
  <2>2. Fits(plans[p], Locked(plans[p], calls[c].lease, calls[c].token, calls[c].at),
             "claim", calls[c].lease, audit[p], now)
    BY <1>2, <2>1, ClaimFits
  <2>3. Draws(calls[c], calls[c].lease)
    BY <2>1 DEF Draws
  <2> QED
    BY <1>2, <2>1, <2>2, <2>3, HoldStep
<1> QED
  BY <1>1, <1>2 DEF SelectSkipLocked

(* Whatever the callback returns fits the row it was given.                *)
LEMMA UpdateStep ==
  ASSUME SqlInv, NEW c \in Call, NEW p \in Plan, NEW q, NEW l, UpdatePlan(c, p, q, l),
         q.op # "claim",
         Fits(plans[p], Updated(plans[p], q, now), q.op, l, audit[p], now)
  PROVE  SqlInv'
<1>1. /\ calls[c].pc # "commit"
      /\ ~IsLocked(p)
      /\ Hold(c, p, Updated(plans[p], q, now), q.op, l)
  BY DEF UpdatePlan, IsIdle, Idle
<1> QED
  BY <1>1, HoldStep

(* The three reviewer operations.                                          *)
LEMMA ReviewerStep ==
  ASSUME SqlInv, NEW c \in Call, NEW p \in Plan, ReviewerCall(c, p)
  PROVE  SqlInv'
<1>1. Atomic!IInv
  BY DEF SqlInv
<1>2. ASSUME NEW q, UpdatePlan(c, p, q, AnyLease),
             \/ q.op = "approve" /\ Updated(plans[p], q, now) = Approved(plans[p])
             \/ q.op = "reject" /\ Updated(plans[p], q, now) = Rejected(plans[p])
             \/ q.op = "request_review" /\ Updated(plans[p], q, now) = ReviewRequested(plans[p])
      PROVE  SqlInv'
  <2> DEFINE s == Updated(plans[p], q, now)
  <2>1. /\ Exists(plans[p])
        /\ q.op # "claim"
        /\ \/ q.op = "approve" /\ s = Approved(plans[p])
           \/ q.op = "reject" /\ s = Rejected(plans[p])
           \/ q.op = "request_review" /\ s = ReviewRequested(plans[p])
    BY <1>2 DEF UpdatePlan
  <2> HIDE DEF s
  <2>2. Fits(plans[p], s, q.op, AnyLease, audit[p], now)
    BY <1>1, <2>1, ReviewFits
  <2> QED
    BY <1>2, <2>1, <2>2, UpdateStep DEF s
<1>3. CASE ApprovePlan(c, p)
  <2>1. Updated(plans[p], [op |-> "approve"], now) = Approved(plans[p])
    BY DEF Updated
  <2> QED
    BY <1>2, <1>3, <2>1 DEF ApprovePlan
<1>4. CASE RejectPlan(c, p)
  <2>1. Updated(plans[p], [op |-> "reject"], now) = Rejected(plans[p])
    BY DEF Updated
  <2> QED
    BY <1>2, <1>4, <2>1 DEF RejectPlan
<1>5. CASE RequestPlanReview(c, p)
  <2>1. Updated(plans[p], [op |-> "request_review"], now) = ReviewRequested(plans[p])
    BY DEF Updated
  <2> QED
    BY <1>2, <1>5, <2>1 DEF RequestPlanReview
<1> QED
  BY <1>3, <1>4, <1>5 DEF ReviewerCall

(* The operations that must present a lease.                               *)
LEMMA ExecutorStep ==
  ASSUME SqlInv, NEW c \in Call, NEW p \in Plan, NEW l \in Lease, NEW t \in Token,
         ExecutorCall(c, p, l, t)
  PROVE  SqlInv'
<1>1. Atomic!IInv
  BY DEF SqlInv
<1>2. CASE ExtendLease(c, p, l, t)
  <2> DEFINE q == [op |-> "heartbeat", lease |-> l, token |-> t]
  <2>1. q \in LeaseRequest /\ q.op = "heartbeat" /\ q.lease = l /\ q.token = t
    BY DEF LeaseRequest
  <2>2. UpdatePlan(c, p, q, l)
    BY <1>2 DEF ExtendLease
  <2> HIDE DEF q
  <2>3. HoldsLease(plans[p], l, t, now)
    BY <2>1, <2>2 DEF UpdatePlan, Accepts
  <2>4. Updated(plans[p], q, now) = Extended(plans[p], l, t, now)
    BY <2>1 DEF Updated
  <2> QED
    BY <1>1, <2>1, <2>2, <2>3, <2>4, HeartbeatFits, UpdateStep
<1>3. ASSUME NEW loop \in LoopInput, ProgressPlan(c, p, l, t, loop) PROVE SqlInv'
  <2> DEFINE q == [op |-> "progress", lease |-> l, token |-> t, loop |-> loop]
  <2>1. /\ q \in LeaseRequest /\ q.op = "progress"
        /\ q.lease = l /\ q.token = t /\ q.loop = loop /\ loop \in WorkLoop
    BY RequestAssumption DEF LeaseRequest
  <2>2. UpdatePlan(c, p, q, l)
    BY <1>3 DEF ProgressPlan
  <2> HIDE DEF q
  <2>3. HoldsLease(plans[p], l, t, now)
    BY <2>1, <2>2 DEF UpdatePlan, Accepts
  <2>4. Updated(plans[p], q, now) = Progressed(plans[p], loop)
    BY <2>1 DEF Updated
  <2> QED
    BY <1>1, <2>1, <2>2, <2>3, <2>4, ProgressFits, UpdateStep
<1>4. ASSUME NEW loop \in LoopInput, NEW reason \in ReasonInput,
             ReleasePlan(c, p, l, t, loop, reason)
      PROVE  SqlInv'
  <2> DEFINE q == [op |-> "release", lease |-> l, token |-> t, loop |-> loop, reason |-> reason]
  <2>1. /\ q \in LeaseRequest /\ q.op = "release"
        /\ q.lease = l /\ q.token = t /\ q.loop = loop /\ q.reason = reason
        /\ loop \in WorkLoop /\ reason \in ReleaseReason
    BY RequestAssumption DEF LeaseRequest
  <2>2. UpdatePlan(c, p, q, l)
    BY <1>4 DEF ReleasePlan
  <2> HIDE DEF q
  <2>3. HoldsLease(plans[p], l, t, now)
    BY <2>1, <2>2 DEF UpdatePlan, Accepts
  <2>4. Updated(plans[p], q, now) = Released(plans[p], loop, reason)
    BY <2>1 DEF Updated
  <2> QED
    BY <1>1, <2>1, <2>2, <2>3, <2>4, ReleaseFits, UpdateStep
<1>5. ASSUME NEW loop \in LoopInput \cup {NoLoop}, CompletePlan(c, p, l, t, loop)
      PROVE  SqlInv'
  <2> DEFINE q == [op |-> "complete", lease |-> l, token |-> t, loop |-> loop]
             final == FinalLoop(plans[p], q)
  <2>1. /\ q \in LeaseRequest /\ q.op = "complete"
        /\ q.lease = l /\ q.token = t /\ q.loop = loop
    BY DEF LeaseRequest
  <2>2. UpdatePlan(c, p, q, l)
    BY <1>5 DEF CompletePlan
  <2> HIDE DEF q
  <2>3. HoldsLease(plans[p], l, t, now)
    BY <2>1, <2>2 DEF UpdatePlan, Accepts
  <2>4. Updated(plans[p], q, now) = Completed(plans[p], final, t)
    BY <2>1 DEF Updated
  <2>5. final \in WorkLoop
    BY <1>1, <2>1, RequestAssumption, TableFacts DEF FinalLoop
  <2> HIDE DEF final
  <2> QED
    BY <1>1, <2>1, <2>2, <2>3, <2>4, <2>5, CompleteFits, UpdateStep
<1> QED
  BY <1>2, <1>3, <1>4, <1>5 DEF ExecutorCall

(* attachPlanReviewEvidence.                                               *)
LEMMA AttachStep ==
  ASSUME SqlInv, NEW c \in Call, NEW p \in Plan, NEW e \in Evidence,
         AttachReviewEvidence(c, p, e)
  PROVE  SqlInv'
<1> DEFINE q == [op |-> "attach_review_evidence", evidence |-> e]
<1>1. /\ q \in EvidenceRequest /\ q.op = "attach_review_evidence" /\ q.evidence = e
  BY DEF EvidenceRequest
<1>2. UpdatePlan(c, p, q, AnyLease) /\ Atomic!IInv
  BY DEF AttachReviewEvidence, SqlInv
<1> HIDE DEF q
<1>3. CanAttachEvidence(plans[p], e)
  BY <1>1, <1>2 DEF UpdatePlan, Accepts
<1>4. Updated(plans[p], q, now) = WithEvidence(plans[p], e)
  BY <1>1 DEF Updated
<1> QED
  BY <1>1, <1>2, <1>3, <1>4, AttachFits, UpdateStep

(* No step of any connection, and no tick of the clock, breaks it.         *)
LEMMA NextSqlInv == SqlInv /\ [Next]_vars => SqlInv'
<1> SUFFICES ASSUME SqlInv, [Next]_vars PROVE SqlInv'
  OBVIOUS
<1>1. ASSUME NEW c \in Call, Step(c) PROVE SqlInv'
  <2>1. CASE Rollback(c)
    BY <2>1, GiveUpStep DEF Rollback
  <2> QED
    BY <1>1, <2>1, SelectStep, CommitStep DEF Step
<1>2. CASE Tick
  BY <1>2, TimeStep
<1>3. CASE UNCHANGED vars
  <2>1. /\ now' = now /\ plans' = plans /\ audit' = audit
        /\ verdict' = verdict /\ grants' = grants /\ calls' = calls
    BY <1>3 DEF vars
  <2>2. Atomic!IInv'
    BY <2>1, TablesStay DEF SqlInv, UnchangedTables
  <2>3. CallsInv'
    BY <2>1 DEF SqlInv, CallsInv, CallsTyped, RowsAreHeldOnce, DrawsAreFresh,
                HeldWritesFit, FitsItsRow
  <2> QED
    BY <2>2, <2>3 DEF SqlInv
<1> QED
  BY <1>1, <1>2, <1>3, CreateStep, ReviewerStep, ExecutorStep, AttachStep, DrawStep DEF Next

-----------------------------------------------------------------------------
(* Theorems *)

(* In every reachable state the tables satisfy the atomic store's          *)
(* invariant and every open transaction fits the row it holds.             *)
THEOREM SqlStoreIsSafe == Spec => []SqlInv
BY InitSqlInv, NextSqlInv, PTL DEF Spec

(***************************************************************************)
(* Whatever fails or rolls back, and however late a commit comes, record   *)
(* and audit log stay typed and the log alone accounts for the record      *)
(* (updatePlan, claimNextPlan: update and insert in one transaction).      *)
(***************************************************************************)
THEOREM SqlAuditIsComplete == Spec => []AuditExplainsRecord
<1>1. Atomic!TypeOK => Store!TypeOK
  BY DEF Store!TypeOK, Atomic!TypeOK, Store!Record, Atomic!Record, Store!WorkLoop,
         Atomic!WorkLoop, Store!WorkLoopStatus, Atomic!WorkLoopStatus, Store!Lock, Atomic!Lock,
         Store!PlanStatus, Atomic!PlanStatus, Store!ApprovalStatus, Atomic!ApprovalStatus,
         Store!AuditType, Atomic!AuditType, Store!Verdict, Atomic!Verdict,
         Store!Grant, Atomic!Grant
<1>2. Atomic!AuditExplainsRecord => Store!AuditExplainsRecord
  BY DEF Store!AuditExplainsRecord, Atomic!AuditExplainsRecord, Store!IsAccountedFor,
         Atomic!IsAccountedFor, Store!Exists, Atomic!Exists, Store!Happened, Atomic!Happened
<1>3. SqlInv => AuditExplainsRecord
  BY <1>1, <1>2 DEF SqlInv, Atomic!IInv, AuditExplainsRecord
<1> QED
  BY <1>3, SqlStoreIsSafe, PTL

(***************************************************************************)
(* What the clients of the SQL store may rely on is what those of the      *)
(* atomic store may: a lease is honoured until the expiry answered, no two *)
(* live leases are on one plan, and no plan submitted for approval is      *)
(* leased before it was approved once (claimNextPlan, assertLease).        *)
(***************************************************************************)
ClientsMayRelyOn ==
    /\ Store!LiveLeaseIsHonoured
    /\ Store!ExclusiveLease
    /\ Store!ApprovedBeforeFirstClaim

(* The promises of the atomic store survive its split into transactions.   *)
THEOREM SqlKeepsThePromises == Spec => []ClientsMayRelyOn
<1>1. SqlInv => ClientsMayRelyOn
  <2> SUFFICES ASSUME SqlInv PROVE ClientsMayRelyOn
    OBVIOUS
  <2>1. Atomic!LiveLeaseIsHonoured /\ Atomic!GateIsShut
    BY DEF SqlInv, Atomic!IInv
  <2>2. \A l \in Lease : Store!IsLive(l) <=> Atomic!IsLive(l)
    BY DEF Store!IsLive, Atomic!IsLive, Store!HasExpired, Atomic!HasExpired
  <2>3. Store!LiveLeaseIsHonoured
    BY <2>1, <2>2 DEF Atomic!LiveLeaseIsHonoured, Store!LiveLeaseIsHonoured, Store!HoldsLease,
                      Atomic!HoldsLease, Store!HasExpired, Atomic!HasExpired
  <2>4. Store!ExclusiveLease
    BY <2>3 DEF Store!ExclusiveLease, Store!LiveLeaseIsHonoured, Store!HoldsLease
  <2>5. Store!ApprovedBeforeFirstClaim
    BY <2>1 DEF Atomic!GateIsShut, Atomic!IsUnapproved, Store!ApprovedBeforeFirstClaim,
                Store!Happened, Atomic!Happened
  <2> QED
    BY <2>3, <2>4, <2>5 DEF ClientsMayRelyOn
<1> QED
  BY <1>1, SqlStoreIsSafe, PTL

-----------------------------------------------------------------------------
(* The promise about leases *)

(* A lease that is live for PlanLeases is the one in its plan's lock.      *)
LEMMA LiveLeaseIsTheLock ==
  ASSUME Atomic!IInv, NEW k \in Lease, Leases!IsLive(k), NEW p \in Plan, grants[k].plan = p
  PROVE  IsLeasedAs(plans[p], k) /\ ~HasExpired(plans[p].lock, now)
<1>1. grants[k] \in Atomic!Grant /\ now \in Nat
  BY TableFacts DEF Leases!IsLive, Atomic!IInv, Atomic!TypeOK
<1>2. Atomic!IsLive(k)
  BY <1>1 DEF Leases!IsLive, Atomic!IsLive, Atomic!HasExpired, Atomic!Grant
<1>3. Atomic!HoldsLease(plans[p], k, grants[k].token, now)
  BY <1>2 DEF Atomic!IInv, Atomic!LiveLeaseIsHonoured
<1> QED
  BY <1>3 DEF Atomic!HoldsLease, Atomic!HasExpired, HasExpired, IsLeasedAs

(* Free or leased to l, a plan has no other live lease.                    *)
LEMMA NoOtherLease ==
  ASSUME Atomic!IInv, NEW p \in Plan, NEW l,
         IsTakeable(plans[p], now) \/ IsLeasedAs(plans[p], l)
  PROVE  Leases!NoOtherIsLive(p, l)
<1> SUFFICES ASSUME NEW other \in Lease \ {l}, Leases!IsLive(other), grants[other].plan = p
             PROVE  FALSE
  BY DEF Leases!NoOtherIsLive
<1>1. IsLeasedAs(plans[p], other) /\ ~HasExpired(plans[p].lock, now)
  BY LiveLeaseIsTheLock
<1> QED
  BY <1>1 DEF IsTakeable, IsLeasedAs

(* The commit of a claim grants a lease, that of a heartbeat extends one,  *)
(* and that of a release or completion closes one; no other touches any.   *)
LEMMA CommitIsLeaseStep ==
  ASSUME SqlInv, NEW c \in Call, Commit(c)
  PROVE  Leases!Next \/ (now' = now /\ grants' = grants)
<1> DEFINE call == calls[c]
           p == call.plan
           s == call.next
           l == call.lease
<1>1. Atomic!IInv /\ call.pc = "commit" /\ now \in Nat
  BY TableFacts DEF SqlInv, Commit
<1>2. p \in Plan /\ FitsItsRow(call) /\ grants' = Regranted(call) /\ now' = now
  BY CommitFacts
<1> HIDE DEF call
<1>3. LockFits(plans[p], s, call.event, l, now) /\ s \in Record
  BY <1>2 DEF FitsItsRow, Fits, RecordFits
<1>4. ASSUME IsLeasedAs(s, l), IsDue(s.lock, now)
      PROVE  s.lock.clientTokenId \in Token /\ s.lock.expiresAt \in Leases!Deadline
  <2>1. s.lock.clientTokenId \in Token /\ s.lock.expiresAt \in Nat
    BY <1>3, <1>4 DEF IsLeasedAs, Record, Lock
  <2> QED
    BY <1>1, <1>4, <2>1, TimeoutAssumption DEF IsDue, Leases!Deadline
<1>5. ASSUME IsLeasedAs(plans[p], l)
      PROVE  l \in Lease /\ grants[l] # NoGrant /\ grants[l].open /\ grants[l].plan = p
  <2>1. /\ l \in Lease /\ grants[l] # NoGrant /\ grants[l].plan = p
        /\ grants[l] = Atomic!GrantOf(p, plans[p].lock, TRUE)
    BY <1>1, <1>2, <1>5, RowHasGrant
  <2> QED
    BY <2>1 DEF Atomic!GrantOf
<1>6. CASE call.event = "claim"
  <2>1. /\ l \in Lease /\ IsTakeable(plans[p], now)
        /\ s.lock.clientTokenId \in Token /\ s.lock.expiresAt \in Leases!Deadline
    BY <1>3, <1>4, <1>6 DEF LockFits
  <2>2. grants[l] = NoGrant
    BY <1>1, <1>6, <2>1 DEF SqlInv, CallsInv, DrawsAreFresh, Draws, call
  <2>3. grants' = [grants EXCEPT ![l] = [plan |-> p, token |-> s.lock.clientTokenId,
                                         expiresAt |-> s.lock.expiresAt, open |-> TRUE]]
    BY <1>2, <1>6 DEF Regranted
  <2>4. Leases!Grant(l, p, s.lock.clientTokenId)
    BY <1>1, <1>2, <2>1, <2>2, <2>3, NoOtherLease DEF Leases!Grant
  <2> QED
    BY <1>2, <2>1, <2>4 DEF Leases!Next
<1>7. CASE call.event = "heartbeat"
  <2>1. IsLeasedAs(plans[p], l) /\ s.lock.expiresAt \in Leases!Deadline
    BY <1>3, <1>4, <1>7 DEF LockFits
  <2>2. grants' = [grants EXCEPT ![l].expiresAt = s.lock.expiresAt]
    BY <1>2, <1>7 DEF Regranted
  <2>3. Leases!Extend(l)
    BY <1>1, <1>2, <1>5, <2>1, <2>2, NoOtherLease DEF Leases!Extend
  <2> QED
    BY <1>5, <2>1, <2>3 DEF Leases!Next
<1>8. CASE call.event \in {"release", "complete"}
  <2>1. IsLeasedAs(plans[p], l)
    BY <1>3, <1>8 DEF LockFits
  <2>2. grants' = [grants EXCEPT ![l].open = FALSE]
    BY <1>2, <1>8 DEF Regranted
  <2>3. Leases!Close(l)
    BY <1>2, <1>5, <2>1, <2>2 DEF Leases!Close
  <2> QED
    BY <1>5, <2>1, <2>3 DEF Leases!Next
<1>9. CASE call.event \notin LeaseEvent
  BY <1>2, <1>9 DEF Regranted, LeaseEvent
<1> QED
  BY <1>6, <1>7, <1>8, <1>9 DEF LeaseEvent

(* Nothing else a connection does grants, extends or closes a lease.       *)
LEMMA NextIsLeaseStep == SqlInv /\ [Next]_vars => [Leases!Next]_Leases!vars
<1> SUFFICES ASSUME SqlInv, [Next]_vars
             PROVE  Leases!Next \/ (now' = now /\ grants' = grants)
  BY DEF Leases!vars
<1>1. ASSUME NEW c \in Call, Step(c)
      PROVE  Leases!Next \/ (now' = now /\ grants' = grants)
  BY <1>1, CommitIsLeaseStep DEF Step, SelectSkipLocked, Hold, Rollback, UnchangedTables
<1>2. ASSUME NEW c, NEW p, NEW q, NEW l, UpdatePlan(c, p, q, l)
      PROVE  now' = now /\ grants' = grants
  BY <1>2 DEF UpdatePlan, Hold, UnchangedTables
<1>3. ASSUME NEW c \in Call, NEW p \in Plan,
             \/ \E loop \in LoopInput, asked \in BOOLEAN : CreatePlan(c, p, loop, asked)
             \/ ReviewerCall(c, p)
             \/ \E l \in Lease, t \in Token : ExecutorCall(c, p, l, t)
             \/ \E e \in Evidence : AttachReviewEvidence(c, p, e)
      PROVE  now' = now /\ grants' = grants
  <2>1. ASSUME NEW loop, NEW asked, CreatePlan(c, p, loop, asked)
        PROVE  now' = now /\ grants' = grants
    BY <2>1 DEF CreatePlan, Hold, UnchangedTables
  <2>2. ASSUME NEW l, NEW t, ExecutorCall(c, p, l, t)
        PROVE  now' = now /\ grants' = grants
    BY <1>2, <2>2 DEF ExecutorCall, ExtendLease, ProgressPlan, ReleasePlan, CompletePlan
  <2>3. ASSUME ReviewerCall(c, p) PROVE now' = now /\ grants' = grants
    BY <1>2, <2>3 DEF ReviewerCall, ApprovePlan, RejectPlan, RequestPlanReview
  <2>4. ASSUME NEW e, AttachReviewEvidence(c, p, e) PROVE now' = now /\ grants' = grants
    BY <1>2, <2>4 DEF AttachReviewEvidence
  <2> QED
    BY <1>3, <2>1, <2>2, <2>3, <2>4
<1>4. ASSUME NEW c, NEW t, NEW l, NEW plan, NEW project, ClaimNextPlan(c, t, l, plan, project)
      PROVE  now' = now /\ grants' = grants
  BY <1>4 DEF ClaimNextPlan, UnchangedTables
<1>5. CASE Tick
  BY <1>5 DEF Tick, Store!Tick, Leases!Next, Leases!Tick
<1>6. CASE UNCHANGED vars
  BY <1>6 DEF vars
<1> QED
  BY <1>1, <1>3, <1>4, <1>5, <1>6 DEF Next

(***************************************************************************)
(* SqlPlanStore implements PlanLeases: a transaction that commits late     *)
(* grants or extends a lease only while no other on the plan is live       *)
(* (claimNextPlan, extendLease and their row locks).                       *)
(***************************************************************************)
THEOREM SqlImplementsLeases == Spec => ImplementsLeases
<1>1. Init => Leases!Init
  BY DEF Init, Store!Init, Leases!Init
<1> QED
  BY <1>1, NextIsLeaseStep, SqlStoreIsSafe, PTL DEF Spec, Leases!Spec, ImplementsLeases

=============================================================================
