--------------------------- MODULE WorkItemProofs ---------------------------
(***************************************************************************)
(* What a command does to a work item, for every item, command and time:   *)
(* the facts the proofs about the stores rest on.  First the effect of a   *)
(* command as a disjunction of the lifecycle helpers, then what each       *)
(* helper keeps.                                                           *)
(***************************************************************************)
EXTENDS WorkItem, TLAPS

(* A command that is allowed does what one of the lifecycle helpers does.  *)
(* Complete, fail and cancel all end an item that has not ended.           *)
LEMMA CommandEffect ==
    ASSUME NEW w \in WorkItem, NEW c \in Command, NEW t \in Nat, Allows(w, c, t)
    PROVE  \/ CanMarkReady(w) /\ After(w, c, t) = MarkedReady(w, t)
           \/ \E who \in Claimant, l \in LeaseId :
                 CanClaim(w, t) /\ After(w, c, t) = Claimed(w, who, l, t)
           \/ \E l \in LeaseId : CanHeartbeat(w, l, t) /\ After(w, c, t) = Heartbeat(w, t)
           \/ CanReleaseStale(w, t) /\ After(w, c, t) = StaleReleased(w, t)
           \/ CanMoveToNeedsApproval(w) /\ After(w, c, t) = MovedToNeedsApproval(w, t)
           \/ \E status \in Terminal : CanEnd(w) /\ After(w, c, t) = Ended(w, status, t)
<1>1. CASE c.op = "markReady"
  BY <1>1 DEF Allows, After
<1>2. CASE c.op = "claim"
  <2>1. c.claimant \in Claimant /\ c.lease_id \in LeaseId
    BY <1>2 DEF Command
  <2>2. CanClaim(w, t) /\ After(w, c, t) = Claimed(w, c.claimant, c.lease_id, t)
    BY <1>2 DEF Allows, After
  <2> QED BY <2>1, <2>2
<1>3. CASE c.op = "heartbeat"
  <2>1. c.lease_id \in LeaseId
    BY <1>3 DEF Command
  <2>2. CanHeartbeat(w, c.lease_id, t) /\ After(w, c, t) = Heartbeat(w, t)
    BY <1>3 DEF Allows, After
  <2> QED BY <2>1, <2>2
<1>4. CASE c.op = "releaseStale"
  BY <1>4 DEF Allows, After
<1>5. CASE c.op = "moveToNeedsApproval"
  BY <1>5 DEF Allows, After
<1>6. CASE c.op = "complete"
  <2>1. CanComplete(w, c.lease_id, t) /\ After(w, c, t) = Ended(w, "completed", t)
    BY <1>6 DEF Allows, After
  <2>2. CanEnd(w)
    BY <2>1 DEF CanComplete, CanEnd, Terminal
  <2> QED BY <2>1, <2>2 DEF Terminal
<1>7. CASE c.op = "fail"
  BY <1>7 DEF Allows, After, Terminal
<1>8. CASE c.op = "cancel"
  BY <1>8 DEF Allows, After, Terminal
<1> QED BY <1>1, <1>2, <1>3, <1>4, <1>5, <1>6, <1>7, <1>8 DEF Command

(* The fields a heartbeat leaves alone, and those it sets. *)
LEMMA HeartbeatLease ==
    ASSUME NEW w \in WorkItem, w.lease # NoLease, NEW t \in Nat
    PROVE  /\ Heartbeat(w, t) \in WorkItem
           /\ Heartbeat(w, t).status = w.status
           /\ Heartbeat(w, t).updated_at = t
           /\ Heartbeat(w, t).lease # NoLease
           /\ Heartbeat(w, t).lease.lease_id = w.lease.lease_id
           /\ Heartbeat(w, t).lease.claimed_by = w.lease.claimed_by
           /\ Heartbeat(w, t).lease.expires_at = t + LeaseTimeout
<1> DEFINE g == [w.lease EXCEPT !.expires_at = t + LeaseTimeout]
<1>1. w.lease \in Lease /\ t + LeaseTimeout \in Nat
  BY LeaseTimeoutAssumption DEF WorkItem
<1>2. /\ g \in Lease
      /\ g.lease_id = w.lease.lease_id
      /\ g.claimed_by = w.lease.claimed_by
      /\ g.expires_at = t + LeaseTimeout
  BY <1>1 DEF Lease
<1>3. g # NoLease
  BY <1>2, NoLeaseAssumption
<1>4. Heartbeat(w, t) = [w EXCEPT !.lease = g, !.updated_at = t]
  BY DEF Heartbeat
<1> HIDE DEF g
<1> QED BY <1>2, <1>3, <1>4 DEF WorkItem

(* The lease a claim writes. *)
LEMMA ClaimedLease ==
    ASSUME NEW w \in WorkItem, NEW who \in Claimant, NEW l \in LeaseId, NEW t \in Nat
    PROVE  /\ Claimed(w, who, l, t) \in WorkItem
           /\ Claimed(w, who, l, t).status = "claimed"
           /\ Claimed(w, who, l, t).updated_at = t
           /\ Claimed(w, who, l, t).lease # NoLease
           /\ Claimed(w, who, l, t).lease.lease_id = l
           /\ Claimed(w, who, l, t).lease.claimed_by = who
           /\ Claimed(w, who, l, t).lease.expires_at = t + LeaseTimeout
<1> DEFINE g == [lease_id |-> l, claimed_by |-> who, expires_at |-> t + LeaseTimeout]
<1>1. t + LeaseTimeout \in Nat
  BY LeaseTimeoutAssumption
<1>2. g \in Lease /\ g.lease_id = l /\ g.claimed_by = who /\ g.expires_at = t + LeaseTimeout
  BY <1>1 DEF Lease
<1>3. g # NoLease
  BY <1>2, NoLeaseAssumption
<1>4. Claimed(w, who, l, t) = [w EXCEPT !.status = "claimed", !.lease = g, !.updated_at = t]
  BY DEF Claimed
<1> HIDE DEF g
<1> QED BY <1>2, <1>3, <1>4 DEF WorkItem, Status

-----------------------------------------------------------------------------
(* What every command keeps *)

(* A stored item is replaced by a stored item. *)
LEMMA CommandType ==
    ASSUME NEW w \in WorkItem, NEW c \in Command, NEW t \in Nat, Allows(w, c, t)
    PROVE  /\ After(w, c, t) \in WorkItem
           /\ IsStored(After(w, c, t))
           /\ After(w, c, t).updated_at = t
<1>1. CASE After(w, c, t) = MarkedReady(w, t)
  BY <1>1 DEF MarkedReady, WorkItem, Status, IsStored
<1>2. CASE \E who \in Claimant, l \in LeaseId : After(w, c, t) = Claimed(w, who, l, t)
  BY <1>2, ClaimedLease DEF IsStored
<1>3. CASE \E l \in LeaseId : CanHeartbeat(w, l, t) /\ After(w, c, t) = Heartbeat(w, t)
  BY <1>3, HeartbeatLease DEF IsStored, CanHeartbeat, MatchesLease
<1>4. CASE After(w, c, t) = StaleReleased(w, t)
  BY <1>4 DEF StaleReleased, WorkItem, Status, IsStored
<1>5. CASE After(w, c, t) = MovedToNeedsApproval(w, t)
  BY <1>5 DEF MovedToNeedsApproval, WorkItem, Status, IsStored
<1>6. CASE \E status \in Terminal : After(w, c, t) = Ended(w, status, t)
  BY <1>6 DEF Ended, WorkItem, Status, IsStored, Terminal
<1> QED BY <1>1, <1>2, <1>3, <1>4, <1>5, <1>6, CommandEffect

(* A command leaves an item with a lease exactly when somebody works on it. *)
LEMMA CommandWellLeased ==
    ASSUME NEW w \in WorkItem, NEW c \in Command, NEW t \in Nat, NEW n \in Nat,
           Allows(w, c, t), w.updated_at <= t, t <= n, IsWellLeased(w, n)
    PROVE  IsWellLeased(After(w, c, t), n)
<1>0. After(w, c, t).updated_at = t
  BY CommandType
<1>1. CASE CanMarkReady(w) /\ After(w, c, t) = MarkedReady(w, t)
  BY <1>1 DEF CanMarkReady, MarkedReady, WorkItem, IsWellLeased
<1>2. CASE \E who \in Claimant, l \in LeaseId : After(w, c, t) = Claimed(w, who, l, t)
  BY <1>2, ClaimedLease, LeaseTimeoutAssumption DEF IsWellLeased
<1>3. CASE \E l \in LeaseId : CanHeartbeat(w, l, t) /\ After(w, c, t) = Heartbeat(w, t)
  <2>1. w.status \in {"claimed", "running"} /\ w.lease # NoLease
    BY <1>3 DEF CanHeartbeat, MatchesLease
  <2>2. After(w, c, t) = Heartbeat(w, t)
    BY <1>3
  <2>3. /\ After(w, c, t).status = w.status
        /\ After(w, c, t).lease # NoLease
        /\ After(w, c, t).lease.expires_at = t + LeaseTimeout
    BY <2>1, <2>2, HeartbeatLease
  <2>4. t + LeaseTimeout <= t + LeaseTimeout
    BY LeaseTimeoutAssumption
  <2> HIDE DEF After
  <2> QED BY <1>0, <2>1, <2>3, <2>4 DEF IsWellLeased
<1>4. CASE After(w, c, t) = StaleReleased(w, t)
  BY <1>4 DEF StaleReleased, WorkItem, IsWellLeased
<1>5. CASE CanMoveToNeedsApproval(w) /\ After(w, c, t) = MovedToNeedsApproval(w, t)
  <2>1. w.lease # NoLease
    BY <1>5 DEF CanMoveToNeedsApproval, IsWellLeased
  <2>2. w.lease.expires_at <= t + LeaseTimeout
    BY <2>1, LeaseTimeoutAssumption DEF IsWellLeased, WorkItem, Lease
  <2> QED BY <1>5, <2>1, <2>2 DEF MovedToNeedsApproval, WorkItem, IsWellLeased
<1>6. CASE \E status \in Terminal : After(w, c, t) = Ended(w, status, t)
  BY <1>6 DEF Ended, WorkItem, IsWellLeased, Terminal
<1> QED BY <1>1, <1>2, <1>3, <1>4, <1>5, <1>6, CommandEffect

(* A command cannot take an item from a lease that is active. *)
LEMMA CommandKeepsLease ==
    ASSUME NEW w \in WorkItem, NEW c \in Command, NEW t \in Nat, NEW n \in Nat,
           Allows(w, c, t), t <= n, IsWellLeased(w, n), w.updated_at <= t,
           w.lease # NoLease, IsActive(w.lease, n)
    PROVE  KeepsLease(w, After(w, c, t))
<1>1. w.lease \in Lease /\ IsActive(w.lease, t)
  BY DEF WorkItem, Lease, IsActive
<1>2. w.lease.expires_at <= t + LeaseTimeout
  BY <1>1, LeaseTimeoutAssumption DEF IsWellLeased, WorkItem, Lease
<1>3. ~ CanMarkReady(w) /\ ~ CanClaim(w, t) /\ ~ CanReleaseStale(w, t)
  BY <1>1 DEF CanMarkReady, CanClaim, CanReleaseStale, IsWellLeased
<1>4. CASE After(w, c, t) = Heartbeat(w, t)
  BY <1>2, <1>4, HeartbeatLease DEF KeepsLease
<1>5. CASE After(w, c, t) = MovedToNeedsApproval(w, t)
  <2>1. After(w, c, t).lease = w.lease
    BY <1>5 DEF MovedToNeedsApproval, WorkItem
  <2> QED BY <1>1, <2>1 DEF KeepsLease, Lease
<1>6. CASE \E status \in Terminal : After(w, c, t) = Ended(w, status, t)
  BY <1>6 DEF Ended, WorkItem, KeepsLease
<1> QED BY <1>3, <1>4, <1>5, <1>6, CommandEffect

(* No command is allowed on an item that has ended. *)
LEMMA NothingAfterTheEnd ==
    ASSUME NEW w \in WorkItem, NEW c \in Command, NEW t \in Nat, NEW n \in Nat,
           IsWellLeased(w, n), w.status \in Terminal
    PROVE  ~ Allows(w, c, t)
<1>1. w.lease = NoLease
  BY DEF IsWellLeased, Terminal
<1>2. w.status \notin {"proposed", "ready", "blocked", "claimed", "running"}
  BY DEF Terminal
<1> QED BY <1>1, <1>2, CommandEffect
        DEF CanMarkReady, CanClaim, CanHeartbeat, CanReleaseStale, CanMoveToNeedsApproval, CanEnd

(* An item that was just created. *)
LEMMA ProposedItem ==
    ASSUME NEW class \in JobClass, NEW t \in Nat, NEW n \in Nat, t <= n
    PROVE  /\ Proposed(class, t) \in WorkItem
           /\ IsStored(Proposed(class, t))
           /\ IsWellLeased(Proposed(class, t), n)
BY DEF Proposed, WorkItem, Status, IsStored, IsWellLeased

=============================================================================
