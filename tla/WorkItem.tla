------------------------------ MODULE WorkItem ------------------------------
(***************************************************************************)
(* A hosted work item and its lifecycle: the pure helpers of               *)
(* packages/api/src/work-items.ts, which every work item store applies.    *)
(* A helper either throws or returns the next record; Allows says when it  *)
(* returns and After what.  Of the record only what the helpers read is    *)
(* kept; titles, references and outcomes are left out, and a completion is *)
(* taken to carry the outcome or the reason its route demands.             *)
(***************************************************************************)
EXTENDS Naturals, FiniteSets

CONSTANTS
    Claimant,       \* orchestrator instances
    LeaseId,        \* lease ids claimants name, or the store makes for them
    LeaseTimeout,   \* config.locks.timeoutMs, in ticks
    MaxTime,        \* bound: the clock of the stores
    NoLease,        \* item.lease = null
    NoClaimant,     \* a command that names no claimant
    NoLeaseId       \* a command that names no lease

ASSUME LeaseTimeoutAssumption == LeaseTimeout \in Nat \ {0}

ASSUME MaxTimeAssumption == MaxTime \in Nat

JobClass ==
    {"planning_only", "read_only_sanitized", "approval_required_write_action", "forbidden"}

Status ==
    {"proposed", "ready", "claimed", "running", "blocked", "needs_approval",
     "completed", "failed", "cancelled"}

Terminal == {"completed", "failed", "cancelled"}

Lease == [lease_id : LeaseId, claimed_by : Claimant, expires_at : Nat]

ASSUME NoLeaseAssumption == NoLease \notin Lease /\ NoLeaseId \notin LeaseId

(* "absent" is an id nobody created yet. *)
WorkItem ==
    [status     : Status \cup {"absent"},
     job_class  : JobClass,
     lease      : Lease \cup {NoLease},
     updated_at : Nat]

NoItem ==
    [status |-> "absent", job_class |-> "planning_only", lease |-> NoLease, updated_at |-> 0]

IsStored(w) == w.status # "absent"

(* What a client can ask of an item it names. *)
Command ==
    [op : {"markReady", "releaseStale", "moveToNeedsApproval", "fail", "cancel"},
     claimant : {NoClaimant}, lease_id : {NoLeaseId}]
    \cup [op : {"claim"}, claimant : Claimant, lease_id : LeaseId]
    \cup [op : {"heartbeat"}, claimant : {NoClaimant}, lease_id : LeaseId]
    \cup [op : {"complete"}, claimant : {NoClaimant}, lease_id : LeaseId \cup {NoLeaseId}]

IsExecutable(class) == class \in {"planning_only", "read_only_sanitized"}

IsActive(lease, t) == lease.expires_at > t

(* assertLeaseMatches *)
MatchesLease(w, l, t) ==
    /\ w.lease # NoLease
    /\ w.lease.lease_id = l
    /\ IsActive(w.lease, t)

(* createWorkItem *)
Proposed(class, t) ==
    [status |-> "proposed", job_class |-> class, lease |-> NoLease, updated_at |-> t]

CanMarkReady(w) == w.status \in {"proposed", "blocked"} /\ IsExecutable(w.job_class)

MarkedReady(w, t) == [w EXCEPT !.status = "ready", !.updated_at = t]

(* Mutant: an item being worked on is taken over, whoever leases it. *)
CanTakeOver(w, t) == w.status \in {"ready", "claimed"} /\ IsExecutable(w.job_class)

CanClaim(w, t) ==
    /\ w.lease # NoLease => ~IsActive(w.lease, t)
    /\ w.status = "ready"
    /\ IsExecutable(w.job_class)

Claimed(w, who, l, t) ==
    [w EXCEPT !.status = "claimed",
              !.lease = [lease_id |-> l, claimed_by |-> who, expires_at |-> t + LeaseTimeout],
              !.updated_at = t]

CanHeartbeat(w, l, t) == w.status \in {"claimed", "running"} /\ MatchesLease(w, l, t)

Heartbeat(w, t) ==
    [w EXCEPT !.lease = [w.lease EXCEPT !.expires_at = t + LeaseTimeout], !.updated_at = t]

(* Mutant: the expiry of the lease is not looked at. *)
CanReleaseAny(w, t) == w.lease # NoLease /\ IsExecutable(w.job_class)

(* releaseStaleWorkItemLease looks at the lease only, not at the status. *)
CanReleaseStale(w, t) ==
    /\ w.lease # NoLease
    /\ ~IsActive(w.lease, t)
    /\ IsExecutable(w.job_class)

StaleReleased(w, t) == [w EXCEPT !.status = "ready", !.lease = NoLease, !.updated_at = t]

CanMoveToNeedsApproval(w) == w.status \in {"claimed", "running"}

(* The item waits for approval under the lease it was claimed with. *)
MovedToNeedsApproval(w, t) == [w EXCEPT !.status = "needs_approval", !.updated_at = t]

(* The lease is checked only when the request names one. *)
CanComplete(w, l, t) ==
    /\ w.status \in {"claimed", "running"}
    /\ l # NoLeaseId => MatchesLease(w, l, t)

(* assertNonTerminal, of fail and cancel *)
CanEnd(w) == w.status \notin Terminal

Ended(w, status, t) == [w EXCEPT !.status = status, !.lease = NoLease, !.updated_at = t]

Allows(w, c, t) ==
    CASE c.op = "markReady"           -> CanMarkReady(w)
      [] c.op = "claim"               -> CanClaim(w, t)
      [] c.op = "heartbeat"           -> CanHeartbeat(w, c.lease_id, t)
      [] c.op = "releaseStale"        -> CanReleaseStale(w, t)
      [] c.op = "moveToNeedsApproval" -> CanMoveToNeedsApproval(w)
      [] c.op = "complete"            -> CanComplete(w, c.lease_id, t)
      [] c.op \in {"fail", "cancel"}  -> CanEnd(w)

After(w, c, t) ==
    CASE c.op = "markReady"           -> MarkedReady(w, t)
      [] c.op = "claim"               -> Claimed(w, c.claimant, c.lease_id, t)
      [] c.op = "heartbeat"           -> Heartbeat(w, t)
      [] c.op = "releaseStale"        -> StaleReleased(w, t)
      [] c.op = "moveToNeedsApproval" -> MovedToNeedsApproval(w, t)
      [] c.op = "complete"            -> Ended(w, "completed", t)
      [] c.op = "fail"                -> Ended(w, "failed", t)
      [] c.op = "cancel"              -> Ended(w, "cancelled", t)

-----------------------------------------------------------------------------
(* What the stores' properties say of one item *)

(* The record makes sense at time t. *)
IsWellLeased(w, t) ==
    /\ w.status \in {"claimed", "running", "needs_approval"} <=> w.lease # NoLease
    /\ w.updated_at <= t
    /\ w.lease # NoLease => w.lease.expires_at <= w.updated_at + LeaseTimeout

(* Replacing w by v takes nothing from the holder of w's lease. *)
KeepsLease(w, v) ==
    \/ v.status \in Terminal
    \/ /\ v.lease # NoLease
       /\ v.lease.lease_id = w.lease.lease_id
       /\ v.lease.claimed_by = w.lease.claimed_by
       /\ v.lease.expires_at >= w.lease.expires_at

=============================================================================
