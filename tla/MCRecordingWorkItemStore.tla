---------------------- MODULE MCRecordingWorkItemStore ----------------------
(* Model values and requests for checking RecordingWorkItemStore with TLC. *)
EXTENDS RecordingWorkItemStore

CONSTANTS
    w1,      \* work item
    o1, o2,  \* claimants
    l1, l2,  \* the lease ids they name
    c1, c2   \* calls

Asks(op, who, l) ==
    [op |-> "update", item |-> w1, command |-> [op |-> op, claimant |-> who, lease_id |-> l]]

(* Two orchestrators contend for the item; the first one also works on it, *)
(* and it is created, made ready, released and canceled by others.         *)
ContendedRequests ==
    {[op |-> "create", item |-> w1, job_class |-> "planning_only"]}
    \cup {Asks(op, NoClaimant, NoLeaseId) :
              op \in {"markReady", "releaseStale", "moveToNeedsApproval", "complete", "cancel"}}
    \cup {Asks("claim", o1, l1), Asks("claim", o2, l2)}
    \cup {Asks("heartbeat", NoClaimant, l1), Asks("complete", NoClaimant, l1)}

=============================================================================
