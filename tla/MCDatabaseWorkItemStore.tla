----------------------- MODULE MCDatabaseWorkItemStore -----------------------
(* Model values and client requests for checking DatabaseWorkItemStore. *)
EXTENDS DatabaseWorkItemStore

CONSTANTS
    w1,      \* work item
    k1,      \* idempotency key
    o1, o2,  \* claimants
    l1, l2,  \* their lease ids
    c1, c2   \* calls

Plain(op) == [op |-> op, claimant |-> NoClaimant, lease_id |-> NoLeaseId]

Leased(op, l) == [op |-> op, claimant |-> NoClaimant, lease_id |-> l]

Claim(who, l) == [op |-> "claim", claimant |-> who, lease_id |-> l]

(* What orchestrators contend with: leases won, kept, lost and given back, *)
(* and an item completed without naming a lease.                           *)
LeaseCommands ==
    {Plain("markReady"), Plain("releaseStale"), Plain("complete")}
    \cup {Claim(o1, l1), Claim(o2, l2)}
    \cup {Leased("heartbeat", l) : l \in LeaseId}

NoCommands == {}

=============================================================================
