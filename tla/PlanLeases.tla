----------------------------- MODULE PlanLeases -----------------------------
(***************************************************************************)
(* What every plan store promises about leases, and nothing else: a lease  *)
(* is granted on a plan only while no other lease on it is live, it may be *)
(* extended only while no other is, and none outlasts the timeout.  How a  *)
(* store finds the plan, and what else it keeps, is its own business.      *)
(***************************************************************************)
EXTENDS Naturals

CONSTANTS Plan, Token, Lease, LeaseTimeout, NoGrant, MaxTime

VARIABLES
    now,    \* the clock
    grants  \* the leases granted so far

vars == <<now, grants>>

Init ==
    /\ now = 0
    /\ grants = [l \in Lease |-> NoGrant]

IsLive(l) ==
    /\ grants[l] # NoGrant
    /\ grants[l].open
    /\ now < grants[l].expiresAt

NoOtherIsLive(p, l) ==
    \A other \in Lease \ {l} : IsLive(other) => grants[other].plan # p

(* A deadline the server may answer: its clock was read a while ago.       *)
Deadline == 0..(now + LeaseTimeout)

Grant(l, p, t) ==
    /\ grants[l] = NoGrant
    /\ NoOtherIsLive(p, l)
    /\ \E deadline \in Deadline :
           grants' = [grants EXCEPT ![l] = [plan |-> p, token |-> t,
                                            expiresAt |-> deadline, open |-> TRUE]]
    /\ UNCHANGED now

Extend(l) ==
    /\ grants[l] # NoGrant
    /\ grants[l].open
    /\ NoOtherIsLive(grants[l].plan, l)
    /\ \E deadline \in Deadline :
           grants' = [grants EXCEPT ![l].expiresAt = deadline]
    /\ UNCHANGED now

Close(l) ==
    /\ grants[l] # NoGrant
    /\ grants[l].open
    /\ grants' = [grants EXCEPT ![l].open = FALSE]
    /\ UNCHANGED now

Tick ==
    /\ now < MaxTime
    /\ now' = now + 1
    /\ UNCHANGED grants

Next ==
    \/ \E l \in Lease, p \in Plan, t \in Token : Grant(l, p, t)
    \/ \E l \in Lease : Extend(l) \/ Close(l)
    \/ Tick

Spec == Init /\ [][Next]_vars

=============================================================================
