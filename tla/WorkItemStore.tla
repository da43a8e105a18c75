---------------------------- MODULE WorkItemStore ----------------------------
(***************************************************************************)
(* What a work item store promises: items change one lifecycle step at a   *)
(* time, each step computed from the very record it replaces, with a       *)
(* reading of the clock taken since that record was written.               *)
(*                                                                         *)
(* InMemoryWorkItemStore and FileWorkItemStore keep the promise by reading *)
(* and writing in one go (the second under its lock directory); that       *)
(* DatabaseWorkItemStore keeps it is what the module of that name shows.   *)
(***************************************************************************)
EXTENDS WorkItem

CONSTANT Item   \* work item ids

VARIABLES
    now,    \* the clock
    items   \* the stored records

vars == <<now, items>>

Init ==
    /\ now = 0
    /\ items = [i \in Item |-> NoItem]

(* assertHostedAcceptableJobClass keeps the other classes out. *)
Create(i, class, t) ==
    /\ IsExecutable(class)
    /\ ~IsStored(items[i])
    /\ t \in 0..now
    /\ items' = [items EXCEPT ![i] = Proposed(class, t)]
    /\ UNCHANGED now

Update(i, c, t) ==
    /\ IsStored(items[i])
    /\ t \in items[i].updated_at..now
    /\ Allows(items[i], c, t)
    /\ items' = [items EXCEPT ![i] = After(items[i], c, t)]
    /\ UNCHANGED now

Tick ==
    /\ now < MaxTime
    /\ now' = now + 1
    /\ UNCHANGED items

Next ==
    \/ \E i \in Item, class \in JobClass, t \in 0..now : Create(i, class, t)
    \/ \E i \in Item, c \in Command, t \in 0..now : Update(i, c, t)
    \/ Tick

Spec == Init /\ [][Next]_vars

-----------------------------------------------------------------------------
(* Properties *)

TypeOK ==
    /\ now \in 0..MaxTime
    /\ items \in [Item -> WorkItem]

(***************************************************************************)
(* An item being worked on has a lease, an item that can be claimed or has *)
(* ended has none, and no record or lease was written in the future.       *)
(***************************************************************************)
LeasesAreSound == \A i \in Item : IsWellLeased(items[i], now)

(***************************************************************************)
(* "Active lease conflict protection": while a lease is active no step     *)
(* gives the item to another lease, takes the lease away without ending    *)
(* the item, or shortens it.                                               *)
(***************************************************************************)
ActiveLeaseIsKept ==
    [][\A i \in Item :
          items[i].lease # NoLease /\ IsActive(items[i].lease, now)
              => KeepsLease(items[i], items'[i])]_vars

(***************************************************************************)
(* A completed, failed or cancelled item never changes again, and no item  *)
(* disappears.                                                             *)
(***************************************************************************)
TerminalIsFinal ==
    [][\A i \in Item :
          /\ items[i].status \in Terminal => items'[i] = items[i]
          /\ IsStored(items[i]) => IsStored(items'[i])]_vars

=============================================================================
