----------------------- MODULE RecordingWorkItemStore -----------------------
(***************************************************************************)
(* RecordingWorkItemStore around the file store: the status before a step  *)
(* is read by a get of its own, and the step is told to the audit stream   *)
(* when the store has already let go of its lock.                          *)
(*                                                                         *)
(* The stream is one that outlives the server, as buildServer accepts it;  *)
(* the one the factory makes for a file store is lost with the process.    *)
(* Of an item's events the last that tells a step is kept; the rejections, *)
(* which tell none, are left out.                                          *)
(***************************************************************************)
EXTENDS FileWorkItemStore

VARIABLES
    before,  \* the status each call under way has read
    due,     \* the event each call has still to append, as a set: the item,
             \* its status before and its status after
    told     \* status_after of the last event of each item; "unclear" once
             \* an event was lost or two calls on the item overlapped

auditVars == <<before, due, told>>
recordingVars == <<now, items, locked, calls, before, due, told>>

RecordingInit ==
    /\ FileInit
    /\ before = [c \in Call |-> "absent"]
    /\ due = [c \in Call |-> {}]
    /\ told = [i \in Item |-> "absent"]

(* Call c has to do with item i and is not over. *)
IsOpen(c, i) ==
    \/ calls[c].pc # "ended" /\ calls[c].request.item = i
    \/ \E e \in due[c] : e.item = i

(* runTransition reads the status first; create has none to read. *)
Begin(c, q) ==
    /\ due[c] = {}
    /\ Start(c, q)
    /\ before' = [before EXCEPT ![c] = IF q.op = "create" THEN "absent" ELSE items[q.item].status]
    /\ UNCHANGED <<due, told>>

(* What the store does without changing an item.  The rejection that may   *)
(* follow tells no step.                                                   *)
Wait(c) ==
    /\ Enter(c) \/ GiveUp(c) \/ Read(c) \/ WriteFails(c) \/ Leave(c)
    /\ before' = [before EXCEPT ![c] = IF calls'[c].pc = "ended" THEN "absent" ELSE @]
    /\ UNCHANGED <<due, told>>

(* Of the items in lost the stream tells no consistent story any more. *)
Blur(lost) == told' = [i \in Item |-> IF i \in lost THEN "unclear" ELSE told[i]]

Overlapped(c, i) == {j \in {i} : \E d \in Call \ {c} : IsOpen(d, j)}

(* Mutant: both statuses are taken from one object, which the step changed. *)
CommitAliased(c) ==
    LET i == calls[c].request.item
        s == calls[c].map[i].status
    IN
    /\ Write(c)
    /\ due' = [due EXCEPT ![c] = {[item |-> i, before |-> s, after |-> s]}]
    /\ Blur(Overlapped(c, i))
    /\ UNCHANGED before

(* The store writes the item; the event is made of the record it returns.  *)
Commit(c) ==
    LET i == calls[c].request.item IN
    /\ Write(c)
    /\ due' = [due EXCEPT ![c] = {[item |-> i, before |-> before[c],
                                   after |-> calls[c].map[i].status]}]
    /\ Blur(Overlapped(c, i))
    /\ UNCHANGED before

Append(c) ==
    /\ calls[c].pc = "ended"
    /\ \E e \in due[c] :
          told' = [told EXCEPT ![e.item] = IF @ = "unclear" THEN @ ELSE e.after]
    /\ due' = [due EXCEPT ![c] = {}]
    /\ UNCHANGED <<now, items, locked, calls, before>>

(* The append throws.  A rejection is recorded, or that fails as well: the *)
(* stream never tells that the item has moved.                             *)
AppendFails(c) ==
    /\ calls[c].pc = "ended"
    /\ due[c] # {}
    /\ Blur({e.item : e \in due[c]})
    /\ due' = [due EXCEPT ![c] = {}]
    /\ UNCHANGED <<now, items, locked, calls, before>>

(* A process dies with what its calls had to tell. *)
Die(dead) ==
    /\ Crash(dead)
    /\ Blur({e.item : e \in UNION {due[c] : c \in dead}})
    /\ due' = [c \in Call |-> IF c \in dead THEN {} ELSE due[c]]
    /\ before' = [c \in Call |-> IF c \in dead THEN "absent" ELSE before[c]]

Pass == Tick /\ UNCHANGED auditVars

Progress(c) == Wait(c) \/ Commit(c) \/ Append(c)

RecordingNext ==
    \/ \E c \in Call, q \in Requests : Begin(c, q)
    \/ \E c \in Call : Progress(c) \/ AppendFails(c)
    \/ \E dead \in SUBSET Call : Die(dead)
    \/ Pass

RecordingSpec ==
    /\ RecordingInit /\ [][RecordingNext]_recordingVars
    /\ \A c \in Call : WF_recordingVars(Progress(c))

-----------------------------------------------------------------------------
(* Properties *)

(***************************************************************************)
(* While the calls on an item come one after the other and no event is     *)
(* lost, the stream ends where the item stands.                            *)
(***************************************************************************)
StreamFollowsStore ==
    \A i \in Item :
        told[i] # "unclear" /\ (\A c \in Call : \A e \in due[c] : e.item # i)
            => told[i] = items[i].status

(***************************************************************************)
(* ... and each event begins where the one before it ended, although the   *)
(* status before is read without the lock, long before the step.           *)
(***************************************************************************)
EventsFormAChain ==
    \A c \in Call : \A e \in due[c] :
        told[e.item] # "unclear" => e.before = told[e.item]

(***************************************************************************)
(* An item that waits for approval under an active lease goes on waiting,  *)
(* unless somebody fails or cancels it.  Only time makes it claimable      *)
(* again: release-stale looks at the lease and never at the status.        *)
(***************************************************************************)
ApprovalIsAwaited ==
    [][\A i \in Item :
          items[i].status = "needs_approval" /\ IsActive(items[i].lease, now)
              => items'[i] = items[i] \/ items'[i].status \in {"failed", "cancelled"}]_vars

=============================================================================
