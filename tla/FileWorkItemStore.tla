-------------------------- MODULE FileWorkItemStore --------------------------
(***************************************************************************)
(* FileWorkItemStore: all items are in one JSON file, and whoever changes  *)
(* it makes a directory beside it first and removes it afterwards.  Calls  *)
(* of one or several server processes poll for the directory and give up   *)
(* after five seconds; a process may die anywhere, its directory stays.    *)
(*                                                                         *)
(* The file is replaced by renaming a temporary one, so that a reader sees *)
(* a whole file; what is written is the whole map that was read before.    *)
(***************************************************************************)
EXTENDS WorkItem

CONSTANTS
    Item,      \* work item ids
    Call,      \* calls in progress at once; a slot is used again and again
    Requests   \* what clients ask for

Request ==
    [op : {"create"}, item : Item, job_class : {class \in JobClass : IsExecutable(class)}]
    \cup [op : {"update"}, item : Item, command : Command]

ASSUME RequestsAssumption == Requests \subseteq Request

VARIABLES
    now,     \* the clock
    items,   \* the file
    locked,  \* the lock directory is there
    calls    \* where each call stands

vars == <<now, items, locked, calls>>

Store == INSTANCE WorkItemStore

(* The answer to the last call of a slot; "none" before the first. *)
Answered(answer) == [pc |-> "ended", answer |-> answer]

FileInit ==
    /\ Store!Init
    /\ locked = FALSE
    /\ calls = [c \in Call |-> Answered("none")]

Goto(c, state) == calls' = [calls EXCEPT ![c] = state]

Start(c, q) ==
    /\ calls[c].pc = "ended"
    /\ Goto(c, [pc |-> "wait", request |-> q])
    /\ UNCHANGED <<now, items, locked>>

(* Mutant: mkdir with recursive, which an existing directory satisfies. *)
EnterAnyway(c) ==
    /\ calls[c].pc = "wait"
    /\ locked' = TRUE
    /\ Goto(c, [pc |-> "read", request |-> calls[c].request])
    /\ UNCHANGED <<now, items>>

(* mkdir makes the directory, or fails because it is there. *)
Enter(c) ==
    /\ calls[c].pc = "wait"
    /\ ~locked
    /\ locked' = TRUE
    /\ Goto(c, [pc |-> "read", request |-> calls[c].request])
    /\ UNCHANGED <<now, items>>

(* Mutant: the call goes on sleeping. *)
NeverGivesUp(c) == FALSE /\ UNCHANGED vars

(* Mutant: the directory is taken for a dead process's and removed. *)
GiveUpAndUnlock(c) ==
    /\ calls[c].pc = "wait"
    /\ locked
    /\ locked' = FALSE
    /\ Goto(c, Answered("lock_timeout"))
    /\ UNCHANGED <<now, items>>

(* Five seconds of EEXIST.  How many polls fit in is left open. *)
GiveUp(c) ==
    /\ calls[c].pc = "wait"
    /\ locked
    /\ Goto(c, Answered("lock_timeout"))
    /\ UNCHANGED <<now, items, locked>>

(* The operation leaves through finally. *)
Leaving(q, answer) == [pc |-> "leave", request |-> q, answer |-> answer]

Accepted(q) ==
    IF q.op = "create" THEN ~IsStored(items[q.item])
    ELSE IsStored(items[q.item]) /\ Allows(items[q.item], q.command, now)

Computed(q) ==
    IF q.op = "create" THEN Proposed(q.job_class, now)
    ELSE After(items[q.item], q.command, now)

(* readItems, then the lifecycle helper, which throws or returns. *)
Read(c) ==
    LET q == calls[c].request IN
    /\ calls[c].pc = "read"
    /\ Goto(c, IF Accepted(q)
                 THEN [pc |-> "write", request |-> q,
                       map |-> [items EXCEPT ![q.item] = Computed(q)]]
                 ELSE Leaving(q, "rejected"))
    /\ UNCHANGED <<now, items, locked>>

(* Mutant: the record is merged into the file, an update that was lost.    *)
WriteOthersOnly(c) ==
    /\ calls[c].pc = "write"
    /\ items' = [calls[c].map EXCEPT ![calls[c].request.item] = items[calls[c].request.item]]
    /\ Goto(c, Leaving(calls[c].request, "ok"))
    /\ UNCHANGED <<now, locked>>

(* The temporary file is renamed over the old one ... *)
Write(c) ==
    /\ calls[c].pc = "write"
    /\ items' = calls[c].map
    /\ Goto(c, Leaving(calls[c].request, "ok"))
    /\ UNCHANGED <<now, locked>>

(* ... or could not be written. *)
WriteFails(c) ==
    /\ calls[c].pc = "write"
    /\ Goto(c, Leaving(calls[c].request, "error"))
    /\ UNCHANGED <<now, items, locked>>

Leave(c) ==
    /\ calls[c].pc = "leave"
    /\ locked' = FALSE
    /\ Goto(c, Answered(calls[c].answer))
    /\ UNCHANGED <<now, items>>

(* A process dies, and the calls it was serving with it. *)
Crash(dead) ==
    /\ \E c \in dead : calls[c].pc # "ended"
    /\ calls' = [c \in Call |-> IF c \in dead THEN Answered("none") ELSE calls[c]]
    /\ UNCHANGED <<now, items, locked>>

Tick == Store!Tick /\ UNCHANGED <<locked, calls>>

Step(c) == Enter(c) \/ GiveUp(c) \/ Read(c) \/ Write(c) \/ Leave(c)

FileNext ==
    \/ \E c \in Call, q \in Requests : Start(c, q)
    \/ \E c \in Call : Step(c) \/ WriteFails(c)
    \/ \E dead \in SUBSET Call : Crash(dead)
    \/ Tick

(* A process that lives polls every 25 ms and gets its file calls answered. *)
FileSpec == FileInit /\ [][FileNext]_vars /\ \A c \in Call : WF_vars(Step(c))

-----------------------------------------------------------------------------
(* Properties *)

IsInside(c) == calls[c].pc \in {"read", "write", "leave"}

(***************************************************************************)
(* Of all calls of all processes at most one is between mkdir and rm, and  *)
(* while one is, the directory is there.                                   *)
(***************************************************************************)
OneInside ==
    /\ \A c, d \in Call : IsInside(c) /\ IsInside(d) => c = d
    /\ \A c \in Call : IsInside(c) => locked

(***************************************************************************)
(* The file behaves as the atomic store, whoever dies wherever: each write *)
(* replaces one record by the lifecycle step computed from it.             *)
(***************************************************************************)
ImplementsStore == Store!Spec

(* ... so that the promises of the atomic store are the file's. *)
LeasesAreSound == Store!LeasesAreSound

(* No step takes an item from an active lease. *)
ActiveLeaseIsKept == Store!ActiveLeaseIsKept

(* Ended items never change, and none disappears. *)
TerminalIsFinal == Store!TerminalIsFinal

(***************************************************************************)
(* A process that died between mkdir and rm leaves the directory for good: *)
(* no call, of whatever process, changes an item any more.  The store has  *)
(* no stale-lock recovery; somebody has to remove the directory by hand.   *)
(***************************************************************************)
OrphanedLockStays ==
    [][locked /\ (\A c \in Call : ~IsInside(c)) => locked' /\ items' = items]_vars

(***************************************************************************)
(* Every call ends, also when it finds such a directory: it gives up.      *)
(***************************************************************************)
EveryCallEnds == \A c \in Call : calls[c].pc = "wait" ~> calls[c].pc = "ended"

=============================================================================
