------------------------ MODULE DatabaseWorkItemStore ------------------------
(***************************************************************************)
(* DatabaseWorkItemStore over Postgres: every call is a chain of awaited   *)
(* statements, and what protects an item between them is a compare-and-set *)
(* on the version of its row, tried again a bounded number of times.       *)
(*                                                                         *)
(* Each statement is one atomic step, as the database runs it; between two *)
(* statements of a call every other call, of this server or of another one *)
(* on the same database, may run.  All servers read one clock.             *)
(***************************************************************************)
EXTENDS WorkItem

CONSTANTS
    Item,       \* work item ids
    Key,        \* idempotency keys
    Call,       \* calls in progress at once; a slot is used again and again
    Classes,    \* the job classes clients create items of
    Commands,   \* the updates clients ask for
    MaxRetries, \* options.maxRetries
    MaxVersion, \* bound: writes of one row
    NoKey,      \* the key column of a row that does not exist
    NoRequest   \* a slot nobody used yet

ASSUME DatabaseAssumption ==
    /\ Classes \subseteq {class \in JobClass : IsExecutable(class)}
    /\ Commands \subseteq Command
    /\ MaxRetries \in Nat \ {0}
    /\ MaxVersion \in Nat
    /\ NoKey \notin Key

VARIABLES
    now,        \* the clock
    rows,       \* the table work_items
    request,    \* what each call was asked for
    pc,         \* the statement each call will run next
    seen,       \* the row a call loaded
    next,       \* the record a call computed, and returns when it succeeds
    attempt,    \* attempts of applyUpdate that ended in a conflict
    began       \* version of the row when the call first loaded it

vars == <<now, rows, request, pc, seen, next, attempt, began>>

Row == [version : Nat, key : Key \cup {NoKey}, record : WorkItem]

NoRow == [version |-> 0, key |-> NoKey, record |-> NoItem]

IsRow(row) == row.version > 0

(* assertHostedAcceptableJobClass turns the other job classes down at once. *)
Request ==
    [op : {"create"}, item : Item, key : Key, job_class : Classes]
    \cup [op : {"update"}, item : Item, command : Commands]

Pending == {"find_key", "find_id", "insert", "load", "compute", "compare_and_set"}

(* A unique index refused the insert: "duplicate"; the driver failed: "error". *)
Answer == {"ok", "rejected", "not_found", "conflict", "duplicate", "error"}

IsPending(c) == pc[c] \in Pending

Target(c) == request[c].item

Init ==
    /\ now = 0
    /\ rows = [i \in Item |-> NoRow]
    /\ request = [c \in Call |-> NoRequest]
    /\ pc = [c \in Call |-> "idle"]
    /\ seen = [c \in Call |-> NoRow]
    /\ next = [c \in Call |-> NoItem]
    /\ attempt = [c \in Call |-> 0]
    /\ began = [c \in Call |-> 0]

Goto(c, label) == pc' = [pc EXCEPT ![c] = label]

(* The call is over: it returns record, or throws. *)
Return(c, answer, record) ==
    /\ Goto(c, answer)
    /\ seen' = [seen EXCEPT ![c] = NoRow]
    /\ next' = [next EXCEPT ![c] = record]
    /\ attempt' = [attempt EXCEPT ![c] = 0]

Throw(c, answer) == Return(c, answer, NoItem)

(* A client's call arrives.  The second conjunct bounds the writes of a row. *)
Start(c, q) ==
    /\ ~IsPending(c)
    /\ rows[q.item].version
         + Cardinality({d \in Call : IsPending(d) /\ Target(d) = q.item}) < MaxVersion
    /\ request' = [request EXCEPT ![c] = q]
    /\ Goto(c, IF q.op = "create" THEN "find_key" ELSE "load")
    /\ next' = [next EXCEPT ![c] = NoItem]
    /\ began' = [began EXCEPT ![c] = 0]
    /\ UNCHANGED <<now, rows, seen, attempt>>

-----------------------------------------------------------------------------
(* create *)

KeyIsTaken(key) == \E i \in Item : IsRow(rows[i]) /\ rows[i].key = key

(* A retried create is answered with the record it finds. *)
FindKey(c) ==
    /\ pc[c] = "find_key"
    /\ \/ /\ ~KeyIsTaken(request[c].key)
          /\ Goto(c, "find_id")
          /\ UNCHANGED <<seen, next, attempt>>
       \/ \E i \in Item :
             /\ IsRow(rows[i]) /\ rows[i].key = request[c].key
             /\ IF i = Target(c) THEN Return(c, "ok", rows[i].record) ELSE Throw(c, "rejected")
    /\ UNCHANGED <<now, rows, request, began>>

FindId(c) ==
    /\ pc[c] = "find_id"
    /\ IF IsRow(rows[Target(c)])
         THEN Throw(c, "rejected")
         ELSE /\ Goto(c, "insert")
              /\ next' = [next EXCEPT ![c] = Proposed(request[c].job_class, now)]
              /\ UNCHANGED <<seen, attempt>>
    /\ UNCHANGED <<now, rows, request, began>>

(* The primary key and the unique index on idempotency_key. *)
Insertable(c) == ~IsRow(rows[Target(c)]) /\ ~KeyIsTaken(request[c].key)

InsertRow(c) ==
    /\ Insertable(c)
    /\ rows' = [rows EXCEPT ![Target(c)] =
                  [version |-> 1, key |-> request[c].key, record |-> next[c]]]

Insert(c) ==
    /\ pc[c] = "insert"
    /\ \/ InsertRow(c) /\ Return(c, "ok", next[c])
       \/ ~Insertable(c) /\ UNCHANGED rows /\ Throw(c, "duplicate")
    /\ UNCHANGED <<now, request, began>>

-----------------------------------------------------------------------------
(* applyUpdate *)

Load(c) ==
    /\ pc[c] = "load"
    /\ IF IsRow(rows[Target(c)])
         THEN /\ Goto(c, "compute")
              /\ seen' = [seen EXCEPT ![c] = rows[Target(c)]]
              /\ began' = [began EXCEPT ![c] = IF attempt[c] = 0 THEN rows[Target(c)].version ELSE @]
              /\ UNCHANGED <<next, attempt>>
         ELSE Throw(c, "not_found") /\ UNCHANGED began
    /\ UNCHANGED <<now, rows, request>>

(* The lifecycle helper runs on the loaded record when the answer arrives. *)
Compute(c) ==
    /\ pc[c] = "compute"
    /\ IF Allows(seen[c].record, request[c].command, now)
         THEN /\ Goto(c, "compare_and_set")
              /\ next' = [next EXCEPT ![c] = After(seen[c].record, request[c].command, now)]
              /\ UNCHANGED <<seen, attempt>>
         ELSE Throw(c, "rejected")
    /\ UNCHANGED <<now, rows, request, began>>

(* Mutant: the update does not compare versions. *)
RowIsThere(c) == IsRow(rows[Target(c)])

VersionMatches(c) == rows[Target(c)].version = seen[c].version

(* Mutant: the version is not counted up. *)
UpdateRowSameVersion(c) ==
    /\ VersionMatches(c)
    /\ rows' = [rows EXCEPT ![Target(c)] =
                  [version |-> seen[c].version, key |-> seen[c].key, record |-> next[c]]]

UpdateRow(c) ==
    /\ VersionMatches(c)
    /\ rows' = [rows EXCEPT ![Target(c)] =
                  [version |-> seen[c].version + 1, key |-> seen[c].key, record |-> next[c]]]

CompareAndSet(c) ==
    /\ pc[c] = "compare_and_set"
    /\ UpdateRow(c)
    /\ Return(c, "ok", next[c])
    /\ UNCHANGED <<now, request, began>>

(* Mutant: one attempt too few. *)
ExhaustedEarly(c) == attempt[c] + 2 >= MaxRetries

Exhausted(c) == attempt[c] + 1 >= MaxRetries

(* Mutant: the same write is tried again, with the version that lost. *)
ConflictWithoutReload(c) ==
    /\ pc[c] = "compare_and_set"
    /\ ~VersionMatches(c)
    /\ Goto(c, "compare_and_set")
    /\ UNCHANGED <<now, rows, request, seen, next, attempt, began>>

(* WorkItemPersistenceConflict: load and compute again, or give up. *)
Conflict(c) ==
    /\ pc[c] = "compare_and_set"
    /\ ~VersionMatches(c)
    /\ IF Exhausted(c)
         THEN Throw(c, "conflict")
         ELSE /\ Goto(c, "load")
              /\ seen' = [seen EXCEPT ![c] = NoRow]
              /\ next' = [next EXCEPT ![c] = NoItem]
              /\ attempt' = [attempt EXCEPT ![c] = @ + 1]
    /\ UNCHANGED <<now, rows, request, began>>

-----------------------------------------------------------------------------
(* The driver reports an error: the statement did not run, or its answer   *)
(* was lost and the row is written all the same.                           *)

StatementFails(c) ==
    /\ IsPending(c) /\ pc[c] # "compute"
    /\ Throw(c, "error")
    /\ UNCHANGED <<now, rows, request, began>>

AnswerIsLost(c) ==
    /\ \/ pc[c] = "insert" /\ InsertRow(c)
       \/ pc[c] = "compare_and_set" /\ UpdateRow(c)
    /\ Throw(c, "error")
    /\ UNCHANGED <<now, request, began>>

-----------------------------------------------------------------------------

Tick ==
    /\ now < MaxTime
    /\ now' = now + 1
    /\ UNCHANGED <<rows, request, pc, seen, next, attempt, began>>

Step(c) ==
    \/ FindKey(c) \/ FindId(c) \/ Insert(c)
    \/ Load(c) \/ Compute(c) \/ CompareAndSet(c) \/ Conflict(c)

Next ==
    \/ \E c \in Call, q \in Request : Start(c, q)
    \/ \E c \in Call : Step(c) \/ StatementFails(c) \/ AnswerIsLost(c)
    \/ Tick

Spec == Init /\ [][Next]_vars

(* The driver answers every statement, or fails it, and the event loop     *)
(* runs the call on.                                                       *)
FairSpec == Spec /\ \A c \in Call : WF_vars(Step(c))

-----------------------------------------------------------------------------
(* Properties *)

TypeOK ==
    /\ now \in 0..MaxTime
    /\ rows \in [Item -> Row]
    /\ request \in [Call -> Request \cup {NoRequest}]
    /\ pc \in [Call -> Pending \cup Answer \cup {"idle"}]
    /\ seen \in [Call -> Row]
    /\ next \in [Call -> WorkItem]
    /\ attempt \in [Call -> 0..MaxRetries - 1]
    /\ began \in [Call -> Nat]

(***************************************************************************)
(* Whatever the interleaving of statements, the table changes as a store   *)
(* of atomic operations would: each write is a lifecycle step computed     *)
(* from the very record it replaces ("every contract operation succeeds    *)
(* atomically against the underlying store").                              *)
(***************************************************************************)
Store == INSTANCE WorkItemStore WITH items <- [i \in Item |-> rows[i].record]

ImplementsStore == Store!Spec

(***************************************************************************)
(* A claim answered with success excludes every other claimant until the   *)
(* lease it returned runs out ("only one active lease can win a claim").   *)
(***************************************************************************)
WonClaim(c) ==
    pc[c] = "ok" /\ request[c].op = "update" /\ request[c].command.op = "claim"

WinnerKeepsTheItem ==
    \A c \in Call :
        WonClaim(c) /\ IsActive(next[c].lease, now) => KeepsLease(next[c], rows[Target(c)].record)

(***************************************************************************)
(* A call is given up for conflicts only when at least MaxRetries writes   *)
(* of other calls succeeded on its item since it first looked: calls that  *)
(* collide cannot all fail.                                                *)
(***************************************************************************)
NobodyFailsAlone ==
    \A c \in Call :
        pc[c] = "conflict" => rows[Target(c)].version >= began[c] + MaxRetries

(***************************************************************************)
(* "Idempotent retries do not produce duplicate records": no two items     *)
(* were created under one idempotency key, however creates interleave, and *)
(* an item keeps the key it was created with.                              *)
(***************************************************************************)
KeysAreUnique ==
    \A i, j \in Item :
        IsRow(rows[i]) /\ IsRow(rows[j]) /\ rows[i].key = rows[j].key => i = j

(* Every call is answered: retrying always ends. *)
EveryCallIsAnswered == \A c \in Call : IsPending(c) ~> ~IsPending(c)

(***************************************************************************)
(* Refuted: "the persistence adapter uses [the idempotency key] to return  *)
(* the already-persisted work item on retried creates".  A retry that runs *)
(* while the first create is between its look-ups and its insert is        *)
(* refused by the database instead.                                        *)
(***************************************************************************)
RetriedCreateIsAnswered ==
    \A c \in Call :
        pc[c] = "duplicate" =>
            ~ (IsRow(rows[Target(c)]) /\ rows[Target(c)].key = request[c].key)

=============================================================================
