--------------------- MODULE DatabaseWorkItemStoreProofs ---------------------
(***************************************************************************)
(* The compare-and-set protocol of DatabaseWorkItemStore implements the    *)
(* atomic WorkItemStore, for every number of calls, items, keys and        *)
(* retries.                                                                *)
(*                                                                         *)
(* The heart of the argument is SeenIsOld: the row a call loaded is an     *)
(* earlier version of the stored row, and is the stored row itself when    *)
(* the versions agree, because every write counts the version up.  So a    *)
(* compare-and-set that succeeds replaces the very record its next record  *)
(* was computed from.                                                      *)
(***************************************************************************)
EXTENDS DatabaseWorkItemStore, WorkItemProofs

(* A row is there exactly when it holds a stored item, of the past. *)
RowIsSound(row, t) ==
    /\ IsRow(row) <=> IsStored(row.record)
    /\ IsRow(row) => row.key \in Key
    /\ IsWellLeased(row.record, t)

(* What a call loaded is the stored row or an earlier version of it. *)
SeenIsOld(c) ==
    /\ IsRow(seen[c])
    /\ IsStored(seen[c].record)
    /\ seen[c].record.updated_at <= now
    /\ seen[c].version <= rows[Target(c)].version
    /\ seen[c].version = rows[Target(c)].version => seen[c] = rows[Target(c)]

(* What a call computed follows from what it loaded. *)
NextFollows(c) ==
    \E t \in 0..now :
        /\ seen[c].record.updated_at <= t
        /\ Allows(seen[c].record, request[c].command, t)
        /\ next[c] = After(seen[c].record, request[c].command, t)

(* The state of a call agrees with the statement it is about to run. *)
CallIsSound(c) ==
    /\ pc[c] # "idle" => request[c] \in Request
    /\ pc[c] \in {"find_key", "find_id", "insert"} => request[c].op = "create"
    /\ pc[c] \in {"load", "compute", "compare_and_set"} => request[c].op = "update"
    /\ pc[c] = "insert" => \E t \in 0..now : next[c] = Proposed(request[c].job_class, t)
    /\ pc[c] \in {"compute", "compare_and_set"} => SeenIsOld(c)
    /\ pc[c] = "compare_and_set" => NextFollows(c)

DatabaseIsSound ==
    /\ TypeOK
    /\ \A i \in Item : RowIsSound(rows[i], now)
    /\ \A c \in Call : CallIsSound(c)

-----------------------------------------------------------------------------
(* What a step changes *)

(* The table only moves on: a row that changes gets a later version. *)
RowsMoveOn == \A i \in Item : rows'[i] = rows[i] \/ rows'[i].version > rows[i].version

(* The other calls do not move. *)
KeepsOthers(c) ==
    \A d \in Call \ {c} :
        /\ request'[d] = request[d]
        /\ pc'[d] = pc[d]
        /\ seen'[d] = seen[d]
        /\ next'[d] = next[d]
        /\ attempt'[d] = attempt[d]
        /\ began'[d] = began[d]

(* What has to be shown of a step of call c. *)
StepIsSound(c) ==
    /\ TypeOK'
    /\ now' = now
    /\ RowsMoveOn
    /\ \A i \in Item : RowIsSound(rows'[i], now)
    /\ KeepsOthers(c)
    /\ CallIsSound(c)'

(* What a call may rely on while it is pending. *)
LEMMA CallTypes ==
    ASSUME DatabaseIsSound, NEW c \in Call, pc[c] # "idle"
    PROVE  /\ request[c] \in Request
           /\ Target(c) \in Item
           /\ rows[Target(c)] \in Row
           /\ request[c].op = "create" => request[c].key \in Key /\ request[c].job_class \in JobClass
           /\ request[c].op = "update" => request[c].command \in Command
<1>1. request[c] \in Request
  BY DEF DatabaseIsSound, CallIsSound
<1>2. Target(c) \in Item
  BY <1>1 DEF Request, Target
<1>3. rows[Target(c)] \in Row
  BY <1>2 DEF DatabaseIsSound, TypeOK
<1>4. request[c].op = "create" => request[c].key \in Key /\ request[c].job_class \in JobClass
  BY <1>1, DatabaseAssumption DEF Request
<1>5. request[c].op = "update" => request[c].command \in Command
  BY <1>1, DatabaseAssumption DEF Request
<1> QED BY <1>1, <1>2, <1>3, <1>4, <1>5

(* A call that does not move stays sound while the table moves on. *)
LEMMA OthersStaySound ==
    ASSUME DatabaseIsSound, TypeOK', now <= now', RowsMoveOn,
           NEW d \in Call,
           request'[d] = request[d], pc'[d] = pc[d], seen'[d] = seen[d], next'[d] = next[d]
    PROVE  CallIsSound(d)'
<1>1. CallIsSound(d) /\ now \in Nat /\ now' \in Nat
  BY DEF DatabaseIsSound, TypeOK
<1>2. ASSUME pc[d] \in {"compute", "compare_and_set"}
      PROVE  SeenIsOld(d)'
  <2>1. SeenIsOld(d) /\ Target(d) \in Item /\ Target(d)' = Target(d)
    BY <1>1, <1>2, CallTypes DEF CallIsSound, Target
  <2>2. /\ seen[d].version \in Nat
        /\ rows[Target(d)].version \in Nat
        /\ rows'[Target(d)].version \in Nat
        /\ seen[d].record.updated_at \in Nat
    BY <2>1 DEF DatabaseIsSound, TypeOK, Row, WorkItem
  <2>3. rows'[Target(d)] = rows[Target(d)] \/ rows'[Target(d)].version > rows[Target(d)].version
    BY <2>1 DEF RowsMoveOn
  <2> QED BY <1>1, <2>1, <2>2, <2>3 DEF SeenIsOld
<1>3. ASSUME pc[d] = "compare_and_set"
      PROVE  NextFollows(d)'
  BY <1>1, <1>3 DEF CallIsSound, NextFollows
<1>4. pc[d] = "insert" => \E t \in 0..now' : next'[d] = Proposed(request'[d].job_class, t)
  BY <1>1 DEF CallIsSound
<1> QED BY <1>1, <1>2, <1>3, <1>4 DEF CallIsSound

(* It is enough to look at the call that moves. *)
LEMMA StepKeepsSoundness ==
    ASSUME DatabaseIsSound, NEW c \in Call, StepIsSound(c)
    PROVE  DatabaseIsSound'
<1>1. \A d \in Call \ {c} : CallIsSound(d)'
  <2> SUFFICES ASSUME NEW d \in Call \ {c} PROVE CallIsSound(d)'
    OBVIOUS
  <2> QED BY OthersStaySound DEF StepIsSound, KeepsOthers, DatabaseIsSound, TypeOK
<1> QED BY <1>1 DEF StepIsSound, DatabaseIsSound

(* What Return assigns. *)
LEMMA ReturnEffect ==
    ASSUME TypeOK, NEW c \in Call, NEW answer \in Answer, NEW record \in WorkItem,
           Return(c, answer, record)
    PROVE  /\ pc' \in [Call -> Pending \cup Answer \cup {"idle"}]
           /\ seen' \in [Call -> Row]
           /\ next' \in [Call -> WorkItem]
           /\ attempt' \in [Call -> 0..MaxRetries - 1]
           /\ pc'[c] = answer /\ next'[c] = record /\ attempt'[c] = 0
           /\ \A d \in Call \ {c} :
                 /\ pc'[d] = pc[d] /\ seen'[d] = seen[d]
                 /\ next'[d] = next[d] /\ attempt'[d] = attempt[d]
<1>1. NoRow \in Row
  BY DEF NoRow, NoItem, Row, WorkItem, JobClass
<1>2. 0 \in 0..MaxRetries - 1
  BY DatabaseAssumption
<1> QED BY <1>1, <1>2 DEF Return, Goto, TypeOK

LEMMA NoItemIsAnItem == NoItem \in WorkItem
BY DEF NoItem, WorkItem, JobClass

(* A call that ends without touching the table. *)
LEMMA ReturnIsSound ==
    ASSUME DatabaseIsSound, NEW c \in Call, IsPending(c), UNCHANGED <<now, rows, request, began>>,
           NEW answer \in Answer, NEW record \in WorkItem, Return(c, answer, record)
    PROVE  StepIsSound(c)
<1>1. TypeOK
  BY DEF DatabaseIsSound
<1>2. TypeOK'
  BY <1>1, ReturnEffect DEF TypeOK
<1>3. KeepsOthers(c) /\ pc'[c] = answer
  BY <1>1, ReturnEffect DEF KeepsOthers
<1>4. CallIsSound(c)'
  BY <1>3, CallTypes DEF CallIsSound, Answer, IsPending, Pending
<1> QED BY <1>2, <1>3, <1>4 DEF StepIsSound, RowsMoveOn, DatabaseIsSound

-----------------------------------------------------------------------------
(* The steps of a call *)

LEMMA StartIsSound ==
    ASSUME DatabaseIsSound, NEW c \in Call, NEW q \in Request, Start(c, q)
    PROVE  StepIsSound(c)
<1>1. q.op \in {"create", "update"}
  BY DEF Request
<1>2. /\ request'[c] = q
      /\ pc'[c] = IF q.op = "create" THEN "find_key" ELSE "load"
      /\ KeepsOthers(c)
  BY DEF Start, Goto, DatabaseIsSound, TypeOK, KeepsOthers
<1>3. TypeOK'
  BY <1>1, NoItemIsAnItem DEF Start, Goto, DatabaseIsSound, TypeOK, Pending
<1>4. CallIsSound(c)'
  BY <1>1, <1>2 DEF CallIsSound
<1> QED BY <1>2, <1>3, <1>4 DEF StepIsSound, Start, RowsMoveOn, DatabaseIsSound

LEMMA FindKeyIsSound ==
    ASSUME DatabaseIsSound, NEW c \in Call, FindKey(c)
    PROVE  StepIsSound(c)
<1>1. /\ pc[c] = "find_key" /\ IsPending(c)
      /\ UNCHANGED <<now, rows, request, began>>
  BY DEF FindKey, IsPending, Pending, DatabaseIsSound, TypeOK
<1>2. CASE Goto(c, "find_id") /\ UNCHANGED <<seen, next, attempt>>
  <2>1. pc'[c] = "find_id" /\ KeepsOthers(c) /\ TypeOK'
    BY <1>1, <1>2 DEF Goto, DatabaseIsSound, TypeOK, KeepsOthers, Pending
  <2>2. CallIsSound(c)'
    BY <1>1, <2>1, CallTypes DEF CallIsSound, DatabaseIsSound
  <2> QED BY <1>1, <2>1, <2>2 DEF StepIsSound, RowsMoveOn, DatabaseIsSound
<1>3. CASE \E i \in Item : Return(c, "ok", rows[i].record)
  <2>1. \A i \in Item : rows[i].record \in WorkItem
    BY DEF DatabaseIsSound, TypeOK, Row
  <2> QED BY <1>1, <1>3, <2>1, ReturnIsSound DEF Answer
<1>4. CASE Throw(c, "rejected")
  BY <1>1, <1>4, ReturnIsSound, NoItemIsAnItem DEF Throw, Answer
<1> QED BY <1>2, <1>3, <1>4 DEF FindKey

LEMMA FindIdIsSound ==
    ASSUME DatabaseIsSound, NEW c \in Call, FindId(c)
    PROVE  StepIsSound(c)
<1>1. /\ pc[c] = "find_id" /\ IsPending(c)
      /\ UNCHANGED <<now, rows, request, began>>
  BY DEF FindId, IsPending, Pending, DatabaseIsSound, TypeOK
<1>2. CASE Throw(c, "rejected")
  BY <1>1, <1>2, ReturnIsSound, NoItemIsAnItem DEF Throw, Answer
<1>3. CASE /\ Goto(c, "insert")
           /\ next' = [next EXCEPT ![c] = Proposed(request[c].job_class, now)]
           /\ UNCHANGED <<seen, attempt>>
  <2>1. request[c].op = "create" /\ request[c] \in Request /\ now \in Nat
    BY <1>1, CallTypes DEF DatabaseIsSound, CallIsSound, TypeOK
  <2>2. Proposed(request[c].job_class, now) \in WorkItem
    BY <1>1, <2>1, CallTypes, ProposedItem
  <2>3. pc'[c] = "insert" /\ next'[c] = Proposed(request'[c].job_class, now) /\ KeepsOthers(c)
    BY <1>1, <1>3 DEF Goto, DatabaseIsSound, TypeOK, KeepsOthers
  <2>4. TypeOK'
    BY <1>1, <1>3, <2>2 DEF Goto, DatabaseIsSound, TypeOK, Pending
  <2>5. CallIsSound(c)'
    BY <1>1, <2>1, <2>3 DEF CallIsSound
  <2> QED BY <1>1, <2>3, <2>4, <2>5 DEF StepIsSound, RowsMoveOn, DatabaseIsSound
<1> QED BY <1>2, <1>3 DEF FindId

(* The rows an insert and a compare-and-set write. *)
LEMMA InsertedRow ==
    ASSUME DatabaseIsSound, NEW c \in Call, pc[c] = "insert", InsertRow(c)
    PROVE  /\ rows' \in [Item -> Row]
           /\ RowsMoveOn
           /\ \A i \in Item : RowIsSound(rows'[i], now)
           /\ \A i \in Item \ {Target(c)} : rows'[i] = rows[i]
           /\ ~ IsStored(rows[Target(c)].record)
           /\ rows'[Target(c)].record = next[c]
           /\ rows'[Target(c)].key = request[c].key
<1>1. /\ request[c].op = "create" /\ Target(c) \in Item /\ request[c].key \in Key
      /\ request[c].job_class \in JobClass /\ next[c] \in WorkItem /\ now \in Nat
      /\ rows[Target(c)] \in Row
  BY CallTypes DEF DatabaseIsSound, CallIsSound, TypeOK
<1>2. PICK t \in 0..now : next[c] = Proposed(request[c].job_class, t)
  BY DEF DatabaseIsSound, CallIsSound
<1>3. IsStored(next[c]) /\ IsWellLeased(next[c], now)
  BY <1>1, <1>2, ProposedItem
<1> DEFINE row == [version |-> 1, key |-> request[c].key, record |-> next[c]]
<1>4. row \in Row /\ row.version = 1 /\ row.key = request[c].key /\ row.record = next[c]
  BY <1>1 DEF Row
<1>5. rows' = [rows EXCEPT ![Target(c)] = row]
  BY DEF InsertRow
<1> HIDE DEF row
<1>6. ~ IsRow(rows[Target(c)]) /\ rows[Target(c)].version = 0
  BY <1>1 DEF InsertRow, Insertable, IsRow, Row
<1>7. /\ rows' \in [Item -> Row] /\ rows'[Target(c)] = row
      /\ \A i \in Item \ {Target(c)} : rows'[i] = rows[i]
  BY <1>1, <1>4, <1>5 DEF DatabaseIsSound, TypeOK
<1>8. RowIsSound(row, now)
  BY <1>1, <1>3, <1>4 DEF RowIsSound, IsRow
<1> QED BY <1>1, <1>4, <1>6, <1>7, <1>8 DEF RowsMoveOn, RowIsSound, DatabaseIsSound

LEMMA UpdatedRow ==
    ASSUME DatabaseIsSound, NEW c \in Call, pc[c] = "compare_and_set", UpdateRow(c)
    PROVE  /\ rows' \in [Item -> Row]
           /\ RowsMoveOn
           /\ \A i \in Item : RowIsSound(rows'[i], now)
           /\ \A i \in Item \ {Target(c)} : rows'[i] = rows[i]
           /\ rows'[Target(c)].record = next[c]
           /\ rows'[Target(c)].version = rows[Target(c)].version + 1
           /\ rows'[Target(c)].key = rows[Target(c)].key
           /\ seen[c] = rows[Target(c)]
           /\ IsRow(rows[Target(c)]) /\ IsStored(rows[Target(c)].record)
           /\ \E t \in 0..now :
                 /\ rows[Target(c)].record.updated_at <= t
                 /\ Allows(rows[Target(c)].record, request[c].command, t)
                 /\ next[c] = After(rows[Target(c)].record, request[c].command, t)
<1>1. /\ request[c].op = "update" /\ request[c].command \in Command /\ Target(c) \in Item
      /\ next[c] \in WorkItem /\ now \in Nat /\ rows[Target(c)] \in Row
      /\ SeenIsOld(c) /\ NextFollows(c)
  BY CallTypes DEF DatabaseIsSound, CallIsSound, TypeOK
<1>2. /\ seen[c] = rows[Target(c)]
      /\ IsRow(rows[Target(c)]) /\ IsStored(rows[Target(c)].record)
  BY <1>1 DEF UpdateRow, VersionMatches, SeenIsOld
<1>3. PICK t \in 0..now :
         /\ rows[Target(c)].record.updated_at <= t
         /\ Allows(rows[Target(c)].record, request[c].command, t)
         /\ next[c] = After(rows[Target(c)].record, request[c].command, t)
  BY <1>1, <1>2 DEF NextFollows
<1>4. rows[Target(c)].record \in WorkItem /\ RowIsSound(rows[Target(c)], now)
  BY <1>1 DEF DatabaseIsSound, Row
<1>5. IsStored(next[c]) /\ IsWellLeased(next[c], now)
  BY <1>1, <1>3, <1>4, CommandType, CommandWellLeased DEF RowIsSound
<1> DEFINE row == [version |-> seen[c].version + 1, key |-> seen[c].key, record |-> next[c]]
<1>6. /\ row \in Row /\ row.version = rows[Target(c)].version + 1
      /\ row.key = rows[Target(c)].key /\ row.record = next[c]
  BY <1>1, <1>2 DEF Row
<1>7. rows' = [rows EXCEPT ![Target(c)] = row]
  BY DEF UpdateRow
<1> HIDE DEF row
<1>8. /\ rows' \in [Item -> Row] /\ rows'[Target(c)] = row
      /\ \A i \in Item \ {Target(c)} : rows'[i] = rows[i]
  BY <1>1, <1>6, <1>7 DEF DatabaseIsSound, TypeOK
<1>9. row.version \in Nat /\ row.version > rows[Target(c)].version /\ row.version > 0
  BY <1>1, <1>6 DEF Row
<1>10. RowIsSound(row, now)
  BY <1>2, <1>4, <1>5, <1>6, <1>9 DEF RowIsSound, IsRow
<1>11. RowsMoveOn /\ \A i \in Item : RowIsSound(rows'[i], now)
  BY <1>8, <1>9, <1>10 DEF RowsMoveOn, DatabaseIsSound
<1> QED BY <1>2, <1>3, <1>6, <1>8, <1>11

(* A call that writes its row and ends. *)
LEMMA WriteIsSound ==
    ASSUME DatabaseIsSound, NEW c \in Call, UNCHANGED <<now, request, began>>,
           \/ pc[c] = "insert" /\ InsertRow(c)
           \/ pc[c] = "compare_and_set" /\ UpdateRow(c),
           NEW answer \in Answer, NEW record \in WorkItem, Return(c, answer, record)
    PROVE  StepIsSound(c)
<1>1. /\ rows' \in [Item -> Row]
      /\ RowsMoveOn
      /\ \A i \in Item : RowIsSound(rows'[i], now)
  BY InsertedRow, UpdatedRow
<1>2. TypeOK
  BY DEF DatabaseIsSound
<1>3. TypeOK'
  BY <1>1, <1>2, ReturnEffect DEF TypeOK
<1>4. KeepsOthers(c) /\ pc'[c] = answer
  BY <1>2, ReturnEffect DEF KeepsOthers
<1>5. CallIsSound(c)'
  BY <1>4, CallTypes DEF CallIsSound, Answer
<1> QED BY <1>1, <1>3, <1>4, <1>5 DEF StepIsSound

LEMMA InsertIsSound ==
    ASSUME DatabaseIsSound, NEW c \in Call, Insert(c)
    PROVE  StepIsSound(c)
<1>1. /\ pc[c] = "insert" /\ IsPending(c) /\ next[c] \in WorkItem
      /\ UNCHANGED <<now, request, began>>
  BY DEF Insert, IsPending, Pending, DatabaseIsSound, TypeOK
<1>2. CASE InsertRow(c) /\ Return(c, "ok", next[c])
  BY <1>1, <1>2, WriteIsSound DEF Answer
<1>3. CASE UNCHANGED rows /\ Throw(c, "duplicate")
  BY <1>1, <1>3, ReturnIsSound, NoItemIsAnItem DEF Throw, Answer
<1> QED BY <1>2, <1>3 DEF Insert

LEMMA LoadIsSound ==
    ASSUME DatabaseIsSound, NEW c \in Call, Load(c)
    PROVE  StepIsSound(c)
<1>1. /\ pc[c] = "load" /\ IsPending(c) /\ UNCHANGED <<now, rows, request>>
      /\ request[c].op = "update" /\ request[c] \in Request
      /\ Target(c) \in Item /\ rows[Target(c)] \in Row /\ rows[Target(c)].version \in Nat
  BY CallTypes DEF Load, IsPending, Pending, DatabaseIsSound, CallIsSound, Row
<1>2. CASE Throw(c, "not_found") /\ UNCHANGED began
  BY <1>1, <1>2, ReturnIsSound, NoItemIsAnItem DEF Throw, Answer
<1>3. CASE /\ IsRow(rows[Target(c)])
           /\ Goto(c, "compute")
           /\ seen' = [seen EXCEPT ![c] = rows[Target(c)]]
           /\ began' = [began EXCEPT ![c] = IF attempt[c] = 0 THEN rows[Target(c)].version ELSE @]
           /\ UNCHANGED <<next, attempt>>
  <2>1. TypeOK'
    BY <1>1, <1>3 DEF Goto, DatabaseIsSound, TypeOK, Pending
  <2>2. pc'[c] = "compute" /\ seen'[c] = rows[Target(c)] /\ KeepsOthers(c)
    BY <1>1, <1>3 DEF Goto, DatabaseIsSound, TypeOK, KeepsOthers
  <2>3. /\ Target(c)' = Target(c)
        /\ IsStored(rows[Target(c)].record)
        /\ rows[Target(c)].record.updated_at <= now
    BY <1>1, <1>3 DEF Target, DatabaseIsSound, RowIsSound, IsWellLeased
  <2>4. SeenIsOld(c)'
    BY <1>1, <1>3, <2>2, <2>3 DEF SeenIsOld
  <2>5. CallIsSound(c)'
    BY <1>1, <2>2, <2>4 DEF CallIsSound
  <2> QED BY <1>1, <2>1, <2>2, <2>5 DEF StepIsSound, RowsMoveOn, DatabaseIsSound
<1> QED BY <1>2, <1>3 DEF Load

LEMMA ComputeIsSound ==
    ASSUME DatabaseIsSound, NEW c \in Call, Compute(c)
    PROVE  StepIsSound(c)
<1>1. /\ pc[c] = "compute" /\ IsPending(c)
      /\ UNCHANGED <<now, rows, request, began>>
      /\ request[c].op = "update" /\ request[c] \in Request /\ request[c].command \in Command
      /\ Target(c) \in Item /\ rows[Target(c)] \in Row /\ seen[c] \in Row
      /\ now \in Nat /\ SeenIsOld(c)
  BY CallTypes DEF Compute, IsPending, Pending, DatabaseIsSound, CallIsSound, TypeOK
<1>2. CASE Throw(c, "rejected")
  BY <1>1, <1>2, ReturnIsSound, NoItemIsAnItem DEF Throw, Answer
<1>3. CASE /\ Allows(seen[c].record, request[c].command, now)
           /\ Goto(c, "compare_and_set")
           /\ next' = [next EXCEPT ![c] = After(seen[c].record, request[c].command, now)]
           /\ UNCHANGED <<seen, attempt>>
  <2>1. seen[c].record \in WorkItem /\ After(seen[c].record, request[c].command, now) \in WorkItem
    BY <1>1, <1>3, CommandType DEF Row
  <2>2. TypeOK'
    BY <1>1, <1>3, <2>1 DEF Goto, DatabaseIsSound, TypeOK, Pending
  <2>3. /\ pc'[c] = "compare_and_set" /\ KeepsOthers(c)
        /\ next'[c] = After(seen[c].record, request[c].command, now)
    BY <1>1, <1>3 DEF Goto, DatabaseIsSound, TypeOK, KeepsOthers
  <2>4. seen[c].record.updated_at <= now
    BY <1>1 DEF SeenIsOld
  <2>5. NextFollows(c)' /\ SeenIsOld(c)'
    BY <1>1, <1>3, <2>3, <2>4 DEF NextFollows, SeenIsOld, Target
  <2>6. CallIsSound(c)'
    BY <1>1, <2>3, <2>5 DEF CallIsSound
  <2> QED BY <1>1, <2>2, <2>3, <2>6 DEF StepIsSound, RowsMoveOn, DatabaseIsSound
<1> QED BY <1>2, <1>3 DEF Compute

LEMMA ConflictIsSound ==
    ASSUME DatabaseIsSound, NEW c \in Call, Conflict(c)
    PROVE  StepIsSound(c)
<1>1. /\ pc[c] = "compare_and_set" /\ IsPending(c)
      /\ UNCHANGED <<now, rows, request, began>>
      /\ request[c].op = "update" /\ request[c] \in Request
      /\ attempt[c] \in Nat /\ MaxRetries \in Nat
  BY CallTypes, DatabaseAssumption
     DEF Conflict, IsPending, Pending, DatabaseIsSound, CallIsSound, TypeOK
<1>2. CASE Throw(c, "conflict")
  BY <1>1, <1>2, ReturnIsSound, NoItemIsAnItem DEF Throw, Answer
<1>3. CASE /\ ~ Exhausted(c)
           /\ Goto(c, "load")
           /\ seen' = [seen EXCEPT ![c] = NoRow]
           /\ next' = [next EXCEPT ![c] = NoItem]
           /\ attempt' = [attempt EXCEPT ![c] = @ + 1]
  <2>1. NoRow \in Row
    BY NoItemIsAnItem DEF NoRow, Row
  <2>2. attempt[c] + 1 \in 0..MaxRetries - 1
    BY <1>1, <1>3 DEF Exhausted
  <2>3. TypeOK'
    BY <1>1, <1>3, <2>1, <2>2, NoItemIsAnItem DEF Goto, DatabaseIsSound, TypeOK, Pending
  <2>4. pc'[c] = "load" /\ KeepsOthers(c)
    BY <1>1, <1>3 DEF Goto, DatabaseIsSound, TypeOK, KeepsOthers
  <2>5. CallIsSound(c)'
    BY <1>1, <2>4 DEF CallIsSound
  <2> QED BY <1>1, <2>3, <2>4, <2>5 DEF StepIsSound, RowsMoveOn, DatabaseIsSound
<1> QED BY <1>2, <1>3 DEF Conflict

LEMMA FailureIsSound ==
    ASSUME DatabaseIsSound, NEW c \in Call, StatementFails(c) \/ AnswerIsLost(c)
    PROVE  StepIsSound(c)
<1>1. CASE StatementFails(c)
  BY <1>1, ReturnIsSound, NoItemIsAnItem DEF StatementFails, Throw, Answer
<1>2. CASE AnswerIsLost(c)
  BY <1>2, WriteIsSound, NoItemIsAnItem DEF AnswerIsLost, Throw, Answer
<1> QED BY <1>1, <1>2

LEMMA CompareAndSetIsSound ==
    ASSUME DatabaseIsSound, NEW c \in Call, CompareAndSet(c)
    PROVE  StepIsSound(c)
<1>1. next[c] \in WorkItem
  BY DEF DatabaseIsSound, TypeOK
<1> QED BY <1>1, WriteIsSound DEF CompareAndSet, Answer

LEMMA InitIsSound == Init => DatabaseIsSound
<1> SUFFICES ASSUME Init PROVE DatabaseIsSound
  OBVIOUS
<1>1. /\ NoRow \in Row /\ NoRow.version = 0 /\ NoRow.record = NoItem
      /\ NoItem.status = "absent" /\ NoItem.lease = NoLease /\ NoItem.updated_at = 0
  BY NoItemIsAnItem DEF NoRow, NoItem, Row
<1>2. TypeOK
  BY <1>1, NoItemIsAnItem, DatabaseAssumption, MaxTimeAssumption DEF Init, TypeOK
<1>3. RowIsSound(NoRow, 0)
  BY <1>1 DEF RowIsSound, IsRow, IsStored, IsWellLeased
<1>4. \A i \in Item : RowIsSound(rows[i], now)
  BY <1>3 DEF Init
<1>5. \A c \in Call : CallIsSound(c)
  BY DEF Init, CallIsSound
<1> QED BY <1>2, <1>4, <1>5 DEF DatabaseIsSound

LEMMA ClockIsSound ==
    ASSUME DatabaseIsSound, Tick
    PROVE  DatabaseIsSound'
<1>1. /\ now \in Nat /\ now' = now + 1 /\ now' \in 0..MaxTime
      /\ UNCHANGED <<rows, request, pc, seen, next, attempt, began>>
  BY DatabaseAssumption, MaxTimeAssumption DEF Tick, DatabaseIsSound, TypeOK
<1>2. TypeOK'
  BY <1>1 DEF DatabaseIsSound, TypeOK
<1>3. ASSUME NEW i \in Item PROVE RowIsSound(rows[i], now)'
  <2>1. rows[i] \in Row /\ rows[i].record \in WorkItem /\ RowIsSound(rows[i], now)
    BY DEF DatabaseIsSound, TypeOK, Row
  <2> QED BY <1>1, <2>1 DEF RowIsSound, IsWellLeased, WorkItem
<1>4. \A d \in Call : CallIsSound(d)'
  BY <1>1, <1>2, OthersStaySound DEF RowsMoveOn
<1> QED BY <1>2, <1>3, <1>4 DEF DatabaseIsSound

LEMMA NextIsSound ==
    ASSUME DatabaseIsSound, [Next]_vars
    PROVE  DatabaseIsSound'
<1>1. CASE \E c \in Call, q \in Request : Start(c, q)
  BY <1>1, StartIsSound, StepKeepsSoundness
<1>2. CASE \E c \in Call : Step(c)
  BY <1>2, FindKeyIsSound, FindIdIsSound, InsertIsSound, LoadIsSound, ComputeIsSound,
     CompareAndSetIsSound, ConflictIsSound, StepKeepsSoundness DEF Step
<1>3. CASE \E c \in Call : StatementFails(c) \/ AnswerIsLost(c)
  BY <1>3, FailureIsSound, StepKeepsSoundness
<1>4. CASE Tick
  BY <1>4, ClockIsSound
<1>5. CASE UNCHANGED vars
  BY <1>5 DEF vars, DatabaseIsSound, TypeOK, RowIsSound, CallIsSound, SeenIsOld, NextFollows, Target
<1> QED BY <1>1, <1>2, <1>3, <1>4, <1>5 DEF Next

(* In every reachable state each call works on the stored row or on an     *)
(* earlier version of it.                                                  *)
THEOREM DatabaseStaysSound == Spec => []DatabaseIsSound
<1>1. Init => DatabaseIsSound
  BY InitIsSound
<1>2. DatabaseIsSound /\ [Next]_vars => DatabaseIsSound'
  BY NextIsSound
<1> QED BY <1>1, <1>2, PTL DEF Spec

(* Tables, requests and calls always have their type. *)
THEOREM DatabaseTypeCorrect == Spec => []TypeOK
<1>1. DatabaseIsSound => TypeOK
  BY DEF DatabaseIsSound
<1> QED BY <1>1, DatabaseStaysSound, PTL

-----------------------------------------------------------------------------
(* The table changes as an atomic store does *)

(* Only an insert and a compare-and-set change the table. *)
LEMMA OnlyWritesChangeRows ==
    ASSUME Next
    PROVE  \/ UNCHANGED rows /\ (now' = now \/ Tick)
           \/ \E c \in Call :
                 /\ now' = now
                 /\ \/ pc[c] = "insert" /\ InsertRow(c)
                    \/ pc[c] = "compare_and_set" /\ UpdateRow(c)
<1>1. CASE \E c \in Call, q \in Request : Start(c, q)
  BY <1>1 DEF Start
<1>2. CASE \E c \in Call : Step(c)
  BY <1>2 DEF Step, FindKey, FindId, Insert, Load, Compute, CompareAndSet, Conflict
<1>3. CASE \E c \in Call : StatementFails(c) \/ AnswerIsLost(c)
  BY <1>3 DEF StatementFails, AnswerIsLost
<1>4. CASE Tick
  BY <1>4 DEF Tick
<1> QED BY <1>1, <1>2, <1>3, <1>4 DEF Next

(* The instance speaks of the same lifecycle. *)
LEMMA SameLifecycle ==
    /\ Store!NoItem = NoItem
    /\ Store!JobClass = JobClass
    /\ Store!Command = Command
    /\ \A w : Store!IsStored(w) <=> IsStored(w)
    /\ \A class : Store!IsExecutable(class) <=> IsExecutable(class)
    /\ \A class, t : Store!Proposed(class, t) = Proposed(class, t)
BY DEF Store!NoItem, NoItem, Store!JobClass, JobClass, Store!Command, Command,
       Store!IsStored, IsStored, Store!IsExecutable, IsExecutable, Store!Proposed, Proposed

LEMMA SameAllows ==
    ASSUME NEW w, NEW c, NEW t
    PROVE  Store!Allows(w, c, t) = Allows(w, c, t)
BY DEF Store!Allows, Allows,
       Store!CanMarkReady, CanMarkReady, Store!CanClaim, CanClaim,
       Store!CanHeartbeat, CanHeartbeat, Store!CanReleaseStale, CanReleaseStale,
       Store!CanMoveToNeedsApproval, CanMoveToNeedsApproval,
       Store!CanComplete, CanComplete, Store!CanEnd, CanEnd,
       Store!MatchesLease, MatchesLease, Store!IsActive, IsActive,
       Store!IsExecutable, IsExecutable, Store!Terminal, Terminal

LEMMA SameAfter ==
    ASSUME NEW w, NEW c, NEW t
    PROVE  Store!After(w, c, t) = After(w, c, t)
BY DEF Store!After, After, Store!MarkedReady, MarkedReady, Store!Claimed, Claimed,
       Store!Heartbeat, Heartbeat, Store!StaleReleased, StaleReleased,
       Store!MovedToNeedsApproval, MovedToNeedsApproval, Store!Ended, Ended

(* An insert is the abstract Create. *)
LEMMA InsertImplementsCreate ==
    ASSUME DatabaseIsSound, NEW c \in Call, pc[c] = "insert", InsertRow(c), now' = now
    PROVE  Store!Next
<1>1. /\ request[c] \in Request /\ request[c].op = "create" /\ Target(c) \in Item
      /\ request[c].job_class \in JobClass /\ IsExecutable(request[c].job_class)
  <2>1. /\ request[c] \in Request /\ request[c].op = "create" /\ Target(c) \in Item
        /\ request[c].job_class \in JobClass
    BY CallTypes DEF DatabaseIsSound, CallIsSound
  <2>2. IsExecutable(request[c].job_class)
    BY <2>1, DatabaseAssumption DEF Request
  <2> QED BY <2>1, <2>2
<1>2. PICK t \in 0..now : next[c] = Proposed(request[c].job_class, t)
  BY DEF DatabaseIsSound, CallIsSound
<1>3. /\ ~ IsStored(rows[Target(c)].record)
      /\ [i \in Item |-> rows'[i].record] =
            [[i \in Item |-> rows[i].record] EXCEPT ![Target(c)] = Proposed(request[c].job_class, t)]
  BY <1>1, <1>2, InsertedRow
<1>4. Store!Create(Target(c), request[c].job_class, t)
  BY <1>1, <1>2, <1>3, SameLifecycle DEF Store!Create
<1> QED BY <1>1, <1>4, SameLifecycle DEF Store!Next

(* A compare-and-set that succeeds is the abstract Update. *)
LEMMA UpdateImplementsUpdate ==
    ASSUME DatabaseIsSound, NEW c \in Call, pc[c] = "compare_and_set", UpdateRow(c), now' = now
    PROVE  Store!Next
<1>1. request[c].command \in Command /\ Target(c) \in Item /\ now \in Nat
  BY CallTypes DEF DatabaseIsSound, CallIsSound, TypeOK
<1>2. PICK t \in 0..now :
         /\ rows[Target(c)].record.updated_at <= t
         /\ Allows(rows[Target(c)].record, request[c].command, t)
         /\ next[c] = After(rows[Target(c)].record, request[c].command, t)
  BY UpdatedRow
<1>3. /\ IsStored(rows[Target(c)].record)
      /\ [i \in Item |-> rows'[i].record] =
            [[i \in Item |-> rows[i].record] EXCEPT
                ![Target(c)] = After(rows[Target(c)].record, request[c].command, t)]
  BY <1>1, <1>2, UpdatedRow
<1>4. rows[Target(c)].record.updated_at \in Nat
  BY <1>1 DEF DatabaseIsSound, TypeOK, Row, WorkItem
<1>5. Store!Update(Target(c), request[c].command, t)
  <2> DEFINE w == rows[Target(c)].record
             items == [i \in Item |-> rows[i].record]
  <2>1. Store!Allows(w, request[c].command, t)
    BY <1>2, SameAllows, Zenon
  <2>2. Store!After(w, request[c].command, t) = After(w, request[c].command, t)
    BY SameAfter
  <2>3. Store!IsStored(w)
    BY <1>3, SameLifecycle
  <2>4. t \in items[Target(c)].updated_at..now /\ items[Target(c)] = w
    BY <1>1, <1>2, <1>4
  <2> QED BY <1>3, <2>1, <2>2, <2>3, <2>4 DEF Store!Update
<1> QED BY <1>1, <1>5, SameLifecycle DEF Store!Next

(* "Every contract operation either succeeds atomically against the        *)
(* underlying store or fails": whatever the interleaving of the statements *)
(* of concurrent calls, the table behaves as the store of atomic           *)
(* operations.                                                             *)
THEOREM DatabaseImplementsStore == Spec => ImplementsStore
<1>1. Init => Store!Init
  BY SameLifecycle DEF Init, Store!Init, NoRow
<1>2. DatabaseIsSound /\ [Next]_vars => [Store!Next]_(Store!vars)
  <2> SUFFICES ASSUME DatabaseIsSound, [Next]_vars PROVE Store!Next \/ UNCHANGED Store!vars
    OBVIOUS
  <2>1. CASE UNCHANGED vars
    BY <2>1 DEF vars, Store!vars
  <2>2. CASE UNCHANGED rows /\ Next
    BY <2>2, OnlyWritesChangeRows DEF Store!vars, Store!Next, Store!Tick, Tick, InsertRow, UpdateRow
  <2>3. CASE \E c \in Call :
                /\ now' = now
                /\ \/ pc[c] = "insert" /\ InsertRow(c)
                   \/ pc[c] = "compare_and_set" /\ UpdateRow(c)
    BY <2>3, InsertImplementsCreate, UpdateImplementsUpdate
  <2> QED BY <2>1, <2>2, <2>3, OnlyWritesChangeRows
<1> QED BY <1>1, <1>2, DatabaseStaysSound, PTL DEF Spec, ImplementsStore, Store!Spec

-----------------------------------------------------------------------------
(* Idempotency keys *)

(* The unique index and the key an update carries over keep keys apart. *)
THEOREM UniqueKeys == Spec => []KeysAreUnique
<1>1. Init => KeysAreUnique
  BY DEF Init, KeysAreUnique, IsRow, NoRow
<1>2. DatabaseIsSound /\ KeysAreUnique /\ [Next]_vars => KeysAreUnique'
  <2> SUFFICES ASSUME DatabaseIsSound, KeysAreUnique, [Next]_vars PROVE KeysAreUnique'
    OBVIOUS
  <2>1. CASE UNCHANGED rows
    BY <2>1 DEF KeysAreUnique
  <2>2. ASSUME NEW c \in Call, pc[c] = "insert", InsertRow(c)
        PROVE  KeysAreUnique'
    <3>1. /\ \A j \in Item \ {Target(c)} : rows'[j] = rows[j]
          /\ rows'[Target(c)].key = request[c].key
      BY <2>2, InsertedRow
    <3>2. \A j \in Item : IsRow(rows[j]) => rows[j].key # request[c].key
      BY <2>2 DEF InsertRow, Insertable, KeyIsTaken
    <3> QED BY <3>1, <3>2 DEF KeysAreUnique
  <2>3. ASSUME NEW c \in Call, pc[c] = "compare_and_set", UpdateRow(c)
        PROVE  KeysAreUnique'
    <3>1. /\ \A j \in Item \ {Target(c)} : rows'[j] = rows[j]
          /\ rows'[Target(c)].key = rows[Target(c)].key
          /\ IsRow(rows[Target(c)]) /\ Target(c) \in Item
      BY <2>3, UpdatedRow, CallTypes
    <3> QED BY <3>1 DEF KeysAreUnique
  <2>4. UNCHANGED vars => UNCHANGED rows
    BY DEF vars
  <2> QED BY <2>1, <2>2, <2>3, <2>4, OnlyWritesChangeRows
<1> QED BY <1>1, <1>2, DatabaseStaysSound, PTL DEF Spec

-----------------------------------------------------------------------------
(* The winner of a claim *)

(* The record a claim returned carries a lease, and its item keeps it. *)
WinnersAreSafe ==
    \A c \in Call :
        WonClaim(c) =>
            /\ next[c].lease # NoLease
            /\ IsActive(next[c].lease, now) => KeepsLease(next[c], rows[Target(c)].record)

LEMMA ClaimWritesLease ==
    ASSUME NEW w \in WorkItem, NEW c \in Command, NEW t \in Nat, Allows(w, c, t), c.op = "claim"
    PROVE  After(w, c, t).lease # NoLease
<1>1. c.claimant \in Claimant /\ c.lease_id \in LeaseId
  BY DEF Command
<1>2. After(w, c, t) = Claimed(w, c.claimant, c.lease_id, t)
  BY DEF After
<1> QED BY <1>1, <1>2, ClaimedLease

(* A lease that is kept over two changes is kept. *)
LEMMA KeepsLeaseTransitive ==
    ASSUME NEW u \in WorkItem, NEW v \in WorkItem, NEW w \in WorkItem, u.lease # NoLease,
           KeepsLease(u, v), v.status \notin Terminal, KeepsLease(v, w)
    PROVE  KeepsLease(u, w)
<1>1. u.lease \in Lease
  BY DEF WorkItem
<1>2. v.lease # NoLease /\ v.lease \in Lease
  BY DEF KeepsLease, WorkItem
<1>3. CASE w.status \in Terminal
  BY <1>3 DEF KeepsLease
<1>4. CASE w.lease # NoLease
  <2>1. w.lease \in Lease
    BY <1>4 DEF WorkItem
  <2> QED BY <1>1, <1>2, <1>4, <2>1 DEF KeepsLease, Lease
<1> QED BY <1>3, <1>4 DEF KeepsLease

(* A write of the table takes no item from an active lease. *)
LEMMA WritesKeepLeases ==
    ASSUME DatabaseIsSound, Next, NEW u \in WorkItem, NEW i \in Item,
           u.lease # NoLease, IsActive(u.lease, now), KeepsLease(u, rows[i].record)
    PROVE  KeepsLease(u, rows'[i].record)
<1>1. CASE rows'[i] = rows[i]
  BY <1>1
<1>2. /\ rows[i].record \in WorkItem /\ IsWellLeased(rows[i].record, now) /\ now \in Nat
      /\ IsStored(rows[i].record)
  <2>1. rows[i].record \in WorkItem /\ IsWellLeased(rows[i].record, now) /\ now \in Nat
    BY DEF DatabaseIsSound, TypeOK, Row, RowIsSound
  <2> QED BY <2>1 DEF KeepsLease, IsWellLeased, IsStored, Terminal
<1>3. ASSUME NEW d \in Call, pc[d] = "insert", InsertRow(d), Target(d) = i
      PROVE  FALSE
  BY <1>2, <1>3, InsertedRow
<1>4. ASSUME NEW d \in Call, pc[d] = "compare_and_set", UpdateRow(d), Target(d) = i
      PROVE  KeepsLease(u, rows'[i].record)
  <2>1. request[d].command \in Command
    BY <1>4, CallTypes DEF DatabaseIsSound, CallIsSound
  <2>2. PICK t \in 0..now :
           /\ rows[i].record.updated_at <= t
           /\ Allows(rows[i].record, request[d].command, t)
           /\ rows'[i].record = After(rows[i].record, request[d].command, t)
    BY <1>4, UpdatedRow
  <2>3. t \in Nat /\ t <= now /\ rows'[i].record \in WorkItem
    BY <1>2, <2>1, <2>2, CommandType
  <2>4. rows[i].record.status \notin Terminal
    BY <1>2, <2>1, <2>2, <2>3, NothingAfterTheEnd
  <2>5. /\ rows[i].record.lease # NoLease
        /\ IsActive(rows[i].record.lease, now)
    BY <1>2, <2>4 DEF KeepsLease, IsActive, WorkItem, Lease
  <2>6. KeepsLease(rows[i].record, rows'[i].record)
    BY <1>2, <2>1, <2>2, <2>3, <2>5, CommandKeepsLease
  <2> QED BY <1>2, <2>3, <2>4, <2>6, KeepsLeaseTransitive
<1>5. \A d \in Call : pc[d] = "insert" /\ InsertRow(d) /\ Target(d) # i => rows'[i] = rows[i]
  BY InsertedRow
<1>6. \A d \in Call : pc[d] = "compare_and_set" /\ UpdateRow(d) /\ Target(d) # i => rows'[i] = rows[i]
  BY UpdatedRow
<1> QED BY <1>1, <1>3, <1>4, <1>5, <1>6, OnlyWritesChangeRows

(* A call moves by a step of its own; the others' steps leave it alone. *)
LEMMA CallMovesItself ==
    ASSUME DatabaseIsSound, Next, NEW c \in Call
    PROVE  \/ /\ request'[c] = request[c] /\ pc'[c] = pc[c]
              /\ seen'[c] = seen[c] /\ next'[c] = next[c]
              /\ attempt'[c] = attempt[c] /\ began'[c] = began[c]
              /\ now <= now'
           \/ (\E q \in Request : Start(c, q)) \/ Step(c) \/ StatementFails(c) \/ AnswerIsLost(c)
<1>1. now \in Nat
  BY DEF DatabaseIsSound, TypeOK
<1>2. ASSUME NEW d \in Call, d # c, StepIsSound(d)
      PROVE  /\ request'[c] = request[c] /\ pc'[c] = pc[c]
             /\ seen'[c] = seen[c] /\ next'[c] = next[c]
             /\ attempt'[c] = attempt[c] /\ began'[c] = began[c]
             /\ now <= now'
  BY <1>1, <1>2 DEF StepIsSound, KeepsOthers
<1>3. ASSUME NEW d \in Call,
             \/ \E q \in Request : Start(d, q)
             \/ Step(d) \/ StatementFails(d) \/ AnswerIsLost(d)
      PROVE  StepIsSound(d)
  BY <1>3, StartIsSound, FindKeyIsSound, FindIdIsSound, InsertIsSound, LoadIsSound,
     ComputeIsSound, CompareAndSetIsSound, ConflictIsSound, FailureIsSound DEF Step
<1>4. CASE Tick
  BY <1>1, <1>4 DEF Tick
<1> QED BY <1>2, <1>3, <1>4 DEF Next

(* Only a compare-and-set answers a claim with success. *)
LEMMA ClaimsAreWonByCompareAndSet ==
    ASSUME DatabaseIsSound, NEW c \in Call, WonClaim(c)',
           (\E q \in Request : Start(c, q)) \/ Step(c) \/ StatementFails(c) \/ AnswerIsLost(c)
    PROVE  CompareAndSet(c)
<1>1. /\ pc'[c] = "ok" /\ request'[c].op = "update"
      /\ pc \in [Call -> Pending \cup Answer \cup {"idle"}]
      /\ NoRow \in Row /\ TypeOK
  BY NoItemIsAnItem DEF WonClaim, DatabaseIsSound, TypeOK, NoRow, Row
<1>2. ASSUME NEW q \in Request, Start(c, q) PROVE FALSE
  BY <1>1, <1>2 DEF Start, Goto
<1>3. ASSUME FindKey(c) \/ FindId(c) \/ Insert(c) PROVE FALSE
  BY <1>1, <1>3 DEF FindKey, FindId, Insert, DatabaseIsSound, CallIsSound
<1>4. ASSUME Load(c) \/ Compute(c) \/ Conflict(c) PROVE FALSE
  BY <1>1, <1>4 DEF Load, Compute, Conflict, Throw, Return, Goto
<1>5. ASSUME StatementFails(c) \/ AnswerIsLost(c) PROVE FALSE
  BY <1>1, <1>5 DEF StatementFails, AnswerIsLost, Throw, Return, Goto
<1> QED BY <1>2, <1>3, <1>4, <1>5 DEF Step

(* "Only one active lease can win a claim", seen from the claimants: until *)
(* the lease a claim returned runs out, the item is its or has ended.      *)
THEOREM ClaimsAreExclusive == Spec => []WinnerKeepsTheItem
<1>1. Init => WinnersAreSafe
  BY DEF Init, WinnersAreSafe, WonClaim
<1>2. DatabaseIsSound /\ WinnersAreSafe /\ [Next]_vars => WinnersAreSafe'
  <2> SUFFICES ASSUME DatabaseIsSound, WinnersAreSafe, [Next]_vars, NEW c \in Call, WonClaim(c)'
               PROVE  /\ next'[c].lease # NoLease
                      /\ IsActive(next'[c].lease, now') =>
                            KeepsLease(next'[c], rows'[request'[c].item].record)
    BY DEF WinnersAreSafe, WonClaim, Target
  <2>1. CASE UNCHANGED vars
    BY <2>1 DEF vars, WinnersAreSafe, WonClaim, Target
  <2>2. CASE /\ Next
             /\ request'[c] = request[c] /\ pc'[c] = pc[c] /\ next'[c] = next[c]
             /\ now <= now'
    <3>1. WonClaim(c) /\ next[c].lease # NoLease /\ Target(c) \in Item
      BY <2>2, CallTypes DEF WonClaim, WinnersAreSafe
    <3>2. next[c] \in WorkItem /\ next[c].lease \in Lease /\ now \in Nat /\ now' \in Nat
      <4>1. next[c] \in WorkItem /\ now \in Nat
        BY DEF DatabaseIsSound, TypeOK
      <4>2. now' \in Nat
        BY NextIsSound DEF DatabaseIsSound, TypeOK
      <4> QED BY <3>1, <4>1, <4>2 DEF WorkItem
    <3>3. ASSUME IsActive(next[c].lease, now')
          PROVE  KeepsLease(next[c], rows'[Target(c)].record)
      <4>1. IsActive(next[c].lease, now)
        BY <2>2, <3>2, <3>3 DEF IsActive, Lease
      <4>2. KeepsLease(next[c], rows[Target(c)].record)
        BY <3>1, <4>1 DEF WinnersAreSafe
      <4> QED BY <2>2, <3>1, <3>2, <4>1, <4>2, WritesKeepLeases
    <3> QED BY <2>2, <3>1, <3>3 DEF Target
  <2>3. CASE CompareAndSet(c)
    <3>1. /\ pc[c] = "compare_and_set" /\ UpdateRow(c) /\ request' = request
          /\ next[c] \in WorkItem /\ Return(c, "ok", next[c]) /\ TypeOK
      BY <2>3 DEF CompareAndSet, DatabaseIsSound, TypeOK
    <3>2. next'[c] = next[c]
      BY <3>1, ReturnEffect DEF Answer
    <3>3. /\ rows'[Target(c)].record = next[c]
          /\ request[c].command \in Command /\ Target(c) \in Item
      BY <3>1, UpdatedRow, CallTypes DEF DatabaseIsSound, CallIsSound
    <3>4. PICK t \in 0..now :
             /\ Allows(rows[Target(c)].record, request[c].command, t)
             /\ next[c] = After(rows[Target(c)].record, request[c].command, t)
      BY <3>1, UpdatedRow
    <3>5. rows[Target(c)].record \in WorkItem /\ t \in Nat
      BY <3>3 DEF DatabaseIsSound, TypeOK, Row
    <3>6. request[c].command.op = "claim"
      BY <3>1 DEF WonClaim
    <3>7. next[c].lease # NoLease
      BY <3>3, <3>4, <3>5, <3>6, ClaimWritesLease
    <3>8. next[c].lease \in Lease
      BY <3>1, <3>7 DEF WorkItem
    <3>9. KeepsLease(next[c], next[c])
      BY <3>7, <3>8 DEF KeepsLease, Lease
    <3> QED BY <3>1, <3>2, <3>3, <3>7, <3>9 DEF Target
  <2> QED BY <2>1, <2>2, <2>3, CallMovesItself, ClaimsAreWonByCompareAndSet
<1>3. WinnersAreSafe => WinnerKeepsTheItem
  BY DEF WinnersAreSafe, WinnerKeepsTheItem
<1> QED BY <1>1, <1>2, <1>3, DatabaseStaysSound, PTL DEF Spec

-----------------------------------------------------------------------------
(* Conflicts *)

(* Every conflict of a call stands for a write that got ahead of it. *)
AttemptsAreCounted(c) ==
    /\ ~ IsPending(c) => attempt[c] = 0
    /\ pc[c] = "load" => attempt[c] = 0 \/ rows[Target(c)].version >= began[c] + attempt[c]
    /\ pc[c] \in {"compute", "compare_and_set"} => seen[c].version >= began[c] + attempt[c]
    /\ pc[c] = "conflict" => rows[Target(c)].version >= began[c] + MaxRetries

ConflictsAreCounted == \A c \in Call : AttemptsAreCounted(c)

(* Rows never go back to an earlier version. *)
LEMMA VersionsGrow ==
    ASSUME DatabaseIsSound, Next, NEW i \in Item
    PROVE  /\ rows[i].version \in Nat /\ rows'[i].version \in Nat
           /\ rows'[i].version >= rows[i].version
<1>1. rows[i].version \in Nat /\ rows'[i].version \in Nat
  BY NextIsSound DEF DatabaseIsSound, TypeOK, Row
<1>2. CASE UNCHANGED rows
  BY <1>1, <1>2
<1>3. CASE RowsMoveOn
  BY <1>1, <1>3 DEF RowsMoveOn
<1> QED BY <1>2, <1>3, OnlyWritesChangeRows, InsertedRow, UpdatedRow

LEMMA OwnStepCounts ==
    ASSUME DatabaseIsSound, NEW c \in Call, AttemptsAreCounted(c),
           (\E q \in Request : Start(c, q)) \/ Step(c) \/ StatementFails(c) \/ AnswerIsLost(c)
    PROVE  AttemptsAreCounted(c)'
<1>1. /\ TypeOK /\ attempt[c] \in Nat /\ began[c] \in Nat /\ seen[c].version \in Nat
      /\ MaxRetries \in Nat /\ NoItem \in WorkItem /\ next[c] \in WorkItem
      /\ \A i \in Item : rows[i].record \in WorkItem
  BY NoItemIsAnItem, DatabaseAssumption DEF DatabaseIsSound, TypeOK, Row
<1>2. ASSUME NEW answer \in Answer, NEW record \in WorkItem, Return(c, answer, record),
             answer # "conflict"
      PROVE  AttemptsAreCounted(c)'
  <2>1. pc'[c] = answer /\ attempt'[c] = 0
    BY <1>1, <1>2, ReturnEffect
  <2> QED BY <1>2, <2>1 DEF AttemptsAreCounted, Answer
<1>3. ASSUME NEW q \in Request, Start(c, q)
      PROVE  AttemptsAreCounted(c)'
  <2>1. pc'[c] \in {"find_key", "load"} /\ attempt'[c] = 0
    BY <1>1, <1>3 DEF Start, Goto, TypeOK, AttemptsAreCounted
  <2> QED BY <2>1 DEF AttemptsAreCounted, IsPending, Pending
<1>4. CASE FindKey(c)
  <2>1. CASE Goto(c, "find_id")
    BY <1>1, <2>1 DEF Goto, TypeOK, AttemptsAreCounted, IsPending, Pending
  <2> QED BY <1>1, <1>2, <1>4, <2>1 DEF FindKey, Throw, Answer
<1>5. CASE FindId(c)
  <2>1. CASE Goto(c, "insert")
    BY <1>1, <2>1 DEF Goto, TypeOK, AttemptsAreCounted, IsPending, Pending
  <2> QED BY <1>1, <1>2, <1>5, <2>1 DEF FindId, Throw, Answer
<1>6. CASE Insert(c)
  BY <1>1, <1>2, <1>6 DEF Insert, Throw, Answer
<1>7. CASE Load(c)
  <2>1. CASE Throw(c, "not_found")
    BY <1>1, <1>2, <2>1 DEF Throw, Answer
  <2>2. CASE /\ Goto(c, "compute") /\ seen' = [seen EXCEPT ![c] = rows[Target(c)]]
             /\ began' = [began EXCEPT ![c] = IF attempt[c] = 0 THEN rows[Target(c)].version ELSE @]
             /\ UNCHANGED <<next, attempt>>
    <3>1. pc[c] = "load" /\ Target(c) \in Item /\ rows[Target(c)].version \in Nat
      BY <1>7, CallTypes DEF Load, Row
    <3>2. /\ pc'[c] = "compute" /\ seen'[c] = rows[Target(c)] /\ attempt'[c] = attempt[c]
          /\ began'[c] = IF attempt[c] = 0 THEN rows[Target(c)].version ELSE began[c]
      BY <1>1, <2>2 DEF Goto, TypeOK
    <3>3. seen'[c].version >= began'[c] + attempt'[c]
      BY <1>1, <3>1, <3>2 DEF AttemptsAreCounted
    <3> QED BY <3>2, <3>3 DEF AttemptsAreCounted, IsPending, Pending
  <2> QED BY <1>7, <2>1, <2>2 DEF Load
<1>8. CASE Compute(c)
  <2>1. CASE Throw(c, "rejected")
    BY <1>1, <1>2, <2>1 DEF Throw, Answer
  <2>2. CASE Goto(c, "compare_and_set") /\ UNCHANGED <<seen, attempt>>
    <3>1. /\ pc[c] = "compute" /\ pc'[c] = "compare_and_set"
          /\ UNCHANGED <<seen, attempt, began>>
      BY <1>1, <1>8, <2>2 DEF Compute, Goto, TypeOK
    <3> QED BY <3>1 DEF AttemptsAreCounted, IsPending, Pending
  <2> QED BY <1>8, <2>1, <2>2 DEF Compute
<1>9. CASE CompareAndSet(c)
  BY <1>1, <1>2, <1>9 DEF CompareAndSet, Answer
<1>10. CASE Conflict(c)
  <2>1. /\ pc[c] = "compare_and_set" /\ Target(c) \in Item /\ rows[Target(c)].version \in Nat
        /\ SeenIsOld(c) /\ ~ VersionMatches(c) /\ UNCHANGED <<rows, request, began>>
    BY <1>10, CallTypes DEF Conflict, DatabaseIsSound, CallIsSound, Row
  <2>2. rows[Target(c)].version >= began[c] + attempt[c] + 1
    BY <1>1, <2>1 DEF SeenIsOld, VersionMatches, AttemptsAreCounted
  <2>3. Target(c)' = Target(c) /\ rows' = rows /\ began' = began
    BY <2>1 DEF Target
  <2>4. CASE Exhausted(c) /\ Throw(c, "conflict")
    <3>1. pc'[c] = "conflict" /\ attempt'[c] = 0
      BY <1>1, <2>4, ReturnEffect DEF Throw, Answer
    <3>2. rows[Target(c)].version >= began[c] + MaxRetries
      BY <1>1, <2>1, <2>2, <2>4 DEF Exhausted
    <3> QED BY <2>3, <3>1, <3>2 DEF AttemptsAreCounted
  <2>5. CASE Goto(c, "load") /\ attempt' = [attempt EXCEPT ![c] = @ + 1]
    <3>1. pc'[c] = "load" /\ attempt'[c] = attempt[c] + 1
      BY <1>1, <2>5 DEF Goto, TypeOK
    <3>2. rows[Target(c)].version >= began[c] + (attempt[c] + 1)
      BY <1>1, <2>1, <2>2
    <3> QED BY <2>3, <3>1, <3>2 DEF AttemptsAreCounted, IsPending, Pending
  <2> QED BY <1>10, <2>4, <2>5 DEF Conflict
<1>11. CASE StatementFails(c) \/ AnswerIsLost(c)
  BY <1>1, <1>2, <1>11 DEF StatementFails, AnswerIsLost, Throw, Answer
<1> QED BY <1>3, <1>4, <1>5, <1>6, <1>7, <1>8, <1>9, <1>10, <1>11 DEF Step

(* A call gives up on conflicts only after MaxRetries writes of others:    *)
(* of calls that collide, some get through.                                *)
THEOREM SomeCallGetsThrough == Spec => []NobodyFailsAlone
<1>1. Init => ConflictsAreCounted
  BY DEF Init, ConflictsAreCounted, AttemptsAreCounted
<1>2. DatabaseIsSound /\ ConflictsAreCounted /\ [Next]_vars => ConflictsAreCounted'
  <2> SUFFICES ASSUME DatabaseIsSound, ConflictsAreCounted, [Next]_vars, NEW c \in Call
               PROVE  AttemptsAreCounted(c)'
    BY DEF ConflictsAreCounted
  <2>1. CASE UNCHANGED vars
    BY <2>1 DEF vars, ConflictsAreCounted, AttemptsAreCounted, IsPending, Target
  <2>2. CASE /\ Next
             /\ request'[c] = request[c] /\ pc'[c] = pc[c] /\ seen'[c] = seen[c]
             /\ attempt'[c] = attempt[c] /\ began'[c] = began[c]
    <3>1. /\ AttemptsAreCounted(c) /\ Target(c)' = Target(c)
          /\ began[c] \in Nat /\ attempt[c] \in Nat /\ MaxRetries \in Nat
      BY <2>2, DatabaseAssumption DEF ConflictsAreCounted, Target, DatabaseIsSound, TypeOK
    <3>2. ASSUME pc[c] \in {"load", "conflict"}
          PROVE  /\ rows[Target(c)].version \in Nat /\ rows'[Target(c)].version \in Nat
                 /\ rows'[Target(c)].version >= rows[Target(c)].version
      BY <2>2, <3>2, CallTypes, VersionsGrow
    <3> QED BY <2>2, <3>1, <3>2 DEF AttemptsAreCounted, IsPending
  <2>3. CASE (\E q \in Request : Start(c, q)) \/ Step(c) \/ StatementFails(c) \/ AnswerIsLost(c)
    BY <2>3, OwnStepCounts DEF ConflictsAreCounted
  <2> QED BY <2>1, <2>2, <2>3, CallMovesItself
<1>3. ConflictsAreCounted => NobodyFailsAlone
  BY DEF ConflictsAreCounted, AttemptsAreCounted, NobodyFailsAlone
<1> QED BY <1>1, <1>2, <1>3, DatabaseStaysSound, PTL DEF Spec

=============================================================================
