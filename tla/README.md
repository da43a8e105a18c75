# Durable WorkLoops in TLA+

A TLA+ development of the agent-workloops repository: models of its
coordination components, the TLC runs that check them on small instances, and
proofs, checked by TLAPS, of what holds for every instance.

## The system

A *work loop* is a bounded piece of agent work, cut into slices. Hosts either
embed the core library (`src/src`) or run the optional server
(`src/packages/server`), where a work loop is submitted as a *plan*, approved
by a human reviewer, claimed by an executor under a *lease*, run through Codex
by the CLI, and released, completed or abandoned. A second family of records,
*work items*, coordinates hosted jobs the same way. Users, browser sessions
and client tokens guard every route.

| Component | State | Operations | Interacts through |
| --- | --- | --- | --- |
| Plan store (`filesystem-store.ts`, `sql-store.ts`, `mongodb-store.ts`) | one record per plan: approval, status, lock, completion, evidence; the audit log | create, approve, reject, request review, claim, heartbeat, progress, release, complete, attach evidence | HTTP routes in `app.ts`; the clock decides when a lease expires |
| Work items (`api/src/work-items.ts`, `work-item-store.ts`, `database-work-item-store.ts`, `postgres-work-item-store.ts`) | one record per item: status, job class, lease; a version for compare-and-set | create, ready, claim, heartbeat, release stale, needs approval, complete, fail, cancel | routes; a pure lifecycle shared by three stores |
| Work item audit (`work-item-audit-store.ts`) | an append-only stream | one event per transition or rejection | wraps the store: status read, transition, append |
| Lock directories (`withLock` in three file stores) | one directory beside the file | acquire by mkdir, release by rm | every change of a file store |
| Executor CLI (`cli/src/index.ts`) | the claimed plan, its lease, a copy of the loop | submit, claim, run Codex, complete or release; heartbeats from a timer | the plan routes; a child process |
| WorkLoop core (`src/src/*.ts`) | the work loop document, outcome files, reviews | selection, launch, review, adjudication, application of a decision, final gate | pure functions called by a host or the CLI |
| Authentication (`auth-utils.ts`, the auth stores, the hooks of `app.ts`) | users, sessions, client tokens | bootstrap, start-up, login, logout, user and token management, verification on each request | every route; `auth.json` or three collections |
| Configuration, launcher layout, web UI, scripts | | | see "What is not modelled" |

What is hard here: any number of executors, reviewers and submitters call any
number of servers in any order; leases expire while their holder is busy, so
late calls meet plans that were reclaimed; reviewers act on plans in every
state; file stores can die between two writes or inside the lock; MongoDB
reads, computes and writes back without a version, and stores what is undefined
as null; the SQL store reads its
clock long before it commits; the work item store retries compare-and-set; the
audit decorator works in three steps around a store that works in several; the
CLI's heartbeats are timers behind a blocking child; hosts of the library die
between durable steps; and `auth.json` is read without the lock under which it
is rewritten.

### What makes each component correct

- Plan store: at most one executor believes it holds a plan; what an executor
  was told about its lease is honoured; no plan that needs approval is leased
  before it; the record and the audit log part by failed appends alone; an end is
  final.
- Work items: one winner per claim, transitions only along the lifecycle, a
  stale release only after the deadline, one record per idempotency key; the
  audit stream follows the store wherever no calls overlap and no event is lost.
- Lock directory: mutual exclusion; everybody who waits gets in or is told.
- Executor CLI: no report undoes another executor's work; what it completes is
  worked off.
- WorkLoop core: dependencies first, one slice at a time, no outcome makes a
  slice done past its review, a loop is done only with its slices, and then
  passes the final gate.
- Authentication: one account per address; what was answered is kept; ended
  credentials are refused, good ones accepted.

## Modules

| Module | Models | Role |
| --- | --- | --- |
| `PlanRecord` | `PlanRecordSchema` and the functions of a plan the stores share | data and pure functions |
| `PlanRequest` | the callbacks routes hand to `updatePlan` | data and pure functions |
| `PlanLeases` | what every plan store promises about leases | abstract specification |
| `PlanStore` | `FilesystemPlanStore` behind its routes | one action per operation, with an append that may fail; implements `PlanLeases` |
| `SqlPlanStore` | `SqlPlanStore` | operations as transactions; implements `PlanLeases` |
| `MongoPlanStore` | `MongoPlanStore` | operations cut into statements |
| `WorkItem` | the lifecycle helpers of `work-items.ts` | data and pure functions |
| `WorkItemStore` | `InMemoryWorkItemStore` | abstract store: one lifecycle step at a time |
| `DatabaseWorkItemStore` | `DatabaseWorkItemStore` on Postgres | statement by statement; implements `WorkItemStore` |
| `FileWorkItemStore` | `FileWorkItemStore` and `withLock` | lock, read, write, crashes; implements `WorkItemStore` |
| `RecordingWorkItemStore` | the audit decorator | extends `FileWorkItemStore` |
| `WorkLoopSlices` | `selection.ts`, `adjudication.ts`, `updateWorkLoopAfterCodexRun` | pure functions of a loop's slices |
| `WorkLoopController` | a host that drives one loop with the library | extends `WorkLoopSlices` |
| `CodexExecutor` | `submit` and `run-codex` | composes `PlanStore` with `WorkLoopSlices` |
| `AuthStore` | `FilesystemAuthStore`, `MongoAuthStore` and the routes before them | concurrent requests over either store |
| `MC...` | | model values and inputs for TLC |
| `...Proofs` | | lemmas and theorems about the module they are named after |
| `WorkLoopProofs` | | the same about `WorkLoopController` and `CodexExecutor` |

### PlanRecord, PlanStore, PlanLeases

A record keeps the fields the stores branch on. A work loop is its status and
its project; a completion is the token that completed it; evidence is a set of
ids. `lockedAt`, `updatedAt`, metadata, reasons and actors are left out: no
operation reads them. An id nobody submitted yet holds `NoPlan` with the status
"absent", the store's ENOENT. `Claimable` is the predicate of the claim (the
SQL `where` clause says the same), `HoldsLease` is `assertLease`,
`ReleaseStatus` is `releaseStatus` with its branches in order.

| Action of `PlanStore` | Code |
| --- | --- |
| `CreatePlan` | `POST /plans`, `createPlan` |
| `ApprovePlan`, `RejectPlan`, `RequestPlanReview` | the review routes |
| `ClaimNextPlan` | `POST /plans/claim`, `claimNextPlan` |
| `ExtendLease`, `ProgressPlan`, `ReleasePlan`, `CompletePlan` | the routes that need a lease |
| `AttachReviewEvidence` | `POST /plans/:id/review-evidence` |
| `Tick` | the server's clock |

An operation is one step, as it runs inside `withLock`. It ends with `Save`:
the plan is written, and then the audit event appended, two files one after the
other. The append may fail, or the server die before it (`ok`), and nothing
takes the plan back: the event is then in `unlogged` instead of `audit`, and the
caller has an error or no answer for what took place. A refused call changes
nothing and is no step. The state beside the records: `audit`, the set of event
kinds on record for each plan; `unlogged`, those that took place and are not;
`verdict`, the last review that took place; and `grants`, the leases given out.
An executor knows of its lease at most what `grants` says, since the answer may
have been an error. `unlogged`, `verdict` and `grants` are history: no guard
reads them but the choice of an unused lease id, since lease ids are fresh UUIDs.
Stopped executors need no action: they never call again.

`PlanLeases` keeps `now` and `grants` alone and says what any plan store owes
its executors: a lease is granted or extended only while no other lease on the
plan is live, and none outlasts the timeout from now. `PlanStore` and
`SqlPlanStore` both implement it; MongoDB's store does not, as the run
`mongo_exclusion` shows.

### SqlPlanStore and MongoPlanStore

Both are slots for requests under way, and share the callbacks of
`PlanRequest` (`Accepts` is a callback that does not throw, `Updated` what it
returns).

A transaction of `SqlPlanStore` holds its row from the select to `Commit` or
`Rollback`; others wait for the row, except `SelectSkipLocked`, which passes
over it. The claim reads the clock in `ClaimNextPlan`, before it selects, and
every transaction commits later than it computed. Record, audit event and what
the executor is told change together at `Commit`. Its properties are those of
`PlanStore`, of which it is an instance with nothing unlogged.

A request of `MongoPlanStore` reads and computes (`UpdatePlan`), writes the
whole record by id (`Write`), and inserts its audit event (`AppendAudit`);
`Fail` ends it anywhere. Read and callback are one step, since the callback runs as
soon as the document is there. The claim is `FindOneAndUpdate`, with the clock
read in `ClaimNextPlan` before it. The audit collection is left out because no
operation reads it; `written` keeps, of the events a run follows, those whose write took
place, and `overwritten` the plans where a write replaced another record than
the one it was computed from.

The client is not told to ignore undefined fields (`mongodb-store.ts:43`), so the
driver stores them as null: the lock of a plan that was released or completed
(`:354`, `:260`), and the submitting token of a plan that a browser session
submitted. `PlanRecordSchema` has optional fields and no nullable ones, and every
read parses with it. `nulls` is what a document holds as null; `IsReadable` is a
parse that does not throw. An operation that starts with `getPlan` asks for a
readable document. The claim does not: it sets the lock in place, and if
something else is null it locks the plan and then throws on its own answer. So
evidence can never be attached in this store, and `AttachReviewEvidence` has no
action: it asks for a completed plan, which no read parses.

### Work items

Each helper of `work-items.ts` throws or returns the next record; here it is a
pair, `CanClaim` for the conditions and `Claimed` for the record, and a
`Command` is what a client asks. An item keeps status, job class, lease and
`updated_at`. Two statuses of the schema, `running` and `blocked`, are guards
no helper leads to.

`WorkItemStore` is the specification: items change by one command at a time,
computed from the record it replaces at a time between that record's
`updated_at` and now.

`DatabaseWorkItemStore`: a call is a slot with a program counter, each awaited
statement a step, and between two of them all other calls may run.

| Step | Code |
| --- | --- |
| `Start` | a work item route calls the store |
| `FindKey`, `FindId`, `Insert` | the three statements of `create` |
| `Load`, `Compute`, `CompareAndSet`, `Conflict` | one turn of the loop in `applyUpdate` |
| `StatementFails`, `AnswerIsLost` | the driver throws: the statement did not run, or it did |

`Compute` is separate from `Load` because the clock may move in between.
Postgres itself is external: a statement is atomic, `UPDATE ... WHERE version`
compares and sets, the two unique indexes hold. All servers read one clock;
the code says nothing about skew. `began` is history.

`FileWorkItemStore`: `Enter` is the mkdir that succeeds, `GiveUp` the one that
has failed for five seconds, `Read` is `readItems` with the lifecycle helper,
`Write` the rename of the temporary file, `WriteFails` its failure, `Leave`
the `finally`. `Crash` kills the calls of one process; the directory stays.

`RecordingWorkItemStore` adds the decorator: `Begin` reads the status before,
`Commit` is the write with the event now due, `Append` and `AppendFails` end
the call. The stream is a durable one, as `buildServer` accepts it. Of its
events the last per item is kept in `told`; an item whose events were lost, or
whose calls overlapped, is "unclear", as the code promises nothing there.

### WorkLoopSlices and WorkLoopController

`Selectable`, `Running`, `Decision`, `SliceAfter`, `LoopAfter`, `SliceAfterRun`,
`LoopAfterRun` are the functions of the library and of the CLI on
`slices`, a function from slices to statuses, with `Place` for the order of the
list. An outcome is the set of things it says; the ladder of
`adjudicateWorkLoopSlice` decides which of them counts.

| Action of `WorkLoopController` | Code |
| --- | --- |
| `Launch` | `selectRunningWorkLoopSlice` or `selectNextWorkLoopSlice`, `markSliceRunning`, `prepareWorkLoopCodexLaunch` |
| `Run` | `runPreparedWorkLoopCodexLaunch`: the outcome file is written, or what was there stays |
| `ReviewOutcome` | `runWorkLoopAiQualityReview`, one provider, slice reviews required |
| `Adjudicate`, `AdjudicateWithoutOutcome` | `adjudicateWorkLoopSlice`, `applyWorkLoopDecision` |
| `SendBack`, `Cancel` | human decisions through `applyWorkLoopDecision` |
| `HostCrash` | the host dies; loop, outcomes and reviews are durable |

`NextSlices` are the slices `Launch` may take. The names of the specification
itself (`HostInit`, `HostNext`, `HostTypeOK`) keep it apart from the plan
store's, beside which it is proved about.

The host is not in the repository. Its order of calls is the one the package
map and the launcher's documentation describe. A run may leave no outcome. There
is nothing to review then, and the host adjudicates with the launch's
`outcomePath` or without: the launch has one in any case, and
`applyWorkLoopDecision` marks the slice done for any path it is given.

### CodexExecutor

It extends `PlanStore` with the slices of each plan's loop (`stored`) and with
what each executor is doing. `Claim` takes a copy of the loop and a slice,
`selectNextWorkLoopSlice(loop) ?? loop.slices[0]`; `ClaimFails` is the claim that
locked the plan and answered with an error, so that no run begins; `Finish` is the exit of the
child; `Report` is complete or release with the copy; `ReportRefused` the
lease that ran out; `Crash` the death of the process. The heartbeat timer has no
action: `spawnSync` blocks the event loop for as long as the child runs.

### AuthStore

A route is the list of store operations it awaits (`Route`, `StartUp`); a
request holds what is left of the list and what it was given. In MongoDB an
operation is one statement, `Perform`; in the file an operation that changes
something is `Enter` (lock, read), then `Leave` or `Truncate` and `Write`, and
one that only looks is `Look` or, in the middle of a write, `LookFails`.
`Crash` kills a request's process and orphans the lock it held, for good.

Abstractions: passwords given are right; addresses are compared in lower case,
so an `Email` is a class of spellings; the SQL persistence keeps its users in
the same file. The lookups of session and user, and of user and token, are
two statements each in MongoDB and one here, because accounts are never
disabled or removed. Management routes come with a session; scopes, cookies, the expiry
of tokens and failing writes of `auth.json` are not modelled. `told` is what
callers know: accounts, sessions and tokens that were answered, and what was
answered to be ended. `late` on a request is history: its credentials had
been ended before it came.

## What the runs check

| Run | Distinct states | Time |
| --- | --- | --- |
| `one_plan` | 271,844 | 63 s |
| `rejected_claim` | error at 1,709 | 2 s |
| `expired_lock` | error at 1,731 | 2 s |
| `work_items` | 248,225 | 128 s |
| `database_calls` | 207,485 | 125 s |
| `retried_create` | error at 210 | 2 s |
| `mongo_races` | 531,389 | 30 s |
| `mongo_exclusion` | error at 5,547 | 2 s |
| `sql_one_plan` | 260,927 | 22 s |
| `work_loops` | 2,350,359 | 46 s |
| `codex_runs` | 764,012 | 90 s |
| `sign_in` | 1,219,192 | 105 s |

No run that expects an error is exhaustive. The times are of two workers.

### Plans

`one_plan`: one plan, two executors, two leases, a timeout of two ticks in a
horizon of three, so both leases can expire, be extended and meet; loops
active, blocked and done. Late calls after a reclaim, reviews of a leased plan,
rejection and release, end and review all need one plan and two leases only.
One kind of event may miss in the plan's log (`MaxFailures`), as often as it
takes place. The properties are `ExclusiveLease`, `LiveLeaseIsHonoured`,
`ApprovedBeforeFirstClaim`, `AuditExplainsRecord`, `FinishedIsFinal`, and
`ImplementsLeases`. `AuditExplainsRecord` says that the record tells of nothing
but what is on record or belongs to a failed append, and the other way round.

`expired_lock` (finding): a progress report stores a loop that is not active, the
lease expires, and the plan can be reclaimed by nobody, whatever its badge says
(`productCopy.ts:182`). That nothing leads out of this state, nor out of status
blocked, whose badge speaks of review (`:196`), is the theorem `DeadEndsStay`.

`rejected_claim` (finding): a rejection made while an executor holds the plan
is erased by the release, and the plan is claimed again.

`sql_one_plan`: two transactions at a time on one plan, one token, two leases,
a timeout of one tick in a horizon of two. `AuditExplainsRecord` with rollbacks
between, and `ImplementsLeases` with a clock that runs on before the commit. Two
transactions are enough for a meeting on a row; a third would wait. That a row is
held once (`IsLocked`) is Postgres's part, and no property of the store.

`mongo_races`: every two requests at a time on one plan, with approval forced.
`ApprovedBeforeClaim` holds whatever is lost and whatever is stored as null;
`LiveLeaseIsHonoured` holds for plans no write of which replaced another record
than it was computed from. Both leases can be granted: a plan goes back to the
queue by a lost update or when its lock expires. `mongo_exclusion` (finding): a
decision computed before a claim and written after it frees the plan for a second
lease. The same lost update can undo a completion.

### Work items

`work_items`: two calls at a time on one item under the decorator, every request,
two claimants and two leases of one tick, processes dying anywhere, writes and
appends failing. `ImplementsStore` is the refinement of the file to the atomic
store; `StreamFollowsStore` and `EventsFormAChain` relate stream and file for
items whose calls did not overlap and whose events were all appended;
`ActiveLeaseIsKept` and `ApprovalIsAwaited` are promises about leases, the second
only while the lease is active;
`OrphanedLockStays` and `EveryCallEnds` are both sides of a lock nobody
removes: nothing changes any more, and everybody is told. Two calls are every
pair that can meet at the lock, and a third finds what the second finds; the
proofs cover any number of calls and items.

`database_calls`: two calls at a time on one row, two claimants and two leases, two
retries, five writes of the row (create, ready, claim, release, claim), each of
which the other call can interleave with. `ImplementsStore` is the refinement,
`WinnerKeepsTheItem` looks at it from the claimant that was answered.
`NobodyFailsAlone`: a call that reports a conflict was overtaken by `MaxRetries`
writes. `EveryCallIsAnswered` under fairness. Two items that collide on one key
are beyond this instance; that no two items share one is proved (`UniqueKeys`).

`retried_create` (finding): the retry that is not answered with the item.

### Loops and executors

`work_loops`: three slices, the second in the list waiting for the other two,
three attempts each, so that a repair can be repaired; an outcome per rung of
the ladder and one that contradicts itself. Seven properties on the loop's
status, the order of dependencies, the final gate and stale outcomes.
`DoneIsReviewed`: an outcome makes a slice done only with a review of it that did
not fail; a slice whose runs left no outcome can be done without any.
`OnlyTheRunInFlightRevives` bounds what a late decision can do to a canceled slice.
`ActiveLoopCanGoOn` excepts canceled slices and dependencies in a circle,
because there the code does leave an active loop with nothing to select.

`codex_runs`: two executors, three leases, a timeout of two ticks in a horizon
of four: one lease runs out under each executor before the third is granted.
Two dependent slices, listed against their order, and loops submitted to start,
to repair, or stuck, so that the fallback to the first slice happens.

### Authentication

`sign_in`: two requests at a time, over the file and over the collections, two
accounts, addresses and sessions, one token, sessions of one tick in a
horizon of one. `EmailsAreUnique`: bootstrap, starting servers and
administrators race. `WhatWasAnsweredIsKept`: no account, token, logout or revocation
is lost to another writer. `EndedCredentialsAreRefused`, and its counterpart
`GoodSessionIsAccepted`: a session nobody ended is refused before its time only by a
read in the middle of a write. New users of `POST /users` are members in this
instance; the administrator's role matters only at that route. A session
whose time lies beyond the horizon stands for one that does not expire.

### Bounds

`MaxTime` bounds every clock; `MaxFailures` the kinds of event that a plan's log
misses, which is one: with two the store was checked too (992,094 states, no
error); `MaxVersion` the writes of a row (it is in the
guard of `Start`, so a call under way always finishes); `MaxAttempts` the runs
of a slice; the number of leases the number of claims; the number of ids the number of
submissions, accounts and sessions. Slots (`Call`, `Request`) bound what is in
flight at once, and are used again. Symmetry is declared for values the code
compares only for equality, and in no run with liveness properties.

Some runs disable the deadlock check, because there the system may stop: items
that have ended at the end of the clock, a loop whose attempts are used up,
executors without leases left, completed plans nobody can read. The others do not.

### Fairness

`FileWorkItemStore` and `RecordingWorkItemStore` assume weak fairness of each
call's own steps: a living process polls every 25 ms and its file operations
return. Crashes, failures and new calls get none. `DatabaseWorkItemStore` assumes the same of
each call's statements: the driver answers or throws, and the event loop
resumes the caller. Nothing is assumed of clients or of the clock. For plan
stores, controller and sign-in no liveness is claimed: the code schedules
nothing by itself, executors and hosts may stop, and the plan and auth locks
wait without a timeout for a directory that a dead process may have left.

## What is proved

All of it for every set of ids, any number of actors, every timeout and horizon.

`PlanStoreProofs`. The inductive invariant is

    IInv == TypeOK /\ RecordShape /\ LockIsGranted /\ LiveLeaseIsHonoured
            /\ AuditExplainsRecord /\ GateIsShut

Exclusion is not inductive, because nothing in it says why a second claim is
refused. `LiveLeaseIsHonoured` says it: a live lease is the plan's lock, so a
claim, which needs an unlocked plan or an expired lock, meets no live lease.
It needs `LockIsGranted`, so that a lease given up or extended on one plan is
in no other plan's lock, and `RecordShape`, so that a queued plan has no lock.
The gate needs `GateIsShut`: a plan submitted for approval and not yet
approved is waiting or rejected *and was never claimed*. What took place is
`Happened`, logged or not: a failed append changes nothing in the argument, and
this is why the gate and the leases survive it. From the invariant follow every
property of `one_plan`, the dead ends (`DeadEndsStay`), the forced gate
(`ForcedGate`), and that the store implements `PlanLeases`
(`StoreImplementsLeases`: a claim maps to `Grant`, a heartbeat to `Extend`, a
release or completion to `Close`, all else stutters).

The argument is cut in three: what each pure function returns (`LockedFacts`,
`ReleasedFacts`, ...), what each operation does to the variables
(`ClaimEffect`, ...), and what a write must satisfy for each conjunct to
survive it (`ShapeAfter`, `LiveAfterRegrant`, ...).

`SqlPlanStoreProofs`: the store invariant again, and `HeldWritesFit`: what a
transaction is about to write fits the row as it is now, with the event and the
lease that come with it. It holds because nobody else writes a row that is held
(`RowsAreHeldOnce`, part of the invariant), and it has to say what the clock may do
between select and commit. A takeover whose lock had expired
when it was selected still finds it expired, as time only goes on. A heartbeat
whose lease runs out before it commits still names the lease in the row, so it
may renew it: nobody else could take it meanwhile. No transaction writes an
expiry later than the timeout from now. The commit is then one operation of the
atomic store in all but its clock, and the lemmas of `PlanStoreProofs`, taken
through the instance `Atomic`, carry every conjunct over it. `SqlKeepsThePromises`
gives SQL the atomic store's exclusion, honoured leases and gate;
`SqlImplementsLeases` is the refinement.

`MongoPlanStoreProofs`: here a write may replace anything, so the invariant,
`MongoInv`, must be about what survives a lost update. `PendingWritesFit` compares
a pending write with the document it was *computed from*, not with the one it
will replace: it tells of no lock that was not granted, leaves an absent plan
absent, is completed only where it stores a null lock, and shuts the gate where
that document shut it. Hence `GateSurvivesLostUpdates` holds without any exception,
because a plan whose approval was never written has no writer that saw it
approved. `LeasesAreHonoured` is for plans that were never overwritten.
`LiveLeaseIsHonoured` is not inductive there: it does not say when the lock expires,
so that a lock could run out, and its plan be taken over, under a lease that
counts. `GrantsAreHonoured` adds that the expiry in the lock is the one the
executor was told. `ArchiveIsUnreadable` says what the null lock does to the
archive: no completed plan can be parsed, ever.

`DatabaseWorkItemStoreProofs`: `DatabaseIsSound` says for each call what it may
rely on at its statement. Its heart is `SeenIsOld`: the row a call loaded has
a version not above the stored one, and is the stored row if the versions are
equal, because every write counts up (`RowsMoveOn`). So a compare-and-set that
matches replaces the record its next record was computed from, which is the
abstract `Update` (`DatabaseImplementsStore`). `ClaimsAreExclusive`,
`SomeCallGetsThrough` and `UniqueKeys` build on it.

`FileWorkItemStoreProofs`: at most one call is inside, the directory is there
while it is, and what it is about to write is the file with one lifecycle step
taken at a time not after now. Only the call inside can change the file, so
this survives everybody else; hence the refinement
(`FileImplementsStore`), and through it the promises of the abstract store.
`OrphansStay` needs only that nobody but the call inside removes the directory.
The abstract store keeps `TypeOK /\ LeasesAreSound`, from which
`ActiveLeaseIsKept`, `TerminalIsFinal` and, with one case per lifecycle
function, `ApprovalIsAwaited` follow. The content is in `WorkItemProofs`:
`CommandEffect` turns a command into a disjunction of six lifecycle functions,
and each lemma takes them one by one.

The same module proves the audit stream on top of the file. `AuditStaysSound`
says of an item that is not "unclear" that its stream ends at the stored status, or
that the one call working on it holds the missing event: the call that has
committed has the event that leads from the end of the stream to the stored status,
the one that has not yet has read the stored status as its "before". A second
call on the item, a death or a lost append makes the item unclear, and so
`StreamEndsAtTheStore` and `StreamIsAChain` survive them.

`WorkLoopProofs`: two specifications in one module, one section each.
`ControllerIsSafe` ties what the host has in hand to the durable loop: a slice
the host works on is running or canceled, one about to be judged has an
outcome, and the review in hand is the last on record; a done slice with an outcome
is never run again, so that the review it passed stays the last
(`OutcomesAreReviewed`). The gate needs that a
slice whose last review failed is not done, which the first rung of the ladder
keeps. `ActiveGoesOn` needs `StopsAreAlone`: a loop stops with the slice that
stopped it, nothing is launched before a human sends that slice back, and so an
active loop has no slice in a status that nothing selects.

Executors, submitters and reviewers together refine `PlanStore`
(`ExecutorsUseTheStore`), so its theorems hold of them. `CopiesAreCurrent` is the
invariant that makes a report harmless: while a lease counts nobody else can
report on the plan, so the copy is the stored loop. From it `NoWorkIsUndone`
and `WorkIsDone`.

`AuthStoreProofs`: `AuthStaysSound` has two halves. What is stored holds what
callers know (`Kept`); what a request inside the lock is about to write holds
that and what its own answer will add (`IsSound`). Every operation that
changes the store is the last of its route (`LastAnswers`), and computes from
what is stored when it takes effect: one statement in MongoDB, the lock in the
file. An ended credential is stopped at its first operation (`IsDoomed`),
because the store it looks at, torn or whole, does not have it. Addresses stay
unique, answers are kept, ended credentials are refused. `GoodSessionsStayGood`
is the other side, and needs to know who may end a session: `SessionInv` says
that a request about to revoke one either was given it, so that it counts as
ended from then on, or found it expired, and that a file is torn under a living
holder only while that holder writes. A lookup that meets no torn file then
finds the session.

Assumptions: timeouts are positive, sentinels are distinct from the values
they stand beside, sessions and tokens do not share secrets, work loops callers send are
work loops and there is one to send, slices have distinct places, and a run of
`MongoPlanStore` that follows claims follows approvals. TLC evaluates all of them.

Some theorems state invariants that no run names: `RecordShape`,
`LockIsGranted`, `ForcedApproval`, mutual exclusion at the lock directory
(`OneInside`), `KeysAreUnique`, `DoneIsFinal`, `LeasesAreSound`,
`TerminalIsFinal`, `StuckStaysStuck`, the archive of MongoDB and the type invariants
of most modules. They are what the
other proofs rest on.

## What is only model-checked

`EveryCallEnds` and `EveryCallIsAnswered`, the two liveness properties: fairness
and ENABLED are out of the prover's reach. Every other property of a passing
run has a theorem. The four runs that expect a violation state what does not hold,
and have none.

The proofs go as far as the modules do: several plans, servers and clients, but
one clock that all servers read, and one loop per host.

## What the code does otherwise than its texts say

- `rejected_claim`: the reject dialog against `releaseStatus`.
- `retried_create`: the idempotency promise of the schema against a failed insert.
- `mongo_exclusion`: the documentation's atomic claims against `updatePlan`.

- `expired_lock`: the badge of an expired lock against `claimNextPlan`'s filter;
  and the badge of a blocked plan, which no review leads anywhere.

PROJECT.json quotes text and line of each. Three more have no run of their own:

- The archive of the MongoDB store. `docs/index.md:78` says "Completed plans remain
  available from the archive with metadata payloads.", and `:79` that they can
  carry review evidence. The null lock of a completed plan makes `listCompletedPlans`,
  `getPlan` and `attachPlanReviewEvidence` throw (`ArchiveIsUnreadable`); one
  released or session-submitted plan makes `listPlans` throw for all, and a null
  actor id `listAudit`. A plan released for review can never be approved there.
  The auth store of MongoDB stores the same nulls: a token minted without an expiry
  never verifies, and a user created without a name cannot log in. That only
  refuses more, so the properties of `AuthStore` hold.
- The decision without an outcome. Its reason is "No outcome artifact was available
  after execution; keep the slice active." (`adjudication.ts:22`); applied with an
  outcome path it marks the slice done (`:133`). The documented order of calls does
  not say which path a host passes, so this stays a hazard.
- The CLI takes the exit code of the child for the result of a slice
  (`cli/src/index.ts:196`) and never reads an outcome.

## What is not modelled

- `src/src/coordination.ts`: pure helpers over a coordination file for embedding
  hosts. Nothing in the repository calls them or keeps their state, and the
  lifecycle they repeat is `WorkItem`'s.
- A write of a plan file or of `auth.json` that fails half way: both are truncated
  before they are written, so a full disk leaves an empty file or a part of one. An
  empty plan file is a plan that is not found, half a one fails every list and
  every claim; an empty `auth.json` is a new installation. Listed as a hazard.
- In `CodexExecutor`, a bare `complete` and submissions of loops that are not
  active: the store accepts a completion with any loop that says done, whatever
  its slices are, so `CompletedPlanIsWorkedOff` is about plans reported by
  `run-codex`.
- `runawayGuard` and `repairOnReviewFailure`: parsed, and read by no code that
  decides; the model bounds attempts instead.
- Plan templates, the launcher's files and prompts, reviewer configuration,
  server configuration, wire schemas and the HTTP client: data or parsing.
- Password hashing, cookies, the web UI's rendering, repository scripts.

What could come next: writes of `auth.json` and of plan files that fail half way,
and the writes of MongoDB related to the atomic store for plans that are never
overwritten.
