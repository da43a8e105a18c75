---------------------------- MODULE CodexExecutor ----------------------------
(***************************************************************************)
(* The command run-codex against the plan store.  An executor claims a     *)
(* plan and gets a copy of its work loop, runs one slice of the copy in a  *)
(* child process, and writes the copy back with the result: as a           *)
(* completion when every slice is done, as a release otherwise.  The child *)
(* is awaited with spawnSync, which blocks the event loop: the heartbeat   *)
(* timer never fires, time passes, and the lease may run out underneath.   *)
(*                                                                         *)
(* An executor is known by its client token.  Its process may be killed at *)
(* any point.                                                              *)
(***************************************************************************)
EXTENDS PlanStore, WorkLoopSlices

CONSTANTS
    Submissions,  \* the slices of the work loops that are submitted
    NoRun         \* an executor between two runs

VARIABLES
    stored,     \* plan.workLoop.slices[].status
    executors   \* what each executor is doing

allVars == <<vars, stored, executors>>

RunState ==
    [plan : Plan, lease : Lease, slice : Slice,
     copy : [Slice -> SliceStatus], result : {"none", "completed", "failed"}]

ASSUME ExecutorAssumption ==
    /\ Submissions \subseteq [Slice -> SliceStatus]
    /\ NoRun \notin RunState
    /\ [status : {"active", "blocked", "done"}, projectId : Project] \subseteq LoopInput

ExecutorInit ==
    /\ Init
    /\ stored = [p \in Plan |-> [s \in Slice |-> "ready"]]
    /\ executors = [t \in Token |-> NoRun]

(* An active work loop is submitted. *)
Submit(p, project, asked) ==
    /\ \E ok \in BOOLEAN :
          CreatePlan(p, [status |-> "active", projectId |-> project], asked, ok)
    /\ \E list \in Submissions : stored' = [stored EXCEPT ![p] = list]
    /\ UNCHANGED executors

(***************************************************************************)
(* selectNextWorkLoopSlice(loop) ?? loop.slices[0]: when nothing can be    *)
(* selected the first slice is run, whatever its status.  The branch for a *)
(* plan without executable slices is never taken, because the schema asks  *)
(* for at least one slice.                                                 *)
(***************************************************************************)
IsPicked(s, list) ==
    IsFirst(s, IF Selectable(list) # {} THEN Selectable(list) ELSE Slice)

(* The store answers the claim: the run of a slice begins. *)
Claim(t, p, l) ==
    /\ executors[t] = NoRun
    /\ \E plan \in Plan \cup {AnyPlan}, project \in Project \cup {AnyProject} :
          ClaimNextPlan(t, l, p, plan, project, TRUE)
    /\ \E s \in Slice :
          /\ IsPicked(s, stored[p])
          /\ executors' = [executors EXCEPT ![t] =
                [plan |-> p, lease |-> l, slice |-> s, copy |-> stored[p], result |-> "none"]]
    /\ UNCHANGED stored

(* The claim fails after it wrote the plan: the command ends with an       *)
(* error, and the plan stays locked under a lease nobody was told.         *)
ClaimFails(t, p, l) ==
    /\ executors[t] = NoRun
    /\ \E plan \in Plan \cup {AnyPlan}, project \in Project \cup {AnyProject} :
          ClaimNextPlan(t, l, p, plan, project, FALSE)
    /\ UNCHANGED <<stored, executors>>

(* The child process exits; it may have taken any time. *)
Finish(t) ==
    /\ executors[t] # NoRun
    /\ executors[t].result = "none"
    /\ \E result \in {"completed", "failed"} :
          executors' = [executors EXCEPT ![t].result = result]
    /\ UNCHANGED <<vars, stored>>

HasResult(t) == executors[t] # NoRun /\ executors[t].result # "none"

(* updateWorkLoopAfterCodexRun, on the copy the claim answered. *)
SlicesAfterRun(run) == [run.copy EXCEPT ![run.slice] = SliceAfterRun(run.result)]

StatusAfterRun(run) == LoopAfterRun(SlicesAfterRun(run), run.result)

(* The result goes to the store, which accepts it from the lease's holder. *)
(* When the store fails to log it the command fails, with the plan written. *)
Report(t) ==
    LET run    == executors[t]
        status == StatusAfterRun(run)
        loop   == [plans[run.plan].workLoop EXCEPT !.status = status]
    IN
    /\ HasResult(t)
    /\ \E ok \in BOOLEAN :
          \/ status = "done"   /\ CompletePlan(run.plan, run.lease, t, loop, ok)
          \/ status = "active" /\ ReleasePlan(run.plan, run.lease, t, loop, "ready", ok)
          \/ status = "blocked" /\ ReleasePlan(run.plan, run.lease, t, loop, "failed", ok)
    /\ stored' = [stored EXCEPT ![run.plan] = SlicesAfterRun(run)]
    /\ executors' = [executors EXCEPT ![t] = NoRun]

(* The lease ran out: the store refuses and the command fails. *)
ReportRefused(t) ==
    /\ HasResult(t)
    /\ ~HoldsLease(plans[executors[t].plan], executors[t].lease, t, now)
    /\ executors' = [executors EXCEPT ![t] = NoRun]
    /\ UNCHANGED <<vars, stored>>

Crash(t) ==
    /\ executors[t] # NoRun
    /\ executors' = [executors EXCEPT ![t] = NoRun]
    /\ UNCHANGED <<vars, stored>>

(* Reviewers and the clock do not look at the executors. *)
Others ==
    /\ (\E p \in Plan, ok \in BOOLEAN : ReviewerStep(p, ok)) \/ Tick
    /\ UNCHANGED <<stored, executors>>

ExecutorNext ==
    \/ \E p \in Plan, project \in Project, asked \in BOOLEAN : Submit(p, project, asked)
    \/ \E t \in Token :
          \/ \E p \in Plan, l \in Lease : Claim(t, p, l) \/ ClaimFails(t, p, l)
          \/ Finish(t) \/ Report(t) \/ ReportRefused(t) \/ Crash(t)
    \/ Others

ExecutorSpec == ExecutorInit /\ [][ExecutorNext]_allVars

-----------------------------------------------------------------------------
(* Properties *)

ExecutorTypeOK ==
    /\ TypeOK
    /\ stored \in [Plan -> [Slice -> SliceStatus]]
    /\ executors \in [Token -> RunState \cup {NoRun}]

(***************************************************************************)
(* A plan is completed exactly when the loop it stores says done, and then *)
(* every slice it stores is done.                                          *)
(***************************************************************************)
CompletedPlanIsWorkedOff ==
    \A p \in Plan :
        /\ Exists(plans[p]) =>
               (plans[p].status = "completed" <=> plans[p].workLoop.status = "done")
        /\ plans[p].status = "completed" => AllDone(stored[p])

(***************************************************************************)
(* While the lease of an executor counts, its copy is the stored loop, so  *)
(* what it writes back loses nothing.                                      *)
(***************************************************************************)
CopyIsCurrent ==
    \A t \in Token :
        executors[t] # NoRun /\ IsLive(executors[t].lease)
            => stored[executors[t].plan] = executors[t].copy

(***************************************************************************)
(* No report undoes the work of another executor: whoever overtook whom, a *)
(* step that changes the stored slices of a plan changes one, and it is    *)
(* the one that was next (or nothing was, and the first was run instead).  *)
(***************************************************************************)
Changed(p) == {s \in Slice : stored'[p][s] # stored[p][s]}

ReportsTheNextSlice ==
    [][\A p \in Plan :
          Exists(plans[p]) /\ Changed(p) # {} =>
              \E s \in Slice :
                  /\ Changed(p) = {s}
                  /\ IsFirst(s, Selectable(stored[p])) \/ Selectable(stored[p]) = {}]_allVars

=============================================================================
