----------------------------- MODULE MCPlanStore -----------------------------
(* Model values and work loops for checking PlanStore with TLC. *)
EXTENDS PlanStore, TLC

CONSTANTS
    a1, a2,          \* projects
    p1, p2,          \* plans
    t1, t2,          \* client tokens
    l1, l2, l3,      \* lease ids
    e1, e2           \* review evidence

Loops(statuses, projects) == [status : statuses, projectId : projects]

(* One status per branch the store can tell apart. *)
MainLoops == Loops({"active", "blocked", "done"}, {a1})

Symmetry == Permutations(Token) \cup Permutations(Lease) \cup Permutations(Evidence)

=============================================================================
