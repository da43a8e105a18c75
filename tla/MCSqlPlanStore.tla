--------------------------- MODULE MCSqlPlanStore ---------------------------
(* Model values and work loops for checking SqlPlanStore with TLC. *)
EXTENDS SqlPlanStore, TLC

CONSTANTS
    a1,       \* a project
    p1, p2,   \* plans
    t1, t2,   \* client tokens
    l1, l2,   \* lease ids
    e1,       \* review evidence
    c1, c2    \* connections

MainLoops == [status : {"active", "done"}, projectId : {a1}]

ActiveLoop == [status : {"active"}, projectId : {a1}]

Symmetry == Permutations(Call)

=============================================================================
