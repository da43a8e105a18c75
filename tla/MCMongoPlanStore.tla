-------------------------- MODULE MCMongoPlanStore --------------------------
(* Model values and work loops for checking MongoPlanStore with TLC. *)
EXTENDS MongoPlanStore, TLC

CONSTANTS
    a1,       \* a project
    p1, p2,   \* plans
    t1, t2,   \* client tokens
    l1, l2,   \* lease ids
    e1,       \* review evidence
    c1, c2    \* requests

MainLoops == [status : {"active", "done"}, projectId : {a1}]

Symmetry ==
    Permutations(Token) \cup Permutations(Lease) \cup Permutations(Call)

=============================================================================
