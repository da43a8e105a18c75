--------------------------- MODULE MCCodexExecutor ---------------------------
(* Two slices listed against their order, and executors with model values. *)
EXTENDS CodexExecutor, TLC

CONSTANTS early, late

Places == (late :> 1) @@ (early :> 2)

Dependencies == (late :> {early}) @@ (early :> {})

(* A loop to start, one to repair, one that is stuck. *)
SomeSubmissions ==
    {(early :> a) @@ (late :> "ready") : a \in {"ready", "repair_queued", "blocked"}}

(* What run-codex submits and reports. *)
Loops == [status : {"active", "blocked", "done"}, projectId : Project]

Symmetry == Permutations(Token) \cup Permutations(Lease)

=============================================================================
