------------------------ MODULE MCWorkLoopController ------------------------
(* Three slices; the second in the list waits for the other two. *)
EXTENDS WorkLoopController, TLC

CONSTANTS early, waiting, late

Places == (early :> 1) @@ (waiting :> 2) @@ (late :> 3)

Dependencies == (early :> {}) @@ (waiting :> {early, late}) @@ (late :> {})

(* One outcome per rung of the ladder, and one that contradicts itself. *)
SomeOutcomes == {{}, {"more_to_do"}, {"stopped", "more_to_do"}, {"needs_stefan"}}

=============================================================================
