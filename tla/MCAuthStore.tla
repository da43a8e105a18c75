----------------------------- MODULE MCAuthStore -----------------------------
(* Model values for checking AuthStore with TLC. *)
EXTENDS AuthStore, TLC

Symmetry ==
    UNION {Permutations(values) : values \in {Account, Email, Session, Request}}

=============================================================================
