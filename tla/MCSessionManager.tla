-------------------------- MODULE MCSessionManager --------------------------
(* Small instances of SessionManager for TLC. *)
EXTENDS SessionManager, TLC

Symmetry == Permutations(Sid) \cup Permutations(User)
=============================================================================
