--------------------------- MODULE MCSessionProxy ---------------------------
(* Small instances of SessionProxy for TLC. *)
EXTENDS SessionProxy, TLC

Symmetry == Permutations(Sid) \cup Permutations(User) \cup Permutations(Conn)
=============================================================================
