------------------------------- MODULE MCVdiPool --------------------------------
(* The instance of VdiPool that TLC checks.                                *)
EXTENDS VdiPool, TLC

\* Two users whose search for a port begins at the same one.
SameHash == [n \in Name |-> 0]

\* The second session asks for the same as the first, for another image, or for
\* another user's; what the first asks for makes no difference then.
TwoAsks == 1 :> {<<"ann", "a">>} @@ 2 :> {<<"ann", "a">>, <<"ann", "b">>, <<"bob", "a">>}
=============================================================================
