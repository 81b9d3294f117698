----------------------------- MODULE MCAddressBook -----------------------------
(* The instance of AddressBook that TLC checks: a folder below another and *)
(* two names, the second of which a bulk request tries after the first.    *)
EXTENDS AddressBook, TLC

CONSTANTS top, sub, n, m, s, t, e

MCScopeOf == [f \in Folder |-> "shared"]
MCSubtree == [f \in Folder |-> IF f = top THEN {top, sub} ELSE {sub}]
MCRenames == [x \in Name |-> IF x = n THEN <<m>> ELSE <<>>]
\* What the form sends with all secrets, without any, and without jump hosts,
\* and what a sync source sends.
MCBody ==
    {[ext |-> None, secret |-> s, hops |-> t], [ext |-> None, secret |-> None, hops |-> Bare],
     [ext |-> None, secret |-> None, hops |-> None], [ext |-> e, secret |-> None, hops |-> None]}
Symmetry == Permutations(Req)
=============================================================================
