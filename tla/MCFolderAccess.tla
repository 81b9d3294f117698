----------------------------- MODULE MCFolderAccess -----------------------------
(* The instance of FolderAccess that TLC checks: three folders, one below  *)
(* the other, one user with one group, and the kinds of configuration that *)
(* differ: isolated and open to the group, inheriting, inheriting with a   *)
(* user of its own.                                                        *)
EXTENDS FolderAccess, TLC

CONSTANTS top, mid, low, ann, staff

MCPath == (top :> <<top>>) @@ (mid :> <<mid, top>>) @@ (low :> <<low, mid, top>>)
MCGroupsOf == [x \in User |-> {staff}]
MCGiven ==
    {[groups |-> {staff}, users |-> {}, inherit |-> FALSE],
     [groups |-> {}, users |-> {}, inherit |-> TRUE],
     [groups |-> {}, users |-> {ann}, inherit |-> TRUE]}
Symmetry == Permutations(Req)
=============================================================================
