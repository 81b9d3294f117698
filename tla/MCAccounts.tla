------------------------------- MODULE MCAccounts -------------------------------
(* The instance of Accounts that TLC checks: an email in three spellings,  *)
(* two people who claim it, the second without a group, and two forms of   *)
(* expiry that validation and cleanup read differently.                    *)
EXTENDS Accounts, TLC

MCFolded == [e \in Email |-> "ann"]
MCClaim ==
    {[email |-> "Ann", subject |-> "s1", groups |-> {"staff"}],
     [email |-> "ann", subject |-> "s2", groups |-> {}]}
MCExpiry == {[form |-> "date", at |-> 0], [form |-> "iso", at |-> 1]}
\* No users yet, or two from before logins ignored case.
MCTable ==
    {[i \in Id |-> None],
     [i \in Id |-> IF i > 2 THEN None
                   ELSE [email |-> IF i = 1 THEN "Ann" ELSE "ANN", role |-> "viewer",
                         disabled |-> FALSE, subject |-> None, resets |-> 0]]}
Symmetry == Permutations(Login)
=============================================================================
