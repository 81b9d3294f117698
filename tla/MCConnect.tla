------------------------------- MODULE MCConnect --------------------------------
(* The instance of Connect that TLC checks.                                *)
EXTENDS Connect, TLC

\* SSH, RDP and VNC each allow something else, and one host is on no list.
Lists == [ssh |-> {"farm"}, rdp |-> {"farm", "site"}, vnc |-> {"site"}, web |-> {"site"},
          image |-> {"farm"}]

Alike == Permutations(Request) \cup Permutations(Sid)
=============================================================================
