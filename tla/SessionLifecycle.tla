-------------------------- MODULE SessionLifecycle --------------------------
(***************************************************************************)
(* What the session manager promises for each session, whatever the        *)
(* callers do and however they interleave: a session is opened once, its   *)
(* connection to the target is handed to an owner at most once, it ends    *)
(* once, and from then on it only gives things back.                       *)
(***************************************************************************)
CONSTANTS Sid, Resource

VARIABLES
    phase,  \* "absent", "pending", "active" or "over"
    held    \* resources the session holds

vars == <<phase, held>>

Init ==
    /\ phase = [s \in Sid |-> "absent"]
    /\ held = [s \in Sid |-> {}]

Open(s) ==
    /\ phase[s] = "absent"
    /\ phase' = [phase EXCEPT ![s] = "pending"]
    /\ \E r \in SUBSET Resource : held' = [held EXCEPT ![s] = r]

\* The one hand-over of the connection.
Attach(s) ==
    /\ phase[s] = "pending"
    /\ phase' = [phase EXCEPT ![s] = "active"]
    /\ UNCHANGED held

\* The normal end: everything is given back in the step that ends the session.
Close(s) ==
    /\ phase[s] \in {"pending", "active"}
    /\ phase' = [phase EXCEPT ![s] = "over"]
    /\ held' = [held EXCEPT ![s] = {}]

\* A pending session whose deferred connection fails keeps its tunnels.
FailDeferred(s) ==
    /\ phase[s] = "pending"
    /\ held[s] \subseteq {"tunnels"}
    /\ phase' = [phase EXCEPT ![s] = "over"]
    /\ UNCHANGED held

\* Resources only go; those of several sessions may go in one step.
Release ==
    /\ held' \in [Sid -> SUBSET Resource]
    /\ \A s \in Sid : held'[s] \subseteq held[s]
    /\ UNCHANGED phase

Next ==
    \/ \E s \in Sid : Open(s) \/ Attach(s) \/ Close(s) \/ FailDeferred(s)
    \/ Release

Spec == Init /\ [][Next]_vars
=============================================================================
