-------------------------------- MODULE VdiPool ---------------------------------
(***************************************************************************)
(* The Docker containers of VDI sessions: a session starts one or finds    *)
(* the one of its name running, a logout removes it, and a task removes    *)
(* those that no session has used for a while.  Every call to the Docker   *)
(* daemon is a step, and may fail; the daemon keeps the containers when    *)
(* the gateway restarts.                                                   *)
(*                                                                         *)
(* Time is counted in the reaper's passes.  Limits, mounts, environment    *)
(* and thumbnails are left out.                                            *)
(***************************************************************************)
EXTENDS Naturals, FiniteSets

CONSTANTS
    Session,      \* sessions, numbered in the order in which they begin
    Name,         \* container names, of a user and an entry
    Image,
    Asks,         \* which names and images each session may ask for
    Ranged,       \* whether a range of host ports is configured
    Ports,        \* how many host ports there are
    Hash,         \* of the user a name is of: where in the range the search begins
    Timeout,      \* idle_timeout_mins
    None,
    MaxContainers, \* bound: containers ever made
    MaxRestarts    \* bound: restarts of the gateway

Cid == 1..MaxContainers

ASSUME BoundsAssumption ==
    /\ {Ports, Timeout, MaxContainers, MaxRestarts} \subseteq Nat
    /\ Ports > 0 /\ Ranged \in BOOLEAN /\ Session \subseteq Nat
    /\ Hash \in [Name -> Nat] /\ Asks \in [Session -> SUBSET (Name \X Image)]
ASSUME NoneAssumption == None \notin Image /\ None \notin Name /\ None \notin Cid

VARIABLES
    box,      \* what Docker has of each container
    made,     \* containers made so far
    sess,     \* how far each session has come
    reaper,   \* the reaper's pass
    last,     \* last_active: passes since it saw a container used
    restarts  \* bound: restarts so far

vars == <<box, made, sess, reaper, last, restarts>>

(* A container: its name and image, whether it runs, its host port, which  *)
(* is 0 if it has none of the range that is configured now, and the        *)
(* session whose password it was given last.                               *)
Container == [name : Name, image : Image, running : BOOLEAN, port : 0..Ports, pw : Session]

(* A session: the call it waits for, the name and image it asks for, the   *)
(* container it has found or made and its host port as it was then, what   *)
(* it does once that is removed, and the host ports it has tried.          *)
NoSession == [at |-> "new", name |-> None, image |-> None, cid |-> None, port |-> 0,
              then |-> "over", tries |-> 0]

Starting == {"inspect", "password", "prepare", "start", "warm", "late", "create", "boot",
             "booted", "boxed", "stop", "remove"}
Live == {"live"}
Active == Starting \cup Live \cup {"ready"}

NoPass == [at |-> "sleep", listed |-> {}, todo |-> {}, cid |-> None]

Init ==
    /\ box = [c \in Cid |-> None]
    /\ made = 0
    /\ sess = [s \in Session |-> NoSession]
    /\ reaper = NoPass
    /\ last = [c \in Cid |-> None]
    /\ restarts = 0

-----------------------------------------------------------------------------
(* Docker *)

Exists == {c \in Cid : box[c] # None}
Running == {c \in Exists : box[c].running}

\* The container of a name, if there is one.
Named(n) == {c \in Exists : box[c].name = n}

\* Who answers at a host port.
Listening(p) == {c \in Running : box[c].port = p}

Halt(c) == box' = IF box[c] = None THEN box ELSE [box EXCEPT ![c].running = FALSE]

\* What has the name is started, if its port is free.  Without a range Docker
\* picks another port each time.
StartNamed(n) ==
    \E c \in Named(n) :
        \/ c \in Running /\ UNCHANGED box
        \/ /\ c \notin Running
           /\ \E p \in IF Ranged THEN {box[c].port} ELSE 1..Ports :
                  /\ Listening(p) = {}
                  /\ box' = [box EXCEPT ![c].running = TRUE, ![c].port = p]

\* Which containers a session has.
has_active_vdi_session(c) == \E s \in Session : sess[s].at \in Live /\ sess[s].cid = c

-----------------------------------------------------------------------------
(* start_or_reuse *)

Step(s, x) == sess' = [sess EXCEPT ![s] = x]
To(s, at) == Step(s, [sess[s] EXCEPT !.at = at])
Docker == UNCHANGED <<box, made>>
Others == UNCHANGED <<reaper, last, restarts>>

\* Nothing more is done for a session that failed or is over.
End(s) == Step(s, [NoSession EXCEPT !.at = "over"])

\* Stop the container c, then go on at next.
StopThen(s, c, next) ==
    Step(s, [sess[s] EXCEPT !.at = "stop", !.cid = c, !.then = next])

create_session(s) ==
    /\ sess[s].at = "new" /\ \A r \in Session : r < s => sess[r].at # "new"
    /\ \E a \in Asks[s] : Step(s, [NoSession EXCEPT !.at = "inspect", !.name = a[1], !.image = a[2]])
    /\ Docker /\ Others

\* Mutant: a container is reused whatever its image is.
ImageIgnored(s, c) == Ranged => box[c].port # 0

\* A container that has the image and a port of the range.
Reusable(s, c) == box[c].image = sess[s].image /\ (Ranged => box[c].port # 0)

\* What has the name is replaced, used as it runs, or started.
do_start_or_reuse(s) ==
    /\ sess[s].at = "inspect"
    /\ \/ \E c \in Named(sess[s].name) :
              IF Reusable(s, c)
              THEN /\ box[c].port # 0
                   /\ Step(s, [sess[s] EXCEPT !.at = IF box[c].running THEN "password" ELSE "start",
                                              !.cid = c, !.port = box[c].port])
              ELSE StopThen(s, c, "inspect")
       \/ Named(sess[s].name) = {} /\ To(s, "create")
    /\ Docker /\ Others

\* Docker fails, or knows of no mapped port.
InspectFails(s) == sess[s].at = "inspect" /\ End(s) /\ Docker /\ Others

\* chpasswd runs in what has the name by now.
update_container_password(s) ==
    /\ sess[s].at \in {"password", "late"}
    /\ \/ /\ \E c \in Named(sess[s].name) \cap Running : box' = [box EXCEPT ![c].pw = s]
          /\ To(s, IF sess[s].at = "password" THEN "prepare" ELSE "ready")
       \/ End(s) /\ UNCHANGED box
    /\ UNCHANGED made /\ Others

\* The container is started by name.
StartStopped(s) ==
    /\ sess[s].at = "start"
    /\ StartNamed(sess[s].name)
    /\ To(s, "warm")
    /\ UNCHANGED made /\ Others

\* With a range of ports a container that does not come up is replaced.
GiveUp(s) == IF Ranged THEN StopThen(s, sess[s].cid, "inspect") ELSE End(s)

StartFails(s) == sess[s].at = "start" /\ GiveUp(s) /\ Docker /\ Others

\* The hook and the wait for xrdp, of a container that ran, that was
\* started, and that is new: until someone answers at the port that it had.
prepare_rdp_endpoint(s) ==
    /\ sess[s].at \in {"prepare", "warm", "boxed"}
    /\ Listening(sess[s].port) # {}
    /\ Step(s, [sess[s] EXCEPT !.at = IF @ = "warm" THEN "late" ELSE "ready", !.tries = 0])
    /\ Docker /\ Others

\* Mutant: the wait for xrdp has no end while the container is gone.
WaitForever(s) ==
    /\ sess[s].at \in {"prepare", "warm"}
    /\ Listening(sess[s].port) # {}
    /\ GiveUp(s)
    /\ Docker /\ Others

wait_for_ready_times_out(s) ==
    /\ sess[s].at \in {"prepare", "warm"}
    /\ GiveUp(s)
    /\ Docker /\ Others

\* A port of the range that does not do is followed by the next.
NextPort(s) == IF Ranged /\ sess[s].tries < Ports THEN "create" ELSE "over"

\* host_port_candidates: the ports in a row, from one that depends on the user.
Candidate(n, tries) == IF Ranged THEN ((Hash[n] + tries) % Ports) + 1 ELSE 0

CreateContainer(s) ==
    /\ sess[s].at = "create"
    /\ made < MaxContainers
    /\ Named(sess[s].name) = {}
    /\ made' = made + 1
    /\ box' = [box EXCEPT ![made + 1] = [name |-> sess[s].name, image |-> sess[s].image,
                                         running |-> FALSE, pw |-> s,
                                         port |-> Candidate(sess[s].name, sess[s].tries)]]
    /\ Step(s, [sess[s] EXCEPT !.at = "boot", !.cid = made + 1, !.tries = @ + 1])
    /\ Others

\* The name is taken by now, or Docker fails.
CreateFails(s) == sess[s].at = "create" /\ End(s) /\ Docker /\ Others

\* The new container is started, by name, ...
BootContainer(s) ==
    /\ sess[s].at = "boot"
    /\ StartNamed(sess[s].name)
    /\ To(s, "booted")
    /\ UNCHANGED made /\ Others

\* ... and what has the name is asked for its port; if that fails, the
\* container stays.
InspectNew(s) ==
    /\ sess[s].at = "booted"
    /\ \/ \E c \in Named(sess[s].name) :
              /\ box[c].port # 0
              /\ Step(s, [sess[s] EXCEPT !.at = "boxed", !.port = box[c].port])
       \/ End(s)
    /\ Docker /\ Others

BootFails(s) ==
    /\ sess[s].at \in {"boot", "boxed"}
    /\ StopThen(s, sess[s].cid, NextPort(s))
    /\ Docker /\ Others

-----------------------------------------------------------------------------
(* do_stop_container *)

\* The hook is run and the container stopped: if not, that is ignored ...
StopContainer(s) ==
    /\ sess[s].at = "stop"
    /\ Halt(sess[s].cid) \/ UNCHANGED box
    /\ To(s, "remove")
    /\ UNCHANGED made /\ Others

\* What the session does once the container is gone, or could not be removed.
Removed(s) ==
    IF sess[s].then = "over" THEN End(s)
    ELSE Step(s, [sess[s] EXCEPT !.at = sess[s].then, !.cid = None, !.then = "over"])

\* ... and removed, if Docker can.
RemoveContainer(s) ==
    /\ sess[s].at = "remove"
    /\ box' = [box EXCEPT ![sess[s].cid] = None]
    /\ Removed(s)
    /\ UNCHANGED made /\ Others

\* A failure is ignored: the session begins anew, or tries the next port.
RemoveFails(s) ==
    /\ sess[s].at = "remove" /\ sess[s].cid \in Exists
    /\ Removed(s)
    /\ Docker /\ Others

-----------------------------------------------------------------------------
(* Sessions *)

\* guacd connects to the port and answers, and the session is registered ...
Register(s) ==
    /\ sess[s].at = "ready"
    /\ To(s, "live")
    /\ Docker /\ Others

\* ... or it does not, and the container stays.
GuacdFails(s) == sess[s].at = "ready" /\ End(s) /\ Docker /\ Others

\* The browser leaves, or never comes, or the session is terminated: the
\* container stays.
Leave(s) ==
    /\ sess[s].at \in Live
    /\ End(s)
    /\ Docker /\ Others

\* The server ends the session: the user logged out, or it crashed.
stop_vdi_container(s) ==
    /\ sess[s].at = "live"
    /\ StopThen(s, sess[s].cid, "over")
    /\ Docker /\ Others

\* The client of the request that starts a session goes, and the handler is
\* dropped at the call it waits for; a logout's removal is not a request.
Abandon(s) ==
    /\ sess[s].at \in Starting \cup {"ready"} /\ (sess[s].at \in {"stop", "remove"} => sess[s].then # "over")
    /\ End(s)
    /\ Docker /\ Others

-----------------------------------------------------------------------------
(* The reaper *)

\* A pass begins, a minute after the one before it, with the containers
\* that run.
list_managed_containers_detail ==
    /\ reaper.at = "sleep"
    /\ reaper' = [NoPass EXCEPT !.at = "scan", !.listed = Running, !.todo = Running]
    /\ last' = [c \in Cid |-> IF last[c] \in 0..Timeout THEN last[c] + 1 ELSE last[c]]
    /\ Docker /\ UNCHANGED <<sess, restarts>>

ListFails ==
    /\ reaper.at = "sleep"
    /\ last' = [c \in Cid |-> IF last[c] \in 0..Timeout THEN last[c] + 1 ELSE last[c]]
    /\ Docker /\ UNCHANGED <<sess, reaper, restarts>>

\* Mutant: only a container that was seen in use is ever timed.
Unseen(c) == [last EXCEPT ![c] = None]

\* A container that the reaper sees for the first time.
FirstSeen(c) == [last EXCEPT ![c] = 0]

\* One container of the pass.
Check ==
    /\ reaper.at = "scan"
    /\ \E c \in reaper.todo :
           LET rest == [reaper EXCEPT !.todo = @ \ {c}]
           IN  \/ /\ has_active_vdi_session(c)
                  /\ last' = [last EXCEPT ![c] = 0] /\ reaper' = rest
               \/ /\ ~ has_active_vdi_session(c) /\ last[c] = None
                  /\ last' = FirstSeen(c) /\ reaper' = rest
               \/ /\ ~ has_active_vdi_session(c) /\ last[c] \in 0..Timeout
                  /\ reaper' = rest /\ UNCHANGED last
               \/ /\ ~ has_active_vdi_session(c) /\ last[c] = Timeout + 1
                  /\ reaper' = [rest EXCEPT !.at = "stop", !.cid = c] /\ UNCHANGED last
    /\ Docker /\ UNCHANGED <<sess, restarts>>

ReaperStops ==
    /\ reaper.at = "stop"
    /\ Halt(reaper.cid) \/ UNCHANGED box
    /\ reaper' = [reaper EXCEPT !.at = "remove"]
    /\ UNCHANGED <<made, sess, last, restarts>>

\* Whether it could be removed or not, the container is forgotten.
Forget ==
    /\ last' = [last EXCEPT ![reaper.cid] = None]
    /\ reaper' = [reaper EXCEPT !.at = "scan", !.cid = None]
    /\ UNCHANGED <<made, sess, restarts>>

ReaperRemoves ==
    /\ reaper.at = "remove"
    /\ box' = [box EXCEPT ![reaper.cid] = None]
    /\ Forget

ReaperRemoveFails == reaper.at = "remove" /\ UNCHANGED box /\ Forget

EndPass ==
    /\ reaper.at = "scan" /\ reaper.todo = {}
    /\ last' = [c \in Cid |-> IF c \in reaper.listed THEN last[c] ELSE None]
    /\ reaper' = NoPass
    /\ Docker /\ UNCHANGED <<sess, restarts>>

-----------------------------------------------------------------------------
(* Faults *)

\* A container ends by itself.
Die ==
    /\ \E c \in Running : Halt(c)
    /\ UNCHANGED <<made, sess>> /\ Others

\* The gateway ends: of its sessions and of last_active nothing is left.
\* It may start with another range of ports, which the containers miss.
Restart ==
    /\ restarts < MaxRestarts
    /\ restarts' = restarts + 1
    /\ sess' = [s \in Session |-> IF sess[s].at = "new" THEN sess[s] ELSE [NoSession EXCEPT !.at = "over"]]
    /\ reaper' = NoPass
    /\ last' = [c \in Cid |-> None]
    /\ \/ UNCHANGED box
       \/ Ranged /\ box' = [c \in Cid |-> IF box[c] = None THEN None ELSE [box[c] EXCEPT !.port = 0]]
    /\ UNCHANGED made

Handler(s) ==
    \/ do_start_or_reuse(s) \/ InspectFails(s) \/ update_container_password(s)
    \/ StartStopped(s) \/ StartFails(s) \/ prepare_rdp_endpoint(s) \/ wait_for_ready_times_out(s)
    \/ CreateContainer(s) \/ CreateFails(s) \/ BootContainer(s) \/ InspectNew(s) \/ BootFails(s)
    \/ StopContainer(s) \/ RemoveContainer(s) \/ RemoveFails(s)

Pass == list_managed_containers_detail \/ Check \/ ReaperStops
        \/ ReaperRemoves \/ ReaperRemoveFails \/ EndPass

Next ==
    \/ \E s \in Session : \/ create_session(s) \/ Handler(s) \/ Register(s) \/ GuacdFails(s)
                          \/ Abandon(s) \/ Leave(s) \/ stop_vdi_container(s)
    \/ Pass \/ ListFails
    \/ Die \/ Restart

Spec == Init /\ [][Next]_vars

(* A start goes on until guacd is to answer, as every call to Docker has a *)
(* time limit, and so does the reaper, whose passes do not all fail to     *)
(* list, and whose removals, a minute apart, do not fail for ever.         *)
FairSpec ==
    /\ Spec
    /\ \A s \in Session : WF_vars(Handler(s))
    /\ WF_vars(Pass)
    /\ SF_vars(list_managed_containers_detail)
    /\ SF_vars(ReaperRemoves)

-----------------------------------------------------------------------------
(* Properties *)

SessionType ==
    [at : {"new", "over"} \cup Active, name : Name \cup {None},
     image : Image \cup {None}, cid : Cid \cup {None}, port : 0..Ports,
     then : {"inspect", "create", "over"}, tries : 0..Ports]

\* Containers, sessions and the reaper's pass are well formed, and a call
\* about a container has one.
TypeOK ==
    /\ box \in [Cid -> Container \cup {None}]
    /\ made \in 0..MaxContainers
    /\ sess \in [Session -> SessionType]
    /\ \A s \in Session :
           /\ sess[s].at \in Active => sess[s].name \in Name /\ sess[s].image \in Image
           /\ sess[s].at \in Active \ {"inspect", "create"} => sess[s].cid \in Cid
    /\ reaper.at \in {"sleep", "scan", "stop", "remove"}
    /\ reaper.listed \subseteq Cid /\ reaper.todo \subseteq reaper.listed
    /\ reaper.at \in {"stop", "remove"} => reaper.cid \in Cid
    /\ last \in [Cid -> 0..(Timeout + 1) \cup {None}]
    /\ restarts \in 0..MaxRestarts

\* guacd is about to connect to whoever answers at the port that
\* start_or_reuse returned.  While the container of the session runs, that is
\* this one, and it has the name and the image asked for.  Once it does not,
\* another may have the port, of another user even: but one that takes the
\* session's password is still of the name asked for.
RightDesktop ==
    \A s \in Session : sess[s].at = "ready" =>
        \A c \in Listening(sess[s].port) :
            /\ Ranged /\ sess[s].cid \in Running =>
                   c = sess[s].cid /\ box[c].name = sess[s].name /\ box[c].image = sess[s].image
            /\ box[c].pw = s => box[c].name = sess[s].name

\* A container that runs is some day removed, stopped or used again: also
\* one that an earlier run of the gateway left, or a start that failed.
IdleContainersGo == \A c \in Cid : c \in Running ~> c \notin Running \/ has_active_vdi_session(c)

\* start_or_reuse ends, although it begins anew each time it has removed a
\* container that does not do, unless Docker fails for ever to remove
\* containers: nothing else keeps it going.
StartsEnd ==
    \/ <>[](\A s \in Session : sess[s].at \notin Starting)
    \/ []<><<\E s \in Session : RemoveFails(s)>>_vars
=============================================================================
