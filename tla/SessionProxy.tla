---------------------------- MODULE SessionProxy ----------------------------
(***************************************************************************)
(* The WebSocket handlers (websocket.rs: ws_handler, handle_ws) on top of  *)
(* the session manager: one handler per browser connection, from the       *)
(* upgrade request to the last line of handle_ws, with the recording it    *)
(* may write.  Handlers run concurrently; a step of a handler is what it   *)
(* does between two awaits that release the session.                       *)
(*                                                                         *)
(* guacd is external: a connection to it may be answered, fail or end at   *)
(* any moment, and a handshake, which has no timeout, may last for ever.   *)
(* The deferred connection is made with the registry's read lock and the   *)
(* session's lock held: who needs them waits meanwhile.                    *)
(* VDI sessions are not modelled here.                                     *)
(***************************************************************************)
EXTENDS SessionManager, SequencesExt

CONSTANTS
    Conn,           \* browser connections, one handler each
    Token,          \* what a connection may present in ?token=
    MaxRecordings   \* max_recordings of the entry all sessions come from

\* "rw" and "ro" are the two share tokens, the shadow kinds are tokens an
\* admin minted, "none" is no token (or one that matches nothing).
ASSUME ProxyAssumption ==
    /\ Token \subseteq {"none", "rw", "ro"} \cup AllShadowKinds
    /\ MaxRecordings \in Nat
    /\ IsFiniteSet(Conn) /\ Cardinality(Conn) <= MaxConn

VARIABLES
    pc,       \* where each handler is
    sid,      \* the session of the request path
    user,     \* the identity of the request; NoUser without operator role
    token,    \* query.token
    role,     \* "owner", "control" or "view" once connected
    quick,    \* handlers whose guacd closed within 5 seconds
    saw,      \* status_str: what the handler will write to the history
    history,  \* the row of each session in the session_history table
    files,    \* recordings on disk, oldest modification first
    writers   \* handlers that hold the recording file of their session open

handlerVars == <<pc, sid, user, token, role, quick, saw>>
recVars == <<files, writers>>
proxyVars == <<handlerVars, history, recVars>>
allVars == <<vars, proxyVars>>

PC == {"idle", "vet", "take", "connecting", "token", "join", "joining", "joined", "setup", "create",
       "running", "ended", "left", "complete", "history", "rotate", "done"}
\* "open" is a row without ended_at; its status column still says 'active'.
Row == {"none", "open", "active", "completed", "error"}
Role == {"none", "owner", "control", "view"}

ProxyInit ==
    /\ pc = [c \in Conn |-> "idle"]
    /\ sid \in [Conn -> Sid]
    /\ user \in [Conn -> User \cup {NoUser}]
    /\ token \in [Conn -> Token]
    /\ role = [c \in Conn |-> "none"]
    /\ quick = {}
    /\ saw = [c \in Conn |-> "none"]
    /\ history = [s \in Sid |-> "none"]
    /\ files = <<>> /\ writers = {}

Goto(c, l) == pc' = [pc EXCEPT ![c] = l]

\* A handler step that touches nothing but its own position.
Move(c, l) ==
    /\ Goto(c, l)
    /\ UNCHANGED <<vars, sid, user, token, role, quick, saw, history, recVars>>

-----------------------------------------------------------------------------
(* ws_handler *)

\* is_session_pending decides which of the two paths the request takes.
Upgrade(c) ==
    /\ pc[c] = "idle"
    /\ stage[sid[c]] \in Created
    /\ IF sid[c] \in registry /\ status[sid[c]] = "pending"
       THEN Move(c, "vet")
       ELSE Move(c, "token")

\* Only the session's creator passes as its owner; the creator is read in a
\* critical section of its own.
IsSessionOwner(c) == sid[c] \in registry /\ user[c] = creator[sid[c]]

Vet(c) ==
    /\ pc[c] = "vet"
    /\ Move(c, IF IsSessionOwner(c) THEN "take" ELSE "done")

(* handle_ws: connect *)

\* The owner path: a handler that finds the stream gone goes on as a joiner,
\* and one that finds deferred parameters keeps the locks and calls guacd.
Take(c) ==
    /\ pc[c] = "take"
    /\ \/ /\ sid[c] \in stream
          /\ take_guacd_stream(sid[c])
          /\ role' = [role EXCEPT ![c] = "owner"]
          /\ Goto(c, "setup")
       \/ /\ sid[c] \notin stream
          /\ Goto(c, IF sid[c] \in registry /\ status[sid[c]] = "pending" THEN "connecting"
                     ELSE "token")
          /\ UNCHANGED <<vars, role>>
    /\ UNCHANGED <<sid, user, token, quick, saw, history, recVars>>

\* guacd answers connect_and_handshake, or the connection fails; the handler
\* whose connection failed goes on as a joiner.
TakeDeferred(c) ==
    /\ pc[c] = "connecting"
    /\ \/ /\ take_guacd_stream(sid[c])
          /\ role' = [role EXCEPT ![c] = "owner"]
          /\ Goto(c, "setup")
       \/ /\ take_guacd_stream_fails(sid[c])
          /\ Goto(c, "token")
          /\ UNCHANGED role
    /\ UNCHANGED <<sid, user, token, quick, saw, history, recVars>>

\* The sessions that are locked meanwhile, the registry with them.
Locked == {sid[c] : c \in {d \in Conn : pc[d] = "connecting"}}

\* validate_share_token: which rights the token gives on session s now.
Validate(s, t) ==
    IF s \notin registry \/ t \notin {"rw", "ro"} \cup shadow[s] THEN "none"
    ELSE IF t \in {"ro", "shadow_ro"} THEN "view" ELSE "control"

ValidateToken(c) ==
    /\ pc[c] = "token"
    /\ role' = [role EXCEPT ![c] = Validate(sid[c], token[c])]
    /\ Goto(c, IF role'[c] = "none" THEN "done" ELSE "join")
    /\ UNCHANGED <<vars, sid, user, token, quick, saw, history, recVars>>

\* join_session: the check, the guacd handshake, the count.
JoinCheck(c) ==
    /\ pc[c] = "join"
    /\ Move(c, IF Joinable(sid[c]) THEN "joining" ELSE "done")

JoinGuacd(c) ==
    /\ pc[c] = "joining"
    /\ Move(c, "joined") \/ Move(c, "done")

JoinCount(c) ==
    /\ pc[c] = "joined"
    /\ IF sid[c] \in registry THEN join_session(sid[c]) ELSE UNCHANGED vars
    /\ Goto(c, "setup")
    /\ UNCHANGED <<sid, user, token, role, quick, saw, history, recVars>>

(* handle_ws: recording *)

\* Recording is enabled for every session; the file is created by whoever
\* finds none.
OnDisk == {files[i] : i \in DOMAIN files}

RecordCheck(c) ==
    /\ pc[c] = "setup"
    /\ Move(c, IF sid[c] \in registry /\ sid[c] \notin OnDisk THEN "create" ELSE "running")

\* A file that is written moves to the recent end; File::create truncates one
\* that appeared since the check.
Touch(s) ==
    LET others == IF s \in OnDisk THEN RemoveAt(files, CHOOSE i \in DOMAIN files : files[i] = s) ELSE files
    IN  Append(others, s)

RecordCreate(c) ==
    /\ pc[c] = "create"
    /\ \/ files' = Touch(sid[c]) /\ writers' = writers \cup {c}
       \/ UNCHANGED recVars
    /\ Goto(c, "running")
    /\ UNCHANGED <<vars, sid, user, token, role, quick, saw, history>>

\* guacd_to_ws tees what it reads; writing to an unlinked file shows nothing.
RecordWrite(c) ==
    /\ pc[c] = "running" /\ c \in writers
    /\ sid[c] \in OnDisk
    /\ files' = Touch(sid[c])
    /\ UNCHANGED <<vars, handlerVars, history, writers>>

(* handle_ws: the proxy runs and ends *)

ProxyEnds(c) ==
    /\ pc[c] = "running"
    /\ Goto(c, "ended")
    /\ writers' = writers \ {c}
    /\ UNCHANGED <<vars, sid, user, token, role, saw, history, files>>

\* guacd closes the connection, within 5 seconds of its start or later.
GuacdEnded(c) == ProxyEnds(c) /\ (quick' = quick \/ quick' = quick \cup {c})
BrowserEnded(c) == ProxyEnds(c) /\ UNCHANGED quick
\* Mutant: join_session hands out a token of its own.
CancelledOwner(c) == sid[c] \in cancelled /\ role[c] = "owner" /\ ProxyEnds(c) /\ UNCHANGED quick
\* The token was cloned when the handler connected.
Cancelled(c) == sid[c] \in cancelled /\ ProxyEnds(c) /\ UNCHANGED quick

\* Mutant: disconnect_viewer is not called.
DisconnectForgets(c) ==
    /\ pc[c] = "ended"
    /\ Goto(c, "left")
    /\ UNCHANGED <<vars, sid, user, token, role, quick, saw, history, recVars>>

Disconnect(c) ==
    /\ pc[c] = "ended"
    /\ IF sid[c] \in registry THEN disconnect_viewer(sid[c]) ELSE UNCHANGED vars
    /\ Goto(c, "left")
    /\ UNCHANGED <<sid, user, token, role, quick, saw, history, recVars>>

Record(c, st) == saw' = [saw EXCEPT ![c] = st]

\* mark_error
MarkError(c) ==
    /\ pc[c] = "left" /\ c \in quick
    /\ IF sid[c] \in registry THEN error_session(sid[c]) ELSE UNCHANGED vars
    /\ Record(c, "error")
    /\ Goto(c, "history")
    /\ UNCHANGED <<sid, user, token, role, quick, history, recVars>>

\* get_session: is this the last connection?
CheckLast(c) ==
    /\ pc[c] = "left" /\ c \notin quick
    /\ IF sid[c] \in registry /\ nconn[sid[c]] # 0
       THEN Record(c, "active") /\ Goto(c, "history")
       ELSE /\ Record(c, "completed")
            /\ Goto(c, IF sid[c] \in registry THEN "complete" ELSE "history")
    /\ UNCHANGED <<vars, sid, user, token, role, quick, history, recVars>>

Complete(c) ==
    /\ pc[c] = "complete"
    /\ IF Joinable(sid[c]) THEN complete_session(sid[c]) ELSE UNCHANGED vars
    /\ Goto(c, "history")
    /\ UNCHANGED <<sid, user, token, role, quick, saw, history, recVars>>

\* UPDATE ... WHERE session_id = s AND ended_at IS NULL: the first caller's
\* status stays.
EndHistory(c) ==
    /\ pc[c] = "history"
    /\ history' = [history EXCEPT ![sid[c]] = IF @ = "open" THEN saw[c] ELSE @]
    /\ Goto(c, "rotate")
    /\ UNCHANGED <<vars, sid, user, token, role, quick, saw, recVars>>

\* rotate_per_entry: the oldest recordings of the entry go until max_recordings
\* are left.  get_recording_meta finds nothing once the session is removed.
\* The blocking task that deletes is not awaited; it may run as late as this
\* step may.
Excess == IF Len(files) > MaxRecordings THEN Len(files) - MaxRecordings ELSE 0

RotatePerEntry(c) ==
    /\ pc[c] = "rotate"
    /\ files' = IF MaxRecordings > 0 /\ sid[c] \in registry
                THEN SubSeq(files, Excess + 1, Len(files))
                ELSE files
    /\ quick' = quick \ {c} /\ Record(c, "none")  \* locals of a handler that returned
    /\ Goto(c, "done")
    /\ UNCHANGED <<vars, sid, user, token, role, history, writers>>

-----------------------------------------------------------------------------
\* Steps that lock the handler's session.
LockingStep(c) ==
    \/ Vet(c) \/ Take(c) \/ ValidateToken(c) \/ JoinCheck(c) \/ JoinCount(c) \/ RecordCheck(c)
    \/ Disconnect(c) \/ MarkError(c) \/ CheckLast(c) \/ Complete(c) \/ RotatePerEntry(c)

\* Steps that need no lock.
OwnStep(c) == RecordCreate(c) \/ Cancelled(c) \/ EndHistory(c)

\* What browser and guacd decide.
PeerStep(c) ==
    \/ TakeDeferred(c) \/ JoinGuacd(c)
    \/ RecordWrite(c) \/ GuacdEnded(c) \/ BrowserEnded(c)

HandlerStep(c) ==
    \/ sid[c] \notin Locked /\ (Upgrade(c) \/ LockingStep(c))
    \/ OwnStep(c)
    \/ PeerStep(c)

\* insert_session_history, in the step that ends create_session.
InsertHistory ==
    history' = [s \in Sid |-> IF stage[s] = "inserted" /\ stage'[s] = "done" THEN "open"
                             ELSE history[s]]

\* A step that is no handler's.
Aside(A) == A /\ InsertHistory /\ UNCHANGED <<handlerVars, recVars>>

Background ==
    \/ Tick
    \/ Locked = {} /\ RegistryLocked
    \/ \E s \in Sid : LockFree(s)
    \/ \E s \in Sid \ Locked : SessionLocked(s)

ProxyNext == Aside(Background) \/ \E c \in Conn : HandlerStep(c)

ProxySpec == Init /\ ProxyInit /\ [][ProxyNext]_allVars

-----------------------------------------------------------------------------
(* Properties *)

ProxyTypeOK ==
    /\ pc \in [Conn -> PC]
    /\ sid \in [Conn -> Sid]
    /\ user \in [Conn -> User \cup {NoUser}]
    /\ token \in [Conn -> Token]
    /\ role \in [Conn -> Role]
    /\ quick \subseteq Conn
    /\ history \in [Sid -> Row]
    /\ saw \in [Conn -> Row]
    /\ files \in Seq(Sid)
    /\ \A i, j \in DOMAIN files : files[i] = files[j] => i = j  \* file names are unique
    /\ writers \subseteq Conn

\* Handlers that active_connections counts.
Counted == {"setup", "create", "running", "ended"}
CountedOn(s) == {c \in Conn : sid[c] = s /\ pc[c] \in Counted}

\* active_connections of a registered session is exactly the number of
\* handlers between their connect and their disconnect_viewer: the increments
\* and decrements of owners and joiners that race deletes, errors and reapers
\* never drift, and the saturating subtraction never saturates.
CountExact == \A s \in registry : nconn[s] = Cardinality(CountedOn(s))

\* The guacd stream of a session goes to at most one handler in the session's
\* life, and that handler was authenticated as the creator, although the
\* pending check, the creator check and the take are three separate critical
\* sections.
OneOwner ==
    \A c \in Conn : role[c] = "owner" =>
        /\ user[c] = creator[sid[c]]
        /\ \A d \in Conn : role[d] = "owner" /\ sid[d] = sid[c] => d = c

\* A share or shadow token never opens a session: whoever joined one did so
\* after an owner had taken it.
JoinerHasOwner ==
    \A c \in Conn : role[c] # "owner" /\ pc[c] \in Counted \cup {"joining", "joined"} =>
        \E d \in Conn : role[d] = "owner" /\ sid[d] = sid[c]

\* Together: a session is opened by its creator, once, and only then joined,
\* whichever of two connections comes first and whoever presents which link.
OwnerFirst == OneOwner /\ JoinerHasOwner

\* An Active session is never stranded: it still has a connection, or a
\* handler that has yet to look whether it was the last one.  (Otherwise its
\* browser and tunnels would stay up until the maximum duration.)
NoStrandedSession ==
    \A s \in registry : status[s] = "active" =>
        \E c \in Conn : sid[c] = s /\ pc[c] \in Counted \cup {"left", "complete"}

-----------------------------------------------------------------------------
(* Liveness: handlers and background tasks keep running while nobody holds  *)
(* the registry (a writer that waits for a deferred connection makes the    *)
(* readers behind it wait too).  Nothing is assumed of browsers and guacd:  *)
(* a proxied connection ends only by cancellation, and a handshake maybe    *)
(* never.                                                                   *)
Unlocked(A) == Locked = {} /\ A

ProxyFairness ==
    /\ WF_allVars(Aside(Tick))
    /\ WF_allVars(Unlocked(Aside(ReapCompletedRemove)))
    /\ \A s \in Sid :
        /\ WF_allVars(Aside(CreateRecord(s)))
        /\ WF_allVars(Unlocked(Aside(pending_timeout(s))))
        /\ WF_allVars(Unlocked(Aside(ReapExpiredFind(s))))
        /\ WF_allVars(Unlocked(Aside(ReapExpiredDelete(s))))
        /\ WF_allVars(Unlocked(Aside(ReapCompletedFind(s))))
    /\ \A c \in Conn : WF_allVars(Unlocked(LockingStep(c))) /\ WF_allVars(OwnStep(c))

FairProxySpec == ProxySpec /\ ProxyFairness

\* guacd leaves a deferred connection without an answer: the registry stays
\* locked for ever (take_guacd_stream awaits the handshake with both locks).
LockedForEver == <>[](Locked # {})

\* Every session leaves the registry in the end: an owner who never comes, a
\* session past its maximum duration and one that is over are each someone's
\* job, and no hand-over between those jobs loses a session.  Only a guacd
\* that never answers a deferred connection prevents it.
EventuallyForgotten ==
    (\A s \in Sid : (s \in registry) ~> (s \notin registry)) \/ LockedForEver

\* A terminated session's handlers all return, those that were still joining
\* when it was terminated included: unless guacd never answers the join, which
\* does not watch the cancellation token, or some deferred connection.
TerminationReachesHandlers ==
    \/ \A c \in Conn : (pc[c] # "idle" /\ sid[c] \in cancelled) ~>
                          (pc[c] = "done" \/ [](pc[c] = "joining"))
    \/ LockedForEver
=============================================================================
