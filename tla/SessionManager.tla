--------------------------- MODULE SessionManager ---------------------------
(***************************************************************************)
(* The session registry of rustguac (session.rs, struct SessionManager):   *)
(* a map from session id to Session, an async RwLock around the map and an *)
(* async Mutex around each Session.                                        *)
(*                                                                         *)
(* One action is one critical section of one method: what a method does    *)
(* while it keeps the registry lock and the session lock cannot be seen    *)
(* half done, what it does between two lock acquisitions can be.  A call   *)
(* that returns without changing anything is a stuttering step.            *)
(*                                                                         *)
(* Session objects are named in advance by Sid; a session that was never   *)
(* created has stage "idle".  Time is an age per session, counted from     *)
(* created_at and cut off at AgeCap, above every threshold.                *)
(***************************************************************************)
EXTENDS Integers, FiniteSets

CONSTANTS
    Sid,             \* session ids (Uuid::new_v4 never repeats one)
    User,            \* names that created_by may hold
    NoUser,          \* created_by of a session that does not exist
    Kind,            \* the kinds of session a run creates
    ShadowKind,      \* the kinds of shadow token a run mints
    MaxSessions,     \* config.max_sessions, 0 = unlimited
    MaxPerUser,      \* config.max_sessions_per_user, 0 = unlimited
    MaxInFlight,     \* bound: create_session calls in progress at once
    MaxConn,         \* bound: active_connections of one session
    PendingTimeout,  \* config.session_pending_timeout_secs
    MaxDuration,     \* config.session_max_duration_secs
    CleanupDelay,    \* config.session_cleanup_delay_secs
    AgeCap           \* bound: ages are counted up to here

\* "keypair" is an SSH session with an ephemeral key, whose guacd connection
\* is deferred; every kind may run through a chain of jump hosts.  "ssh" also
\* stands for VNC, SPICE, Proxmox and VDI sessions, which acquire and release
\* the same things.
AllKinds == {"ssh", "keypair", "rdp", "web"}
AllShadowKinds == {"shadow", "shadow_ro"}

ASSUME ConstantsAssumption ==
    /\ NoUser \notin User
    /\ Kind \subseteq AllKinds
    /\ ShadowKind \subseteq AllShadowKinds
    /\ MaxSessions \in Nat /\ MaxPerUser \in Nat
    /\ MaxInFlight \in Nat /\ MaxConn \in Nat
    /\ PendingTimeout \in Nat /\ MaxDuration \in Nat /\ CleanupDelay \in Nat
    /\ AgeCap \in Nat
    /\ PendingTimeout <= AgeCap /\ MaxDuration < AgeCap /\ CleanupDelay < AgeCap

ASSUME FiniteSid == IsFiniteSet(Sid)

VARIABLES
    registry,   \* keys of the `sessions` map
    status,     \* Session.status; "none" before the session exists
    age,        \* now - Session.created_at
    creator,    \* Session.created_by
    kind,       \* Session.session_type, keypair told apart
    stream,     \* sessions whose guacd_stream is Some
    deferred,   \* sessions whose deferred_params is Some
    nconn,      \* Session.active_connections
    cancelled,  \* sessions whose CancellationToken is cancelled
    res,        \* what exists outside the process memory for each session
    shadow,     \* unexpired shadow tokens of each session
    stage,      \* how far the create_session call of each session is
    timer,      \* sessions whose pending-timeout task still sleeps
    toDelete,   \* reap_expired_sessions: ids found too old, not deleted yet
    toRemove    \* reap_completed_sessions: ids found over, not removed yet

sessionVars == <<status, creator, kind, stream, deferred, nconn, cancelled, res, shadow>>
createVars  == <<stage, timer>>
reaperVars  == <<toDelete, toRemove>>
vars == <<registry, age, sessionVars, createVars, reaperVars>>

Status   == {"none", "pending", "active", "completed", "error", "expired"}
Terminal == {"completed", "error", "expired"}
Live     == {"pending", "active"}
\* "drive" is the session's claim on its directory (drive_path): what
\* cleanup_session_dir then does, and when, is configuration.
\* "script" is the login script's task; its process is in BrowserPool.
\* "orphan" is a browser whose session object is gone: nobody holds it.
Resource == {"tunnels", "drive", "browser", "script", "orphan"}
Stage == {"idle", "admitted", "prepared", "spawned", "connected", "inserted", "done",
          "failed", "abandoned"}
InProgress == {"admitted", "prepared", "spawned", "connected"}
Created    == {"inserted", "done"}

\* What a session of kind k holds once it is up.
Needs(k) ==
    {"tunnels"} \cup (IF k = "rdp" THEN {"drive"} ELSE {})
                \cup (IF k = "web" THEN {"browser", "script"} ELSE {})

Init ==
    /\ registry = {}
    /\ status = [s \in Sid |-> "none"]
    /\ age = [s \in Sid |-> 0]
    /\ creator = [s \in Sid |-> NoUser]
    /\ kind = [s \in Sid |-> "ssh"]
    /\ stream = {} /\ deferred = {} /\ cancelled = {}
    /\ nconn = [s \in Sid |-> 0]
    /\ res = [s \in Sid |-> {}]
    /\ shadow = [s \in Sid |-> {}]
    /\ stage = [s \in Sid |-> "idle"]
    /\ timer = {}
    /\ toDelete = {} /\ toRemove = {}

-----------------------------------------------------------------------------
(* create_session *)

CreationsInFlight == {s \in Sid : stage[s] \in InProgress}

\* The limit check counts every session of the map against max_sessions and
\* the user's pending and active ones against max_sessions_per_user.
UnderGlobalLimit == MaxSessions = 0 \/ Cardinality(registry) < MaxSessions
LiveOf(u) == {s \in registry : creator[s] = u /\ status[s] \in Live}
UnderUserLimit(u) == MaxPerUser = 0 \/ Cardinality(LiveOf(u)) < MaxPerUser

\* First critical section: both limits are checked under one read lock, which
\* is released before anything is reserved.
CreateAdmit(s, u, k) ==
    /\ stage[s] = "idle"
    /\ Cardinality(CreationsInFlight) < MaxInFlight
    /\ UnderGlobalLimit
    /\ UnderUserLimit(u)
    /\ stage' = [stage EXCEPT ![s] = "admitted"]
    /\ creator' = [creator EXCEPT ![s] = u]
    /\ kind' = [kind EXCEPT ![s] = k]
    /\ UNCHANGED <<registry, age, status, stream, deferred, nconn, cancelled, res, shadow,
                   timer, reaperVars>>

\* Nothing of session s but its resources and the progress of its creation.
CreateStep(s, held, next) ==
    /\ res' = [res EXCEPT ![s] = held]
    /\ stage' = [stage EXCEPT ![s] = next]
    /\ UNCHANGED <<registry, age, status, creator, kind, stream, deferred, nconn, cancelled,
                   shadow, timer, reaperVars>>

\* The arm of the session type (address checks, the RDP drive directory) and
\* the SSH tunnel chain, where jump hosts are given.  A failing chain leaves
\* the directory behind.
CreatePrepare(s) ==
    /\ stage[s] = "admitted"
    /\ \E held \in SUBSET (Needs(kind[s]) \cap {"drive", "tunnels"}) :
          \/ CreateStep(s, held, "prepared")
          \/ CreateStep(s, held \ {"tunnels"}, "failed")

\* BrowserManager::spawn for web sessions.  When it fails the tunnels are
\* dropped with the call's locals (SshTunnel has a Drop).
CreateSpawn(s) ==
    /\ stage[s] = "prepared"
    /\ \/ CreateStep(s, res[s] \cup (Needs(kind[s]) \cap {"browser"}), "spawned")
       \/ kind[s] = "web" /\ CreateStep(s, res[s] \ {"tunnels"}, "failed")

\* connect_and_handshake, skipped for a deferred session; a failure kills the
\* browser.  A login script, if there is one, is started right after it.
CreateConnect(s) ==
    /\ stage[s] = "spawned"
    /\ \/ \E script \in SUBSET (Needs(kind[s]) \cap {"script"}) :
             CreateStep(s, res[s] \cup script, "connected")
       \/ /\ kind[s] # "keypair"
          /\ CreateStep(s, res[s] \ {"browser", "tunnels"}, "failed")

\* The new Session enters the map as Pending.
CreateInsert(s) ==
    /\ stage[s] = "connected"
    /\ registry' = registry \cup {s}
    /\ status' = [status EXCEPT ![s] = "pending"]
    /\ age' = [age EXCEPT ![s] = 0]
    /\ IF kind[s] = "keypair"
       THEN deferred' = deferred \cup {s} /\ UNCHANGED stream
       ELSE stream' = stream \cup {s} /\ UNCHANGED deferred
    /\ stage' = [stage EXCEPT ![s] = "inserted"]
    /\ UNCHANGED <<creator, kind, nconn, cancelled, res, shadow, timer, reaperVars>>

\* With the map lock released, the pending-timeout task is spawned.  (The row
\* of the session history, written just before, is in SessionProxy.)
CreateRecord(s) ==
    /\ stage[s] = "inserted"
    /\ stage' = [stage EXCEPT ![s] = "done"]
    /\ timer' = timer \cup {s}
    /\ UNCHANGED <<registry, age, sessionVars, reaperVars>>

\* The HTTP client goes away and the handler's future is dropped at an await:
\* tunnels have a Drop, a BrowserSession and a running login script do not.
CreateAbandon(s) ==
    /\ stage[s] \in InProgress
    /\ CreateStep(s, res[s] \ {"tunnels"}, "abandoned")

\* A login script runs in a task of its own and ends by itself.
ScriptEnds(s) ==
    /\ "script" \in res[s]
    /\ res' = [res EXCEPT ![s] = @ \ {"script"}]
    /\ UNCHANGED <<registry, age, status, creator, kind, stream, deferred, nconn, cancelled,
                   shadow, createVars, reaperVars>>

-----------------------------------------------------------------------------
(* The end of a session.  cleanup_browser aborts the login script, kills    *)
(* the browser, removes the drive directory and shuts the tunnels down; it  *)
(* runs with the session locked, so with the status change it is one step.  *)

CleanupKeepsDrive(s) == res' = [res EXCEPT ![s] = @ \cap {"drive"}] \* mutant
CleanupBrowser(s) == res' = [res EXCEPT ![s] = {}]

pending_timeout(s) ==
    /\ s \in timer
    /\ age[s] >= PendingTimeout
    /\ timer' = timer \ {s}
    /\ IF s \in registry /\ status[s] = "pending"
       THEN /\ status' = [status EXCEPT ![s] = "expired"]
            /\ stream' = stream \ {s}
            /\ CleanupBrowser(s)
       ELSE UNCHANGED <<status, stream, res>>
    /\ UNCHANGED <<registry, age, creator, kind, deferred, nconn, cancelled, shadow, stage,
                   reaperVars>>

complete_session(s) ==
    /\ s \in registry
    /\ status[s] = "active"
    /\ status' = [status EXCEPT ![s] = "completed"]
    /\ CleanupBrowser(s)
    /\ UNCHANGED <<registry, age, creator, kind, stream, deferred, nconn, cancelled, shadow,
                   createVars, reaperVars>>

\* Unconditional: an over session, or a pending one, is marked Error too.
error_session(s) ==
    /\ s \in registry
    /\ status' = [status EXCEPT ![s] = "error"]
    /\ stream' = stream \ {s}
    /\ CleanupBrowser(s)
    /\ UNCHANGED <<registry, age, creator, kind, deferred, nconn, cancelled, shadow,
                   createVars, reaperVars>>

\* Mutant: the stream stays in the removed session.
DeleteKeepsStream(s) ==
    /\ registry' = registry \ {s}
    /\ cancelled' = cancelled \cup {s}
    /\ status' = [status EXCEPT ![s] = "completed"]
    /\ CleanupBrowser(s)
    /\ UNCHANGED stream

\* What delete_session does to a session it finds; shared with the reaper.
DeleteEffect(s) ==
    /\ registry' = registry \ {s}
    /\ cancelled' = cancelled \cup {s}
    /\ status' = [status EXCEPT ![s] = "completed"]
    /\ stream' = stream \ {s}
    /\ CleanupBrowser(s)

delete_session(s) ==
    /\ s \in registry
    /\ DeleteEffect(s)
    /\ UNCHANGED <<age, creator, kind, deferred, nconn, shadow, createVars, reaperVars>>

\* The HTTP client of a DELETE goes away while delete_session waits for the
\* processes to die: the session is out of the map already, so nobody finishes
\* BrowserManager::kill.  The tunnels go with the dropped Session.
DeleteAbandon(s) ==
    /\ s \in registry
    /\ "browser" \in res[s]
    /\ registry' = registry \ {s}
    /\ cancelled' = cancelled \cup {s}
    /\ status' = [status EXCEPT ![s] = "completed"]
    /\ stream' = stream \ {s}
    /\ res' = [res EXCEPT ![s] = {"orphan"}]
    /\ UNCHANGED <<age, creator, kind, deferred, nconn, shadow, createVars, reaperVars>>

-----------------------------------------------------------------------------
(* Owner and viewers. *)

\* Mutant: the status is not checked, the leftover deferred_params decide.
TakeWithoutStatusCheck(s) ==
    /\ s \in registry
    /\ s \in deferred \cup stream
    /\ stream' = stream \ {s}
    /\ deferred' = deferred \ {s}
    /\ status' = [status EXCEPT ![s] = "active"]
    /\ nconn' = [nconn EXCEPT ![s] = @ + 1]
    /\ UNCHANGED <<registry, age, creator, kind, cancelled, res, shadow, createVars, reaperVars>>

\* Mutant: the owner is not counted.
TakeWithoutCount(s) ==
    /\ s \in registry
    /\ status[s] = "pending"
    /\ s \in deferred \cup stream
    /\ stream' = stream \ {s}
    /\ deferred' = deferred \ {s}
    /\ status' = [status EXCEPT ![s] = "active"]
    /\ UNCHANGED <<registry, age, creator, kind, nconn, cancelled, res, shadow, createVars,
                   reaperVars>>

\* The owner's first connection.  A deferred session connects to guacd here,
\* with both locks held: nobody sees it half done, but others wait for as long
\* as it takes (SessionProxy).
take_guacd_stream(s) ==
    /\ s \in registry
    /\ status[s] = "pending"
    /\ s \in deferred \cup stream
    /\ stream' = stream \ {s}
    /\ deferred' = deferred \ {s}
    /\ status' = [status EXCEPT ![s] = "active"]
    /\ nconn' = [nconn EXCEPT ![s] = @ + 1]
    /\ UNCHANGED <<registry, age, creator, kind, cancelled, res, shadow, createVars, reaperVars>>

\* The deferred guacd connection fails: no cleanup_browser on this path.
take_guacd_stream_fails(s) ==
    /\ s \in registry
    /\ status[s] = "pending"
    /\ s \in deferred
    /\ deferred' = deferred \ {s}
    /\ status' = [status EXCEPT ![s] = "error"]
    /\ UNCHANGED <<registry, age, creator, kind, stream, nconn, cancelled, res, shadow,
                   createVars, reaperVars>>

JoinableInAnyState(s) == s \in registry \* mutant

\* First critical section of join_session, a read: the id and the
\* cancellation token are copied out of an Active session.
Joinable(s) == s \in registry /\ status[s] = "active"

\* Last critical section of join_session, after guacd accepted the join: the
\* status is not looked at again.
join_session(s) ==
    /\ s \in registry
    /\ nconn[s] < MaxConn
    /\ nconn' = [nconn EXCEPT ![s] = @ + 1]
    /\ UNCHANGED <<registry, age, status, creator, kind, stream, deferred, cancelled, res,
                   shadow, createVars, reaperVars>>

\* saturating_sub(1)
disconnect_viewer(s) ==
    /\ s \in registry
    /\ nconn' = [nconn EXCEPT ![s] = IF @ = 0 THEN 0 ELSE @ - 1]
    /\ UNCHANGED <<registry, age, status, creator, kind, stream, deferred, cancelled, res,
                   shadow, createVars, reaperVars>>

mint_shadow_token(s, t) ==
    /\ s \in registry
    /\ status[s] = "active"
    /\ shadow' = [shadow EXCEPT ![s] = @ \cup {t}]
    /\ UNCHANGED <<registry, age, status, creator, kind, stream, deferred, nconn, cancelled,
                   res, createVars, reaperVars>>

\* expires_at passes: check_share_token_match skips the token from now on and
\* the next mint prunes it.
ShadowExpires(s, t) ==
    /\ t \in shadow[s]
    /\ shadow' = [shadow EXCEPT ![s] = @ \ {t}]
    /\ UNCHANGED <<registry, age, status, creator, kind, stream, deferred, nconn, cancelled,
                   res, createVars, reaperVars>>

-----------------------------------------------------------------------------
(* The two reapers.  Each first looks at the sessions, then takes the lock  *)
(* again to act on the ids it collected.                                    *)

ReapExpiredFind(s) ==
    /\ s \in registry
    /\ status[s] \in Live
    /\ age[s] > MaxDuration
    /\ toDelete' = toDelete \cup {s}
    /\ UNCHANGED <<registry, age, sessionVars, createVars, toRemove>>

ReapExpiredDelete(s) ==
    /\ s \in toDelete
    /\ toDelete' = toDelete \ {s}
    /\ IF s \in registry
       THEN DeleteEffect(s)
       ELSE UNCHANGED <<registry, cancelled, status, stream, res>>
    /\ UNCHANGED <<age, creator, kind, deferred, nconn, shadow, createVars, toRemove>>

\* Mutant: age alone decides.
ReapCompletedFindAny(s) ==
    /\ s \in registry
    /\ age[s] > CleanupDelay
    /\ toRemove' = toRemove \cup {s}
    /\ UNCHANGED <<registry, age, sessionVars, createVars, toDelete>>

\* Mutant: Expired and Error are forgotten in the match.
ReapCompletedFindCompleted(s) ==
    /\ s \in registry
    /\ status[s] = "completed"
    /\ age[s] > CleanupDelay
    /\ toRemove' = toRemove \cup {s}
    /\ UNCHANGED <<registry, age, sessionVars, createVars, toDelete>>

ReapCompletedFind(s) ==
    /\ s \in registry
    /\ status[s] \in Terminal
    /\ age[s] > CleanupDelay
    /\ toRemove' = toRemove \cup {s}
    /\ UNCHANGED <<registry, age, sessionVars, createVars, toDelete>>

\* Removing the last reference to a Session drops its tunnels.
ReapCompletedRemove ==
    /\ toRemove # {}
    /\ toRemove' = {}
    /\ registry' = registry \ toRemove
    /\ res' = [s \in Sid |-> IF s \in toRemove \cap registry THEN res[s] \ {"tunnels"} ELSE res[s]]
    /\ UNCHANGED <<age, status, creator, kind, stream, deferred, nconn, cancelled, shadow,
                   createVars, toDelete>>

\* Time passes.
Tick ==
    /\ \E s \in Sid : stage[s] \in Created /\ age[s] < AgeCap
    /\ age' = [s \in Sid |-> IF stage[s] \in Created /\ age[s] < AgeCap THEN age[s] + 1 ELSE age[s]]
    /\ UNCHANGED <<registry, sessionVars, createVars, reaperVars>>

-----------------------------------------------------------------------------
(* What runs on its own or on a user's request, by the locks it needs.      *)

\* None.
LockFree(s) ==
    \/ CreatePrepare(s) \/ CreateSpawn(s) \/ CreateConnect(s)
    \/ CreateRecord(s) \/ CreateAbandon(s) \/ ScriptEnds(s)
    \/ \E t \in ShadowKind : ShadowExpires(s, t)

\* The registry for reading and the session.  (CreateAdmit locks every session
\* in turn where there is a limit per user.)
SessionLocked(s) ==
    \/ \E u \in User, k \in Kind : CreateAdmit(s, u, k)
    \/ \E t \in ShadowKind : mint_shadow_token(s, t)
    \/ pending_timeout(s) \/ ReapExpiredFind(s) \/ ReapCompletedFind(s)

\* The registry for writing.
RegistryLocked ==
    \/ \E s \in Sid : \/ CreateInsert(s) \/ delete_session(s) \/ DeleteAbandon(s)
                      \/ ReapExpiredDelete(s)
    \/ ReapCompletedRemove

BackgroundNext ==
    Tick \/ RegistryLocked \/ \E s \in Sid : LockFree(s) \/ SessionLocked(s)

\* What the WebSocket handlers call.
HandlerNext(s) ==
    \/ take_guacd_stream(s) \/ take_guacd_stream_fails(s)
    \/ join_session(s) \/ disconnect_viewer(s)
    \/ complete_session(s) \/ error_session(s)

Next == BackgroundNext \/ \E s \in Sid : HandlerNext(s)

Spec == Init /\ [][Next]_vars

-----------------------------------------------------------------------------
(* Properties *)

\* What a created session still owns.
HeldBy(s) == IF stage[s] \in Created THEN res[s] \ {"orphan"} ELSE {}

TypeOK ==
    /\ registry \subseteq Sid
    /\ status \in [Sid -> Status]
    /\ age \in [Sid -> 0..AgeCap]
    /\ creator \in [Sid -> User \cup {NoUser}]
    /\ kind \in [Sid -> AllKinds]
    /\ stream \subseteq Sid /\ deferred \subseteq Sid /\ cancelled \subseteq Sid
    /\ nconn \in [Sid -> Nat]
    /\ res \in [Sid -> SUBSET Resource]
    /\ shadow \in [Sid -> SUBSET ShadowKind]
    /\ stage \in [Sid -> Stage]
    /\ timer \subseteq Sid /\ toDelete \subseteq Sid /\ toRemove \subseteq Sid

\* A Pending session always has something for its owner to take, a connected
\* guacd stream or the parameters of a deferred one, never both; and a guacd
\* stream is parked in no session that is not Pending (it would keep a
\* logged-in connection to the target open with nobody to close it).
PendingIsTakeable ==
    /\ \A s \in registry : status[s] = "pending" => (s \in stream <=> s \notin deferred)
    /\ \A s \in stream : s \in registry /\ status[s] = "pending"

\* A session that is over, or forgotten, holds no browser, drive directory or
\* login script; the tunnels of a failed deferred connection wait for the
\* reaper, and are gone when the session is.  The one exception is a browser
\* whose termination request was dropped half-way (DeleteAbandon).
OverIsReleased ==
    \A s \in Sid : stage[s] \in Created =>
        /\ status[s] \in Terminal => HeldBy(s) \subseteq {"tunnels"}
        /\ status[s] \in {"completed", "expired"} => HeldBy(s) = {}
        /\ s \notin registry => HeldBy(s) = {}
        /\ "orphan" \in res[s] => s \in cancelled /\ s \notin registry

\* The completed-session reaper acts on ids it collected earlier; it never
\* drops a session that is still pending or active from the registry.
LiveIsRegistered ==
    \A s \in Sid : stage[s] \in Created /\ status[s] \in Live => s \in registry

\* Nobody but the timeout task ends a session whose owner never came before
\* its maximum duration, so a Pending session must have that task.
PendingHasTimer ==
    \A s \in registry : status[s] = "pending" /\ stage[s] = "done" => s \in timer

\* create_session checks max_sessions before its awaits and inserts after
\* them, so concurrent calls overshoot the limit; never by more than the
\* other calls in flight.
OvershootBound ==
    MaxSessions > 0 =>
        Cardinality(registry) + Cardinality(CreationsInFlight) <= MaxSessions - 1 + MaxInFlight

\* The same for the sessions of one user and max_sessions_per_user.
UserOvershootBound ==
    MaxPerUser > 0 => \A u \in User :
        Cardinality(LiveOf(u)) + Cardinality({s \in CreationsInFlight : creator[s] = u})
            <= MaxPerUser - 1 + MaxInFlight

\* Refinement: what the registry's state says of each session.
PhaseOf(s) ==
    IF stage[s] \notin Created THEN "absent"
    ELSE IF status[s] \in Terminal THEN "over" ELSE status[s]

Lifecycle == INSTANCE SessionLifecycle WITH
    phase <- [s \in Sid |-> PhaseOf(s)],
    held <- [s \in Sid |-> HeldBy(s)]

\* The registry implements the lifecycle: one opening, at most one hand-over
\* of the guacd stream, one end, and no resource gained afterwards.
ImplementsLifecycle == Lifecycle!Spec
=============================================================================
