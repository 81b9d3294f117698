-------------------------------- MODULE Connect ---------------------------------
(***************************************************************************)
(* The ways to open a session: the Connections page, /api/connect links    *)
(* and the ad-hoc routes.  A saved entry is read from Vault, lent its      *)
(* folder's default password and given the user's own variables; an ad-hoc *)
(* request is put under the site's policy; the page is sent back to a      *)
(* session that still waits, if one was made from the same request; and    *)
(* create_session checks the request in the arm of its kind.  Meanwhile    *)
(* entries, defaults and variables are edited.                             *)
(*                                                                         *)
(* Every read or write of Vault is a step.  Who may open a folder is in    *)
(* FolderAccess, what a session holds and how it ends in SessionManager;   *)
(* of a request only the fields are kept that a property tells apart.      *)
(***************************************************************************)
EXTENDS Naturals, FiniteSets

CONSTANTS
    Operator, Poweruser, Admin, \* users by role; an Admin may do all a Poweruser may
    ApiKey,        \* the users that are API keys, and have no page and no variables
    Key,           \* saved entries
    Kind, Host,    \* kinds of session, and what they may connect to
    Allowed,       \* the hosts of each allowlist
    Secret,        \* passwords
    Var,           \* a password that refers to the variable
    None,
    SiteRecording, SiteDrive, \* the site's settings
    Split,         \* whether shared and local variables have two backends
    Asked,         \* bound: what entries say of recording
    OnPage, ByLink, Keeper, \* bounds: who opens entries from the page, who by links,
                   \* and who keeps variables and is prompted
    Typed, New,    \* bounds: the passwords that users type and that edits store
    Request,       \* requests in flight at once
    Tab,           \* tabs that save variables at once
    Sid,           \* bound: sessions that wait at once
    MaxEdits       \* bound: edits of entries, defaults and variables

User == Operator \cup Poweruser \cup Admin
Ask == {"unset", "on", "off"}
Store == {"local", "shared"}
List == {"ssh", "rdp", "vnc", "web", "image"}

ASSUME BoundsAssumption ==
    /\ MaxEdits \in Nat
    /\ "unset" \in Asked /\ Asked \subseteq Ask /\ Typed \cup New \subseteq Secret
    /\ {SiteRecording, SiteDrive, Split} \subseteq BOOLEAN
    /\ OnPage \subseteq User \ ApiKey /\ ByLink \subseteq User /\ Keeper \subseteq User \ ApiKey
    /\ DOMAIN Allowed = List /\ \A l \in List : Allowed[l] \subseteq Host
ASSUME NoneAssumption == None \notin Secret /\ None \notin Key /\ None \notin Host
ASSUME KindAssumption == Kind \subseteq {"ssh", "rdp", "vnc", "spice", "proxmox", "web", "vdi"}
ASSUME FiniteAssumption == IsFiniteSet(Request) /\ IsFiniteSet(Sid)

VARIABLES
    entry,    \* the saved entries
    lent,     \* the default password of their folder
    creds,    \* each user's variable in both stores
    req,      \* the requests
    save,     \* the saves of variables
    sess,     \* the sessions
    edits     \* bound: edits so far

vars == <<entry, lent, creds, req, save, sess, edits>>

Password == Secret \cup {None, Var}

\* A saved entry's password and whether it is recorded; what it connects to
\* is the same all the time.
Entry == [pw : Password, rec : Asked]
Edited == [pw : New \cup {None, Var}, rec : Asked]

(* CreateSessionRequest.  Display size, layout and the options that guacd  *)
(* is only handed on are left out.                                         *)
Spec0 == [kind |-> "ssh", host |-> None, jump |-> None, proxy |-> None, pw |-> None,
          rec |-> "unset", drive |-> "unset", key |-> None, fence |-> FALSE]

\* A request's user and the entry it is for; when it is done, owner is the user
\* whose session it is answered with.
NoRequest == [at |-> "idle", who |-> None, route |-> None, prompt |-> None, on |-> None,
              owner |-> None, spec |-> Spec0, seen |-> {}, recs |-> {}]

NoSave == [at |-> "idle", who |-> None, value |-> None, store |-> "local", new |-> [s \in Store |-> None]]

NoSession == [waits |-> FALSE, who |-> None, via |-> None, spec |-> Spec0]

\* The target of a saved entry, and the requests that one can become.
Target == CHOOSE h \in Host : h \in Allowed["ssh"]
FromEntry(k, pw, rec) == [Spec0 EXCEPT !.host = Target, !.pw = pw, !.rec = rec, !.key = k]

Init ==
    /\ entry \in [Key -> [pw : {None, Var}, rec : {"unset"}]]
    /\ lent = None
    /\ creds \in [User -> [Store -> Typed \cup {None}]]
    /\ \A u \in User : creds[u]["shared"] = None /\ (u \notin Keeper => creds[u]["local"] = None)
    /\ req = [r \in Request |-> NoRequest]
    /\ save = [t \in Tab |-> NoSave]
    /\ sess = [s \in Sid |-> NoSession]
    /\ edits = 0

-----------------------------------------------------------------------------
(* The policy of ad-hoc sessions *)

\* Whether a request is recorded, and whether it has a drive.
recording_enabled_for(q) == IF q.rec = "unset" THEN SiteRecording ELSE q.rec = "on"
is_drive_enabled(q) == IF q.drive = "unset" THEN SiteDrive ELSE q.drive = "on"

\* Mutant: what a caller may not turn off stays off.
PolicyWithoutFloor(q, admin) ==
    IF admin THEN [q EXCEPT !.fence = FALSE]
    ELSE [q EXCEPT !.fence = TRUE, !.key = None,
                   !.drive = IF @ = "on" /\ ~ SiteDrive THEN "unset" ELSE @]

apply_adhoc_policy(q, admin) ==
    IF admin THEN [q EXCEPT !.fence = FALSE]
    ELSE [q EXCEPT !.fence = TRUE, !.key = None,
                   !.rec = IF @ = "off" /\ SiteRecording THEN "unset" ELSE @,
                   !.drive = IF @ = "on" /\ ~ SiteDrive THEN "unset" ELSE @]

-----------------------------------------------------------------------------
(* The arms of create_session: each checks the address that the gateway or *)
(* guacd will dial.  Through jump hosts that is the first of them.  A host *)
(* stands for the addresses its name has: that guacd may resolve the name  *)
(* to another one later is not modelled.                                   *)

FirstHop(q) == q.fence /\ q.jump # None => q.jump \in Allowed["ssh"]

check_session_network(q, list) == q.jump = None => q.host \in Allowed[list]

SshArm(q) == check_session_network(q, "ssh")
RdpArm(q) == check_session_network(q, "rdp")
VncArm(q) == check_session_network(q, "vnc")

\* The SPICE proxy that a request names is handed to guacd as it is.
SpiceArm(q) == check_session_network(q, "vnc")

WebArm(q) == check_session_network(q, "web")

\* An entry's Proxmox server is an admin's choice; an ad-hoc one is checked,
\* as is the SPICE proxy that it names.
ProxmoxArm(q) ==
    q.fence => check_session_network(q, "vnc") /\ (q.jump = None => q.proxy \in Allowed["vnc"])

\* A container's image stands for its host.
VdiArm(q) == q.host \in Allowed["image"]

Admissible(q) ==
    /\ FirstHop(q)
    /\ CASE q.kind = "ssh" -> SshArm(q)
         [] q.kind = "rdp" -> RdpArm(q)
         [] q.kind = "vnc" -> VncArm(q)
         [] q.kind = "spice" -> SpiceArm(q)
         [] q.kind = "proxmox" -> ProxmoxArm(q)
         [] q.kind = "web" -> WebArm(q)
         [] q.kind = "vdi" -> VdiArm(q)

-----------------------------------------------------------------------------
(* Requests *)

Set(r, x) == req' = [req EXCEPT ![r] = x]
Vault == UNCHANGED <<entry, lent, creds, save, edits>>
Idle(r) == Set(r, NoRequest)

\* Bound: requests for entries and ad-hoc sessions do not meet.
Apart == /\ \A s \in Sid : sess[s].waits => sess[s].via # "adhoc"
         /\ \A r \in Request : req[r].at # "idle" => req[r].route # "adhoc"

\* Every password and setting that the request could have read so far.
Sources(u, k) ==
    {lent, creds[u]["local"], creds[u]["shared"]} \cup (IF entry[k] = None THEN {} ELSE {entry[k].pw})

Begin(r, u, k, route, prompt) ==
    /\ req[r].at = "idle"
    /\ Apart
    /\ Set(r, [NoRequest EXCEPT !.at = "read", !.who = u, !.route = route, !.prompt = prompt,
                                !.on = k, !.spec = FromEntry(k, None, "unset"),
                                !.seen = Sources(u, k),
                                !.recs = IF entry[k] = None THEN {} ELSE {entry[k].rec}])
    /\ Vault /\ UNCHANGED sess

\* The page's Connect button, with what the user was prompted for, if
\* anything; and a link.  An API key has no page.
ab_connect_entry(r, u, k, prompt) == Begin(r, u, k, "page", prompt)
quick_connect(r, u, k) == Begin(r, u, k, "link", None)

\* The entry is read, if the user may open the folder and it is there.
GetEntry(r) ==
    LET k == req[r].spec.key IN
    /\ req[r].at = "read"
    /\ \/ Idle(r)
       \/ /\ entry[k] # None
          /\ Set(r, [req[r] EXCEPT !.at = "lend", !.spec = FromEntry(k, entry[k].pw, entry[k].rec)])
    /\ Vault /\ UNCHANGED sess

\* An entry without a password is lent the folder's, if that can be read.
lend_folder_defaults(r) ==
    /\ req[r].at = "lend"
    /\ \E pw \in (IF req[r].spec.pw = None THEN {None, lent} ELSE {req[r].spec.pw}) :
           Set(r, [req[r] EXCEPT !.at = "local", !.spec.pw = pw])
    /\ Vault /\ UNCHANGED sess

\* What follows on the resolved password pw: the prompt of the page replaces
\* it; a link without one ends in a form that goes on as the page does; an
\* ad-hoc request is put under the policy.
Resolved(r, pw) ==
    LET q == [req[r].spec EXCEPT !.pw = pw] IN
    CASE req[r].route = "page" ->
             Set(r, [req[r] EXCEPT !.at = "find",
                                   !.spec = IF req[r].prompt = None THEN q
                                            ELSE [q EXCEPT !.pw = req[r].prompt]])
      [] req[r].route = "link" ->
             IF pw = None THEN Idle(r) ELSE Set(r, [req[r] EXCEPT !.at = "create", !.spec = q])
      [] req[r].route = "adhoc" ->
             Set(r, [req[r] EXCEPT !.at = "create",
                                   !.spec = apply_adhoc_policy(q, req[r].who \in Admin)])

\* The user's variable is read, first from the local store: what cannot be
\* read counts as unset.  An API key's reference is left as it is by the
\* routes of entries and refused by the ad-hoc one.
ReadLocal(r) ==
    /\ req[r].at = "local"
    /\ \/ req[r].spec.pw # Var /\ Resolved(r, req[r].spec.pw)
       \/ req[r].spec.pw = Var /\ req[r].who \in ApiKey /\ req[r].route # "adhoc" /\ Resolved(r, Var)
       \/ req[r].spec.pw = Var /\ req[r].who \in ApiKey /\ req[r].route = "adhoc" /\ Idle(r)
       \/ /\ req[r].spec.pw = Var /\ req[r].who \notin ApiKey
          /\ \E v \in {None, creds[req[r].who]["local"]} :
                 IF Split THEN Set(r, [req[r] EXCEPT !.at = "shared", !.spec.pw = v])
                 ELSE IF v = None THEN Idle(r) ELSE Resolved(r, v)
    /\ Vault /\ UNCHANGED sess

\* Then from the shared one, where the local one wins.  An unset variable
\* refuses the request.
ReadShared(r) ==
    /\ req[r].at = "shared"
    /\ \E v \in {None, creds[req[r].who]["shared"]} :
           IF req[r].spec.pw # None THEN Resolved(r, req[r].spec.pw)
           ELSE IF v # None THEN Resolved(r, v)
           ELSE Idle(r)
    /\ Vault /\ UNCHANGED sess

\* Everything but how the session is drawn.
reuse_fingerprint(q) == q

\* Mutant: nobody looks for a session to go back to.
NothingReusable(u, q) == {}

\* Mutant: a session of anyone's will do.
AnyonesSession(u, q) ==
    {s \in Sid : /\ sess[s].waits
                 /\ sess[s].spec.key = q.key
                 /\ reuse_fingerprint(sess[s].spec) = reuse_fingerprint(q)}

\* A session that waits for its first connection, of the same user and an
\* equal request.  Which user asked is no part of the fingerprint.
find_reusable_session(u, q) ==
    {s \in Sid : /\ sess[s].waits
                 /\ sess[s].who = u /\ sess[s].spec.key = q.key
                 /\ reuse_fingerprint(sess[s].spec) = reuse_fingerprint(q)}

Find(r) ==
    LET found == find_reusable_session(req[r].who, req[r].spec) IN
    /\ req[r].at = "find"
    /\ \/ \E s \in found : Set(r, [req[r] EXCEPT !.at = "done", !.owner = sess[s].who,
                                                 !.spec = sess[s].spec])
       \/ found = {} /\ Set(r, [req[r] EXCEPT !.at = "create"])
    /\ Vault /\ UNCHANGED sess

\* create_session refuses the request, or guacd does not answer ...
CreateFails(r) ==
    /\ req[r].at = "create"
    /\ Idle(r)
    /\ Vault /\ UNCHANGED sess

\* ... or the session waits for the browser.
create_session(r) ==
    /\ req[r].at = "create"
    /\ Admissible(req[r].spec)
    /\ \E s \in Sid :
          /\ ~ sess[s].waits
          /\ sess' = [sess EXCEPT ![s] = [waits |-> TRUE, who |-> req[r].who, via |-> req[r].route,
                                          spec |-> req[r].spec]]
          /\ Set(r, [req[r] EXCEPT !.at = "done", !.owner = req[r].who])
    /\ Vault

\* The answer is sent.
Answered(r) == req[r].at = "done" /\ Idle(r) /\ Vault /\ UNCHANGED sess

-----------------------------------------------------------------------------
(* Ad-hoc requests.  Bound: while nothing else goes on. *)

Quiet == /\ \A r \in Request : req[r].at = "idle"
         /\ \A t \in Tab : save[t].at = "idle"
         /\ \A s \in Sid : ~ sess[s].waits
         /\ edits = 0

MayConnectAdhoc == Poweruser \cup Admin

\* What a caller asks for; a Proxmox server names the SPICE proxy, and other
\* kinds have none.  Bound: recording and drive are asked for alike.
Adhoc == {q \in [kind : Kind, host : Host, jump : Host \cup {None}, proxy : Host \cup {None},
                 pw : {None, Var}, rec : Ask, drive : Ask, key : Key \cup {None}, fence : {FALSE}] :
             /\ q.rec = q.drive
             /\ q.kind = "proxmox" => q.proxy # None
             /\ q.kind \notin {"spice", "proxmox"} => q.proxy = None}

\* An entry of the caller's own, with its variables and no name in the book.
ab_adhoc_connect(r, u, q) ==
    /\ q.key = None
    /\ Set(r, [NoRequest EXCEPT !.at = "local", !.who = u, !.route = "adhoc", !.spec = q])
    /\ Vault /\ UNCHANGED sess

\* The API's request, taken literally.
api_create_session(r, u, q) ==
    /\ Set(r, [NoRequest EXCEPT !.at = "create", !.who = u, !.route = "adhoc",
                                !.spec = apply_adhoc_policy(q, u \in Admin)])
    /\ Vault /\ UNCHANGED sess

\* A link's target: a kind and a host.
quick_connect_adhoc(r, u, q) ==
    /\ q = [Spec0 EXCEPT !.kind = q.kind, !.host = q.host] /\ q.kind \in {"ssh", "rdp", "vnc", "web"}
    /\ Set(r, [NoRequest EXCEPT !.at = "create", !.who = u, !.route = "adhoc",
                                !.spec = apply_adhoc_policy(q, u \in Admin)])
    /\ Vault /\ UNCHANGED sess

-----------------------------------------------------------------------------
(* Sessions, as far as requests tell them apart *)

Only(s, x) == sess' = [sess EXCEPT ![s] = x] /\ UNCHANGED <<entry, lent, creds, req, save, edits>>

\* A session can be gone back to until the first connection takes it, it
\* ends, or it has waited for REUSABLE_PENDING_SECS.
Leave(s) == sess[s].waits /\ Only(s, NoSession)

-----------------------------------------------------------------------------
(* Edits *)

\* Requests in flight may see the new password, or the new setting.
Seen(us, pws, recs) ==
    req' = [r \in Request |-> IF req[r].at = "idle" \/ req[r].who \notin us THEN req[r]
                              ELSE [req[r] EXCEPT !.seen = @ \cup pws, !.recs = @ \cup recs]]

Edit == Apart /\ edits < MaxEdits /\ edits' = edits + 1

UpdateEntry(k, e) ==
    /\ Edit
    /\ entry' = [entry EXCEPT ![k] = e]
    /\ IF e = None THEN UNCHANGED req ELSE Seen(User, {e.pw}, {e.rec})
    /\ UNCHANGED <<lent, creds, save, sess>>

UpdateDefaults(pw) ==
    /\ Edit
    /\ lent' = pw
    /\ Seen(User, {pw}, {})
    /\ UNCHANGED <<entry, creds, save, sess>>

-----------------------------------------------------------------------------
(* My Credentials *)

Saving(t, x) == save' = [save EXCEPT ![t] = x]

\* A value for the variable, or None to keep the one it has, and the store it
\* goes to.
put_my_credentials(t, u, v, st) ==
    /\ save[t].at = "idle"
    /\ Edit
    /\ Split \/ st = "local"
    /\ Saving(t, [NoSave EXCEPT !.at = "local", !.who = u, !.value = v, !.store = st])
    /\ UNCHANGED <<entry, lent, creds, req, sess>>

\* Both stores are read; if one cannot be, nothing is saved.
ReadStore(t) ==
    /\ save[t].at \in Store
    /\ \/ Saving(t, [save[t] EXCEPT !.at = IF @ = "local" /\ Split THEN "shared" ELSE "write",
                                    !.new[save[t].at] = creds[save[t].who][save[t].at]])
       \/ Saving(t, NoSave)
    /\ UNCHANGED <<entry, lent, creds, req, sess, edits>>

\* The value, or else the one that was read, goes to its store and leaves the
\* other.
partition_credential_writes(x) ==
    LET v == IF x.value # None THEN x.value
             ELSE IF x.new["local"] # None THEN x.new["local"] ELSE x.new["shared"]
    IN  [s \in Store |-> IF s = x.store THEN v ELSE None]

Write(t, st, v, next) ==
    /\ creds' = [creds EXCEPT ![save[t].who][st] = v]
    /\ Saving(t, next)
    /\ Seen({save[t].who}, {v}, {})
    /\ UNCHANGED <<entry, lent, sess, edits>>

\* The local store is written first ...
WriteLocal(t) ==
    LET new == partition_credential_writes(save[t]) IN
    /\ save[t].at = "write"
    /\ Write(t, "local", new["local"],
             IF Split THEN [save[t] EXCEPT !.at = "write_shared", !.new = new] ELSE NoSave)

\* ... then the shared one.
WriteShared(t) ==
    /\ save[t].at = "write_shared"
    /\ Write(t, "shared", save[t].new["shared"], NoSave)

WriteFails(t) ==
    /\ save[t].at \in {"write", "write_shared"}
    /\ Saving(t, NoSave)
    /\ UNCHANGED <<entry, lent, creds, req, sess, edits>>

-----------------------------------------------------------------------------
Connecting(r) ==
    \/ GetEntry(r) \/ lend_folder_defaults(r) \/ ReadLocal(r) \/ ReadShared(r)
    \/ Find(r) \/ CreateFails(r) \/ create_session(r) \/ Answered(r)

Next ==
    \/ \E r \in Request : Connecting(r)
    \/ \E r \in Request, k \in Key :
           \/ \E u \in OnPage : \E p \in {None} \cup (IF u \in Keeper THEN Typed ELSE {}) :
                  ab_connect_entry(r, u, k, p)
           \/ \E u \in ByLink : quick_connect(r, u, k)
    \/ Quiet /\ \E r \in Request, u \in MayConnectAdhoc, q \in Adhoc :
           ab_adhoc_connect(r, u, q) \/ api_create_session(r, u, q) \/ quick_connect_adhoc(r, u, q)
    \/ \E s \in Sid : Leave(s)
    \/ \E k \in Key, e \in Edited \cup {None} : UpdateEntry(k, e)
    \/ \E pw \in New \cup {None, Var} : UpdateDefaults(pw)
    \/ \E t \in Tab : \/ \E u \in Keeper, v \in New \cup {None}, st \in Store : put_my_credentials(t, u, v, st)
                      \/ ReadStore(t) \/ WriteLocal(t) \/ WriteShared(t) \/ WriteFails(t)

Spec == Init /\ [][Next]_vars

-----------------------------------------------------------------------------
(* Properties *)

\* Entries, requests, saves and sessions are well formed.
TypeOK ==
    /\ entry \in [Key -> Entry \cup {None}]
    /\ lent \in Password
    /\ creds \in [User -> [Store -> Secret \cup {None}]]
    /\ \A r \in Request :
           /\ req[r].at \in {"idle", "read", "lend", "local", "shared", "find", "create", "done"}
           /\ req[r].at # "idle" => req[r].who \in User
           /\ req[r].spec.pw \in Password /\ req[r].spec.rec \in Ask
    /\ \A t \in Tab : save[t].new \in [Store -> Secret \cup {None}]
    /\ \A s \in Sid : sess[s].waits => sess[s].who \in User /\ sess[s].spec.pw \in Password
    /\ edits \in 0..MaxEdits

\* The session that the page is sent to, new or made for an earlier click, is
\* the user's own, for the entry that was clicked, and has a password and a
\* recording setting that were stored, or typed, since this click: an edit
\* that was over before it is never missed, and a user is never sent to a
\* session that another's click on the same entry has left waiting.
NeverAStaleSession ==
    \A r \in Request :
        req[r].at = "done" /\ req[r].route \in {"page", "link"} =>
            /\ req[r].owner = req[r].who
            /\ req[r].spec.key = req[r].on
            /\ req[r].spec.pw \in (IF req[r].prompt # None THEN {req[r].prompt} ELSE req[r].seen)
            /\ req[r].spec.rec \in req[r].recs

\* Repeated clicks leave no more waiting sessions that could stand in for
\* each other than there are requests in flight together.
ClicksDoNotPileUp ==
    \A s \in Sid : sess[s].waits =>
        Cardinality({t \in Sid : /\ sess[t].waits /\ sess[t].via = "page"
                                 /\ sess[t].who = sess[s].who /\ sess[t].spec = sess[s].spec})
            <= Cardinality(Request)

\* The allowlist of each kind of session.
ListOf == [ssh |-> "ssh", rdp |-> "rdp", vnc |-> "vnc", spice |-> "vnc", proxmox |-> "vnc",
           web |-> "web", vdi |-> "image"]

\* The addresses that are dialled for a session, with the list they belong on:
\* the first jump host, or the target and a Proxmox server's SPICE proxy.
\* The proxy that a SPICE request names itself is not among them.
Dialled(q) ==
    IF q.kind # "vdi" /\ q.jump # None THEN {<<"ssh", q.jump>>}
    ELSE {<<ListOf[q.kind], q.host>>} \cup (IF q.kind = "proxmox" THEN {<<"vnc", q.proxy>>} ELSE {})

\* Whichever route it came by, an ad-hoc session of anyone below admin dials
\* only addresses on the allowlist for them, but for the proxy of a SPICE
\* request, which the code hands to guacd unchecked; it is recorded where the
\* site records, has a drive only where the site has one, and is attributed
\* to no entry.
AdhocWithinPolicy ==
    \A s \in Sid : sess[s].waits /\ sess[s].via = "adhoc" /\ sess[s].who \notin Admin =>
        LET q == sess[s].spec IN
        /\ q.key = None
        /\ SiteRecording => recording_enabled_for(q)
        /\ is_drive_enabled(q) => SiteDrive
        /\ \A d \in Dialled(q) : d[2] \in Allowed[d[1]]
=============================================================================
