-------------------------------- MODULE Accounts --------------------------------
(***************************************************************************)
(* The users of the gateway: their accounts, the OIDC logins that open     *)
(* sessions for them, their API tokens, the mapping of groups to roles and *)
(* the API keys, all in one SQLite file.  Every call of db.rs holds the    *)
(* lock of its connection; the handlers await one call after another.  The *)
(* command line is another process, with a connection and a lock of its    *)
(* own: its statements fall between those of a call of the server.         *)
(*                                                                         *)
(* Names, addresses, audit rows and the groups kept for display are left   *)
(* out.                                                                    *)
(***************************************************************************)
EXTENDS Integers, FiniteSets

CONSTANTS
    Email,
    Folded,      \* an email in lower case
    Subject,     \* a person, as the identity provider knows them
    Group,
    Role,        \* the roles given
    Claim,       \* what the provider says of the one who logs in
    Login,       \* a login of some browser, and its session cookie
    Name,        \* of a token
    Expiry,      \* the expiry texts given to tokens
    Admin,       \* names of API keys
    Table,       \* the users a server may find in its file
    None,
    AutoCreate,  \* auto_create_users
    DefaultRole,
    SessionTtl,
    PendingTtl,  \* for which a browser may be away at the provider
    Day,         \* ticks of a day
    MaxUsers,    \* bound: accounts ever made
    MaxChanges,  \* bound: requests and commands
    MaxTickets,  \* bound: WebSocket tickets
    MaxTime      \* bound: ticks

RoleName == {"viewer", "operator", "poweruser", "admin"}
Id == 1..MaxUsers

role_level(r) ==
    CASE r = "admin" -> 4 [] r = "poweruser" -> 3 [] r = "operator" -> 2 [] r = "viewer" -> 1

ASSUME RoleAssumption == Role \subseteq RoleName /\ DefaultRole \in Role
ASSUME FoldedAssumption ==
    /\ Folded \in [Email -> Email]
    /\ \A e \in Email : Folded[Folded[e]] = Folded[e]
ASSUME ClaimAssumption == Claim \subseteq [email : Email, subject : Subject, groups : SUBSET Group]
ASSUME ExpiryAssumption == Expiry \subseteq [form : {"date", "time", "iso"}, at : Nat]
ASSUME NoneAssumption ==
    /\ None \notin Email \cup Subject \cup RoleName
    /\ None \notin Claim
    /\ None \notin Expiry
    /\ None \notin Id
ASSUME BoundsAssumption ==
    /\ {SessionTtl, PendingTtl, MaxUsers, MaxChanges, MaxTickets, MaxTime} \subseteq Nat
    /\ Day \in Nat \ {0}
    /\ AutoCreate \in BOOLEAN

VARIABLES
    users,     \* the table of accounts, by id
    next,      \* its AUTOINCREMENT counter
    disputed,  \* emails in lower case that two accounts had from the start, or
               \* that the server and a command were adding at the same time
    mapping,   \* the role each group is mapped to
    seen,      \* groups seen at logins
    login,     \* how far each login has come
    session,   \* auth_sessions, by the login that opened them
    tokens,    \* user_api_tokens
    apikey,    \* the state of each API key
    tickets,   \* the store of WebSocket tickets
    issued,    \* bound: tickets issued so far
    spent,     \* those that a WebSocket was opened with
    req,       \* the API or WebSocket request in flight
    cmd,       \* the command that is running
    changes,   \* bound: requests and commands so far
    now

vars == <<users, next, disputed, mapping, seen, login, session, tokens, apikey, tickets, issued,
          spent, req, cmd, changes, now>>
accounts == <<users, next, disputed>>
credentials == <<session, tokens, apikey>>
wstickets == <<tickets, issued, spent>>

(* A row of users, with how often its subject was released, which the code *)
(* does not count.                                                         *)
Account == [email : Email, role : Role, disabled : BOOLEAN,
            subject : Subject \cup {None}, resets : Nat]
ASSUME AccountAssumption == None \notin Account
ASSUME TableAssumption == Table \subseteq [Id -> Account \cup {None}]

(* A login: the call it waits for, its claims, when it left for the        *)
(* provider, the role its groups give, the account upsert_user gave it,    *)
(* whether that was disabled, and how often it had been released by then.  *)
NoLogin == [at |-> "new", claim |-> None, born |-> 0, role |-> None,
            user |-> None, barred |-> FALSE, epoch |-> 0]
GoneLogin == [NoLogin EXCEPT !.at = "gone"]

Away == {"new", "pending", "gone"}

NoReq == [at |-> "idle", email |-> None, role |-> None, user |-> None, row |-> None]

NoCmd == [at |-> "idle", email |-> None, role |-> None]

Used == {i \in Id : users[i] # None}

\* Two accounts whose emails differ in case only.
Alike(i, j) == i # j /\ Folded[users[i].email] = Folded[users[j].email]

Init ==
    /\ users \in Table
    /\ next \in 1..(MaxUsers + 1) /\ next - 1 \in Used \cup {0} /\ \A i \in Used : i < next
    /\ disputed = {Folded[users[i].email] : i \in {k \in Used : \E j \in Used : Alike(k, j)}}
    /\ mapping = [g \in Group |-> None]
    /\ seen = {}
    /\ login = [l \in Login |-> NoLogin]
    /\ session = [l \in Login |-> None]
    /\ tokens = {}
    /\ apikey = [a \in Admin |-> "absent"]
    /\ tickets = {} /\ issued = 0 /\ spent = {}
    /\ req = NoReq
    /\ cmd = NoCmd
    /\ changes = 0
    /\ now = 0

-----------------------------------------------------------------------------
(* The users table *)

\* The account an email names: the exact one, else all that differ in case.
find_user_for_email(e) ==
    LET exact == {i \in Used : users[i].email = e}
    IN  IF exact # {} THEN exact ELSE {i \in Used : Folded[users[i].email] = Folded[e]}

get_user_by_email(e) == {i \in Used : users[i].email = e}

\* Mutant: the lowest id that is free, as without AUTOINCREMENT.
LowestFree == CHOOSE i \in Id : users[i] = None /\ \A j \in 1..(i - 1) : users[j] # None

\* AUTOINCREMENT: an id is never given twice.
NewId == next

\* SQLite refuses a row whose user is gone.
ForeignKey(i) == i \in Used

\* Emails are UNIQUE as they are spelled.  Meanwhile the other process is
\* adding those of rivals.
Insert(e, r, s, rivals) ==
    /\ get_user_by_email(e) = {}
    /\ next <= MaxUsers
    /\ users' = [users EXCEPT ![NewId] =
                     [email |-> e, role |-> r, disabled |-> FALSE, subject |-> s, resets |-> 0]]
    /\ next' = next + 1
    /\ disputed' = disputed \cup ({Folded[e]} \cap {Folded[x] : x \in rivals})

\* Mutant: only the same spelling is taken for the same email.
NotTakenExact(e) == get_user_by_email(e) = {}

\* create_user looks first, and inserts with a second statement.
NotTaken(e) == {i \in Used : Folded[users[i].email] = Folded[e]} = {}

\* What each process has found to be free and is about to insert.
ServerAdds ==
    {login[l].claim.email : l \in {k \in Login : login[k].at = "found" /\ login[k].user = None}}
    \cup (IF req.at = "create" THEN {req.email} ELSE {})
CommandAdds == IF cmd.at = "create" THEN {cmd.email} ELSE {}

\* The server's connection is free: no call is between two statements.
Unlocked == req.at # "create" /\ \A l \in Login : login[l].at # "found"

\* The account of each of the ids changes in the field f.
SetRole(ids, r) == [i \in Id |-> IF i \in ids THEN [users[i] EXCEPT !.role = r] ELSE users[i]]
SetDisabled(ids, d) ==
    [i \in Id |-> IF i \in ids THEN [users[i] EXCEPT !.disabled = d] ELSE users[i]]

set_user_role(e, r) ==
    users' = SetRole(get_user_by_email(e), r) /\ UNCHANGED <<next, disputed, credentials>>

disable_user(e) ==
    users' = SetDisabled(get_user_by_email(e), TRUE) /\ UNCHANGED <<next, disputed, credentials>>

enable_user(e) ==
    users' = SetDisabled(get_user_by_email(e), FALSE) /\ UNCHANGED <<next, disputed, credentials>>

\* Its sessions and tokens go first.
SessionsWithout(ids) ==
    [l \in Login |-> IF session[l] # None /\ session[l].user \in ids THEN None ELSE session[l]]
TokensWithout(ids) == {t \in tokens : t.user \notin ids}
UsersWithout(ids) == [i \in Id |-> IF i \in ids THEN None ELSE users[i]]

delete_user(e) ==
    LET ids == get_user_by_email(e)
    IN  /\ session' = SessionsWithout(ids)
        /\ tokens' = TokensWithout(ids)
        /\ users' = UsersWithout(ids)
        /\ UNCHANGED <<next, disputed, apikey>>

reset_oidc_subject(e) ==
    LET ids == find_user_for_email(e)
    IN  /\ Cardinality(ids) = 1
        /\ users' = [i \in Id |-> IF i \in ids
                                  THEN [users[i] EXCEPT !.subject = None, !.resets = @ + 1]
                                  ELSE users[i]]
        /\ UNCHANGED <<next, disputed, credentials>>

-----------------------------------------------------------------------------
(* Sessions, tokens and API keys *)

\* The account a cookie stands for.
validate_auth_session(l) ==
    {i \in Used : /\ session[l] # None
                  /\ session[l].user = i
                  /\ session[l].exp > now
                  /\ ~ users[i].disabled}

create_auth_session(l, i) ==
    session' = [session EXCEPT ![l] =
                    [user |-> i, exp |-> now + SessionTtl, epoch |-> login[l].epoch]]

delete_user_sessions(i) ==
    /\ session' = SessionsWithout({i})
    /\ UNCHANGED <<accounts, tokens, apikey>>

\* An expiry text as a token's validation reads it: a bare date stands for
\* the end of that day.
parse_expires_at(x) == IF x.form = "date" THEN (x.at \div Day) * Day + Day - 1 ELSE x.at

\* The same text, compared with datetime('now') as text: a bare date is
\* below every moment of its day, and one with a T above all of them.
TextUpTo(x, t) ==
    CASE x.form = "date" -> (x.at \div Day) * Day <= t
      [] x.form = "time" -> x.at <= t
      [] x.form = "iso"  -> x.at \div Day < t \div Day

Unexpired(t) == t.expires = None \/ now <= parse_expires_at(t.expires)

validate_user_token(t) ==
    {i \in Used : t.user = i /\ ~ users[i].disabled /\ Unexpired(t)}

compute_effective_role(r, max) ==
    IF max # None /\ role_level(max) < role_level(r) THEN max ELSE r

\* The names of one user's tokens differ.
create_user_token(t) ==
    /\ tokens' = IF ForeignKey(t.user) /\ (\A u \in tokens : u.user = t.user => u.name # t.name)
                 THEN tokens \cup {t} ELSE tokens
    /\ UNCHANGED <<accounts, session, apikey>>

revoke_user_token(t) == tokens' = tokens \ {t} /\ UNCHANGED <<accounts, session, apikey>>

cleanup_expired_sessions ==
    session' = [l \in Login |-> IF session[l] # None /\ session[l].exp <= now
                                THEN None ELSE session[l]]

cleanup_expired_user_tokens ==
    tokens' = {t \in tokens : t.expires # None => ~ TextUpTo(t.expires, now)}

SetKey(a, from, to) ==
    /\ apikey[a] \in from
    /\ apikey' = [apikey EXCEPT ![a] = to]
    /\ UNCHANGED <<accounts, session, tokens>>

add_admin(a) == SetKey(a, {"absent"}, "active")
disable_admin(a) == SetKey(a, {"active"}, "disabled")
enable_admin(a) == SetKey(a, {"disabled"}, "active")
delete_admin(a) == SetKey(a, {"active", "disabled"}, "absent")

validate_api_key(a) == apikey[a] = "active"

-----------------------------------------------------------------------------
(* Roles of groups *)

\* The highest role that one of the groups is mapped to.
resolve_role_from_groups(gs) ==
    LET given == {mapping[g] : g \in gs} \ {None}
    IN  IF given = {} THEN None
        ELSE CHOOSE r \in given : \A s \in given : role_level(s) <= role_level(r)

create_group_mapping(g, r) ==
    mapping[g] = None /\ mapping' = [mapping EXCEPT ![g] = r]

\* The mapping of g, moved to the group h with the role r.
update_group_mapping(g, h, r) ==
    /\ mapping[g] # None
    /\ h # g => mapping[h] = None
    /\ mapping' = [[mapping EXCEPT ![g] = None] EXCEPT ![h] = r]

delete_group_mapping(g) ==
    mapping[g] # None /\ mapping' = [mapping EXCEPT ![g] = None]

upsert_seen_groups(gs) == seen' = seen \cup gs

-----------------------------------------------------------------------------
(* OIDC login *)

Step(l, x) == login' = [login EXCEPT ![l] = x]

LoginRest == UNCHANGED <<mapping, tokens, apikey, wstickets, req, changes, cmd, now>>

\* Flows that left too long ago are forgotten when another leaves.
oidc_login(l) ==
    /\ login[l].at = "new"
    /\ login' = [k \in Login |->
           CASE k = l -> [login[k] EXCEPT !.at = "pending", !.born = now]
             [] k # l /\ login[k].at = "pending" /\ login[k].born + PendingTtl <= now ->
                    GoneLogin
             [] OTHER -> login[k]]
    /\ UNCHANGED <<accounts, seen, session>> /\ LoginRest

\* The browser comes back while it has the state cookie.  The state is
\* taken; then the provider refuses, or tells who this is.
CallbackFails(l) ==
    /\ login[l].at = "pending" /\ now < login[l].born + PendingTtl
    /\ Step(l, GoneLogin)
    /\ UNCHANGED <<accounts, seen, session>> /\ LoginRest

callback(l, c) ==
    /\ login[l].at = "pending" /\ now < login[l].born + PendingTtl
    /\ Step(l, [login[l] EXCEPT !.at = "claims", !.claim = c, !.born = 0])
    /\ upsert_seen_groups(c.groups)
    /\ UNCHANGED <<accounts, session>> /\ LoginRest

MapRole(l) ==
    /\ login[l].at = "claims"
    /\ Step(l, [login[l] EXCEPT !.at = "mapped",
                                !.role = resolve_role_from_groups(login[l].claim.groups)])
    /\ UNCHANGED <<accounts, seen, session>> /\ LoginRest

\* Where upsert_user finds the person who logs in.
Found(c) == find_user_for_email(c.email)

\* Mutant: the email alone is taken for the person.
AnySubject(c) == \A i \in Found(c) : users[i] # None

\* Nobody else has logged in to the account.
SameSubject(c) == \A i \in Found(c) : users[i].subject \in {None, c.subject}

\* upsert_user looks for the account ...
upsert_finds(l) ==
    LET c == login[l].claim
    IN  /\ login[l].at = "mapped"
        /\ \/ \E i \in Id : /\ Found(c) = {i} /\ SameSubject(c)
                            /\ Step(l, [login[l] EXCEPT !.at = "found", !.user = i])
           \/ /\ Found(c) = {} /\ AutoCreate
              /\ Step(l, [login[l] EXCEPT !.at = "found"])
        /\ UNCHANGED <<accounts, seen, session>> /\ LoginRest

Enter(l, i, a) ==
    Step(l, [login[l] EXCEPT !.at = "user", !.user = i, !.barred = a.disabled, !.epoch = a.resets])

\* ... and binds or inserts it, unless a command was faster.
upsert_user(l) ==
    LET c == login[l].claim
        i == login[l].user
    IN  /\ login[l].at = "found"
        /\ \/ /\ i \in Used
              /\ users' = [users EXCEPT ![i].subject = c.subject]
              /\ Enter(l, i, users[i])
              /\ UNCHANGED <<next, disputed>>
           \/ /\ i = None
              /\ Insert(c.email, DefaultRole, c.subject, CommandAdds)
              /\ Enter(l, NewId, users'[NewId])
           \/ /\ Step(l, GoneLogin)
              /\ UNCHANGED accounts
        /\ UNCHANGED <<seen, session>> /\ LoginRest

\* No account, another person's, or more than one.
upsert_refuses(l) ==
    LET c == login[l].claim
    IN  /\ login[l].at = "mapped"
        /\ ~ (Found(c) = {} /\ AutoCreate)
        /\ ~ (Cardinality(Found(c)) = 1 /\ SameSubject(c))
        /\ Step(l, GoneLogin)
        /\ UNCHANGED <<accounts, seen, session>> /\ LoginRest

\* The account is addressed by the email as the provider spells it.
ApplyRole(l) ==
    /\ login[l].at = "user"
    /\ Step(l, [login[l] EXCEPT !.at = "role"])
    /\ users' = IF login[l].role = None THEN users
                ELSE SetRole(get_user_by_email(login[l].claim.email), login[l].role)
    /\ UNCHANGED <<next, disputed, seen, session>> /\ LoginRest

\* A disabled account is refused, and one that is gone by now.
OpenSession(l) ==
    /\ login[l].at = "role"
    /\ IF ~ login[l].barred /\ ForeignKey(login[l].user)
       THEN create_auth_session(l, login[l].user) /\ Step(l, [login[l] EXCEPT !.at = "in", !.role = None])
       ELSE Step(l, GoneLogin) /\ UNCHANGED session
    /\ UNCHANGED <<accounts, seen>> /\ LoginRest

logout(l) ==
    /\ session[l] # None
    /\ session' = [session EXCEPT ![l] = None]
    /\ UNCHANGED <<accounts, seen, login>> /\ LoginRest

-----------------------------------------------------------------------------
(* API requests *)

Change == changes < MaxChanges /\ changes' = changes + 1

Caller(at, e, r) == [NoReq EXCEPT !.at = at, !.email = e, !.role = r]

\* Whose request it is: an API key is looked for first, then a token.
RequestByKey(at, a) == validate_api_key(a) /\ req' = Caller(at, None, "admin")

RequestByToken(at, t) ==
    \E i \in validate_user_token(t) :
        req' = Caller(at, users[i].email, compute_effective_role(users[i].role, t.max))

RequestByCookie(at, l) ==
    \E i \in validate_auth_session(l) : req' = Caller(at, users[i].email, users[i].role)

RequestBy(at) ==
    \/ \E a \in Admin : RequestByKey(at, a)
    \/ \E t \in tokens : RequestByToken(at, t)
    \/ \E l \in Login : RequestByCookie(at, l)

require_auth ==
    /\ req.at = "idle" /\ Change
    /\ RequestBy("authed")
    /\ UNCHANGED <<accounts, credentials, wstickets, mapping, seen, login, cmd, now>>

has_role(r) == req.at = "authed" /\ role_level(req.role) >= role_level(r)

\* A handler that ends, and one that has found a user and goes on.
Done == req' = NoReq /\ UNCHANGED <<seen, login, changes, cmd, now>>
Reply == Done /\ UNCHANGED wstickets

Go(at, i, row) ==
    /\ req' = [req EXCEPT !.at = at, !.user = i, !.row = row]
    /\ UNCHANGED <<accounts, credentials, wstickets, mapping, seen, login, changes, cmd, now>>

\* A request that changes nothing: a list, one that is refused or in vain.
Answer == req.at = "authed" /\ Reply /\ UNCHANGED <<accounts, credentials, mapping>>

ForAdmin == has_role("admin") /\ Reply

api_create_user ==
    /\ has_role("admin")
    /\ \E e \in Email, r \in Role : NotTaken(e) /\ req' = Caller("create", e, r)
    /\ UNCHANGED <<accounts, credentials, wstickets, mapping, seen, login, changes, cmd, now>>

\* The second statement of create_user, which may fail.
InsertUser ==
    /\ req.at = "create"
    /\ Insert(req.email, req.role, None, CommandAdds) \/ UNCHANGED accounts
    /\ Reply /\ UNCHANGED <<credentials, mapping>>

api_set_user_role ==
    ForAdmin /\ UNCHANGED mapping /\ \E e \in Email, r \in Role : set_user_role(e, r)
api_disable_user == ForAdmin /\ UNCHANGED mapping /\ \E e \in Email : disable_user(e)
api_enable_user == ForAdmin /\ UNCHANGED mapping /\ \E e \in Email : enable_user(e)
api_delete_user == ForAdmin /\ UNCHANGED mapping /\ \E e \in Email : delete_user(e)

api_create_group_mapping ==
    /\ ForAdmin /\ UNCHANGED <<accounts, credentials>>
    /\ \E g \in Group, r \in Role : create_group_mapping(g, r)
api_update_group_mapping ==
    /\ ForAdmin /\ UNCHANGED <<accounts, credentials>>
    /\ \E g, h \in Group, r \in Role : update_group_mapping(g, h, r)
api_delete_group_mapping ==
    /\ ForAdmin /\ UNCHANGED <<accounts, credentials>>
    /\ \E g \in Group : delete_group_mapping(g)

\* A user's sessions, by the id the email was looked up to.
api_delete_user_sessions ==
    has_role("admin") /\ \E e \in Email : \E i \in get_user_by_email(e) : Go("expel", i, None)

Expel == req.at = "expel" /\ delete_user_sessions(req.user) /\ Reply /\ UNCHANGED mapping

\* A token for oneself, not above one's own role.
create_my_token ==
    /\ has_role("poweruser") /\ req.email # None
    /\ \E n \in Name, max \in Role \cup {None}, x \in Expiry \cup {None} :
           /\ max # None => role_level(max) <= role_level(req.role)
           /\ \E i \in get_user_by_email(req.email) :
                  Go("token", i, [user |-> i, name |-> n, max |-> max, expires |-> x,
                                  owner |-> req.email])

admin_create_user_token ==
    /\ has_role("admin")
    /\ \E e \in Email, n \in Name, max \in Role \cup {None}, x \in Expiry \cup {None} :
           \E i \in get_user_by_email(e) :
               /\ max # None => role_level(max) <= role_level(users[i].role)
               /\ Go("token", i, [user |-> i, name |-> n, max |-> max, expires |-> x,
                                  owner |-> e])

InsertToken == req.at = "token" /\ create_user_token(req.row) /\ Reply /\ UNCHANGED mapping

revoke_my_token ==
    /\ has_role("poweruser") /\ req.email # None
    /\ \E t \in tokens : \E i \in get_user_by_email(req.email) : Go("revoke", i, t)

\* Only a token of the user found is deleted.
RevokeToken ==
    /\ req.at = "revoke"
    /\ IF req.row.user = req.user THEN revoke_user_token(req.row)
       ELSE UNCHANGED <<accounts, credentials>>
    /\ Reply /\ UNCHANGED mapping

api_admin_revoke_user_token == ForAdmin /\ UNCHANGED mapping /\ \E t \in tokens : revoke_user_token(t)

-----------------------------------------------------------------------------
(* WebSocket tickets: the identity of the request that asked for one, kept  *)
(* in memory, fresh until WS_TICKET_TTL_SECS have passed.                   *)

Live(ts) == {t \in ts : t.fresh}

\* Stale tickets are pruned on the way.
create(e, r) ==
    /\ issued' = issued + 1
    /\ tickets' = Live(tickets) \cup {[id |-> issued + 1, email |-> e, role |-> r, fresh |-> TRUE]}
    /\ UNCHANGED spent

create_ws_ticket ==
    /\ req.at = "authed" /\ issued < MaxTickets
    /\ create(req.email, req.role)
    /\ Done /\ UNCHANGED <<accounts, credentials, mapping>>

TicketAges ==
    /\ \E t \in Live(tickets) : tickets' = (tickets \ {t}) \cup {[t EXCEPT !.fresh = FALSE]}
    /\ UNCHANGED <<issued, spent, accounts, credentials, mapping, seen, login, req, changes, cmd, now>>

\* Mutant: a ticket is looked up, and left to the pruning.
consume_later(t) == tickets' = Live(tickets)

\* A ticket goes with its use, stale or not.
consume(t) == tickets' = tickets \ {t}

\* A WebSocket request: a fresh ticket is enough; a stale or a missing one
\* leaves the other credentials, without which the request has no identity.
optional_auth ==
    /\ req.at = "idle"
    /\ \/ \E t \in Live(tickets) :
              /\ consume(t)
              /\ spent' = spent \cup {t.id}
              /\ req' = Caller("socket", t.email, t.role)
              /\ UNCHANGED changes
       \/ \E t \in (tickets \ Live(tickets)) \cup {None} :
              /\ IF t = None THEN UNCHANGED tickets ELSE consume(t)
              /\ (Change /\ RequestBy("socket")) \/ UNCHANGED <<req, changes>>
              /\ UNCHANGED spent
    /\ UNCHANGED <<issued, accounts, credentials, mapping, seen, login, cmd, now>>

\* What the request is then allowed is in SessionProxy.
ws_handler == req.at = "socket" /\ Reply /\ UNCHANGED <<accounts, credentials, mapping>>

-----------------------------------------------------------------------------
(* The command line, the hourly task and the clock *)

CommandRest == UNCHANGED <<seen, login, wstickets, req, now>>

\* Commands of one statement.
Command == cmd = NoCmd /\ Change /\ UNCHANGED cmd /\ CommandRest

\* Commands of several, of which e and r are the arguments.
CommandTo(at, e, r) ==
    /\ cmd = NoCmd /\ Change
    /\ cmd' = [at |-> at, email |-> e, role |-> r]
    /\ CommandRest

CommandGoes(from, to) ==
    /\ cmd.at = from
    /\ cmd' = IF to = "idle" THEN NoCmd ELSE [cmd EXCEPT !.at = to]
    /\ UNCHANGED <<changes, mapping, apikey>> /\ CommandRest

cmd_add_user ==
    /\ \E e \in Email, r \in Role : NotTaken(e) /\ CommandTo("create", e, r)
    /\ UNCHANGED <<accounts, credentials, mapping>>
AddUser ==
    /\ CommandGoes("create", "idle")
    /\ Insert(cmd.email, cmd.role, None, ServerAdds) \/ UNCHANGED accounts
    /\ UNCHANGED <<session, tokens>>

cmd_set_role == Command /\ UNCHANGED mapping /\ \E e \in Email, r \in Role : set_user_role(e, r)
cmd_disable_user == Command /\ UNCHANGED mapping /\ \E e \in Email : disable_user(e)

\* The statements of delete_user.  SQLite refuses the last one if a session
\* or a token has come meanwhile.
cmd_delete_user ==
    /\ \E e \in Email : /\ CommandTo("tokens", e, None)
                        /\ session' = SessionsWithout(get_user_by_email(e))
    /\ UNCHANGED <<accounts, mapping, tokens, apikey>>
DeleteTokens ==
    /\ CommandGoes("tokens", "row")
    /\ tokens' = TokensWithout(get_user_by_email(cmd.email))
    /\ UNCHANGED <<accounts, session>>
DeleteRow ==
    LET ids == get_user_by_email(cmd.email)
    IN  /\ CommandGoes("row", "idle")
        /\ users' = IF SessionsWithout(ids) = session /\ TokensWithout(ids) = tokens
                    THEN UsersWithout(ids) ELSE users
        /\ UNCHANGED <<next, disputed, session, tokens>>

cmd_reset_oidc_subject == Command /\ UNCHANGED mapping /\ \E e \in Email : reset_oidc_subject(e)

\* With --force a group that has a role gets the other one.
cmd_map_group ==
    /\ Command /\ UNCHANGED <<accounts, credentials>>
    /\ \E g \in Group, r \in Role : /\ mapping[g] # r
                                    /\ mapping' = [mapping EXCEPT ![g] = r]

cmd_add_admin == Command /\ UNCHANGED mapping /\ \E a \in Admin : add_admin(a)
cmd_disable_admin == Command /\ UNCHANGED mapping /\ \E a \in Admin : disable_admin(a)
cmd_enable_admin == Command /\ UNCHANGED mapping /\ \E a \in Admin : enable_admin(a)
cmd_delete_admin == Command /\ UNCHANGED mapping /\ \E a \in Admin : delete_admin(a)

cleanup ==
    /\ cleanup_expired_sessions
    /\ cleanup_expired_user_tokens
    /\ Unlocked
    /\ UNCHANGED <<accounts, mapping, seen, login, apikey, wstickets, req, changes, cmd, now>>

Tick ==
    /\ now < MaxTime
    /\ now' = now + 1
    /\ UNCHANGED <<accounts, credentials, wstickets, mapping, seen, login, req, cmd, changes>>

LoginNext(l) ==
    \/ oidc_login(l) \/ CallbackFails(l) \/ upsert_user(l)
    \/ /\ Unlocked
       /\ \/ \E c \in Claim : callback(l, c)
          \/ MapRole(l) \/ upsert_finds(l) \/ upsert_refuses(l) \/ ApplyRole(l)
          \/ OpenSession(l) \/ logout(l)

\* Requests that call db.rs.
RequestCalls ==
    \/ require_auth
    \/ api_create_user \/ api_set_user_role \/ api_disable_user \/ api_enable_user
    \/ api_delete_user \/ api_delete_user_sessions \/ Expel
    \/ api_create_group_mapping \/ api_update_group_mapping \/ api_delete_group_mapping
    \/ create_my_token \/ admin_create_user_token \/ InsertToken
    \/ revoke_my_token \/ RevokeToken \/ api_admin_revoke_user_token \/ optional_auth

RequestNext ==
    \/ Unlocked /\ RequestCalls
    \/ InsertUser \/ Answer \/ create_ws_ticket \/ TicketAges \/ ws_handler

CommandNext ==
    \/ cmd_add_user \/ AddUser \/ cmd_set_role \/ cmd_disable_user
    \/ cmd_delete_user \/ DeleteTokens \/ DeleteRow
    \/ cmd_reset_oidc_subject \/ cmd_map_group
    \/ cmd_add_admin \/ cmd_disable_admin \/ cmd_enable_admin \/ cmd_delete_admin

Next == (\E l \in Login : LoginNext(l)) \/ RequestNext \/ CommandNext \/ cleanup \/ Tick

Spec == Init /\ [][Next]_vars

-----------------------------------------------------------------------------
(* Properties *)

LoginType ==
    [at : {"new", "pending", "claims", "mapped", "found", "user", "role", "in", "gone"},
     claim : Claim \cup {None}, born : Nat, role : Role \cup {None},
     user : Id \cup {None}, barred : BOOLEAN, epoch : Nat]
TokenType ==
    [user : Id, name : Name, max : Role \cup {None}, expires : Expiry \cup {None}, owner : Email]
ReqType ==
    [at : {"idle", "authed", "create", "socket", "expel", "token", "revoke"}, email : Email \cup {None},
     role : RoleName \cup {None}, user : Id \cup {None}, row : TokenType \cup {None}]
CmdType ==
    {NoCmd} \cup [at : {"create"}, email : Email, role : Role]
    \cup [at : {"tokens", "row"}, email : Email, role : {None}]

\* The state stays within the schema, and a step of a login or a request
\* has what the step before it found.
TypeOK ==
    /\ users \in [Id -> Account \cup {None}]
    /\ next \in 1..(MaxUsers + 1)
    /\ disputed \subseteq Email
    /\ mapping \in [Group -> Role \cup {None}]
    /\ seen \subseteq Group
    /\ login \in [Login -> LoginType]
    /\ \A l \in Login : /\ login[l].at \notin Away => login[l].claim \in Claim
                        /\ login[l].at \in {"user", "role", "in"} => login[l].user \in Id
    /\ session \in [Login -> [user : Id, exp : Nat, epoch : Nat] \cup {None}]
    /\ tokens \subseteq TokenType
    /\ apikey \in [Admin -> {"absent", "active", "disabled"}]
    /\ tickets \subseteq [id : 1..issued, email : Email \cup {None}, role : RoleName, fresh : BOOLEAN]
    /\ issued \in 0..MaxTickets /\ spent \subseteq 1..issued
    /\ req \in ReqType
    /\ req.at = "authed" => req.role \in RoleName
    /\ req.at = "create" => req.email \in Email /\ req.role \in Role
    /\ req.at \in {"token", "revoke"} => req.row \in TokenType
    /\ req.at \in {"expel", "token", "revoke"} => req.user \in Id
    /\ cmd \in CmdType
    /\ changes \in 0..MaxChanges
    /\ now \in 0..MaxTime

\* Accounts are made by logins, by admins and on the command line, each with
\* a look of its own, and UNIQUE tells emails apart that differ in case only.
\* Two such accounts exist only if they were there from the start, or if a
\* command and the server were between look and insertion at the same time.
EmailsDistinct ==
    \A i, j \in Used : Alike(i, j) => Folded[users[i].email] \in disputed

\* A session or a token belongs to the account of the email it was made
\* for, also when that account was deleted, and another was made, between
\* the call that looked the account up and the one that inserts the row.
CredentialsFollowTheirAccount ==
    /\ \A l \in Login : session[l] # None =>
           /\ session[l].user \in Used
           /\ Folded[users[session[l].user].email] = Folded[login[l].claim.email]
    /\ \A t \in tokens : t.user \in Used /\ users[t.user].email = t.owner

\* Between two releases by reset_oidc_subject an account is one person's:
\* the sessions that were opened for it in that time are of one subject,
\* whichever logins, deletions and releases came between their steps.
OneSubjectPerBinding ==
    \A l, k \in Login :
        /\ session[l] # None /\ session[k] # None
        /\ session[l].user = session[k].user
        /\ session[l].epoch = session[k].epoch
        => login[l].claim.subject = login[k].claim.subject

\* A ticket opens at most one WebSocket, also when it is presented twice
\* while it is fresh: one that was used is not in the store any more.
TicketOpensOneSocket == \A t \in tickets : t.id \notin spent
=============================================================================
