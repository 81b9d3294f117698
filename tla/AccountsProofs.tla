----------------------------- MODULE AccountsProofs -----------------------------
(***************************************************************************)
(* Proofs about Accounts, for every set of emails, people, logins, groups  *)
(* and tokens, and for all of the bounds.                                  *)
(***************************************************************************)
EXTENDS Accounts, TLAPS

\* The logins that upsert_user has given an account.
Entered == {l \in Login : login[l].at \in {"user", "role", "in"}}

\* AUTOINCREMENT: the ids given so far are below the counter.
IdsGiven == \A i \in Used : i < next

\* A login keeps the id it was given.  While that account exists it has the
\* email of the claims; until it is released it is bound to their subject.
LoginsFollow ==
    \A l \in Entered :
        /\ login[l].user < next
        /\ login[l].user \in Used =>
              LET a == users[login[l].user] IN
              /\ Folded[a.email] = Folded[login[l].claim.email]
              /\ login[l].epoch <= a.resets
              /\ login[l].epoch = a.resets => a.subject = login[l].claim.subject

\* Two logins that got one account, between the same two releases, are of
\* one person, whether or not the account is still there.
LoginsOfOnePerson ==
    \A l, k \in Entered :
        login[l].user = login[k].user /\ login[l].epoch = login[k].epoch
        => login[l].claim.subject = login[k].claim.subject

\* A session has the account of the login that opened it.
SessionsOfLogins ==
    \A l \in Login : session[l] # None =>
        /\ login[l].at = "in"
        /\ session[l].user = login[l].user
        /\ session[l].epoch = login[l].epoch
        /\ session[l].user \in Used

\* The token about to be inserted is for an id that was looked up: while it
\* names an account at all, it is the account of the owner's email.
TokensOfOwners ==
    /\ \A t \in tokens : t.user \in Used /\ users[t.user].email = t.owner
    /\ req.at = "token" =>
           /\ req.row.user < next
           /\ req.row.user \in Used => users[req.row.user].email = req.row.owner

\* A login has an account only once upsert_user has looked for it.  While
\* that is still there it has the email of the claims, and nobody else's
\* subject.
FoundFollow ==
    \A l \in Login :
        /\ login[l].at \in {"new", "pending", "claims", "mapped", "gone"} => login[l].user = None
        /\ login[l].at = "found" /\ login[l].user # None =>
              /\ login[l].user < next
              /\ login[l].user \in Used =>
                    /\ Folded[users[login[l].user].email] = Folded[login[l].claim.email]
                    /\ users[login[l].user].subject \in {None, login[l].claim.subject}

\* The lock of the server's connection: one call at a time is between two
\* statements.
OneInCall ==
    /\ \A l, k \in Login : login[l].at = "found" /\ login[k].at = "found" => l = k
    /\ \A l \in Login : login[l].at = "found" => req.at # "create"

\* The accounts that are about to be inserted.
Adds == ServerAdds \cup CommandAdds

\* An email about to be inserted is no account's yet, unless the other
\* process was adding it too.
AddsFree ==
    \A x \in Adds : \A i \in Used : Folded[users[i].email] = Folded[x] => Folded[x] \in disputed

\* The tickets in the store have different ids, none of them spent.
TicketIds ==
    /\ \A t, u \in tickets : t.id = u.id => t = u
    /\ TicketOpensOneSocket

AccountsInv ==
    /\ TypeOK /\ IdsGiven /\ EmailsDistinct /\ LoginsFollow /\ LoginsOfOnePerson
    /\ SessionsOfLogins /\ TokensOfOwners /\ TicketIds
    /\ FoundFollow /\ OneInCall /\ AddsFree

-----------------------------------------------------------------------------
(* Types *)

\* The highest role of some groups is a role, or none where no group is
\* mapped.
LEMMA HighestRole ==
    ASSUME mapping \in [Group -> Role \cup {None}], NEW gs \in SUBSET Group
    PROVE  resolve_role_from_groups(gs) \in Role \cup {None}
<1> DEFINE given == {mapping[g] : g \in gs} \ {None}
<1>1. given \subseteq Role /\ given \subseteq {"viewer", "operator", "poweruser", "admin"}
  BY RoleAssumption DEF RoleName
<1>2. ASSUME given # {}
      PROVE  \E r \in given : \A s \in given : role_level(s) <= role_level(r)
  <2>1. CASE "admin" \in given
    BY <1>1, <2>1 DEF role_level
  <2>2. CASE "admin" \notin given /\ "poweruser" \in given
    BY <1>1, <2>2 DEF role_level
  <2>3. CASE "admin" \notin given /\ "poweruser" \notin given /\ "operator" \in given
    BY <1>1, <2>3 DEF role_level
  <2>4. CASE given \subseteq {"viewer"}
    BY <1>2, <2>4 DEF role_level
  <2> QED BY <1>1, <2>1, <2>2, <2>3, <2>4
<1> QED BY <1>1, <1>2 DEF resolve_role_from_groups

\* Ids and the counter are numbers.
LEMMA IdsAreNumbers == Id \subseteq Nat /\ 1..(MaxUsers + 1) \subseteq Nat
BY BoundsAssumption DEF Id

\* The accounts keep their type where some of them change.
LEMMA AccountsType ==
    ASSUME users \in [Id -> Account \cup {None}], next \in 1..(MaxUsers + 1),
           NEW ids \in SUBSET Used
    PROVE  /\ \A r \in Role : SetRole(ids, r) \in [Id -> Account \cup {None}]
           /\ \A d \in BOOLEAN : SetDisabled(ids, d) \in [Id -> Account \cup {None}]
BY DEF Used, SetRole, SetDisabled, Account

\* A step of the users table keeps its type.
LEMMA InsertType ==
    ASSUME users \in [Id -> Account \cup {None}], next \in 1..(MaxUsers + 1),
           disputed \subseteq Email,
           NEW e \in Email, NEW r \in Role, NEW s \in Subject \cup {None}, NEW rivals,
           Insert(e, r, s, rivals)
    PROVE  /\ users' \in [Id -> Account \cup {None}] /\ next' \in 1..(MaxUsers + 1)
           /\ disputed' \subseteq Email
           /\ NewId \in Id
           /\ users' = [users EXCEPT ![next] = users'[next]]
           /\ users'[next] = [email |-> e, role |-> r, disabled |-> FALSE,
                              subject |-> s, resets |-> 0]
           /\ users'[next] \in Account
<1>1. Folded[e] \in Email
  BY FoldedAssumption
<1>2. disputed' \subseteq Email
  BY <1>1 DEF Insert
<1> QED BY <1>2, BoundsAssumption DEF Insert, NewId, Id, Account

\* What a request by a credential is.
LEMMA RequestType ==
    ASSUME TypeOK, NEW at \in {"authed", "socket"}, RequestBy(at)
    PROVE  req' \in ReqType /\ req'.at = at /\ req'.role \in RoleName
<1> USE RoleAssumption DEF ReqType, Caller, NoReq
<1>1. ASSUME NEW a \in Admin, RequestByKey(at, a) PROVE req' \in ReqType /\ req'.at = at /\ req'.role \in RoleName
  BY <1>1 DEF RequestByKey, RoleName
<1>2. ASSUME NEW t \in tokens, RequestByToken(at, t)
      PROVE  req' \in ReqType /\ req'.at = at /\ req'.role \in RoleName
  <2>1. PICK i \in validate_user_token(t) :
            req' = Caller(at, users[i].email, compute_effective_role(users[i].role, t.max))
    BY <1>2 DEF RequestByToken
  <2>2. users[i] \in Account /\ t \in TokenType
    BY <2>1 DEF TypeOK, validate_user_token, Used
  <2>3. compute_effective_role(users[i].role, t.max) \in RoleName
    BY <2>2 DEF Account, TokenType, compute_effective_role
  <2> QED BY <2>1, <2>2, <2>3 DEF Account
<1>3. ASSUME NEW l \in Login, RequestByCookie(at, l)
      PROVE  req' \in ReqType /\ req'.at = at /\ req'.role \in RoleName
  <2>1. PICK i \in validate_auth_session(l) : req' = Caller(at, users[i].email, users[i].role)
    BY <1>3 DEF RequestByCookie
  <2>2. users[i] \in Account
    BY <2>1 DEF TypeOK, validate_auth_session, Used
  <2> QED BY <2>1, <2>2 DEF Account
<1> QED BY <1>1, <1>2, <1>3 DEF RequestBy

\* The types of what requests, commands and logins share.
AccountTypes ==
    /\ users \in [Id -> Account \cup {None}]
    /\ next \in 1..(MaxUsers + 1)
    /\ disputed \subseteq Email
    /\ session \in [Login -> [user : Id, exp : Nat, epoch : Nat] \cup {None}]
    /\ tokens \subseteq TokenType
    /\ apikey \in [Admin -> {"absent", "active", "disabled"}]

\* The calls and statements of db.rs on the accounts, but for those that
\* insert a user or a token.
AccountCall ==
    \/ \E e \in Email, r \in Role : set_user_role(e, r)
    \/ \E e \in Email : disable_user(e) \/ enable_user(e) \/ delete_user(e) \/ reset_oidc_subject(e)
    \/ \E i \in Id : delete_user_sessions(i)
    \/ \E t \in TokenType : revoke_user_token(t)
    \/ \E a \in Admin : add_admin(a) \/ disable_admin(a) \/ enable_admin(a) \/ delete_admin(a)
    \/ cmd_delete_user \/ DeleteTokens \/ DeleteRow
    \/ UNCHANGED <<accounts, credentials>>

\* A user is inserted, other than by a login.
UserCall ==
    \E e \in Email, r \in Role, rivals \in SUBSET Email :
        Insert(e, r, None, rivals) /\ UNCHANGED credentials

\* The emails of accounts name accounts.
LEMMA LookupType ==
    ASSUME NEW e \in Email
    PROVE  get_user_by_email(e) \subseteq Used /\ find_user_for_email(e) \subseteq Used
BY DEF get_user_by_email, find_user_for_email

\* The calls keep the types of the tables.
LEMMA CallType == ASSUME TypeOK, AccountCall \/ InsertToken \/ UserCall PROVE AccountTypes'
<1> USE LookupType DEF TypeOK, AccountTypes
<1>1. CASE UserCall
  BY <1>1, InsertType DEF UserCall, credentials
<1>2. ASSUME NEW e \in Email, NEW r \in Role, set_user_role(e, r) PROVE AccountTypes'
  BY <1>2, AccountsType DEF set_user_role, credentials
<1>3. ASSUME NEW e \in Email, disable_user(e) \/ enable_user(e) PROVE AccountTypes'
  BY <1>3, AccountsType DEF disable_user, enable_user, credentials
<1>4. ASSUME NEW e \in Email, delete_user(e) PROVE AccountTypes'
  BY <1>4 DEF delete_user, SessionsWithout, TokensWithout, UsersWithout
<1>5. ASSUME NEW e \in Email, reset_oidc_subject(e) PROVE AccountTypes'
  <2>1. ASSUME NEW i \in Used
        PROVE  [users[i] EXCEPT !.subject = None, !.resets = @ + 1] \in Account
    <3>1. users[i] \in Account
      BY DEF Used
    <3>2. users[i].resets + 1 \in Nat
      BY <3>1 DEF Account
    <3> QED BY <3>1, <3>2 DEF Account
  <2> QED BY <1>5, <2>1 DEF reset_oidc_subject, credentials
<1>6. ASSUME NEW i \in Id, delete_user_sessions(i) PROVE AccountTypes'
  BY <1>6 DEF delete_user_sessions, accounts, SessionsWithout
<1>7. ASSUME NEW t \in TokenType, create_user_token(t) \/ revoke_user_token(t) PROVE AccountTypes'
  BY <1>7 DEF create_user_token, revoke_user_token, accounts
<1>8. ASSUME NEW a \in Admin, add_admin(a) \/ disable_admin(a) \/ enable_admin(a) \/ delete_admin(a)
      PROVE  AccountTypes'
  BY <1>8 DEF add_admin, disable_admin, enable_admin, delete_admin, SetKey, accounts
<1>9. CASE UNCHANGED <<accounts, credentials>>
  BY <1>9 DEF accounts, credentials
<1>10. CASE cmd_delete_user
  BY <1>10 DEF cmd_delete_user, SessionsWithout, accounts
<1>11. CASE DeleteTokens
  BY <1>11 DEF DeleteTokens, CommandGoes, TokensWithout, accounts
<1>12. CASE DeleteRow
  BY <1>12 DEF DeleteRow, CommandGoes, UsersWithout
<1> QED
  BY <1>1, <1>2, <1>3, <1>4, <1>5, <1>6, <1>7, <1>8, <1>9, <1>10, <1>11, <1>12
  DEF AccountCall, InsertToken

\* The types of the logins, of the requests and of the rest.
LoginTypes ==
    /\ login \in [Login -> LoginType]
    /\ \A l \in Login : /\ login[l].at \notin Away => login[l].claim \in Claim
                        /\ login[l].at \in {"user", "role", "in"} => login[l].user \in Id
RequestTypes ==
    /\ req \in ReqType
    /\ req.at = "authed" => req.role \in RoleName
    /\ req.at = "create" => req.email \in Email /\ req.role \in Role
    /\ req.at \in {"token", "revoke"} => req.row \in TokenType
    /\ req.at \in {"expel", "token", "revoke"} => req.user \in Id
TicketTypes ==
    /\ tickets \subseteq [id : 1..issued, email : Email \cup {None}, role : RoleName, fresh : BOOLEAN]
    /\ issued \in 0..MaxTickets /\ spent \subseteq 1..issued
OtherTypes ==
    /\ mapping \in [Group -> Role \cup {None}]
    /\ seen \subseteq Group
    /\ cmd \in CmdType
    /\ changes \in 0..MaxChanges
    /\ now \in 0..MaxTime

LEMMA TypeParts ==
    TypeOK <=> AccountTypes /\ LoginTypes /\ RequestTypes /\ TicketTypes /\ OtherTypes
BY DEF TypeOK, AccountTypes, LoginTypes, RequestTypes, TicketTypes, OtherTypes

\* A login that is given an account.
LEMMA EnterStep ==
    ASSUME NEW l \in Login, NEW i, NEW a, login[l] \in LoginType, Enter(l, i, a)
    PROVE  login' = [login EXCEPT ![l] =
                        [at |-> "user", claim |-> login[l].claim, born |-> login[l].born,
                         role |-> login[l].role, user |-> i, barred |-> a.disabled,
                         epoch |-> a.resets]]
<1> DEFINE R(at, user, barred, epoch) ==
               [at |-> at, claim |-> login[l].claim, born |-> login[l].born,
                role |-> login[l].role, user |-> user, barred |-> barred, epoch |-> epoch]
           r == login[l]
<1>1. r = R(r.at, r.user, r.barred, r.epoch)
  BY DEF LoginType
<1>2. [r EXCEPT !.at = "user"] = R("user", r.user, r.barred, r.epoch)
  BY <1>1
<1>3. [R("user", r.user, r.barred, r.epoch) EXCEPT !.user = i] = R("user", i, r.barred, r.epoch)
  OBVIOUS
<1>4. [R("user", i, r.barred, r.epoch) EXCEPT !.barred = a.disabled]
      = R("user", i, a.disabled, r.epoch)
  OBVIOUS
<1>5. [R("user", i, a.disabled, r.epoch) EXCEPT !.epoch = a.resets]
      = R("user", i, a.disabled, a.resets)
  OBVIOUS
<1> HIDE DEF R
<1>6. [r EXCEPT !.at = "user", !.user = i, !.barred = a.disabled, !.epoch = a.resets]
      = R("user", i, a.disabled, a.resets)
  BY <1>2, <1>3, <1>4, <1>5, Zenon
<1> QED BY <1>6, Zenon DEF R, Enter, Step

\* One that leaves for the provider.
LEMMA LeaveType ==
    ASSUME NEW r \in LoginType, NEW t
    PROVE  [[r EXCEPT !.at = "pending"] EXCEPT !.born = t]
           = [at |-> "pending", claim |-> r.claim, born |-> t, role |-> r.role,
              user |-> r.user, barred |-> r.barred, epoch |-> r.epoch]
<1> DEFINE R(at, born) ==
               [at |-> at, claim |-> r.claim, born |-> born, role |-> r.role,
                user |-> r.user, barred |-> r.barred, epoch |-> r.epoch]
<1>1. r = R(r.at, r.born)
  BY DEF LoginType
<1>2. [r EXCEPT !.at = "pending"] = R("pending", r.born)
  BY <1>1
<1>3. [R("pending", r.born) EXCEPT !.born = t] = R("pending", t)
  OBVIOUS
<1> HIDE DEF R
<1>4. [[r EXCEPT !.at = "pending"] EXCEPT !.born = t] = R("pending", t)
  BY <1>2, <1>3, Zenon
<1> QED BY <1>4 DEF R

\* A login that is over.
LEMMA GoneType ==
    /\ GoneLogin \in LoginType /\ GoneLogin.at = "gone" /\ GoneLogin.user = None
    /\ GoneLogin.at \in Away
BY DEF GoneLogin, NoLogin, LoginType, Away

\* When a browser leaves for the provider, no login moves that has come back.
LEMMA LeaveStep ==
    ASSUME TypeOK, NEW l \in Login, oidc_login(l), NEW k \in Login
    PROVE  \/ login'[k] = login[k]
           \/ /\ login'[k] \in LoginType
              /\ login[k].at \in {"new", "pending"} /\ login'[k].at \in {"pending", "gone"}
              /\ login'[k].user \in {login[k].user, None}
<1>1. login[k] \in LoginType /\ now \in Nat
  BY BoundsAssumption DEF TypeOK
<1>2. CASE k = l
  <2>1. login'[k] = [[login[k] EXCEPT !.at = "pending"] EXCEPT !.born = now]
    BY <1>2 DEF oidc_login
  <2> QED BY <1>1, <1>2, <2>1, LeaveType DEF LoginType, oidc_login
<1>3. CASE k # l /\ login[k].at = "pending" /\ login[k].born + PendingTtl <= now
  <2>1. login'[k] = GoneLogin
    BY <1>3 DEF oidc_login
  <2> QED BY <1>3, <2>1, GoneType
<1>4. CASE k # l /\ ~ (login[k].at = "pending" /\ login[k].born + PendingTtl <= now)
  BY <1>4 DEF oidc_login
<1> QED BY <1>2, <1>3, <1>4

\* The step of a login.
LEMMA LoginTypeStep == ASSUME TypeOK, NEW l \in Login, LoginNext(l) PROVE TypeOK'
<1> USE DEF LoginRest, wstickets, accounts, Step
<1>1. AccountTypes /\ LoginTypes /\ RequestTypes /\ TicketTypes /\ OtherTypes
  BY TypeParts
<1>2. RequestTypes' /\ TicketTypes'
  BY <1>1 DEF RequestTypes, TicketTypes, LoginNext, oidc_login, CallbackFails, callback, MapRole,
     upsert_finds, upsert_user, upsert_refuses, ApplyRole, OpenSession, logout
<1>3. OtherTypes'
  BY <1>1, ClaimAssumption DEF OtherTypes, LoginNext, oidc_login, CallbackFails, callback, MapRole,
     upsert_finds, upsert_user, upsert_refuses, ApplyRole, OpenSession, logout, upsert_seen_groups
<1> SUFFICES AccountTypes' /\ LoginTypes'
  <2>1. TypeOK' <=> AccountTypes' /\ LoginTypes' /\ RequestTypes' /\ TicketTypes' /\ OtherTypes'
    BY TypeParts, PTL
  <2> QED BY <1>2, <1>3, <2>1
<1>4. CASE oidc_login(l)
  <2>1. \A k \in Login : login'[k] = login[k] \/ (login'[k] \in LoginType /\ login'[k].at \in Away)
    BY <1>4, LeaveStep DEF Away
  <2>2. login' = [k \in Login |-> login'[k]]
    <3> DEFINE f(k) == CASE k = l -> [login[k] EXCEPT !.at = "pending", !.born = now]
                         [] k # l /\ login[k].at = "pending" /\ login[k].born + PendingTtl <= now ->
                                GoneLogin
                         [] OTHER -> login[k]
    <3>1. login' = [k \in Login |-> f(k)]
      BY <1>4 DEF oidc_login
    <3> HIDE DEF f
    <3> QED BY <3>1
  <2>3. login' \in [Login -> LoginType]
    BY <1>1, <2>1, <2>2 DEF LoginTypes
  <2>4. LoginTypes'
    BY <1>1, <2>1, <2>3 DEF LoginTypes, Away
  <2> QED BY <1>1, <1>4, <2>4 DEF oidc_login, AccountTypes
<1>5. ASSUME NEW x \in LoginType, login' = [login EXCEPT ![l] = x],
             x.at \notin Away => x.claim \in Claim,
             x.at \in {"user", "role", "in"} => x.user \in Id
      PROVE  LoginTypes'
  BY <1>1, <1>5 DEF LoginTypes
<1>6. login[l] \in LoginType /\ (login[l].at \notin Away => login[l].claim \in Claim)
  BY <1>1 DEF LoginTypes
<1>7. ASSUME NEW at \in {"claims", "mapped", "found", "role", "in"}
      PROVE  LET x == [login[l] EXCEPT !.at = at] IN
             /\ x \in LoginType /\ x.at = at
             /\ x.claim = login[l].claim /\ x.user = login[l].user
  BY <1>6 DEF LoginType
<1>8. ASSUME UNCHANGED <<accounts, session>>, LoginRest PROVE AccountTypes'
  BY <1>1, <1>8 DEF AccountTypes
<1>g. ASSUME login' = [login EXCEPT ![l] = GoneLogin] PROVE LoginTypes'
  BY <1>5, <1>g, GoneType DEF Away
<1>9. CASE CallbackFails(l) \/ upsert_refuses(l)
  BY <1>8, <1>9, <1>g DEF CallbackFails, upsert_refuses
<1>10. ASSUME NEW c \in Claim, callback(l, c) PROVE AccountTypes' /\ LoginTypes'
  <2> DEFINE x == [login[l] EXCEPT !.at = "claims"]
  <2>1. x \in LoginType /\ x.at = "claims"
    BY <1>7
  <2> DEFINE y == [x EXCEPT !.claim = c]
  <2>2. login' = [login EXCEPT ![l] = [y EXCEPT !.born = 0]]
    BY <1>10 DEF callback
  <2> HIDE DEF x
  <2>3. y \in LoginType /\ y.at = "claims" /\ y.claim = c
    BY <2>1 DEF LoginType
  <2> HIDE DEF y
  <2>5. [y EXCEPT !.born = 0] \in LoginType /\ [y EXCEPT !.born = 0].at = "claims"
        /\ [y EXCEPT !.born = 0].claim = c
    BY <2>3 DEF LoginType
  <2>4. LoginTypes'
    BY <1>5, <2>2, <2>5
  <2> QED BY <1>8, <1>10, <2>4 DEF callback
<1>11. CASE MapRole(l)
  <2> DEFINE r == resolve_role_from_groups(login[l].claim.groups)
             x == [login[l] EXCEPT !.at = "mapped"]
  <2>1. login[l].claim \in Claim /\ login[l].claim.groups \in SUBSET Group
    BY <1>6, <1>11, ClaimAssumption DEF MapRole, Away
  <2>2. r \in Role \cup {None}
    BY <1>1, <2>1, HighestRole DEF OtherTypes
  <2>3. x \in LoginType /\ x.at = "mapped" /\ x.claim = login[l].claim
    BY <1>7
  <2>4. login' = [login EXCEPT ![l] = [x EXCEPT !.role = r]]
    BY <1>11 DEF MapRole
  <2> HIDE DEF x, r
  <2>5. [x EXCEPT !.role = r] \in LoginType /\ [x EXCEPT !.role = r].at = "mapped"
        /\ [x EXCEPT !.role = r].claim = x.claim
    BY <2>2, <2>3 DEF LoginType
  <2>6. LoginTypes'
    BY <1>5, <2>1, <2>3, <2>4, <2>5
  <2> QED BY <1>8, <1>11, <2>6 DEF MapRole
<1>f. CASE upsert_finds(l)
  <2> DEFINE x == [login[l] EXCEPT !.at = "found"]
  <2>1. login[l].claim \in Claim
    BY <1>6, <1>f DEF upsert_finds, Away
  <2>2. x \in LoginType /\ x.at = "found" /\ x.claim = login[l].claim
    BY <1>7
  <2>3. \/ login' = [login EXCEPT ![l] = x]
        \/ \E i \in Id : login' = [login EXCEPT ![l] = [x EXCEPT !.user = i]]
    BY <1>f DEF upsert_finds
  <2> HIDE DEF x
  <2>4. \A i \in Id : LET y == [x EXCEPT !.user = i] IN
            y \in LoginType /\ y.at = "found" /\ y.claim = x.claim
    BY <2>2 DEF LoginType
  <2>5. LoginTypes'
    BY <1>5, <2>1, <2>2, <2>3, <2>4
  <2> QED BY <1>8, <1>f, <2>5 DEF upsert_finds
<1>12. CASE upsert_user(l)
  <2> DEFINE c == login[l].claim
  <2>1. c \in Claim /\ c.email \in Email /\ c.subject \in Subject
    BY <1>6, <1>12, ClaimAssumption DEF upsert_user, Away
  <2>2. UNCHANGED <<session, tokens, apikey>>
    BY <1>12 DEF upsert_user
  <2>3. ASSUME NEW i \in Id, NEW a \in Account, Enter(l, i, a) PROVE LoginTypes'
    <3> DEFINE x == [at |-> "user", claim |-> login[l].claim, born |-> login[l].born,
                     role |-> login[l].role, user |-> i, barred |-> a.disabled,
                     epoch |-> a.resets]
    <3>1. login' = [login EXCEPT ![l] = x]
      BY <1>6, <2>3, EnterStep
    <3>2. x \in LoginType /\ x.claim \in Claim /\ x.user \in Id
      BY <1>6, <2>1 DEF LoginType, Account
    <3> HIDE DEF x
    <3> QED BY <1>5, <3>1, <3>2
  <2>4. ASSUME NEW i \in Used, users' = [users EXCEPT ![i].subject = c.subject],
               Enter(l, i, users[i]), UNCHANGED <<next, disputed>>
        PROVE  AccountTypes' /\ LoginTypes'
    <3>1. i \in Id /\ users[i] \in Account
      BY <1>1 DEF Used, AccountTypes
    <3>2. users' \in [Id -> Account \cup {None}]
      BY <1>1, <2>1, <2>4, <3>1 DEF Account, AccountTypes
    <3> QED BY <1>1, <2>2, <2>3, <2>4, <3>1, <3>2 DEF AccountTypes
  <2>5. ASSUME Insert(c.email, DefaultRole, c.subject, CommandAdds),
               Enter(l, NewId, users'[NewId])
        PROVE  AccountTypes' /\ LoginTypes'
    <3>1. NewId \in Id /\ users'[NewId] \in Account /\ users' \in [Id -> Account \cup {None}]
          /\ next' \in 1..(MaxUsers + 1) /\ disputed' \subseteq Email
      BY <1>1, <2>1, <2>5, RoleAssumption, InsertType DEF NewId, AccountTypes
    <3> QED BY <1>1, <2>2, <2>3, <2>5, <3>1 DEF AccountTypes
  <2>6. ASSUME Step(l, GoneLogin), UNCHANGED accounts PROVE AccountTypes' /\ LoginTypes'
    BY <1>1, <1>g, <2>2, <2>6 DEF AccountTypes
  <2> QED BY <1>12, <2>4, <2>5, <2>6 DEF upsert_user
<1>13. CASE ApplyRole(l)
  <2>1. login[l].claim \in Claim /\ login[l].claim.email \in Email /\ login[l].user \in Id
    BY <1>1, <1>6, <1>13, ClaimAssumption DEF ApplyRole, LoginTypes, Away
  <2>2. users' \in [Id -> Account \cup {None}]
    BY <1>1, <1>6, <1>13, <2>1, LookupType, AccountsType DEF ApplyRole, AccountTypes, LoginType
  <2>3. LoginTypes'
    <3>1. login' = [login EXCEPT ![l] = [login[l] EXCEPT !.at = "role"]]
      BY <1>13 DEF ApplyRole
    <3> QED BY <1>5, <1>7, <2>1, <3>1
  <2> QED BY <1>1, <1>13, <2>2, <2>3 DEF ApplyRole, AccountTypes
<1>14. CASE OpenSession(l)
  <2>1. now + SessionTtl \in Nat
    BY <1>1, BoundsAssumption DEF OtherTypes
  <2>2. login[l].claim \in Claim /\ login[l].user \in Id /\ login[l].epoch \in Nat
    BY <1>1, <1>6, <1>14 DEF OpenSession, LoginTypes, LoginType, Away
  <2>3. session' \in [Login -> [user : Id, exp : Nat, epoch : Nat] \cup {None}]
    BY <1>1, <1>14, <2>1, <2>2 DEF OpenSession, create_auth_session, AccountTypes
  <2> DEFINE x == [login[l] EXCEPT !.at = "in"]
  <2>4. \/ login' = [login EXCEPT ![l] = GoneLogin]
        \/ login' = [login EXCEPT ![l] = [x EXCEPT !.role = None]]
    BY <1>14 DEF OpenSession
  <2>6. x \in LoginType /\ x.at = "in" /\ x.claim = login[l].claim /\ x.user = login[l].user
    BY <1>7
  <2> HIDE DEF x
  <2>7. LET y == [x EXCEPT !.role = None] IN
        y \in LoginType /\ y.at = "in" /\ y.claim = x.claim /\ y.user = x.user
    BY <2>6 DEF LoginType
  <2>5. LoginTypes'
    BY <1>5, <1>g, <2>2, <2>4, <2>6, <2>7
  <2> QED BY <1>1, <1>14, <2>3, <2>5 DEF OpenSession, AccountTypes
<1>15. CASE logout(l)
  BY <1>1, <1>15 DEF logout, AccountTypes, LoginTypes
<1> QED
  BY <1>4, <1>9, <1>10, <1>11, <1>f, <1>12, <1>13, <1>14, <1>15 DEF LoginNext

\* What is about to be inserted are emails.
LEMMA ServerAddsType == ASSUME TypeOK PROVE ServerAdds \subseteq Email
<1>1. ASSUME NEW l \in Login, login[l].at = "found" PROVE login[l].claim.email \in Email
  <2>1. login[l].claim \in Claim
    BY <1>1 DEF TypeOK, Away
  <2> QED BY <2>1, ClaimAssumption
<1>2. req.at = "create" => req.email \in Email
  BY DEF TypeOK
<1> QED BY <1>1, <1>2 DEF ServerAdds

\* A request or a command makes at most one call on the tables, and moves no
\* login.
LEMMA TableCalls ==
    ASSUME TypeOK, RequestNext \/ CommandNext
    PROVE  /\ AccountCall \/ InsertToken \/ (UserCall /\ (InsertUser \/ AddUser))
           /\ UNCHANGED <<seen, login, now>>
<1> USE DEF Change, Done, Reply, ForAdmin, Go, Command, CommandRest, CommandTo, CommandGoes
<1>1. CASE require_auth \/ Answer \/ ws_handler
  BY <1>1 DEF require_auth, Answer, ws_handler, AccountCall
<1>2. CASE create_ws_ticket \/ TicketAges \/ optional_auth
  BY <1>2 DEF create_ws_ticket, TicketAges, optional_auth, AccountCall, accounts, credentials
<1>3. CASE api_create_user \/ api_set_user_role \/ cmd_add_user \/ cmd_set_role
  BY <1>3 DEF api_create_user, api_set_user_role, cmd_add_user, cmd_set_role, AccountCall
<1>a. CASE InsertUser
  <2>1. req.email \in Email /\ req.role \in Role /\ CommandAdds \in SUBSET Email
    BY <1>a DEF InsertUser, TypeOK, CommandAdds, CmdType, NoCmd
  <2> QED BY <1>a, <2>1 DEF InsertUser, AccountCall, UserCall
<1>b. CASE AddUser
  <2>1. cmd.email \in Email /\ cmd.role \in Role
    BY <1>b DEF AddUser, TypeOK, CmdType, NoCmd
  <2>2. ServerAdds \in SUBSET Email
    BY ServerAddsType
  <2> QED BY <1>b, <2>1, <2>2 DEF AddUser, AccountCall, UserCall, credentials
<1>4. CASE \/ api_disable_user \/ api_enable_user \/ api_delete_user
           \/ cmd_disable_user \/ cmd_reset_oidc_subject
  BY <1>4 DEF api_disable_user, api_enable_user, api_delete_user, cmd_disable_user,
     cmd_reset_oidc_subject, AccountCall
<1>c. CASE cmd_delete_user \/ DeleteTokens \/ DeleteRow
  BY <1>c DEF cmd_delete_user, DeleteTokens, DeleteRow, AccountCall
<1>5. CASE api_create_group_mapping \/ api_update_group_mapping \/ api_delete_group_mapping
           \/ cmd_map_group
  BY <1>5 DEF api_create_group_mapping, api_update_group_mapping, api_delete_group_mapping,
     cmd_map_group, AccountCall
<1>6. CASE api_delete_user_sessions \/ create_my_token \/ admin_create_user_token
           \/ revoke_my_token
  BY <1>6 DEF api_delete_user_sessions, create_my_token, admin_create_user_token,
     revoke_my_token, AccountCall, accounts, credentials
<1>7. CASE Expel
  BY <1>7 DEF Expel, AccountCall, TypeOK
<1>8. CASE InsertToken \/ RevokeToken
  BY <1>8 DEF InsertToken, RevokeToken, AccountCall, TypeOK
<1>9. CASE api_admin_revoke_user_token
  BY <1>9 DEF api_admin_revoke_user_token, AccountCall, TypeOK
<1>10. CASE cmd_add_admin \/ cmd_disable_admin \/ cmd_enable_admin \/ cmd_delete_admin
  BY <1>10 DEF cmd_add_admin, cmd_disable_admin, cmd_enable_admin, cmd_delete_admin, AccountCall
<1> QED
  BY <1>1, <1>2, <1>3, <1>a, <1>b, <1>c, <1>4, <1>5, <1>6, <1>7, <1>8, <1>9, <1>10
  DEF RequestNext, RequestCalls, CommandNext

\* A request that has found a user.
LEMMA GoType ==
    ASSUME NEW r \in ReqType, NEW at, NEW i, NEW row
    PROVE  [r EXCEPT !.at = at, !.user = i, !.row = row]
           = [at |-> at, email |-> r.email, role |-> r.role, user |-> i, row |-> row]
<1> DEFINE R(a, u, w) == [at |-> a, email |-> r.email, role |-> r.role, user |-> u, row |-> w]
<1>1. r = R(r.at, r.user, r.row)
  BY DEF ReqType
<1>2. [r EXCEPT !.at = at] = R(at, r.user, r.row)
  BY <1>1
<1>3. [R(at, r.user, r.row) EXCEPT !.user = i] = R(at, i, r.row)
  OBVIOUS
<1>4. [R(at, i, r.row) EXCEPT !.row = row] = R(at, i, row)
  OBVIOUS
<1> HIDE DEF R
<1>5. [r EXCEPT !.at = at, !.user = i, !.row = row] = R(at, i, row)
  BY <1>2, <1>3, <1>4, Zenon
<1> QED BY <1>5 DEF R

\* The types of requests and tickets after the step of a request.
LEMMA RequestTypeStep == ASSUME TypeOK, RequestNext PROVE RequestTypes' /\ TicketTypes'
<1>1. RequestTypes /\ TicketTypes
  BY TypeParts
<1> USE DEF RequestTypes, TicketTypes
<1>2. CASE Reply
  BY <1>1, <1>2 DEF Reply, Done, NoReq, ReqType, wstickets
<1>3. CASE Answer \/ ws_handler \/ Expel \/ InsertToken \/ RevokeToken \/ InsertUser
  BY <1>2, <1>3 DEF Answer, ws_handler, Expel, InsertToken, RevokeToken, InsertUser
<1>c. CASE api_create_user
  BY <1>1, <1>c, RoleAssumption DEF api_create_user, Caller, NoReq, ReqType, wstickets
<1>4. CASE \/ api_set_user_role \/ api_disable_user \/ api_enable_user
           \/ api_delete_user \/ api_create_group_mapping \/ api_update_group_mapping
           \/ api_delete_group_mapping \/ api_admin_revoke_user_token
  BY <1>2, <1>4 DEF api_set_user_role, api_disable_user, api_enable_user,
     api_delete_user, api_create_group_mapping, api_update_group_mapping,
     api_delete_group_mapping, api_admin_revoke_user_token, ForAdmin
<1>5. CASE require_auth
  BY <1>1, <1>5, RequestType DEF require_auth, wstickets
<1>6. ASSUME NEW at \in {"expel", "token", "revoke"}, NEW i \in Id, NEW row,
             at = "expel" => row = None, at # "expel" => row \in TokenType, Go(at, i, row)
      PROVE  RequestTypes' /\ TicketTypes'
  <2>1. req \in ReqType
    BY <1>1
  <2>2. req' = [at |-> at, email |-> req.email, role |-> req.role, user |-> i, row |-> row]
    BY <1>6, <2>1, GoType DEF Go
  <2>3. UNCHANGED wstickets
    BY <1>6 DEF Go
  <2> QED BY <1>1, <1>6, <2>1, <2>2, <2>3 DEF ReqType, wstickets
<1>7. \A e \in Email : get_user_by_email(e) \subseteq Id
  BY DEF get_user_by_email, Used
<1>8. CASE api_delete_user_sessions
  BY <1>6, <1>7, <1>8 DEF api_delete_user_sessions
<1>9. CASE create_my_token
  <2>1. req.email \in Email
    BY <1>1, <1>9 DEF create_my_token, ReqType
  <2>2. PICK n \in Name, max \in Role \cup {None}, x \in Expiry \cup {None} :
            \E i \in get_user_by_email(req.email) :
                Go("token", i, [user |-> i, name |-> n, max |-> max, expires |-> x,
                                owner |-> req.email])
    BY <1>9 DEF create_my_token
  <2>3. \A i \in Id : [user |-> i, name |-> n, max |-> max, expires |-> x,
                       owner |-> req.email] \in TokenType
    BY <2>1, <2>2 DEF TokenType
  <2> QED BY <1>6, <1>7, <2>1, <2>2, <2>3
<1>10. CASE admin_create_user_token
  <2>1. PICK e \in Email, n \in Name, max \in Role \cup {None}, x \in Expiry \cup {None} :
            \E i \in get_user_by_email(e) :
                Go("token", i, [user |-> i, name |-> n, max |-> max, expires |-> x,
                                owner |-> e])
    BY <1>10 DEF admin_create_user_token
  <2>2. \A i \in Id : [user |-> i, name |-> n, max |-> max, expires |-> x, owner |-> e]
                      \in TokenType
    BY <2>1 DEF TokenType
  <2> QED BY <1>6, <1>7, <2>1, <2>2
<1>11. CASE revoke_my_token
  <2>1. req.email \in Email /\ tokens \subseteq TokenType
    BY <1>1, <1>11 DEF revoke_my_token, ReqType, TypeOK
  <2> QED BY <1>6, <1>7, <1>11, <2>1 DEF revoke_my_token
<1>12. CASE create_ws_ticket
  <2> DEFINE new == [id |-> issued + 1, email |-> req.email, role |-> req.role, fresh |-> TRUE]
  <2>1. /\ tickets' = Live(tickets) \cup {new} /\ issued' = issued + 1 /\ spent' = spent
        /\ issued < MaxTickets
    BY <1>12 DEF create_ws_ticket, create
  <2>2. issued \in Nat /\ MaxTickets \in Nat
    BY <1>1, BoundsAssumption
  <2>3. 1..issued \subseteq 1..(issued + 1) /\ issued + 1 \in 1..(issued + 1)
        /\ issued + 1 \in 0..MaxTickets
    BY <2>1, <2>2
  <2>4. new \in [id : 1..(issued + 1), email : Email \cup {None}, role : RoleName, fresh : BOOLEAN]
    BY <1>1, <1>12, <2>3 DEF create_ws_ticket, ReqType
  <2>5. \A t \in tickets :
            t \in [id : 1..(issued + 1), email : Email \cup {None}, role : RoleName, fresh : BOOLEAN]
    BY <1>1, <2>3
  <2>6. TicketTypes'
    BY <1>1, <2>1, <2>3, <2>4, <2>5 DEF Live
  <2> QED BY <1>12, <2>6 DEF create_ws_ticket, Done, NoReq, ReqType
<1>13. CASE TicketAges
  <2>1. PICK t \in Live(tickets) : tickets' = (tickets \ {t}) \cup {[t EXCEPT !.fresh = FALSE]}
    BY <1>13 DEF TicketAges
  <2>2. [t EXCEPT !.fresh = FALSE]
        \in [id : 1..issued, email : Email \cup {None}, role : RoleName, fresh : BOOLEAN]
    BY <1>1, <2>1 DEF Live
  <2> QED BY <1>1, <1>13, <2>1, <2>2 DEF TicketAges
<1>14. CASE optional_auth
  <2>1. issued' = issued /\ tickets' \subseteq tickets
    BY <1>14 DEF optional_auth, consume
  <2>2. ASSUME NEW t \in Live(tickets), spent' = spent \cup {t.id},
               req' = Caller("socket", t.email, t.role)
        PROVE  RequestTypes' /\ TicketTypes'
    BY <1>1, <2>1, <2>2 DEF Live, Caller, NoReq, ReqType
  <2>3. ASSUME RequestBy("socket") \/ req' = req, spent' = spent
        PROVE  RequestTypes' /\ TicketTypes'
    BY <1>1, <2>1, <2>3, RequestType
  <2> QED BY <1>14, <2>2, <2>3 DEF optional_auth
<1> QED
  BY <1>3, <1>c, <1>4, <1>5, <1>8, <1>9, <1>10, <1>11, <1>12, <1>13, <1>14
  DEF RequestNext, RequestCalls

\* What a command does besides its call, and how it counts.
LEMMA CommandStep ==
    ASSUME TypeOK, CommandNext
    PROVE  /\ cmd' \in CmdType
           /\ UNCHANGED <<req, wstickets>>
           /\ changes' = changes \/ (changes < MaxChanges /\ changes' = changes + 1)
           /\ mapping' = mapping \/ \E g \in Group, r \in Role : mapping' = [mapping EXCEPT ![g] = r]
<1> USE DEF CommandRest, Change
<1>1. CASE Command
  BY <1>1 DEF CommandNext, cmd_set_role, cmd_disable_user,
     cmd_reset_oidc_subject, cmd_map_group, cmd_add_admin, cmd_disable_admin, cmd_enable_admin,
     cmd_delete_admin, Command, TypeOK, cmd_add_user, AddUser, cmd_delete_user, DeleteTokens,
     DeleteRow, CommandTo, CommandGoes
<1>2. CASE cmd_add_user
  BY <1>2 DEF cmd_add_user, CommandTo, CmdType
<1>3. CASE cmd_delete_user
  BY <1>3 DEF cmd_delete_user, CommandTo, CmdType
<1>4. CASE AddUser \/ DeleteRow
  BY <1>4 DEF AddUser, DeleteRow, CommandGoes, CmdType
<1>5. CASE DeleteTokens
  <2>1. cmd \in [at : {"tokens"}, email : Email, role : {None}]
    BY <1>5 DEF DeleteTokens, CommandGoes, TypeOK, CmdType, NoCmd
  <2>2. [cmd EXCEPT !.at = "row"] \in CmdType
    BY <2>1 DEF CmdType
  <2> QED BY <1>5, <2>2 DEF DeleteTokens, CommandGoes
<1>6. CASE \/ cmd_set_role \/ cmd_disable_user \/ cmd_reset_oidc_subject \/ cmd_map_group
           \/ cmd_add_admin \/ cmd_disable_admin \/ cmd_enable_admin \/ cmd_delete_admin
  BY <1>1, <1>6 DEF cmd_set_role, cmd_disable_user, cmd_reset_oidc_subject, cmd_map_group,
     cmd_add_admin, cmd_disable_admin, cmd_enable_admin, cmd_delete_admin
<1> QED BY <1>2, <1>3, <1>4, <1>5, <1>6 DEF CommandNext

LEMMA RequestsLeaveCommands == ASSUME RequestNext PROVE cmd' = cmd
BY DEF RequestNext, RequestCalls, InsertUser, Done, Reply, ForAdmin, Go, require_auth, Answer,
   ws_handler, create_ws_ticket, TicketAges, optional_auth, api_create_user, api_set_user_role,
   api_disable_user, api_enable_user, api_delete_user, api_create_group_mapping,
   api_update_group_mapping, api_delete_group_mapping, api_delete_user_sessions,
   create_my_token, admin_create_user_token, revoke_my_token, Expel, InsertToken, RevokeToken,
   api_admin_revoke_user_token

\* The type invariant is inductive.
LEMMA TypeStep == TypeOK /\ [Next]_vars => TypeOK'
<1> SUFFICES ASSUME TypeOK, [Next]_vars PROVE TypeOK'
  OBVIOUS
<1>1. AccountTypes /\ LoginTypes /\ RequestTypes /\ TicketTypes /\ OtherTypes
  BY TypeParts
<1>2. ASSUME AccountTypes', LoginTypes', RequestTypes', TicketTypes', OtherTypes' PROVE TypeOK'
  BY <1>2, TypeParts, PTL
<1>3. ASSUME NEW l \in Login, LoginNext(l) PROVE TypeOK'
  BY <1>3, LoginTypeStep
<1>4. CASE RequestNext \/ CommandNext
  <2>1. AccountTypes'
    BY <1>4, TableCalls, CallType
  <2>2. LoginTypes'
    BY <1>1, <1>4, TableCalls DEF LoginTypes
  <2>3. RequestTypes' /\ TicketTypes'
    <3>1. CASE CommandNext
      BY <1>1, <3>1, CommandStep DEF RequestTypes, TicketTypes, wstickets
    <3> QED BY <1>4, <3>1, RequestTypeStep
  <2>4. seen' = seen /\ now' = now
    BY <1>4, TableCalls
  <2>5. changes' = changes \/ (changes < MaxChanges /\ changes' = changes + 1)
    <3>1. CASE CommandNext
      BY <3>1, CommandStep
    <3>2. CASE RequestNext
      BY <3>2 DEF RequestNext, RequestCalls, InsertUser, Change, Done, Reply, ForAdmin, Go, require_auth, Answer, ws_handler,
         create_ws_ticket, TicketAges, optional_auth, api_create_user, api_set_user_role,
         api_disable_user, api_enable_user, api_delete_user, api_create_group_mapping,
         api_update_group_mapping, api_delete_group_mapping, api_delete_user_sessions,
         create_my_token, admin_create_user_token, revoke_my_token, Expel, InsertToken, RevokeToken,
         api_admin_revoke_user_token
    <3> QED BY <1>4, <3>1, <3>2
  <2>6. \/ mapping' = mapping
        \/ \E g \in Group, r \in Role : mapping' = [mapping EXCEPT ![g] = r]
        \/ \E g, h \in Group, r \in Role : mapping' = [[mapping EXCEPT ![g] = None] EXCEPT ![h] = r]
        \/ \E g \in Group : mapping' = [mapping EXCEPT ![g] = None]
    <3>1. CASE CommandNext
      BY <3>1, CommandStep
    <3>2. CASE RequestNext
      BY <3>2 DEF RequestNext, RequestCalls, InsertUser, Go, require_auth, Answer, ws_handler,
         create_ws_ticket, TicketAges, optional_auth, api_create_user, api_set_user_role,
         api_disable_user, api_enable_user, api_delete_user, api_create_group_mapping,
         api_update_group_mapping, api_delete_group_mapping, api_delete_user_sessions,
         create_my_token, admin_create_user_token, revoke_my_token, Expel, InsertToken, RevokeToken,
         api_admin_revoke_user_token, create_group_mapping, update_group_mapping,
         delete_group_mapping
    <3> QED BY <1>4, <3>1, <3>2
  <2>7. mapping' \in [Group -> Role \cup {None}]
    BY <1>1, <2>6 DEF OtherTypes
  <2>9. cmd' \in CmdType
    <3>1. CASE RequestNext
      <4>1. cmd' = cmd
        BY <3>1, RequestsLeaveCommands
      <4> QED BY <1>1, <4>1 DEF OtherTypes
    <3> QED BY <1>4, <3>1, CommandStep
  <2>8. OtherTypes'
    BY <1>1, <2>4, <2>5, <2>7, <2>9, BoundsAssumption DEF OtherTypes
  <2> QED BY <1>2, <2>1, <2>2, <2>3, <2>8
<1>5. CASE cleanup
  <2>1. AccountTypes'
    BY <1>1, <1>5 DEF cleanup, cleanup_expired_sessions, cleanup_expired_user_tokens, AccountTypes,
       accounts
  <2>2. LoginTypes' /\ RequestTypes' /\ TicketTypes' /\ OtherTypes'
    BY <1>1, <1>5 DEF cleanup, LoginTypes, RequestTypes, TicketTypes, OtherTypes, wstickets
  <2> QED BY <1>2, <2>1, <2>2
<1>6. CASE Tick
  <2>1. AccountTypes' /\ LoginTypes' /\ RequestTypes' /\ TicketTypes'
    BY <1>1, <1>6 DEF Tick, AccountTypes, LoginTypes, RequestTypes, TicketTypes, wstickets,
       accounts, credentials
  <2>2. OtherTypes'
    BY <1>1, <1>6, BoundsAssumption DEF Tick, OtherTypes
  <2> QED BY <1>2, <2>1, <2>2
<1>7. CASE UNCHANGED vars
  BY <1>7 DEF vars, TypeOK
<1> QED BY <1>3, <1>4, <1>5, <1>6, <1>7 DEF Next

-----------------------------------------------------------------------------
(* Accounts and what refers to them *)

\* What any step may do to the accounts: an account keeps its email and,
\* until it is released, the subject it is bound to; a new one has a new id.
Evolves ==
    /\ next <= next'
    /\ \A i \in Id : users'[i] # None =>
          \/ /\ users[i] # None
             /\ users'[i].email = users[i].email
             /\ \/ /\ users'[i].resets = users[i].resets
                   /\ users[i].subject # None => users'[i].subject = users[i].subject
                \/ users'[i].resets = users[i].resets + 1
          \/ i = next /\ next < next'

\* Sessions and tokens only go, and with the account they belong to.
Shrinks ==
    /\ \A l \in Login : session'[l] # None =>
          /\ session'[l] = session[l]
          /\ session[l].user \in Used => session[l].user \in Used'
    /\ \A t \in tokens' :
          /\ t \in tokens
          /\ t.user \in Used => t.user \in Used'

\* No account is added; those that stay have their emails.
NoneAdded ==
    /\ next' = next /\ disputed' = disputed /\ Used' \subseteq Used
    /\ \A i \in Used' : users'[i].email = users[i].email

\* No account gets a subject that it did not have.
NoneBound ==
    \A i \in Id : users'[i] # None =>
        \/ users[i] # None /\ users'[i].subject \in {None, users[i].subject}
        \/ i = next

\* An account that is inserted is a new one.
LEMMA InsertEvolves ==
    ASSUME TypeOK, NEW e \in Email, NEW r \in Role, NEW s \in Subject \cup {None}, NEW rivals,
           Insert(e, r, s, rivals)
    PROVE  /\ Evolves /\ NoneBound /\ next' = next + 1
           /\ Used' = Used \cup {next} /\ users'[next].email = e
           /\ \A i \in Id : i # next => users'[i] = users[i]
<1>1. /\ next \in Id /\ next' = next + 1 /\ users' = [users EXCEPT ![next] = users'[next]]
      /\ users'[next] \in Account /\ users'[next].email = e
      /\ users' \in [Id -> Account \cup {None}]
  BY InsertType DEF TypeOK, Insert, NewId
<1>2. next <= next' /\ next < next'
  BY <1>1 DEF TypeOK
<1>3. \A i \in Id : i # next => users'[i] = users[i]
  BY <1>1 DEF TypeOK
<1>4. Used' = Used \cup {next}
  BY <1>1, <1>3, AccountAssumption DEF Used
<1>5. Evolves /\ NoneBound
  BY <1>2, <1>3 DEF Evolves, NoneBound
<1> QED BY <1>1, <1>3, <1>4, <1>5

\* Accounts that keep their email and their subject.
LEMMA FieldsEvolve ==
    ASSUME TypeOK, next' = next, disputed' = disputed, Used' \subseteq Used,
           \A i \in Used' : /\ users'[i].email = users[i].email
                            /\ \/ /\ users'[i].resets = users[i].resets
                                  /\ users[i].subject # None => users'[i].subject = users[i].subject
                               \/ users'[i].resets = users[i].resets + 1
    PROVE  /\ Evolves /\ NoneAdded
           /\ (\A i \in Used' : users'[i].subject \in {None, users[i].subject}) => NoneBound
<1>1. next <= next'
  BY DEF TypeOK
<1>2. Evolves
  BY <1>1 DEF Evolves, Used
<1>3. NoneAdded
  BY DEF NoneAdded
<1>4. (\A i \in Used' : users'[i].subject \in {None, users[i].subject}) => NoneBound
  BY DEF NoneBound, Used
<1> QED BY <1>2, <1>3, <1>4

\* A role change or a bar keeps the other fields.
LEMMA FieldsKept ==
    ASSUME TypeOK, NEW ids \in SUBSET Used, NEW i \in Id
    PROVE  /\ \A r \in Role :
                 /\ SetRole(ids, r)[i] # None <=> users[i] # None
                 /\ i \in Used => /\ SetRole(ids, r)[i].email = users[i].email
                                  /\ SetRole(ids, r)[i].subject = users[i].subject
                                  /\ SetRole(ids, r)[i].resets = users[i].resets
           /\ \A d \in BOOLEAN :
                 /\ SetDisabled(ids, d)[i] # None <=> users[i] # None
                 /\ i \in Used => /\ SetDisabled(ids, d)[i].email = users[i].email
                                  /\ SetDisabled(ids, d)[i].subject = users[i].subject
                                  /\ SetDisabled(ids, d)[i].resets = users[i].resets
<1>1. CASE i \in ids
  <2>1. users[i] \in Account
    BY <1>1 DEF TypeOK, Used
  <2>2. \A r \in Role : SetRole(ids, r)[i] = [users[i] EXCEPT !.role = r]
    BY <1>1 DEF SetRole
  <2>3. \A d \in BOOLEAN : SetDisabled(ids, d)[i] = [users[i] EXCEPT !.disabled = d]
    BY <1>1 DEF SetDisabled
  <2>4. ASSUME NEW r \in Role
        PROVE  /\ SetRole(ids, r)[i] # None
               /\ SetRole(ids, r)[i].email = users[i].email
               /\ SetRole(ids, r)[i].subject = users[i].subject
               /\ SetRole(ids, r)[i].resets = users[i].resets
    <3> DEFINE b == [users[i] EXCEPT !.role = r]
    <3>1. /\ b \in Account
          /\ b.email = users[i].email /\ b.subject = users[i].subject /\ b.resets = users[i].resets
      BY <2>1 DEF Account
    <3>2. SetRole(ids, r)[i] = b
      BY <2>2
    <3> HIDE DEF b
    <3> QED BY <3>1, <3>2, AccountAssumption
  <2>5. ASSUME NEW d \in BOOLEAN
        PROVE  /\ SetDisabled(ids, d)[i] # None
               /\ SetDisabled(ids, d)[i].email = users[i].email
               /\ SetDisabled(ids, d)[i].subject = users[i].subject
               /\ SetDisabled(ids, d)[i].resets = users[i].resets
    <3> DEFINE b == [users[i] EXCEPT !.disabled = d]
    <3>1. /\ b \in Account
          /\ b.email = users[i].email /\ b.subject = users[i].subject /\ b.resets = users[i].resets
      BY <2>1 DEF Account
    <3>2. SetDisabled(ids, d)[i] = b
      BY <2>3
    <3> HIDE DEF b
    <3> QED BY <3>1, <3>2, AccountAssumption
  <2> QED BY <2>1, <2>4, <2>5, AccountAssumption
<1>2. CASE i \notin ids
  BY <1>2 DEF SetRole, SetDisabled
<1> QED BY <1>1, <1>2

\* So the accounts evolve.
LEMMA RoleOrBarEvolves ==
    ASSUME TypeOK, next' = next, disputed' = disputed, NEW ids \in SUBSET Used,
           \/ \E r \in Role : users' = SetRole(ids, r)
           \/ \E d \in BOOLEAN : users' = SetDisabled(ids, d)
    PROVE  Evolves /\ NoneAdded /\ NoneBound /\ Used' = Used
<1>1. ASSUME NEW i \in Id
      PROVE  /\ users'[i] # None <=> users[i] # None
             /\ i \in Used => /\ users'[i].email = users[i].email
                              /\ users'[i].subject = users[i].subject
                              /\ users'[i].resets = users[i].resets
  <2>1. ASSUME NEW r \in Role, users' = SetRole(ids, r)
        PROVE  /\ users'[i] # None <=> users[i] # None
               /\ i \in Used => /\ users'[i].email = users[i].email
                                /\ users'[i].subject = users[i].subject
                                /\ users'[i].resets = users[i].resets
    BY <2>1, FieldsKept
  <2>2. ASSUME NEW d \in BOOLEAN, users' = SetDisabled(ids, d)
        PROVE  /\ users'[i] # None <=> users[i] # None
               /\ i \in Used => /\ users'[i].email = users[i].email
                                /\ users'[i].subject = users[i].subject
                                /\ users'[i].resets = users[i].resets
    BY <2>2, FieldsKept
  <2> QED BY <2>1, <2>2
<1>2. Used' = Used
  BY <1>1 DEF Used
<1> QED BY <1>1, <1>2, FieldsEvolve DEF Used

\* An account that is released.
LEMMA ReleaseType ==
    ASSUME NEW a \in Account
    PROVE  [a EXCEPT !.subject = None, !.resets = @ + 1]
           = [email |-> a.email, role |-> a.role, disabled |-> a.disabled,
              subject |-> None, resets |-> a.resets + 1]
<1> DEFINE A(s, n) == [email |-> a.email, role |-> a.role, disabled |-> a.disabled,
                       subject |-> s, resets |-> n]
<1>1. a = A(a.subject, a.resets)
  BY DEF Account
<1>2. [a EXCEPT !.subject = None] = A(None, a.resets)
  BY <1>1
<1>3. [A(None, a.resets) EXCEPT !.resets = a.resets + 1] = A(None, a.resets + 1)
  OBVIOUS
<1> HIDE DEF A
<1>4. [a EXCEPT !.subject = None, !.resets = @ + 1] = A(None, a.resets + 1)
  BY <1>2, <1>3, Zenon
<1> QED BY <1>4 DEF A

\* A call on the accounts.
LEMMA CallEvolves ==
    ASSUME TypeOK, AccountCall
    PROVE  Evolves /\ Shrinks /\ NoneAdded /\ NoneBound
<1>2. ASSUME NEW e \in Email, NEW r \in Role, set_user_role(e, r)
      PROVE  Evolves /\ Shrinks /\ NoneAdded /\ NoneBound
  <2>1. Evolves /\ NoneAdded /\ NoneBound /\ Used' = Used
    BY <1>2, LookupType, RoleOrBarEvolves DEF set_user_role
  <2> QED BY <1>2, <2>1 DEF set_user_role, credentials, Shrinks
<1>3. ASSUME NEW e \in Email, disable_user(e) \/ enable_user(e)
      PROVE  Evolves /\ Shrinks /\ NoneAdded /\ NoneBound
  <2>1. Evolves /\ NoneAdded /\ NoneBound /\ Used' = Used
    BY <1>3, LookupType, RoleOrBarEvolves DEF disable_user, enable_user
  <2> QED BY <1>3, <2>1 DEF disable_user, enable_user, credentials, Shrinks
<1>4. ASSUME NEW e \in Email, delete_user(e)
      PROVE  Evolves /\ Shrinks /\ NoneAdded /\ NoneBound
  <2> DEFINE ids == get_user_by_email(e)
  <2>1. \A i \in Id : users'[i] = IF i \in ids THEN None ELSE users[i]
    BY <1>4 DEF delete_user, UsersWithout
  <2>2. Used' = Used \ ids
    BY <2>1 DEF Used
  <2>3. \A i \in Used' : users'[i] = users[i]
    BY <2>1, <2>2 DEF Used
  <2>4. Evolves /\ NoneAdded /\ NoneBound
    BY <1>4, <2>2, <2>3, FieldsEvolve DEF delete_user
  <2>5. Shrinks
    BY <1>4, <2>2 DEF delete_user, Shrinks, SessionsWithout, TokensWithout
  <2> QED BY <2>4, <2>5
<1>5. ASSUME NEW e \in Email, reset_oidc_subject(e)
      PROVE  Evolves /\ Shrinks /\ NoneAdded /\ NoneBound
  <2> DEFINE ids == find_user_for_email(e)
             released(i) == [users[i] EXCEPT !.subject = None, !.resets = @ + 1]
  <2>1. \A i \in Id : users'[i] = IF i \in ids THEN released(i) ELSE users[i]
    BY <1>5 DEF reset_oidc_subject
  <2>2. ASSUME NEW i \in Used
        PROVE  /\ released(i) # None
               /\ released(i).email = users[i].email /\ released(i).resets = users[i].resets + 1
               /\ released(i).subject = None
    <3>1. users[i] \in Account
      BY DEF TypeOK, Used
    <3>2. released(i) = [email |-> users[i].email, role |-> users[i].role,
                         disabled |-> users[i].disabled, subject |-> None,
                         resets |-> users[i].resets + 1]
      BY <3>1, ReleaseType
    <3>3. released(i) \in Account
      BY <3>1, <3>2 DEF Account
    <3> QED BY <3>2, <3>3, AccountAssumption
  <2> HIDE DEF released
  <2>3. ids \subseteq Used
    BY LookupType
  <2>4. Used' = Used
    BY <2>1, <2>2, <2>3 DEF Used
  <2>5. Evolves /\ NoneAdded /\ NoneBound
    BY <1>5, <2>1, <2>2, <2>3, <2>4, FieldsEvolve DEF reset_oidc_subject, Used
  <2> QED BY <1>5, <2>4, <2>5 DEF reset_oidc_subject, credentials, Shrinks
<1>6. CASE \/ \E i \in Id : delete_user_sessions(i)
           \/ \E t \in TokenType : revoke_user_token(t)
           \/ \E a \in Admin : add_admin(a) \/ disable_admin(a) \/ enable_admin(a) \/ delete_admin(a)
           \/ cmd_delete_user \/ DeleteTokens
           \/ UNCHANGED <<accounts, credentials>>
  <2>1. UNCHANGED accounts
    BY <1>6 DEF delete_user_sessions, revoke_user_token, add_admin, disable_admin, enable_admin,
       delete_admin, SetKey, cmd_delete_user, DeleteTokens
  <2>2. Evolves /\ NoneAdded /\ NoneBound /\ Used' = Used
    BY <2>1, FieldsEvolve DEF accounts, Used
  <2>3. Shrinks
    BY <1>6, <2>2 DEF delete_user_sessions, revoke_user_token, add_admin, disable_admin,
       enable_admin, delete_admin, SetKey, credentials, Shrinks, SessionsWithout, TokensWithout,
       cmd_delete_user, DeleteTokens, CommandGoes
  <2> QED BY <2>2, <2>3
<1>7. CASE DeleteRow
  <2> DEFINE ids == get_user_by_email(cmd.email)
  <2>1. UNCHANGED <<next, disputed, session, tokens>>
    BY <1>7 DEF DeleteRow
  <2>2. CASE users' = users
    <3>1. Used' = Used
      BY <2>2 DEF Used
    <3> QED BY <2>1, <2>2, <3>1, FieldsEvolve DEF Shrinks
  <2>3. CASE users' # users
    <3>1. users' = UsersWithout(ids) /\ SessionsWithout(ids) = session /\ TokensWithout(ids) = tokens
      BY <1>7, <2>3 DEF DeleteRow
    <3>2. \A i \in Id : users'[i] = IF i \in ids THEN None ELSE users[i]
      BY <3>1 DEF UsersWithout
    <3>3. Used' = Used \ ids
      BY <3>2 DEF Used
    <3>4. \A i \in Used' : users'[i] = users[i]
      BY <3>2, <3>3 DEF Used
    <3>5. Evolves /\ NoneAdded /\ NoneBound
      BY <2>1, <3>3, <3>4, FieldsEvolve
    <3>6. ASSUME NEW l \in Login, session[l] # None PROVE session[l].user \notin ids
      <4>1. SessionsWithout(ids)[l] = session[l]
        BY <3>1
      <4> QED BY <3>6, <4>1 DEF SessionsWithout
    <3>7. \A u \in tokens : u.user \notin ids
      BY <3>1 DEF TokensWithout
    <3>8. Shrinks
      BY <2>1, <3>3, <3>6, <3>7 DEF Shrinks
    <3> QED BY <3>5, <3>8
  <2> QED BY <2>2, <2>3
<1> QED BY <1>2, <1>3, <1>4, <1>5, <1>6, <1>7 DEF AccountCall

\* Emails stay apart, and those about to be inserted free, while none is
\* added and a new one was looked for.
LEMMA AddsKept ==
    ASSUME EmailsDistinct, AddsFree, NoneAdded,
           \A x \in Adds' : x \in Adds \/ NotTaken(x)
    PROVE  EmailsDistinct' /\ AddsFree'
<1>1. EmailsDistinct'
  BY DEF EmailsDistinct, NoneAdded, Alike
<1>2. AddsFree'
  <2> SUFFICES ASSUME NEW x \in Adds', NEW i \in Used', Folded[users'[i].email] = Folded[x]
               PROVE  Folded[x] \in disputed'
    BY DEF AddsFree
  <2>1. i \in Used /\ Folded[users[i].email] = Folded[x]
    BY DEF NoneAdded
  <2> QED BY <2>1 DEF AddsFree, NotTaken, NoneAdded
<1> QED BY <1>1, <1>2

\* An insertion ends the call that had looked, and disputes what the other
\* process is about to insert.
LEMMA AddsInserted ==
    ASSUME TypeOK, EmailsDistinct, AddsFree,
           NEW e \in Email, NEW r \in Role, NEW s \in Subject \cup {None}, NEW rivals,
           Insert(e, r, s, rivals), e \in Adds, rivals \subseteq Adds, Adds' \subseteq rivals
    PROVE  EmailsDistinct' /\ AddsFree'
<1>1. /\ Used' = Used \cup {next} /\ users'[next].email = e
      /\ \A i \in Id : i # next => users'[i] = users[i]
  BY InsertEvolves
<1>2. disputed \subseteq disputed' /\ \A x \in rivals : Folded[x] = Folded[e] => Folded[e] \in disputed'
  BY DEF Insert
<1>3. \A i \in Used : Folded[users[i].email] = Folded[e] => Folded[e] \in disputed'
  BY <1>2 DEF AddsFree
<1>4. \A i \in Used' : i = next \/ (i \in Used /\ users'[i] = users[i])
  BY <1>1 DEF Used
<1>5. EmailsDistinct'
  <2> SUFFICES ASSUME NEW i \in Used', NEW j \in Used', i # j,
                      Folded[users'[i].email] = Folded[users'[j].email]
               PROVE  Folded[users'[i].email] \in disputed'
    BY DEF EmailsDistinct, Alike
  <2>1. CASE i # next /\ j # next
    BY <1>2, <1>4, <2>1 DEF EmailsDistinct, Alike
  <2>2. CASE i = next \/ j = next
    BY <1>1, <1>3, <1>4, <2>2
  <2> QED BY <2>1, <2>2
<1>6. AddsFree'
  <2> SUFFICES ASSUME NEW x \in Adds', NEW i \in Used', Folded[users'[i].email] = Folded[x]
               PROVE  Folded[x] \in disputed'
    BY DEF AddsFree
  <2>1. x \in rivals /\ x \in Adds
    OBVIOUS
  <2>2. CASE i = next
    BY <1>1, <1>2, <2>1, <2>2
  <2>3. CASE i # next
    BY <1>2, <1>4, <2>1, <2>3 DEF AddsFree
  <2> QED BY <2>2, <2>3
<1> QED BY <1>5, <1>6

\* What is known of the ids and of the logins, which the steps of the
\* accounts keep.
LoginInv == IdsGiven /\ LoginsFollow /\ LoginsOfOnePerson /\ SessionsOfLogins

\* New ids are below the counter too.
LEMMA EvolvedIds == ASSUME TypeOK, TypeOK', IdsGiven, Evolves PROVE IdsGiven'
<1>1. next \in Nat /\ next' \in Nat /\ next <= next'
  BY IdsAreNumbers DEF TypeOK, Evolves
<1>2. ASSUME NEW i \in Used' PROVE i < next'
  <2>1. i \in Nat /\ ((i \in Used) \/ (i = next /\ next < next'))
    BY IdsAreNumbers DEF Used, Evolves
  <2> QED BY <1>1, <2>1 DEF IdsGiven
<1> QED BY <1>2 DEF IdsGiven

\* What was known of a login stays while accounts evolve.
LEMMA FollowStep ==
    ASSUME TypeOK, TypeOK', LoginsFollow, Evolves, NEW l \in Entered
    PROVE  /\ login[l].user < next'
           /\ login[l].user \in Used' =>
                /\ Folded[users'[login[l].user].email] = Folded[login[l].claim.email]
                /\ login[l].epoch <= users'[login[l].user].resets
                /\ login[l].epoch = users'[login[l].user].resets
                   => users'[login[l].user].subject = login[l].claim.subject
<1> DEFINE u == login[l].user
<1>1. next \in Nat /\ next' \in Nat /\ u \in Nat /\ u \in Id
  <2>1. u \in Id
    BY DEF TypeOK, Entered
  <2>2. next \in Nat /\ next' \in Nat
    BY IdsAreNumbers DEF TypeOK
  <2> QED BY <2>1, <2>2, IdsAreNumbers
<1>2. u < next /\ next <= next'
  BY DEF LoginsFollow, Evolves
<1>3. u < next' /\ u # next
  BY <1>1, <1>2
<1>4. ASSUME u \in Used'
      PROVE  /\ Folded[users'[u].email] = Folded[login[l].claim.email]
             /\ login[l].epoch <= users'[u].resets
             /\ login[l].epoch = users'[u].resets
                  => users'[u].subject = login[l].claim.subject
  <2>1. /\ u \in Used /\ users'[u].email = users[u].email
        /\ \/ /\ users'[u].resets = users[u].resets
              /\ users[u].subject # None => users'[u].subject = users[u].subject
           \/ users'[u].resets = users[u].resets + 1
    BY <1>3, <1>4 DEF Evolves, Used
  <2>2. /\ Folded[users[u].email] = Folded[login[l].claim.email]
        /\ login[l].epoch <= users[u].resets
        /\ login[l].epoch = users[u].resets => users[u].subject = login[l].claim.subject
    BY <2>1 DEF LoginsFollow
  <2>3. users[u].resets \in Nat
    BY <2>1 DEF TypeOK, Used, Account
  <2>4. login[l].epoch \in Nat /\ login[l].claim.subject # None
    BY ClaimAssumption, NoneAssumption DEF TypeOK, Entered, LoginType, Away
  <2> HIDE DEF u
  <2> QED BY <2>1, <2>2, <2>3, <2>4
<1> QED BY <1>3, <1>4

\* So where the logins move without being given an account.
LEMMA FollowsKept ==
    ASSUME TypeOK, TypeOK', LoginsFollow, Evolves,
           \A l \in Login : login'[l].at \in {"user", "role", "in"} =>
               /\ login[l].at \in {"user", "role", "in"}
               /\ login'[l].user = login[l].user
               /\ login'[l].claim = login[l].claim
               /\ login'[l].epoch = login[l].epoch
    PROVE  LoginsFollow'
<1> SUFFICES ASSUME NEW l \in Entered'
             PROVE  /\ login'[l].user < next'
                    /\ login'[l].user \in Used' =>
                         /\ Folded[users'[login'[l].user].email] = Folded[login'[l].claim.email]
                         /\ login'[l].epoch <= users'[login'[l].user].resets
                         /\ login'[l].epoch = users'[login'[l].user].resets
                            => users'[login'[l].user].subject = login'[l].claim.subject
  BY DEF LoginsFollow
<1>1. /\ l \in Entered /\ login'[l].user = login[l].user
      /\ login'[l].claim = login[l].claim /\ login'[l].epoch = login[l].epoch
  BY DEF Entered
<1> QED BY <1>1, FollowStep, Zenon

\* Where no login is given an account, and accounts and sessions only
\* evolve, what was known of the logins stays.
LEMMA LoginsKept ==
    ASSUME TypeOK, TypeOK', LoginInv, Evolves, Shrinks,
           \A l \in Login : login'[l].at \in {"user", "role", "in"} =>
               /\ login[l].at \in {"user", "role", "in"}
               /\ login'[l].user = login[l].user
               /\ login'[l].claim = login[l].claim
               /\ login'[l].epoch = login[l].epoch,
           \A l \in Login : session'[l] # None => login'[l].at = "in"
    PROVE  LoginInv'
<1>1. Entered' \subseteq Entered
  BY DEF Entered
<1>2. IdsGiven'
  BY EvolvedIds DEF LoginInv
<1>3. LoginsFollow'
  BY FollowsKept DEF LoginInv
<1>4. LoginsOfOnePerson'
  BY <1>1 DEF LoginInv, LoginsOfOnePerson, Entered
<1>5. SessionsOfLogins'
  BY DEF LoginInv, SessionsOfLogins, Shrinks
<1> QED BY <1>2, <1>3, <1>4, <1>5 DEF LoginInv

\* What upsert_user does after its look.
Binds(l) ==
    /\ login[l].at = "found" /\ login[l].user \in Used
    /\ users' = [users EXCEPT ![login[l].user].subject = login[l].claim.subject]
    /\ Enter(l, login[l].user, users[login[l].user])
    /\ UNCHANGED <<next, disputed, session>> /\ LoginRest
Creates(l) ==
    /\ login[l].at = "found" /\ login[l].user = None
    /\ Insert(login[l].claim.email, DefaultRole, login[l].claim.subject, CommandAdds)
    /\ Enter(l, NewId, users'[NewId])
    /\ UNCHANGED session /\ LoginRest
Fails(l) ==
    /\ login[l].at = "found" /\ Step(l, GoneLogin)
    /\ UNCHANGED <<accounts, session>> /\ LoginRest

LEMMA UpsertCases == ASSUME NEW l \in Login, upsert_user(l) PROVE Binds(l) \/ Creates(l) \/ Fails(l)
BY DEF upsert_user, Binds, Creates, Fails

\* A login that is given an account: the one that upsert_user found, or a
\* new one.
LEMMA UpsertStep ==
    ASSUME TypeOK, TypeOK', LoginInv, FoundFollow, NEW l \in Login, Binds(l) \/ Creates(l)
    PROVE  Evolves /\ Used \subseteq Used' /\ LoginInv'
<1> DEFINE c == login[l].claim
<1>1. /\ login[l].at = "found" /\ login[l] \in LoginType
      /\ c \in Claim /\ c.email \in Email /\ c.subject \in Subject /\ c.subject # None
  BY ClaimAssumption, NoneAssumption DEF Binds, Creates, TypeOK, Away
<1>2. UNCHANGED <<session, tokens>>
  BY DEF Binds, Creates, LoginRest
<1>3. ASSUME NEW i \in Id, i = login[l].user, Binds(l)
      PROVE  /\ Evolves /\ Used' = Used
             /\ Folded[users'[i].email] = Folded[c.email]
             /\ users[i] \in Account /\ users[i].subject \in {None, c.subject}
             /\ i \in Used' /\ users'[i].subject = c.subject /\ users'[i].resets = users[i].resets
  <2>1. i \in Used /\ users[i] \in Account /\ users[i].subject \in {None, c.subject}
        /\ Folded[users[i].email] = Folded[c.email]
    BY <1>3, NoneAssumption DEF TypeOK, Binds, FoundFollow, Used
  <2>2. users'[i] = [users[i] EXCEPT !.subject = c.subject]
    BY <1>3 DEF TypeOK, Binds
  <2>3. /\ users'[i] \in Account /\ users'[i].subject = c.subject
        /\ users'[i].email = users[i].email /\ users'[i].resets = users[i].resets
    BY <1>1, <2>1, <2>2 DEF Account
  <2>4. \A j \in Id : j # i => users'[j] = users[j]
    BY <1>3 DEF TypeOK, Binds
  <2>5. Used' = Used
    BY <2>1, <2>3, <2>4, AccountAssumption DEF Used
  <2>6. \A j \in Used' : /\ users'[j].email = users[j].email
                         /\ users'[j].resets = users[j].resets
                         /\ users[j].subject # None => users'[j].subject = users[j].subject
    BY <2>1, <2>3, <2>4 DEF Used
  <2>7. Evolves
    BY <1>3, <2>5, <2>6, FieldsEvolve DEF Binds
  <2> QED BY <2>1, <2>3, <2>5, <2>7
<1>4. ASSUME NEW i \in Id, NEW a \in Account, Enter(l, i, a), Evolves, Used \subseteq Used',
             i \in Used', i < next', users'[i].resets = a.resets,
             Folded[users'[i].email] = Folded[c.email], users'[i].subject = c.subject,
             \A k \in Entered : login[k].user = i =>
                 i \in Used /\ users[i].resets = a.resets /\ users[i].subject \in {None, c.subject}
      PROVE  LoginInv'
  <2>1. login' = [login EXCEPT ![l] = [at |-> "user", claim |-> c, born |-> login[l].born,
                                       role |-> login[l].role, user |-> i,
                                       barred |-> a.disabled, epoch |-> a.resets]]
    BY <1>1, <1>4, EnterStep
  <2>2. /\ login'[l].at = "user" /\ login'[l].claim = c /\ login'[l].user = i
        /\ login'[l].epoch = a.resets
        /\ \A k \in Login : k # l => login'[k] = login[k]
    BY <2>1 DEF TypeOK
  <2>3. l \notin Entered /\ Entered' = Entered \cup {l}
    BY <1>1, <2>2 DEF Entered
  <2>4. session[l] = None
    BY <1>1 DEF LoginInv, SessionsOfLogins
  <2> DEFINE OthersFollow ==
          \A k \in Entered :
              /\ login[k].user < next'
              /\ login[k].user \in Used' =>
                   /\ Folded[users'[login[k].user].email] = Folded[login[k].claim.email]
                   /\ login[k].epoch <= users'[login[k].user].resets
                   /\ login[k].epoch = users'[login[k].user].resets
                      => users'[login[k].user].subject = login[k].claim.subject
  <2>5. OthersFollow
    <3> SUFFICES ASSUME NEW k \in Entered
                 PROVE  /\ login[k].user < next'
                        /\ login[k].user \in Used' =>
                             /\ Folded[users'[login[k].user].email] = Folded[login[k].claim.email]
                             /\ login[k].epoch <= users'[login[k].user].resets
                             /\ login[k].epoch = users'[login[k].user].resets
                                => users'[login[k].user].subject = login[k].claim.subject
      OBVIOUS
    <3> QED BY <1>4, FollowStep DEF LoginInv
  <2>6. LoginsFollow'
    BY <1>1, <1>4, <2>2, <2>3, <2>5 DEF LoginsFollow, Entered, Account
  <2>7. \A k \in Entered : login[k].user = i /\ login[k].epoch = a.resets
                            => login[k].claim.subject = c.subject
    <3> SUFFICES ASSUME NEW k \in Entered, login[k].user = i, login[k].epoch = a.resets
                 PROVE  login[k].claim.subject = c.subject
      OBVIOUS
    <3>1. users[i].subject = login[k].claim.subject /\ users[i].subject \in {None, c.subject}
      BY <1>4 DEF LoginInv, LoginsFollow
    <3>2. login[k].claim.subject # None
      BY ClaimAssumption, NoneAssumption DEF TypeOK, Entered, Away
    <3> QED BY <3>1, <3>2
  <2>8. LoginsOfOnePerson'
    BY <2>2, <2>3, <2>7 DEF LoginInv, LoginsOfOnePerson, Entered
  <2>9. SessionsOfLogins'
    BY <1>2, <1>4, <2>2, <2>4 DEF LoginInv, SessionsOfLogins
  <2>10. IdsGiven'
    BY <1>4, EvolvedIds DEF LoginInv
  <2> QED BY <2>6, <2>8, <2>9, <2>10 DEF LoginInv
<1>5. next \in Nat /\ Id \subseteq Nat /\ \A k \in Entered : login[k].user < next
  BY IdsAreNumbers DEF TypeOK, LoginInv, LoginsFollow
<1>6. CASE Binds(l)
  <2> DEFINE i == login[l].user
  <2>1. i \in Id /\ Enter(l, i, users[i])
    BY <1>6 DEF Binds, Used
  <2>2. /\ Evolves /\ Used' = Used
        /\ Folded[users'[i].email] = Folded[c.email]
        /\ users[i] \in Account /\ users[i].subject \in {None, c.subject}
        /\ i \in Used' /\ users'[i].subject = c.subject /\ users'[i].resets = users[i].resets
    BY <1>3, <1>6, <2>1
  <2>3. i < next'
    BY <1>6, <2>2 DEF LoginInv, IdsGiven, Binds
  <2> HIDE DEF i
  <2>4. LoginInv'
    BY <1>4, <2>1, <2>2, <2>3
  <2> QED BY <2>2, <2>4
<1>7. CASE Creates(l)
  <2>1. Insert(c.email, DefaultRole, c.subject, CommandAdds) /\ Enter(l, NewId, users'[NewId])
    BY <1>7 DEF Creates
  <2>2. Evolves /\ Used \subseteq Used' /\ next' = next + 1
    BY <1>1, <2>1, InsertEvolves, RoleAssumption
  <2>3. /\ next \in Id /\ users'[next] \in Account /\ users'[next].email = c.email
        /\ users'[next].subject = c.subject /\ Enter(l, next, users'[next])
    <3>1. /\ users \in [Id -> Account \cup {None}] /\ next \in 1..(MaxUsers + 1)
          /\ c.subject \in Subject \cup {None} /\ c.email \in Email /\ DefaultRole \in Role
          /\ disputed \subseteq Email
      BY <1>1, RoleAssumption DEF TypeOK
    <3> HIDE DEF c
    <3>2. /\ next \in Id /\ users'[next] \in Account
          /\ users'[next] = [email |-> c.email, role |-> DefaultRole, disabled |-> FALSE,
                             subject |-> c.subject, resets |-> 0]
      BY <2>1, <3>1, InsertType DEF NewId
    <3> QED BY <2>1, <3>2 DEF NewId
  <2>4. next \in Used' /\ next < next' /\ \A k \in Entered : login[k].user # next
    BY <1>5, <2>2, <2>3, AccountAssumption DEF Used
  <2>5. LoginInv'
    <3> DEFINE a == users'[next]
    <3>1. \A k \in Entered : login[k].user = next =>
              next \in Used /\ users[next].resets = a.resets
              /\ users[next].subject \in {None, c.subject}
      BY <2>4
    <3> HIDE DEF a, c
    <3>2. a \in Account /\ Enter(l, next, a) /\ users'[next].resets = a.resets
      BY <2>3 DEF a
    <3>3. Folded[users'[next].email] = Folded[c.email]
      BY <2>3
    <3> QED BY <1>4, <2>2, <2>3, <2>4, <3>1, <3>2, <3>3
  <2> QED BY <2>2, <2>5
<1> QED BY <1>6, <1>7

\* A login moves on, and nothing that is known of it changes.
Moves(k) ==
    /\ login'[k].at \in {"user", "role", "in"} =>
           /\ login[k].at \in {"user", "role", "in"}
           /\ login'[k].user = login[k].user
           /\ login'[k].claim = login[k].claim
           /\ login'[k].epoch = login[k].epoch
    /\ login[k].at = "in" => login'[k].at = "in"

\* So do all but the one that is given an account.
LEMMA LoginMoves ==
    ASSUME TypeOK, NEW l \in Login, LoginNext(l), ~ Binds(l), ~ Creates(l)
    PROVE  \A k \in Login : Moves(k)
<1>1. login[l] \in LoginType
  BY DEF TypeOK
<1>2. ASSUME NEW x, login' = [login EXCEPT ![l] = x], login[l].at # "in",
             \/ x.at \notin {"user", "role", "in"}
             \/ /\ login[l].at \in {"user", "role", "in"}
                /\ x.user = login[l].user /\ x.claim = login[l].claim
                /\ x.epoch = login[l].epoch
      PROVE  \A k \in Login : Moves(k)
  BY <1>2 DEF TypeOK, Moves
<1>3. CASE oidc_login(l)
  BY <1>3, LeaveStep DEF Moves
<1>4. CASE CallbackFails(l) \/ upsert_refuses(l) \/ Fails(l)
  BY <1>1, <1>2, <1>4, GoneType DEF CallbackFails, upsert_refuses, Fails, Step
<1>5. ASSUME NEW c \in Claim, callback(l, c) PROVE \A k \in Login : Moves(k)
  <2> DEFINE x == [login[l] EXCEPT !.at = "claims"]
             y == [x EXCEPT !.claim = c]
  <2>1. login' = [login EXCEPT ![l] = [y EXCEPT !.born = 0]] /\ login[l].at # "in"
    BY <1>5 DEF callback, Step
  <2>2. y \in LoginType /\ y.at = "claims"
    BY <1>1 DEF LoginType
  <2> HIDE DEF y
  <2>3. [y EXCEPT !.born = 0].at = "claims"
    BY <2>2 DEF LoginType
  <2> QED BY <1>2, <2>1, <2>3
<1>f. CASE upsert_finds(l)
  <2> DEFINE x == [login[l] EXCEPT !.at = "found"]
  <2>1. /\ login[l].at # "in"
        /\ \/ login' = [login EXCEPT ![l] = x]
           \/ \E i \in Id : login' = [login EXCEPT ![l] = [x EXCEPT !.user = i]]
    BY <1>f DEF upsert_finds, Step
  <2>2. x \in LoginType /\ x.at = "found"
    BY <1>1 DEF LoginType
  <2> HIDE DEF x
  <2>3. \A i \in Id : [x EXCEPT !.user = i].at = "found"
    BY <2>2 DEF LoginType
  <2> QED BY <1>2, <2>1, <2>2, <2>3
<1>6. CASE MapRole(l)
  <2> DEFINE r == resolve_role_from_groups(login[l].claim.groups)
  <2>1. login' = [login EXCEPT ![l] = [login[l] EXCEPT !.at = "mapped", !.role = r]]
        /\ login[l].at # "in"
    BY <1>6 DEF MapRole, Step
  <2> HIDE DEF r
  <2>2. [[login[l] EXCEPT !.at = "mapped"] EXCEPT !.role = r].at = "mapped"
    BY <1>1 DEF LoginType
  <2> QED BY <1>2, <2>1, <2>2
<1>7. CASE ApplyRole(l)
  BY <1>1, <1>2, <1>7 DEF ApplyRole, Step, LoginType
<1>8. CASE OpenSession(l)
  <2> DEFINE x == [login[l] EXCEPT !.at = "in"]
  <2>1. /\ login[l].at = "role"
        /\ \/ login' = [login EXCEPT ![l] = GoneLogin]
           \/ login' = [login EXCEPT ![l] = [x EXCEPT !.role = None]]
    BY <1>8 DEF OpenSession, Step
  <2>2. /\ x \in LoginType /\ x.user = login[l].user /\ x.claim = login[l].claim
        /\ x.epoch = login[l].epoch
    BY <1>1 DEF LoginType
  <2> HIDE DEF x
  <2>3. LET y == [x EXCEPT !.role = None] IN
        y.user = x.user /\ y.claim = x.claim /\ y.epoch = x.epoch
    BY <2>2 DEF LoginType
  <2> QED BY <1>2, <2>1, <2>2, <2>3, GoneType
<1>9. CASE logout(l)
  BY <1>9 DEF logout, Moves
<1> QED BY <1>3, <1>4, <1>5, <1>6, <1>f, <1>7, <1>8, <1>9, UpsertCases DEF LoginNext

\* The steps of a login keep what is known of the logins and the accounts.
LEMMA LoginInvStep ==
    ASSUME TypeOK, TypeOK', LoginInv, FoundFollow, NEW l \in Login, LoginNext(l)
    PROVE  /\ Evolves /\ Used \subseteq Used' /\ LoginInv'
           /\ ~ Binds(l) /\ ~ Creates(l) => NoneAdded /\ NoneBound
<1>1. CASE Binds(l) \/ Creates(l)
  BY <1>1, UpsertStep
<1>2. CASE ~ Binds(l) /\ ~ Creates(l)
  <2>1. Evolves /\ NoneAdded /\ NoneBound /\ Used' = Used
    <3>1. CASE ApplyRole(l) /\ login[l].role # None
      <4>1. login[l].role \in Role /\ login[l].claim.email \in Email
        <5>1. login[l] \in LoginType /\ login[l].claim \in Claim
          BY <3>1 DEF ApplyRole, TypeOK, Away
        <5> QED BY <3>1, <5>1, ClaimAssumption DEF LoginType
      <4> QED BY <3>1, <4>1, LookupType, RoleOrBarEvolves DEF ApplyRole
    <3>2. CASE ~ (ApplyRole(l) /\ login[l].role # None)
      <4>1. users' = users /\ next' = next /\ disputed' = disputed
        BY <1>2, <3>2, UpsertCases DEF LoginNext, oidc_login, CallbackFails, callback, MapRole,
           upsert_finds, upsert_refuses, Fails, ApplyRole, OpenSession, logout, accounts
      <4> QED BY <4>1, FieldsEvolve DEF Used
    <3> QED BY <3>1, <3>2
  <2>2. \A k \in Login : Moves(k)
    BY <1>2, LoginMoves
  <2>3. tokens' = tokens
    BY <1>2, UpsertCases DEF LoginNext, oidc_login, CallbackFails, callback, MapRole, upsert_finds,
       upsert_refuses, Fails, ApplyRole, OpenSession, logout, LoginRest
  <2>4. ASSUME \A k \in Login : session'[k] \in {session[k], None}
        PROVE  LoginInv'
    <3>1. Shrinks
      BY <2>1, <2>3, <2>4 DEF Shrinks
    <3>2. \A k \in Login : session'[k] # None => login'[k].at = "in"
      BY <2>2, <2>4 DEF LoginInv, SessionsOfLogins, Moves
    <3> QED BY <2>1, <2>2, <3>1, <3>2, LoginsKept DEF Moves
  <2>5. CASE session' = session \/ logout(l)
    <3>1. \A k \in Login : session'[k] \in {session[k], None}
      BY <2>5 DEF logout, TypeOK
    <3> QED BY <2>1, <2>4, <3>1
  <2>6. CASE session' # session /\ OpenSession(l)
    <3>1. /\ login[l].user \in Used /\ login[l].at = "role" /\ login'[l].at = "in"
          /\ session' = [session EXCEPT ![l] = [user |-> login[l].user, exp |-> now + SessionTtl,
                                                epoch |-> login[l].epoch]]
      <4>1. /\ login[l].user \in Used /\ login[l].at = "role"
            /\ Step(l, [login[l] EXCEPT !.at = "in", !.role = None])
            /\ session' = [session EXCEPT ![l] = [user |-> login[l].user, exp |-> now + SessionTtl,
                                                  epoch |-> login[l].epoch]]
        BY <2>6 DEF OpenSession, create_auth_session, ForeignKey
      <4>2. login[l] \in LoginType
        BY DEF TypeOK
      <4> DEFINE x == [login[l] EXCEPT !.at = "in"]
      <4>3. x \in LoginType /\ x.at = "in"
        BY <4>2 DEF LoginType
      <4>4. login'[l] = [x EXCEPT !.role = None]
        BY <4>1 DEF Step, TypeOK
      <4> HIDE DEF x
      <4>5. login'[l].at = "in"
        BY <4>3, <4>4 DEF LoginType
      <4> QED BY <4>1, <4>5
    <3>2. Evolves /\ LoginsFollow' /\ LoginsOfOnePerson' /\ IdsGiven'
      <4>1. IdsGiven'
        BY <2>1, EvolvedIds DEF LoginInv
      <4>2. Entered' \subseteq Entered
        BY <2>2 DEF Moves, Entered
      <4>3. LoginsOfOnePerson'
        BY <2>2, <4>2 DEF LoginInv, LoginsOfOnePerson, Moves, Entered
      <4>4. LoginsFollow'
        BY <2>1, <2>2, FollowsKept DEF LoginInv, Moves
      <4> QED BY <2>1, <4>1, <4>3, <4>4
    <3>3. SessionsOfLogins'
      <4>1. Moves(l) /\ session'[l].user = login[l].user /\ session'[l].epoch = login[l].epoch
        BY <2>2, <3>1 DEF TypeOK
      <4>2. \A k \in Login : k # l => session'[k] = session[k]
        BY <3>1 DEF TypeOK
      <4> SUFFICES ASSUME NEW k \in Login, session'[k] # None
                   PROVE  /\ login'[k].at = "in"
                          /\ session'[k].user = login'[k].user
                          /\ session'[k].epoch = login'[k].epoch
                          /\ session'[k].user \in Used'
        BY DEF SessionsOfLogins
      <4>3. CASE k = l
        BY <2>1, <3>1, <4>1, <4>3 DEF Moves
      <4>4. CASE k # l
        <5>1. /\ session[k] # None /\ session'[k] = session[k] /\ login[k].at = "in"
              /\ session[k].user = login[k].user /\ session[k].epoch = login[k].epoch
              /\ session[k].user \in Used
          BY <4>2, <4>4 DEF LoginInv, SessionsOfLogins
        <5> QED BY <2>1, <2>2, <5>1 DEF Moves
      <4> QED BY <4>3, <4>4
    <3> QED BY <2>1, <3>2, <3>3 DEF LoginInv
  <2>7. session' = session \/ logout(l) \/ OpenSession(l)
    BY <1>2, UpsertCases DEF LoginNext, oidc_login, CallbackFails, callback, MapRole, upsert_finds,
       upsert_refuses, Fails, ApplyRole
  <2> QED BY <2>1, <2>5, <2>6, <2>7
<1> QED BY <1>1, <1>2

\* A login that is not in upsert_user stays so; one that is does not move
\* with another.
Stays(k) ==
    /\ login'[k].at = "found" => login'[k] = login[k]
    /\ login'[k].at \in {"new", "pending", "claims", "mapped", "gone"} => login'[k].user = None

\* So do all but the one that looks for its account.
LEMMA LoginStays ==
    ASSUME TypeOK, FoundFollow, NEW l \in Login, LoginNext(l)
    PROVE  \A k \in Login : Stays(k) \/ (k = l /\ Unlocked /\ upsert_finds(l))
<1>1. \A k \in Login : login[k] \in LoginType
  BY DEF TypeOK
<1>2. ASSUME NEW x, login' = [login EXCEPT ![l] = x], x.at # "found",
             x.at \in {"new", "pending", "claims", "mapped", "gone"} => x.user = None
      PROVE  \A k \in Login : Stays(k)
  <2> SUFFICES ASSUME NEW k \in Login PROVE Stays(k)
    OBVIOUS
  <2>1. CASE k = l
    BY <1>2, <2>1 DEF TypeOK, Stays
  <2>2. CASE k # l
    BY <1>2, <2>2 DEF TypeOK, Stays, FoundFollow
  <2> QED BY <2>1, <2>2
<1>3. CASE oidc_login(l)
  <2> SUFFICES ASSUME NEW k \in Login PROVE Stays(k)
    OBVIOUS
  <2>1. \/ login'[k] = login[k]
        \/ /\ login[k].at \in {"new", "pending"} /\ login'[k].at \in {"pending", "gone"}
           /\ login'[k].user \in {login[k].user, None}
    BY <1>3, LeaveStep
  <2> QED BY <2>1 DEF Stays, FoundFollow
<1>4. CASE CallbackFails(l) \/ upsert_refuses(l) \/ Fails(l)
  BY <1>2, <1>4, GoneType DEF CallbackFails, upsert_refuses, Fails, Step
<1>5. ASSUME NEW c \in Claim, callback(l, c) PROVE \A k \in Login : Stays(k)
  <2> DEFINE x == [login[l] EXCEPT !.at = "claims"]
             y == [x EXCEPT !.claim = c]
  <2>1. login' = [login EXCEPT ![l] = [y EXCEPT !.born = 0]] /\ login[l].user = None
    BY <1>5 DEF callback, Step, FoundFollow
  <2>2. y \in LoginType /\ y.at = "claims" /\ y.user = login[l].user
    BY <1>1 DEF LoginType
  <2> HIDE DEF y
  <2>3. [y EXCEPT !.born = 0].at = "claims" /\ [y EXCEPT !.born = 0].user = y.user
    BY <2>2 DEF LoginType
  <2> QED BY <1>2, <2>1, <2>2, <2>3
<1>6. CASE MapRole(l)
  <2> DEFINE r == resolve_role_from_groups(login[l].claim.groups)
             x == [login[l] EXCEPT !.at = "mapped"]
  <2>1. login' = [login EXCEPT ![l] = [x EXCEPT !.role = r]] /\ login[l].user = None
    BY <1>6 DEF MapRole, Step, FoundFollow
  <2>2. x \in LoginType /\ x.at = "mapped" /\ x.user = login[l].user
    BY <1>1 DEF LoginType
  <2> HIDE DEF r, x
  <2>3. [x EXCEPT !.role = r].at = "mapped" /\ [x EXCEPT !.role = r].user = x.user
    BY <2>2 DEF LoginType
  <2> QED BY <1>2, <2>1, <2>2, <2>3
<1>7. CASE ApplyRole(l)
  <2> DEFINE x == [login[l] EXCEPT !.at = "role"]
  <2>1. login' = [login EXCEPT ![l] = x]
    BY <1>7 DEF ApplyRole, Step
  <2>2. x.at = "role"
    BY <1>1 DEF LoginType
  <2> HIDE DEF x
  <2> QED BY <1>2, <2>1, <2>2
<1>8. CASE OpenSession(l)
  <2> DEFINE x == [login[l] EXCEPT !.at = "in"]
  <2>1. \/ login' = [login EXCEPT ![l] = GoneLogin]
        \/ login' = [login EXCEPT ![l] = [x EXCEPT !.role = None]]
    BY <1>8 DEF OpenSession, Step
  <2>2. x \in LoginType /\ x.at = "in"
    BY <1>1 DEF LoginType
  <2> HIDE DEF x
  <2>3. [x EXCEPT !.role = None].at = "in"
    BY <2>2 DEF LoginType
  <2> QED BY <1>2, <2>1, <2>3, GoneType
<1>9. CASE logout(l)
  BY <1>9 DEF logout, Stays, FoundFollow
<1>10. ASSUME NEW i, NEW a, Enter(l, i, a) PROVE \A k \in Login : Stays(k)
  <2> DEFINE x == [at |-> "user", claim |-> login[l].claim, born |-> login[l].born,
                   role |-> login[l].role, user |-> i, barred |-> a.disabled, epoch |-> a.resets]
  <2>1. login' = [login EXCEPT ![l] = x]
    BY <1>1, <1>10, EnterStep
  <2>2. x.at = "user"
    OBVIOUS
  <2> HIDE DEF x
  <2> QED BY <1>2, <2>1, <2>2
<1>11. CASE Binds(l) \/ Creates(l)
  BY <1>10, <1>11 DEF Binds, Creates
<1>12. CASE Unlocked /\ upsert_finds(l)
  <2> SUFFICES ASSUME NEW k \in Login, k # l PROVE Stays(k)
    BY <1>12
  <2>1. login'[k] = login[k]
    BY <1>12 DEF upsert_finds, Step, TypeOK
  <2> QED BY <2>1 DEF Stays, FoundFollow
<1> QED
  BY <1>3, <1>4, <1>5, <1>6, <1>7, <1>8, <1>9, <1>11, <1>12, UpsertCases DEF LoginNext

\* What is known of the logins that are in upsert_user.
LEMMA FoundKept ==
    ASSUME TypeOK, TypeOK', FoundFollow, Evolves, NoneBound, \A k \in Login : Stays(k)
    PROVE  FoundFollow'
<1> SUFFICES ASSUME NEW k \in Login, login'[k].at = "found", login'[k].user # None
             PROVE  /\ login'[k].user < next'
                    /\ login'[k].user \in Used' =>
                          /\ Folded[users'[login'[k].user].email] = Folded[login'[k].claim.email]
                          /\ users'[login'[k].user].subject \in {None, login'[k].claim.subject}
  BY DEF FoundFollow, Stays
<1> DEFINE u == login[k].user
<1>1. login'[k] = login[k] /\ login[k].at = "found"
  BY DEF Stays
<1>2. u \in Id /\ u < next
  BY <1>1 DEF FoundFollow, TypeOK, LoginType
<1>3. next \in Nat /\ next' \in Nat /\ u \in Nat /\ next <= next'
  BY <1>2, IdsAreNumbers DEF TypeOK, Evolves
<1>4. u < next' /\ u # next
  BY <1>2, <1>3
<1>5. ASSUME u \in Used'
      PROVE  /\ Folded[users'[u].email] = Folded[login[k].claim.email]
             /\ users'[u].subject \in {None, login[k].claim.subject}
  <2>1. u \in Used /\ users'[u].email = users[u].email /\ users'[u].subject \in {None, users[u].subject}
    BY <1>2, <1>4, <1>5 DEF Evolves, NoneBound, Used
  <2>2. /\ Folded[users[u].email] = Folded[login[k].claim.email]
        /\ users[u].subject \in {None, login[k].claim.subject}
    BY <1>1, <2>1 DEF FoundFollow
  <2> QED BY <2>1, <2>2
<1> QED BY <1>1, <1>4, <1>5

\* What upsert_user finds, and what it is about to insert.
LEMMA FindsStep ==
    ASSUME TypeOK, TypeOK', IdsGiven, FoundFollow, NEW l \in Login, upsert_finds(l)
    PROVE  FoundFollow' /\ \A x \in ServerAdds' : x \in ServerAdds \/ NotTaken(x)
<1> DEFINE c == login[l].claim
<1>1. /\ UNCHANGED <<accounts, req>> /\ login[l].at = "mapped" /\ login[l].user = None
      /\ \A k \in Login : k # l => login'[k] = login[k]
  BY DEF upsert_finds, LoginRest, Step, FoundFollow, TypeOK
<1>2. login[l] \in LoginType
  BY DEF TypeOK
<1>3. /\ login'[l].at = "found" /\ login'[l].claim = c
      /\ \/ /\ login'[l].user \in Id
            /\ Found(c) = {login'[l].user} /\ SameSubject(c)
         \/ login'[l].user = None /\ Found(c) = {}
  <2> DEFINE x == [login[l] EXCEPT !.at = "found"]
  <2>1. x \in LoginType /\ x.at = "found" /\ x.claim = c /\ x.user = None
    BY <1>1, <1>2 DEF LoginType
  <2>2. \/ login' = [login EXCEPT ![l] = x] /\ Found(c) = {}
        \/ \E i \in Id : /\ login' = [login EXCEPT ![l] = [x EXCEPT !.user = i]]
                         /\ Found(c) = {i} /\ SameSubject(c)
    BY DEF upsert_finds, Step
  <2> HIDE DEF x, c
  <2>3. \A i \in Id : LET y == [x EXCEPT !.user = i] IN
            y.at = "found" /\ y.claim = c /\ y.user = i
    BY <2>1 DEF LoginType
  <2>4. login \in [Login -> LoginType]
    BY DEF TypeOK
  <2>5. CASE login' = [login EXCEPT ![l] = x] /\ Found(c) = {}
    BY <2>1, <2>4, <2>5
  <2>6. ASSUME NEW i \in Id, login' = [login EXCEPT ![l] = [x EXCEPT !.user = i]],
               Found(c) = {i}, SameSubject(c)
        PROVE  /\ login'[l].at = "found" /\ login'[l].claim = c
               /\ login'[l].user = i
    BY <2>3, <2>4, <2>6
  <2> QED BY <2>2, <2>5, <2>6
<1>4. \A i \in Found(c) : i \in Used /\ Folded[users[i].email] = Folded[c.email]
  BY DEF Found, find_user_for_email
<1>5. Used' = Used /\ users' = users /\ next' = next
  BY <1>1 DEF accounts, Used
<1>6. FoundFollow'
  <2> SUFFICES ASSUME NEW k \in Login
               PROVE  /\ login'[k].at \in {"new", "pending", "claims", "mapped", "gone"}
                             => login'[k].user = None
                      /\ login'[k].at = "found" /\ login'[k].user # None =>
                         /\ login'[k].user < next'
                         /\ login'[k].user \in Used' =>
                               /\ Folded[users'[login'[k].user].email] = Folded[login'[k].claim.email]
                               /\ users'[login'[k].user].subject \in {None, login'[k].claim.subject}
    BY DEF FoundFollow
  <2>1. CASE k = l
    <3>1. ASSUME login'[l].user # None
          PROVE  /\ login'[l].user \in Used /\ login'[l].user < next
                 /\ Folded[users[login'[l].user].email] = Folded[c.email]
                 /\ users[login'[l].user].subject \in {None, c.subject}
      <4>1. login'[l].user \in Found(c) /\ SameSubject(c)
        BY <1>3, <3>1
      <4> QED BY <1>4, <4>1 DEF SameSubject, IdsGiven
    <3> QED BY <1>3, <1>5, <2>1, <3>1
  <2>2. CASE k # l
    BY <1>1, <1>5, <2>2 DEF FoundFollow
  <2> QED BY <2>1, <2>2
<1>7. ASSUME NEW x \in ServerAdds', x \notin ServerAdds PROVE NotTaken(x)
  <2>1. PICK k \in Login : login'[k].at = "found" /\ login'[k].user = None
                            /\ x = login'[k].claim.email
    BY <1>1, <1>7 DEF ServerAdds
  <2>2. k = l
    BY <1>1, <1>7, <2>1 DEF ServerAdds
  <2>3. Found(c) = {} /\ x = c.email
    BY <1>3, <2>1, <2>2, NoneAssumption
  <2> QED BY <2>3 DEF Found, find_user_for_email, NotTaken
<1> QED BY <1>6, <1>7

\* The emails and what is about to be inserted, after the step of a login.
LEMMA LoginAdds ==
    ASSUME TypeOK, TypeOK', LoginInv, FoundFollow, OneInCall, EmailsDistinct, AddsFree,
           NEW l \in Login, LoginNext(l)
    PROVE  FoundFollow' /\ OneInCall' /\ EmailsDistinct' /\ AddsFree'
<1>1. \A k \in Login : Stays(k) \/ (k = l /\ Unlocked /\ upsert_finds(l))
  BY LoginStays
<1>2. UNCHANGED <<req, cmd>>
  BY DEF LoginNext, oidc_login, CallbackFails, callback, MapRole, upsert_finds, upsert_user,
     upsert_refuses, ApplyRole, OpenSession, logout, LoginRest
<1>3. /\ Evolves
      /\ ~ Binds(l) /\ ~ Creates(l) => NoneAdded /\ NoneBound
  BY LoginInvStep
<1>4. CommandAdds' = CommandAdds
  BY <1>2 DEF CommandAdds
<1>5. OneInCall'
  BY <1>1, <1>2 DEF OneInCall, Stays, Unlocked
<1>6. ASSUME \A k \in Login : Stays(k) PROVE ServerAdds' \subseteq ServerAdds
  BY <1>2, <1>6 DEF ServerAdds, Stays
<1>7. CASE Unlocked /\ upsert_finds(l)
  <2>1. FoundFollow' /\ \A x \in ServerAdds' : x \in ServerAdds \/ NotTaken(x)
    BY <1>7, FindsStep DEF LoginInv
  <2>2. ~ Binds(l) /\ ~ Creates(l)
    BY <1>7 DEF upsert_finds, Binds, Creates
  <2>3. EmailsDistinct' /\ AddsFree'
    BY <1>3, <1>4, <2>1, <2>2, AddsKept DEF Adds
  <2> QED BY <1>5, <2>1, <2>3
<1>8. CASE ~ (Unlocked /\ upsert_finds(l)) /\ ~ Binds(l) /\ ~ Creates(l)
  <2>1. \A k \in Login : Stays(k)
    BY <1>1, <1>8
  <2>2. FoundFollow'
    BY <1>3, <1>8, <2>1, FoundKept
  <2>3. EmailsDistinct' /\ AddsFree'
    BY <1>3, <1>4, <1>6, <1>8, <2>1, AddsKept DEF Adds
  <2> QED BY <1>5, <2>2, <2>3
<1>9. CASE Binds(l) \/ Creates(l)
  <2>1. login[l].at = "found"
    BY <1>9 DEF Binds, Creates
  <2>2. \A k \in Login : Stays(k)
    BY <1>1, <2>1 DEF upsert_finds
  <2>3. login'[l].at = "user"
    <3>1. login[l] \in LoginType /\ \E i, a : Enter(l, i, a)
      BY <1>9 DEF Binds, Creates, TypeOK
    <3>2. PICK i, a : Enter(l, i, a)
      BY <3>1
    <3> DEFINE x == [at |-> "user", claim |-> login[l].claim, born |-> login[l].born,
                     role |-> login[l].role, user |-> i, barred |-> a.disabled, epoch |-> a.resets]
    <3>3. login' = [login EXCEPT ![l] = x]
      BY <3>1, <3>2, EnterStep
    <3>4. x.at = "user"
      OBVIOUS
    <3> HIDE DEF x
    <3> QED BY <3>3, <3>4 DEF TypeOK
  <2>4. \A k \in Login : login'[k].at # "found"
    BY <2>1, <2>2, <2>3 DEF Stays, OneInCall
  <2>5. FoundFollow'
    BY <2>2, <2>4 DEF FoundFollow, Stays
  <2>6. ServerAdds' = {}
    BY <1>2, <2>1, <2>4 DEF ServerAdds, OneInCall
  <2>7. CASE Binds(l)
    <3> DEFINE i == login[l].user
    <3>1. i \in Used /\ users[i] \in Account
      BY <2>7 DEF Binds, Used, TypeOK
    <3>2. NoneAdded
      <4>1. users'[i] = [users[i] EXCEPT !.subject = login[l].claim.subject]
            /\ \A j \in Id : j # i => users'[j] = users[j]
        BY <2>7 DEF Binds, TypeOK, Used
      <4>2. users'[i].email = users[i].email
        BY <3>1, <4>1 DEF Account
      <4>3. Used' \subseteq Used
        BY <3>1, <4>1 DEF Used
      <4> HIDE DEF i
      <4>4. \A j \in Used' : users'[j].email = users[j].email
        BY <4>1, <4>2 DEF Used
      <4> QED BY <2>7, <4>3, <4>4 DEF NoneAdded, Binds
    <3>3. EmailsDistinct' /\ AddsFree'
      BY <1>4, <2>6, <3>2, AddsKept DEF Adds
    <3> QED BY <1>5, <2>5, <3>3
  <2>8. CASE Creates(l)
    <3> DEFINE c == login[l].claim
    <3>1. c \in Claim /\ c.email \in Email /\ c.subject \in Subject
      BY <2>1, ClaimAssumption DEF TypeOK, Away
    <3>2. Insert(c.email, DefaultRole, c.subject, CommandAdds) /\ c.email \in ServerAdds
      BY <2>8 DEF Creates, ServerAdds
    <3> HIDE DEF c
    <3>3. EmailsDistinct' /\ AddsFree'
      BY <1>4, <2>6, <3>1, <3>2, AddsInserted, RoleAssumption DEF Adds
    <3> QED BY <1>5, <2>5, <3>3
  <2> QED BY <1>9, <2>7, <2>8
<1> QED BY <1>7, <1>8, <1>9

-----------------------------------------------------------------------------
(* Requests, commands and the hourly task *)

\* The token that is about to be inserted is of a user who was just found,
\* or is still the one it was.
LEMMA TokenRequest ==
    ASSUME TypeOK, RequestNext \/ CommandNext, req'.at = "token"
    PROVE  \/ req' = req
           \/ /\ UNCHANGED <<accounts, tokens>>
              /\ req'.row.user \in Used /\ users[req'.row.user].email = req'.row.owner
<1>1. CASE CommandNext
  BY <1>1, CommandStep
<1>c. CASE api_create_user
  BY <1>c DEF api_create_user, Caller, NoReq
<1>2. ~ Done
  BY DEF Done, NoReq
<1>3. ASSUME RequestBy("authed") \/ RequestBy("socket") PROVE FALSE
  BY <1>3, RequestType
<1>4. CASE require_auth
  BY <1>3, <1>4 DEF require_auth
<1>5. CASE optional_auth
  BY <1>3, <1>5 DEF optional_auth, Caller, NoReq
<1>6. CASE TicketAges
  BY <1>6 DEF TicketAges
<1>7. req \in ReqType
  BY DEF TypeOK
<1>8. ASSUME NEW at, NEW i, NEW row, Go(at, i, row)
      PROVE  /\ req'.at = at /\ req'.row = row
             /\ UNCHANGED <<accounts, tokens>>
  BY <1>7, <1>8, GoType DEF Go, credentials
<1>9. CASE api_delete_user_sessions \/ revoke_my_token
  BY <1>8, <1>9 DEF api_delete_user_sessions, revoke_my_token
<1>10. ASSUME NEW e, NEW i \in get_user_by_email(e), NEW row,
              row.user = i, row.owner = e, Go("token", i, row)
       PROVE  /\ UNCHANGED <<accounts, tokens>>
              /\ req'.row.user \in Used /\ users[req'.row.user].email = req'.row.owner
  BY <1>8, <1>10 DEF get_user_by_email
<1>11. CASE create_my_token
  <2>1. PICK n \in Name, max \in Role \cup {None}, x \in Expiry \cup {None} :
            \E i \in get_user_by_email(req.email) :
                Go("token", i, [user |-> i, name |-> n, max |-> max, expires |-> x,
                                owner |-> req.email])
    BY <1>11 DEF create_my_token
  <2> QED BY <1>10, <2>1
<1>12. CASE admin_create_user_token
  <2>1. PICK e \in Email, n \in Name, max \in Role \cup {None}, x \in Expiry \cup {None} :
            \E i \in get_user_by_email(e) :
                Go("token", i, [user |-> i, name |-> n, max |-> max, expires |-> x,
                                owner |-> e])
    BY <1>12 DEF admin_create_user_token
  <2> QED BY <1>10, <2>1
<1> QED
  BY <1>1, <1>c, <1>2, <1>4, <1>5, <1>6, <1>9, <1>11, <1>12 DEF RequestNext, RequestCalls, Answer,
     ws_handler, create_ws_ticket, Expel, InsertToken, RevokeToken, InsertUser, api_set_user_role,
     api_disable_user, api_enable_user, api_delete_user, api_create_group_mapping,
     api_update_group_mapping, api_delete_group_mapping, api_admin_revoke_user_token,
     ForAdmin, Reply

\* So is the user that is about to be inserted.
LEMMA CreateRequest ==
    ASSUME TypeOK, RequestNext, req'.at = "create"
    PROVE  \/ req' = req
           \/ Unlocked /\ NotTaken(req'.email)
<1>c. CASE Unlocked /\ api_create_user
  BY <1>c DEF api_create_user, Caller, NoReq
<1>2. ~ Done
  BY DEF Done, NoReq
<1>3. ASSUME RequestBy("authed") \/ RequestBy("socket") PROVE FALSE
  BY <1>3, RequestType
<1>4. CASE require_auth
  BY <1>3, <1>4 DEF require_auth
<1>5. CASE optional_auth
  BY <1>3, <1>5 DEF optional_auth, Caller, NoReq
<1>6. CASE TicketAges
  BY <1>6 DEF TicketAges
<1>7. req \in ReqType
  BY DEF TypeOK
<1>8. ASSUME NEW at, NEW i, NEW row, Go(at, i, row) PROVE req'.at = at
  BY <1>7, <1>8, GoType DEF Go
<1>9. CASE api_delete_user_sessions \/ revoke_my_token
  BY <1>8, <1>9 DEF api_delete_user_sessions, revoke_my_token
<1>11. CASE create_my_token
  <2>1. \E i, row : Go("token", i, row)
    BY <1>11 DEF create_my_token
  <2> QED BY <1>8, <2>1
<1>12. CASE admin_create_user_token
  <2>1. \E i, row : Go("token", i, row)
    BY <1>12 DEF admin_create_user_token
  <2> QED BY <1>8, <2>1
<1> QED
  BY <1>c, <1>2, <1>4, <1>5, <1>6, <1>9, <1>11, <1>12 DEF RequestNext, RequestCalls, Answer,
     ws_handler, create_ws_ticket, Expel, InsertToken, RevokeToken, InsertUser, api_set_user_role,
     api_disable_user, api_enable_user, api_delete_user, api_create_group_mapping,
     api_update_group_mapping, api_delete_group_mapping, api_admin_revoke_user_token,
     ForAdmin, Reply

\* And so is the one that a command is about to insert.
LEMMA CreateCommand ==
    ASSUME TypeOK, CommandNext, cmd'.at = "create"
    PROVE  cmd' = cmd \/ NotTaken(cmd'.email)
<1>1. CASE cmd_add_user
  BY <1>1 DEF cmd_add_user, CommandTo
<1>2. CASE cmd_delete_user
  BY <1>2 DEF cmd_delete_user, CommandTo
<1>3. CASE AddUser \/ DeleteRow
  BY <1>3 DEF AddUser, DeleteRow, CommandGoes, NoCmd
<1>4. CASE DeleteTokens
  <2>1. cmd \in [at : {"tokens"}, email : Email, role : {None}]
    BY <1>4 DEF DeleteTokens, CommandGoes, TypeOK, CmdType, NoCmd
  <2> QED BY <1>4, <2>1 DEF DeleteTokens, CommandGoes
<1> QED
  BY <1>1, <1>2, <1>3, <1>4 DEF CommandNext, cmd_set_role, cmd_disable_user, cmd_reset_oidc_subject,
     cmd_map_group, cmd_add_admin, cmd_disable_admin, cmd_enable_admin, cmd_delete_admin, Command

\* The emails and what is about to be inserted, after the step of a request
\* or a command.
LEMMA CallAdds ==
    ASSUME TypeOK, TypeOK', FoundFollow, OneInCall, EmailsDistinct, AddsFree,
           RequestNext \/ CommandNext
    PROVE  /\ Evolves
           /\ FoundFollow' /\ OneInCall' /\ EmailsDistinct' /\ AddsFree'
<1>1. login' = login
  BY TableCalls
<1>2. \A k \in Login : Stays(k)
  BY <1>1 DEF Stays, FoundFollow
<1>3. \/ CommandNext /\ req' = req
      \/ RequestNext /\ cmd' = cmd
  BY CommandStep, RequestsLeaveCommands
<1>4. ASSUME req'.at = "create" PROVE req' = req \/ (Unlocked /\ NotTaken(req'.email))
  BY <1>3, <1>4, CreateRequest
<1>5. ASSUME cmd'.at = "create" PROVE cmd' = cmd \/ NotTaken(cmd'.email)
  BY <1>3, <1>5, CreateCommand
<1>6. OneInCall'
  BY <1>1, <1>4 DEF OneInCall, Unlocked
<1>7. \A x \in Adds' : x \in Adds \/ NotTaken(x)
  <2>1. \A x \in ServerAdds' : x \in ServerAdds \/ NotTaken(x)
    BY <1>1, <1>4 DEF ServerAdds
  <2>2. \A x \in CommandAdds' : x \in CommandAdds \/ NotTaken(x)
    BY <1>5 DEF CommandAdds
  <2> QED BY <2>1, <2>2 DEF Adds
<1>8. ASSUME NoneAdded, NoneBound, Evolves
      PROVE  Evolves /\ FoundFollow' /\ OneInCall' /\ EmailsDistinct' /\ AddsFree'
  BY <1>2, <1>6, <1>7, <1>8, AddsKept, FoundKept
<1>9. CASE AccountCall
  BY <1>8, <1>9, CallEvolves
<1>10. ASSUME UNCHANGED accounts
       PROVE  Evolves /\ FoundFollow' /\ OneInCall' /\ EmailsDistinct' /\ AddsFree'
  <2>1. Used' = Used /\ users' = users /\ next' = next /\ disputed' = disputed
    BY <1>10 DEF accounts, Used
  <2>2. NoneAdded /\ NoneBound /\ Evolves
    BY <2>1, FieldsEvolve
  <2> QED BY <1>8, <2>2
<1>11. CASE InsertToken
  BY <1>10, <1>11 DEF InsertToken, create_user_token
<1>12. ASSUME NEW e \in Email, NEW r \in Role, NEW rivals, Insert(e, r, None, rivals),
              e \in Adds, rivals \subseteq Adds, Adds' \subseteq rivals
       PROVE  Evolves /\ FoundFollow' /\ OneInCall' /\ EmailsDistinct' /\ AddsFree'
  <2>1. Evolves /\ NoneBound
    BY <1>12, InsertEvolves
  <2>2. EmailsDistinct' /\ AddsFree'
    BY <1>12, AddsInserted
  <2> QED BY <1>2, <1>6, <2>1, <2>2, FoundKept
<1>13. CASE InsertUser
  <2>1. /\ req.at = "create" /\ req.email \in Email /\ req.role \in Role /\ req' = NoReq
        /\ cmd' = cmd
    BY <1>13 DEF InsertUser, TypeOK, Reply, Done
  <2>2. ServerAdds' = {} /\ req.email \in ServerAdds /\ CommandAdds' = CommandAdds
    BY <1>1, <2>1 DEF ServerAdds, CommandAdds, NoReq, OneInCall
  <2>3. Insert(req.email, req.role, None, CommandAdds) \/ UNCHANGED accounts
    BY <1>13 DEF InsertUser
  <2> QED BY <1>10, <1>12, <2>1, <2>2, <2>3 DEF Adds
<1>14. CASE AddUser
  <2>1. cmd.at = "create" /\ cmd' = NoCmd /\ req' = req
    BY <1>14 DEF AddUser, CommandGoes, CommandRest
  <2>2. cmd.email \in Email /\ cmd.role \in Role
    BY <2>1 DEF TypeOK, CmdType, NoCmd
  <2>3. CommandAdds' = {} /\ cmd.email \in CommandAdds /\ ServerAdds' = ServerAdds
    BY <1>1, <2>1 DEF ServerAdds, CommandAdds, NoCmd
  <2>4. Insert(cmd.email, cmd.role, None, ServerAdds) \/ UNCHANGED accounts
    BY <1>14 DEF AddUser
  <2> QED BY <1>10, <1>12, <2>2, <2>3, <2>4 DEF Adds
<1> QED BY <1>9, <1>11, <1>13, <1>14, TableCalls

\* What any step does to the tokens, and to the tickets.
LEMMA TokensStep ==
    ASSUME TypeOK, TypeOK', IdsGiven, TokensOfOwners, Evolves,
           \A t \in tokens' : \/ t \in tokens /\ t.user \in Used'
                              \/ req.at = "token" /\ t = req.row /\ t.user \in Used',
           req'.at = "token" =>
               \/ req' = req
               \/ /\ UNCHANGED accounts
                  /\ req'.row.user \in Used /\ users[req'.row.user].email = req'.row.owner
    PROVE  TokensOfOwners'
<1>1. /\ next \in Nat /\ next' \in Nat /\ Id \subseteq Nat /\ next <= next'
      /\ \A t \in tokens : t.user \in Id
      /\ req.at = "token" => req.row.user \in Id
  <2>1. next \in Nat /\ next' \in Nat /\ Id \subseteq Nat /\ next <= next'
    BY IdsAreNumbers DEF TypeOK, Evolves
  <2>2. \A t \in TokenType : t.user \in Id
    BY DEF TokenType
  <2>3. tokens \subseteq TokenType /\ (req.at = "token" => req.row \in TokenType)
    BY DEF TypeOK
  <2> QED BY <2>1, <2>2, <2>3
<1>2. \A i \in Used' : i < next => i \in Used /\ users'[i].email = users[i].email
  <2> SUFFICES ASSUME NEW i \in Used', i < next
               PROVE  i \in Used /\ users'[i].email = users[i].email
    OBVIOUS
  <2>1. i \in Id /\ i # next /\ users'[i] # None
    BY <1>1 DEF Used
  <2> QED BY <2>1 DEF Evolves, Used
<1>3. \A i \in Used : i < next /\ i \in Id
  BY DEF IdsGiven, Used
<1>4. ASSUME NEW t \in tokens' PROVE t.user \in Used' /\ users'[t.user].email = t.owner
  BY <1>2, <1>3, <1>4 DEF TokensOfOwners
<1>5. ASSUME req'.at = "token"
      PROVE  /\ req'.row.user < next'
             /\ req'.row.user \in Used' => users'[req'.row.user].email = req'.row.owner
  <2>1. CASE req' = req
    <3>1. /\ req.row.user \in Id /\ req.row.user < next
          /\ req.row.user \in Used => users[req.row.user].email = req.row.owner
      BY <1>1, <1>5, <2>1 DEF TokensOfOwners
    <3>2. req.row.user < next'
      <4> DEFINE u == req.row.user
      <4>1. u \in Nat /\ u < next /\ next \in Nat /\ next' \in Nat /\ next <= next'
        BY <1>1, <3>1
      <4> HIDE DEF u
      <4>2. u < next'
        BY <4>1
      <4> QED BY <4>2 DEF u
    <3> QED BY <1>2, <2>1, <3>1, <3>2
  <2>2. CASE req' # req
    BY <1>3, <1>5, <2>2 DEF accounts
  <2> QED BY <2>1, <2>2
<1> QED BY <1>4, <1>5 DEF TokensOfOwners

\* A ticket that is issued has a new id; one that is used leaves the store.
LEMMA TicketsStep == TypeOK /\ TicketIds /\ [Next]_vars => TicketIds'
<1> SUFFICES ASSUME TypeOK, TicketIds, [Next]_vars PROVE TicketIds'
  OBVIOUS
<1> USE DEF TicketIds, TicketOpensOneSocket
<1>1. \A t \in tickets : t.id \in 1..issued
  BY DEF TypeOK
<1>2. CASE UNCHANGED wstickets
  BY <1>2 DEF wstickets
<1>3. CASE create_ws_ticket
  <2>1. issued \in Nat /\ spent \subseteq 1..issued
    BY BoundsAssumption DEF TypeOK
  <2> DEFINE new == [id |-> issued + 1, email |-> req.email, role |-> req.role, fresh |-> TRUE]
  <2>2. tickets' = Live(tickets) \cup {new} /\ spent' = spent /\ Live(tickets) \subseteq tickets
    BY <1>3 DEF create_ws_ticket, create, Live
  <2>3. new.id \notin spent /\ \A t \in tickets : t.id # new.id
    BY <1>1, <2>1
  <2> HIDE DEF new
  <2> QED BY <2>2, <2>3
<1>4. CASE TicketAges
  <2>1. PICK t \in tickets : tickets' = (tickets \ {t}) \cup {[t EXCEPT !.fresh = FALSE]}
    BY <1>4 DEF TicketAges, Live
  <2> DEFINE stale == [t EXCEPT !.fresh = FALSE]
  <2>2. stale.id = t.id
    BY DEF TypeOK
  <2>3. spent' = spent
    BY <1>4 DEF TicketAges
  <2> HIDE DEF stale
  <2>4. tickets' = (tickets \ {t}) \cup {stale}
    BY <2>1 DEF stale
  <2> QED BY <2>2, <2>3, <2>4
<1>5. CASE optional_auth
  <2>1. ASSUME NEW t \in tickets, tickets' = tickets \ {t}, spent' = spent \cup {t.id}
        PROVE  TicketIds'
    BY <2>1
  <2>2. ASSUME tickets' \subseteq tickets, spent' = spent PROVE TicketIds'
    BY <2>2
  <2> QED BY <1>5, <2>1, <2>2 DEF optional_auth, consume, Live
<1>6. UNCHANGED wstickets \/ create_ws_ticket \/ TicketAges \/ optional_auth
  <2>1. CASE RequestNext
    BY <2>1 DEF RequestNext, RequestCalls, InsertUser, Go, ForAdmin, Reply, require_auth, Answer, ws_handler, Expel,
       InsertToken, RevokeToken, api_create_user, api_set_user_role, api_disable_user,
       api_enable_user, api_delete_user, api_create_group_mapping, api_update_group_mapping,
       api_delete_group_mapping, api_delete_user_sessions, create_my_token,
       admin_create_user_token, revoke_my_token, api_admin_revoke_user_token
  <2>2. CASE CommandNext
    BY <2>2, CommandStep
  <2>3. CASE \E l \in Login : LoginNext(l)
    BY <2>3 DEF LoginNext, oidc_login, CallbackFails, callback, MapRole, upsert_finds, upsert_user,
       upsert_refuses, ApplyRole, OpenSession, logout, LoginRest
  <2>4. CASE cleanup \/ Tick \/ UNCHANGED vars
    BY <2>4 DEF cleanup, Tick, vars, wstickets
  <2> QED BY <2>1, <2>2, <2>3, <2>4 DEF Next
<1> QED BY <1>2, <1>3, <1>4, <1>5, <1>6

-----------------------------------------------------------------------------
(* The invariant *)

LEMMA AccountsInit == Init => AccountsInv
<1> SUFFICES ASSUME Init PROVE AccountsInv
  OBVIOUS
<1> USE DEF Init, NoLogin, NoReq
<1>1. TypeOK
  <2>1. users \in [Id -> Account \cup {None}]
    BY TableAssumption
  <2>2. disputed \subseteq Email
    <3>1. \A i \in Used : users[i].email \in Email
      BY <2>1 DEF Used, Account
    <3> QED BY <3>1, FoldedAssumption
  <2> QED BY <2>1, <2>2, BoundsAssumption DEF TypeOK, LoginType, ReqType, Away, CmdType
<1>2. Entered = {} /\ Adds = {}
  BY DEF Entered, Adds, ServerAdds, CommandAdds, NoCmd
<1>3. IdsGiven /\ EmailsDistinct
  BY DEF IdsGiven, EmailsDistinct
<1>4. FoundFollow /\ OneInCall /\ AddsFree
  BY <1>2 DEF FoundFollow, OneInCall, AddsFree
<1> QED
  BY <1>1, <1>2, <1>3, <1>4 DEF AccountsInv, LoginsFollow, LoginsOfOnePerson,
     SessionsOfLogins, TokensOfOwners, TicketIds, TicketOpensOneSocket

LEMMA AccountsStep == AccountsInv /\ [Next]_vars => AccountsInv'
<1> SUFFICES ASSUME AccountsInv, [Next]_vars PROVE AccountsInv'
  OBVIOUS
<1> DEFINE CallInv == FoundFollow /\ OneInCall /\ EmailsDistinct /\ AddsFree
<1>1. /\ TypeOK /\ TypeOK' /\ LoginInv /\ IdsGiven /\ TokensOfOwners
      /\ FoundFollow /\ OneInCall /\ EmailsDistinct /\ AddsFree
      /\ TicketIds'
  BY TypeStep, TicketsStep DEF AccountsInv, LoginInv
<1> SUFFICES CallInv' /\ LoginInv' /\ TokensOfOwners'
  BY <1>1 DEF AccountsInv, LoginInv
<1>2. ASSUME NEW l \in Login, LoginNext(l) PROVE CallInv' /\ LoginInv' /\ TokensOfOwners'
  <2>1. Evolves /\ Used \subseteq Used' /\ LoginInv'
    BY <1>1, <1>2, LoginInvStep
  <2>5. CallInv'
    BY <1>1, <1>2, LoginAdds
  <2>2. UNCHANGED <<tokens, req>>
    BY <1>2 DEF LoginNext, oidc_login, CallbackFails, callback, MapRole, upsert_finds, upsert_user,
       upsert_refuses, ApplyRole, OpenSession, logout, LoginRest
  <2>3. \A t \in tokens' : t \in tokens /\ t.user \in Used'
    BY <1>1, <2>1, <2>2 DEF TokensOfOwners
  <2>4. TokensOfOwners'
    BY <1>1, <2>1, <2>2, <2>3, TokensStep
  <2> QED BY <2>1, <2>4, <2>5
<1>3. CASE RequestNext \/ CommandNext
  <2>1. /\ AccountCall \/ InsertToken \/ (UserCall /\ (InsertUser \/ AddUser))
        /\ UNCHANGED <<seen, login, now>>
    BY <1>1, <1>3, TableCalls
  <2>2. Evolves /\ CallInv'
    BY <1>1, <1>3, CallAdds
  <2>u. ASSUME UserCall PROVE Shrinks /\ UNCHANGED credentials
    <3>1. Used \subseteq Used'
      BY <1>1, <2>u, InsertEvolves DEF UserCall
    <3> QED BY <2>u, <3>1 DEF UserCall, credentials, Shrinks
  <2>3. LoginInv'
    <3>1. CASE AccountCall \/ UserCall
      <4>1. Shrinks
        BY <1>1, <2>u, <3>1, CallEvolves
      <4>2. \A l \in Login : session'[l] # None => login'[l].at = "in"
        BY <1>1, <2>1, <4>1 DEF Shrinks, LoginInv, SessionsOfLogins
      <4> QED BY <1>1, <2>1, <2>2, <4>1, <4>2, LoginsKept
    <3>2. CASE InsertToken
      BY <1>1, <2>1, <3>2 DEF InsertToken, create_user_token, accounts, LoginInv, IdsGiven,
         LoginsFollow, LoginsOfOnePerson, SessionsOfLogins, Entered, Used
    <3> QED BY <2>1, <3>1, <3>2
  <2>4. \A t \in tokens' : \/ t \in tokens /\ t.user \in Used'
                           \/ req.at = "token" /\ t = req.row /\ t.user \in Used'
    <3>1. CASE AccountCall \/ UserCall
      <4>1. Shrinks
        BY <1>1, <2>u, <3>1, CallEvolves
      <4> QED BY <1>1, <4>1 DEF Shrinks, TokensOfOwners
    <3>2. CASE InsertToken
      <4>1. Used' = Used
        BY <3>2 DEF InsertToken, create_user_token, accounts, Used
      <4> QED BY <1>1, <3>2, <4>1 DEF InsertToken, create_user_token, ForeignKey, TokensOfOwners
    <3> QED BY <2>1, <3>1, <3>2
  <2>5. TokensOfOwners'
    BY <1>1, <1>3, <2>2, <2>4, TokenRequest, TokensStep
  <2> QED BY <2>2, <2>3, <2>5
<1>4. CASE cleanup \/ Tick \/ UNCHANGED vars
  <2>1. UNCHANGED <<accounts, login, req, cmd>>
    BY <1>4 DEF cleanup, Tick, vars, accounts
  <2>2. Evolves /\ NoneAdded /\ NoneBound /\ Used' = Used
    <3>1. Used' = Used /\ users' = users /\ next' = next /\ disputed' = disputed
      BY <2>1 DEF accounts, Used
    <3> QED BY <1>1, <3>1, FieldsEvolve
  <2>8. CallInv'
    <3>1. Adds' = Adds /\ OneInCall'
      BY <1>1, <2>1 DEF Adds, ServerAdds, CommandAdds, OneInCall
    <3>2. \A k \in Login : Stays(k)
      BY <1>1, <2>1 DEF Stays, FoundFollow
    <3> QED BY <1>1, <2>2, <3>1, <3>2, AddsKept, FoundKept
  <2>3. Shrinks
    BY <1>4, <2>2 DEF cleanup, cleanup_expired_sessions, cleanup_expired_user_tokens, Tick, vars,
       credentials, Shrinks
  <2>4. \A l \in Login : session'[l] # None => login'[l].at = "in"
    BY <1>1, <2>1, <2>3 DEF Shrinks, LoginInv, SessionsOfLogins
  <2>5. LoginInv'
    BY <1>1, <2>1, <2>2, <2>3, <2>4, LoginsKept
  <2>6. \A t \in tokens' : t \in tokens /\ t.user \in Used'
    BY <1>1, <2>2, <2>3 DEF Shrinks, TokensOfOwners
  <2>7. TokensOfOwners'
    BY <1>1, <2>1, <2>2, <2>6, TokensStep
  <2> QED BY <2>5, <2>7, <2>8
<1> QED BY <1>2, <1>3, <1>4 DEF Next

\* The inductive invariant holds in every reachable state.
LEMMA AccountsAlways == Spec => []AccountsInv
BY AccountsInit, AccountsStep, PTL DEF Spec

\* Type correctness: the tables stay within the schema, and every step of a
\* login or of a request has what the step before it found.
THEOREM AccountsTypeCorrect == Spec => []TypeOK
<1>1. AccountsInv => TypeOK
  BY DEF AccountsInv
<1> QED BY <1>1, AccountsAlways, PTL

\* Two accounts whose emails differ in case only were there from the start,
\* or come of a command and the server that were both between the look and
\* the insertion of create_user or upsert_user: the lock of the server's
\* connection keeps its own logins and requests apart.
THEOREM EmailsStayDistinct == Spec => []EmailsDistinct
<1>1. AccountsInv => EmailsDistinct
  BY DEF AccountsInv
<1> QED BY <1>1, AccountsAlways, PTL

\* A session and a token belong to the account of the email they were made
\* for: an id that was looked up may lose its account before
\* create_auth_session or create_user_token uses it, but never names another.
THEOREM CredentialsFollow == Spec => []CredentialsFollowTheirAccount
<1>1. AccountsInv => CredentialsFollowTheirAccount
  <2> SUFFICES ASSUME AccountsInv PROVE CredentialsFollowTheirAccount
    OBVIOUS
  <2>1. ASSUME NEW l \in Login, session[l] # None
        PROVE  /\ session[l].user \in Used
               /\ Folded[users[session[l].user].email] = Folded[login[l].claim.email]
    BY <2>1 DEF AccountsInv, SessionsOfLogins, LoginsFollow, Entered
  <2> QED BY <2>1 DEF CredentialsFollowTheirAccount, AccountsInv, TokensOfOwners
<1> QED BY <1>1, AccountsAlways, PTL

\* Between two calls of reset_oidc_subject the sessions of an account are of
\* one subject, whichever steps of other logins, commands and requests come
\* between the calls of a login.
THEOREM BindingsOfOneSubject == Spec => []OneSubjectPerBinding
<1>1. AccountsInv => OneSubjectPerBinding
  BY DEF AccountsInv, OneSubjectPerBinding, SessionsOfLogins, LoginsOfOnePerson, Entered
<1> QED BY <1>1, AccountsAlways, PTL

\* A WebSocket ticket opens one socket at most: TicketStore::consume takes it
\* out of the store, and the ids of tickets do not come again.
THEOREM TicketsOpenOnce == Spec => []TicketOpensOneSocket
<1>1. AccountsInv => TicketOpensOneSocket
  BY DEF AccountsInv, TicketIds
<1> QED BY <1>1, AccountsAlways, PTL

\* No step renames an account, gives an id a second time, or binds an
\* account to another subject without a release in between: the email of an
\* account is its own for good, and its subject until reset_oidc_subject.
THEOREM AccountsEvolve == Spec => [][Evolves]_vars
<1>1. AccountsInv /\ [Next]_vars => [Evolves]_vars
  <2> SUFFICES ASSUME AccountsInv, Next PROVE Evolves
    BY DEF vars
  <2>1. /\ TypeOK /\ LoginInv /\ TypeOK'
        /\ FoundFollow /\ OneInCall /\ EmailsDistinct /\ AddsFree
    BY TypeStep DEF AccountsInv, LoginInv
  <2>2. ASSUME NEW l \in Login, LoginNext(l) PROVE Evolves
    BY <2>1, <2>2, LoginInvStep
  <2>3. CASE RequestNext \/ CommandNext
    BY <2>1, <2>3, CallAdds
  <2>4. CASE cleanup \/ Tick
    BY <2>1, <2>4, FieldsEvolve DEF cleanup, Tick, accounts, Used
  <2> QED BY <2>2, <2>3, <2>4 DEF Next
<1> QED BY <1>1, AccountsAlways, PTL DEF Spec
=============================================================================
