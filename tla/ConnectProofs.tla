----------------------------- MODULE ConnectProofs ------------------------------
(***************************************************************************)
(* Proofs about Connect, for every set of users, entries, kinds, hosts,    *)
(* allowlists, passwords, requests and sessions, whatever the site's       *)
(* settings, and for all of the bounds.                                    *)
(***************************************************************************)
EXTENDS Connect, FiniteSetTheorems, TLAPS

Route == {"page", "link", "adhoc"}
At == {"idle", "read", "lend", "local", "shared", "find", "create", "done"}

SpecType ==
    [kind : Kind \cup {"ssh"}, host : Host \cup {None, Target}, jump : Host \cup {None},
     proxy : Host \cup {None}, pw : Password, rec : Ask, drive : Ask, key : Key \cup {None}, fence : BOOLEAN]

ReqType ==
    [at : At, who : User \cup {None}, route : Route \cup {None}, prompt : Secret \cup {None},
     on : Key \cup {None}, owner : User \cup {None}, spec : SpecType, seen : SUBSET Password, recs : SUBSET Ask]

SaveType ==
    [at : {"idle", "local", "shared", "write", "write_shared"}, who : User \cup {None},
     value : Secret \cup {None}, store : Store, new : [Store -> Secret \cup {None}]]

SessType == [waits : BOOLEAN, who : User \cup {None}, via : Route \cup {None}, spec : SpecType]

\* A request that moves on, and the session asked for with another password.
Moved(q, at, s) ==
    [at |-> at, who |-> q.who, route |-> q.route, prompt |-> q.prompt, on |-> q.on,
     owner |-> IF at = "done" THEN q.who ELSE q.owner, spec |-> s, seen |-> q.seen, recs |-> q.recs]

WithPw(s, pw) ==
    [kind |-> s.kind, host |-> s.host, jump |-> s.jump, proxy |-> s.proxy, pw |-> pw, rec |-> s.rec,
     drive |-> s.drive, key |-> s.key, fence |-> s.fence]

LEMMA MovedIs ==
    ASSUME NEW q \in ReqType, NEW at, at # "done", NEW s
    PROVE  /\ [q EXCEPT !.at = at] = Moved(q, at, q.spec)
           /\ [q EXCEPT !.at = at, !.spec = s] = Moved(q, at, s)
<1>1. [q EXCEPT !.at = at] = Moved(q, at, q.spec)
  BY DEF Moved, ReqType
<1>2. [Moved(q, at, q.spec) EXCEPT !.spec = s] = Moved(q, at, s)
  BY DEF Moved
<1>3. [q EXCEPT !.at = at, !.spec = s] = Moved(q, at, s)
  BY <1>1, <1>2, Zenon
<1> QED BY <1>1, <1>3

\* One that is answered with a session of its user's.
LEMMA DoneIs ==
    ASSUME NEW q \in ReqType
    PROVE  [q EXCEPT !.at = "done", !.owner = q.who] = Moved(q, "done", q.spec)
<1> DEFINE Q(a, o) == [at |-> a, who |-> q.who, route |-> q.route, prompt |-> q.prompt, on |-> q.on,
                       owner |-> o, spec |-> q.spec, seen |-> q.seen, recs |-> q.recs]
<1>1. q = Q(q.at, q.owner)
  BY DEF ReqType
<1>2. [Q(q.at, q.owner) EXCEPT !.at = "done"] = Q("done", q.owner)
  OBVIOUS
<1>3. [Q("done", q.owner) EXCEPT !.owner = q.who] = Q("done", q.who)
  OBVIOUS
<1>4. Q("done", q.who) = Moved(q, "done", q.spec)
  BY DEF Moved
<1> HIDE DEF Q
<1>5. [q EXCEPT !.at = "done", !.owner = q.who] = Q("done", q.who)
  BY <1>1, <1>2, <1>3, Zenon
<1> QED BY <1>4, <1>5, Zenon

LEMMA DoneWithIs ==
    ASSUME NEW q \in ReqType, NEW s
    PROVE  [q EXCEPT !.at = "done", !.owner = q.who, !.spec = s] = Moved(q, "done", s)
<1>1. [Moved(q, "done", q.spec) EXCEPT !.spec = s] = Moved(q, "done", s)
  BY DEF Moved
<1> QED BY <1>1, DoneIs, Zenon

LEMMA WithPwIs ==
    ASSUME NEW s \in SpecType, NEW pw
    PROVE  [s EXCEPT !.pw = pw] = WithPw(s, pw)
BY DEF WithPw, SpecType

LEMMA MovedWithPw ==
    ASSUME NEW q \in ReqType, NEW at, at # "done", NEW pw
    PROVE  [q EXCEPT !.at = at, !.spec.pw = pw] = Moved(q, at, WithPw(q.spec, pw))
<1>1. [q EXCEPT !.at = at] = Moved(q, at, q.spec)
  BY MovedIs
<1>2. [Moved(q, at, q.spec) EXCEPT !.spec.pw = pw] = Moved(q, at, WithPw(q.spec, pw))
  <2>1. q.spec \in SpecType
    BY DEF ReqType
  <2> QED BY <2>1, WithPwIs DEF Moved
<1> QED BY <1>1, <1>2, Zenon

\* The session that is asked for from an entry, and what the policy makes of
\* one that is not.
LEMMA FromEntryIs ==
    ASSUME NEW k, NEW pw, NEW rec
    PROVE  FromEntry(k, pw, rec)
           = [kind |-> "ssh", host |-> Target, jump |-> None, proxy |-> None, pw |-> pw, rec |-> rec,
              drive |-> "unset", key |-> k, fence |-> FALSE]
<1> DEFINE S(h, p, c, e, f) == [kind |-> "ssh", host |-> h, jump |-> None, proxy |-> None, pw |-> p, rec |-> c,
                                drive |-> "unset", key |-> e, fence |-> f]
           T == Target
           F == FALSE
<1>1. Spec0 = S(None, None, "unset", None, F)
  BY DEF Spec0
<1> HIDE DEF T, F
<1>2. [S(None, None, "unset", None, F) EXCEPT !.host = T] = S(T, None, "unset", None, F)
  OBVIOUS
<1>3. [S(T, None, "unset", None, F) EXCEPT !.pw = pw] = S(T, pw, "unset", None, F)
  OBVIOUS
<1>4. [S(T, pw, "unset", None, F) EXCEPT !.rec = rec] = S(T, pw, rec, None, F)
  OBVIOUS
<1>5. [S(T, pw, rec, None, F) EXCEPT !.key = k] = S(T, pw, rec, k, F)
  OBVIOUS
<1> HIDE DEF S
<1>6. [Spec0 EXCEPT !.host = T, !.pw = pw, !.rec = rec, !.key = k] = S(T, pw, rec, k, F)
  BY <1>1, <1>2, <1>3, <1>4, <1>5, Zenon
<1> QED BY <1>6, Zenon DEF FromEntry, S, T, F

LEMMA PolicyIs ==
    ASSUME NEW q \in SpecType
    PROVE  /\ apply_adhoc_policy(q, TRUE)
              = [kind |-> q.kind, host |-> q.host, jump |-> q.jump, proxy |-> q.proxy, pw |-> q.pw, rec |-> q.rec,
                 drive |-> q.drive, key |-> q.key, fence |-> FALSE]
           /\ apply_adhoc_policy(q, FALSE)
              = [kind |-> q.kind, host |-> q.host, jump |-> q.jump, proxy |-> q.proxy, pw |-> q.pw,
                 rec |-> IF q.rec = "off" /\ SiteRecording THEN "unset" ELSE q.rec,
                 drive |-> IF q.drive = "on" /\ ~ SiteDrive THEN "unset" ELSE q.drive,
                 key |-> None, fence |-> TRUE]
<1> DEFINE S(f, k, c, d) == [kind |-> q.kind, host |-> q.host, jump |-> q.jump, proxy |-> q.proxy, pw |-> q.pw,
                             rec |-> c, drive |-> d, key |-> k, fence |-> f]
           c1 == IF q.rec = "off" /\ SiteRecording THEN "unset" ELSE q.rec
           d1 == IF q.drive = "on" /\ ~ SiteDrive THEN "unset" ELSE q.drive
           Yes == TRUE
           No == FALSE
<1>1. q = S(q.fence, q.key, q.rec, q.drive)
  BY DEF SpecType
<1> HIDE DEF c1, d1, Yes, No
<1>2. [S(q.fence, q.key, q.rec, q.drive) EXCEPT !.fence = Yes] = S(Yes, q.key, q.rec, q.drive)
  OBVIOUS
<1>3. [S(Yes, q.key, q.rec, q.drive) EXCEPT !.key = None] = S(Yes, None, q.rec, q.drive)
  OBVIOUS
<1>4. [S(Yes, None, q.rec, q.drive) EXCEPT !.rec = c1] = S(Yes, None, c1, q.drive)
  OBVIOUS
<1>5. [S(Yes, None, c1, q.drive) EXCEPT !.drive = d1] = S(Yes, None, c1, d1)
  OBVIOUS
<1>6. [S(q.fence, q.key, q.rec, q.drive) EXCEPT !.fence = No] = S(No, q.key, q.rec, q.drive)
  OBVIOUS
<1> HIDE DEF S
<1>7. [q EXCEPT !.fence = Yes, !.key = None, !.rec = c1, !.drive = d1] = S(Yes, None, c1, d1)
  <2>1. [q EXCEPT !.fence = Yes, !.key = None] = S(Yes, None, q.rec, q.drive)
    BY <1>1, <1>2, <1>3, Zenon
  <2>2. [q EXCEPT !.fence = Yes, !.key = None, !.rec = c1] = S(Yes, None, c1, q.drive)
    BY <1>4, <2>1, Zenon
  <2> QED BY <1>5, <2>2, Zenon
<1>8. [q EXCEPT !.fence = No] = S(No, q.key, q.rec, q.drive)
  BY <1>1, <1>6, Zenon
<1>9. apply_adhoc_policy(q, TRUE) = S(No, q.key, q.rec, q.drive)
  BY <1>8, Zenon DEF apply_adhoc_policy, No
<1>10. apply_adhoc_policy(q, FALSE)
       = [q EXCEPT !.fence = Yes, !.key = None, !.rec = c1, !.drive = d1]
  BY Zenon DEF apply_adhoc_policy, c1, d1, Yes
<1> QED BY <1>7, <1>9, <1>10, Zenon DEF S, c1, d1, Yes, No

\* What the policy promises of whoever is not an admin.
WithinPolicy(q) ==
    /\ q.fence = TRUE /\ q.key = None
    /\ SiteRecording => q.rec # "off"
    /\ ~ SiteDrive => q.drive # "on"

LEMMA PolicyType ==
    ASSUME NEW q \in SpecType, NEW admin \in BOOLEAN
    PROVE  /\ apply_adhoc_policy(q, admin) \in SpecType
           /\ ~ admin => WithinPolicy(apply_adhoc_policy(q, admin))
<1> DEFINE S(k, c, d, f) == [kind |-> q.kind, host |-> q.host, jump |-> q.jump, proxy |-> q.proxy, pw |-> q.pw,
                             rec |-> c, drive |-> d, key |-> k, fence |-> f]
           c1 == IF q.rec = "off" /\ SiteRecording THEN "unset" ELSE q.rec
           d1 == IF q.drive = "on" /\ ~ SiteDrive THEN "unset" ELSE q.drive
<1>1. \A k \in Key \cup {None}, c, d \in Ask, f \in BOOLEAN : S(k, c, d, f) \in SpecType
  BY DEF SpecType
<1>2. c1 \in Ask /\ (SiteRecording => c1 # "off")
  BY DEF SpecType, Ask
<1>3. d1 \in Ask /\ (~ SiteDrive => d1 # "on")
  BY DEF SpecType, Ask
<1>4. q.key \in Key \cup {None} /\ q.rec \in Ask /\ q.drive \in Ask
  BY DEF SpecType
<1>5. /\ S(None, c1, d1, TRUE).key = None /\ S(None, c1, d1, TRUE).rec = c1
      /\ S(None, c1, d1, TRUE).drive = d1 /\ S(None, c1, d1, TRUE).fence = TRUE
  BY Zenon
<1>6. apply_adhoc_policy(q, TRUE) = S(q.key, q.rec, q.drive, FALSE)
  BY PolicyIs, Zenon
<1>7. apply_adhoc_policy(q, FALSE) = S(None, c1, d1, TRUE)
  BY PolicyIs, Zenon
<1> HIDE DEF S, c1, d1
<1>8. apply_adhoc_policy(q, TRUE) \in SpecType
  BY <1>1, <1>4, <1>6, Zenon
<1>9. apply_adhoc_policy(q, FALSE) \in SpecType
  BY <1>1, <1>2, <1>3, <1>7, Zenon
<1>10. WithinPolicy(S(None, c1, d1, TRUE))
  BY <1>2, <1>3, <1>5, Zenon DEF WithinPolicy
<1>11. WithinPolicy(apply_adhoc_policy(q, FALSE))
  BY <1>7, <1>10, Zenon
<1> QED BY <1>8, <1>9, <1>11, Zenon

LEMMA FromEntryType ==
    ASSUME NEW k \in Key \cup {None}, NEW pw \in Password, NEW rec \in Ask
    PROVE  /\ FromEntry(k, pw, rec) \in SpecType
           /\ FromEntry(k, pw, rec).key = k
           /\ FromEntry(k, pw, rec).pw = pw /\ FromEntry(k, pw, rec).rec = rec
BY FromEntryIs DEF SpecType, Ask

LEMMA FromEntryFields ==
    ASSUME NEW k, NEW pw, NEW rec
    PROVE  /\ FromEntry(k, pw, rec).key = k
           /\ FromEntry(k, pw, rec).pw = pw /\ FromEntry(k, pw, rec).rec = rec
BY FromEntryIs

LEMMA WithPwType ==
    ASSUME NEW s \in SpecType, NEW pw \in Password
    PROVE  /\ WithPw(s, pw) \in SpecType
           /\ WithPw(s, pw).pw = pw /\ WithPw(s, pw).key = s.key /\ WithPw(s, pw).rec = s.rec
BY DEF WithPw, SpecType

\* A request as it begins.
LEMMA BegunIs ==
    ASSUME NEW r, NEW who, NEW k, NEW route, NEW prompt, Begin(r, who, k, route, prompt)
    PROVE  Set(r, [at |-> "read", who |-> who, route |-> route, prompt |-> prompt, on |-> k,
                   owner |-> None, spec |-> FromEntry(k, None, "unset"), seen |-> Sources(who, k),
                   recs |-> IF entry[k] = None THEN {} ELSE {entry[k].rec}])
<1> DEFINE Q(a, w, t, p, o, s, n, c) ==
               [at |-> a, who |-> w, route |-> t, prompt |-> p, on |-> o, owner |-> None, spec |-> s,
                seen |-> n, recs |-> c]
           e == Spec0
           spec == FromEntry(k, None, "unset")
           seen == Sources(who, k)
           recs == IF entry[k] = None THEN {} ELSE {entry[k].rec}
<1>1. NoRequest = Q("idle", None, None, None, None, e, {}, {})
  BY DEF NoRequest
<1> HIDE DEF e, spec, seen, recs
<1>2. [Q("idle", None, None, None, None, e, {}, {}) EXCEPT !.at = "read"]
      = Q("read", None, None, None, None, e, {}, {})
  OBVIOUS
<1>3. [Q("read", None, None, None, None, e, {}, {}) EXCEPT !.who = who]
      = Q("read", who, None, None, None, e, {}, {})
  OBVIOUS
<1>4. [Q("read", who, None, None, None, e, {}, {}) EXCEPT !.route = route]
      = Q("read", who, route, None, None, e, {}, {})
  OBVIOUS
<1>5. [Q("read", who, route, None, None, e, {}, {}) EXCEPT !.prompt = prompt]
      = Q("read", who, route, prompt, None, e, {}, {})
  OBVIOUS
<1>6. [Q("read", who, route, prompt, None, e, {}, {}) EXCEPT !.on = k]
      = Q("read", who, route, prompt, k, e, {}, {})
  OBVIOUS
<1>7. [Q("read", who, route, prompt, k, e, {}, {}) EXCEPT !.spec = spec]
      = Q("read", who, route, prompt, k, spec, {}, {})
  OBVIOUS
<1>8. [Q("read", who, route, prompt, k, spec, {}, {}) EXCEPT !.seen = seen]
      = Q("read", who, route, prompt, k, spec, seen, {})
  OBVIOUS
<1>9. [Q("read", who, route, prompt, k, spec, seen, {}) EXCEPT !.recs = recs]
      = Q("read", who, route, prompt, k, spec, seen, recs)
  OBVIOUS
<1> HIDE DEF Q
<1>10. [NoRequest EXCEPT !.at = "read", !.who = who, !.route = route, !.prompt = prompt]
       = Q("read", who, route, prompt, None, e, {}, {})
  BY <1>1, <1>2, <1>3, <1>4, <1>5, Zenon
<1>11. [NoRequest EXCEPT !.at = "read", !.who = who, !.route = route, !.prompt = prompt, !.on = k,
                         !.spec = spec]
       = Q("read", who, route, prompt, k, spec, {}, {})
  BY <1>6, <1>7, <1>10, Zenon
<1>12. [NoRequest EXCEPT !.at = "read", !.who = who, !.route = route, !.prompt = prompt, !.on = k,
                         !.spec = spec, !.seen = seen]
       = Q("read", who, route, prompt, k, spec, seen, {})
  BY <1>8, <1>11, Zenon
<1>13. [NoRequest EXCEPT !.at = "read", !.who = who, !.route = route, !.prompt = prompt, !.on = k,
                         !.spec = spec, !.seen = seen, !.recs = recs]
       = Q("read", who, route, prompt, k, spec, seen, recs)
  BY <1>9, <1>12, Zenon
<1>14. Set(r, [NoRequest EXCEPT !.at = "read", !.who = who, !.route = route, !.prompt = prompt,
                                !.on = k, !.spec = spec, !.seen = seen, !.recs = recs])
  BY Zenon DEF Begin, spec, seen, recs
<1>15. Set(r, Q("read", who, route, prompt, k, spec, seen, recs))
  BY <1>13, <1>14, Zenon
<1> QED BY <1>15, Zenon DEF Q, spec, seen, recs

LEMMA AdhocIs ==
    ASSUME NEW at, NEW who, NEW spec
    PROVE  [NoRequest EXCEPT !.at = at, !.who = who, !.route = "adhoc", !.spec = spec]
           = [at |-> at, who |-> who, route |-> "adhoc", prompt |-> None, on |-> None,
              owner |-> None, spec |-> spec, seen |-> {}, recs |-> {}]
<1> DEFINE Q(a, w, t, s) ==
               [at |-> a, who |-> w, route |-> t, prompt |-> None, on |-> None, owner |-> None,
                spec |-> s, seen |-> {}, recs |-> {}]
           e == Spec0
<1>1. NoRequest = Q("idle", None, None, e)
  BY DEF NoRequest
<1> HIDE DEF e
<1>2. [Q("idle", None, None, e) EXCEPT !.at = at] = Q(at, None, None, e)
  OBVIOUS
<1>3. [Q(at, None, None, e) EXCEPT !.who = who] = Q(at, who, None, e)
  OBVIOUS
<1>4. [Q(at, who, None, e) EXCEPT !.route = "adhoc"] = Q(at, who, "adhoc", e)
  OBVIOUS
<1>5. [Q(at, who, "adhoc", e) EXCEPT !.spec = spec] = Q(at, who, "adhoc", spec)
  OBVIOUS
<1> HIDE DEF Q
<1>6. [NoRequest EXCEPT !.at = at, !.who = who, !.route = "adhoc", !.spec = spec]
      = Q(at, who, "adhoc", spec)
  BY <1>1, <1>2, <1>3, <1>4, <1>5, Zenon
<1> QED BY <1>6, Zenon DEF Q

\* One that may see a new password or setting.
Told(q, pws, recs) ==
    [at |-> q.at, who |-> q.who, route |-> q.route, prompt |-> q.prompt, on |-> q.on,
     owner |-> q.owner, spec |-> q.spec, seen |-> q.seen \cup pws, recs |-> q.recs \cup recs]

LEMMA ToldIs ==
    ASSUME NEW q \in ReqType, NEW pws, NEW recs
    PROVE  [q EXCEPT !.seen = @ \cup pws, !.recs = @ \cup recs] = Told(q, pws, recs)
<1> DEFINE Q(n, c) == [at |-> q.at, who |-> q.who, route |-> q.route, prompt |-> q.prompt,
                       on |-> q.on, owner |-> q.owner, spec |-> q.spec, seen |-> n, recs |-> c]
           n1 == q.seen \cup pws
           c1 == q.recs \cup recs
<1>1. q = Q(q.seen, q.recs)
  BY DEF ReqType
<1> HIDE DEF n1, c1
<1>2. [Q(q.seen, q.recs) EXCEPT !.seen = n1] = Q(n1, q.recs)
  OBVIOUS
<1>3. [Q(n1, q.recs) EXCEPT !.recs = c1] = Q(n1, c1)
  OBVIOUS
<1> HIDE DEF Q
<1>4. [q EXCEPT !.seen = n1, !.recs = c1] = Q(n1, c1)
  BY <1>1, <1>2, <1>3, Zenon
<1>5. [q EXCEPT !.seen = @ \cup pws, !.recs = @ \cup recs] = [q EXCEPT !.seen = n1, !.recs = c1]
  BY Zenon DEF n1, c1
<1> QED BY <1>4, <1>5, Zenon DEF Q, n1, c1, Told

-----------------------------------------------------------------------------
(* The inductive invariant *)

\* The types in full; TypeOK follows.
StoreTypes ==
    /\ entry \in [Key -> Entry \cup {None}]
    /\ lent \in Password
    /\ creds \in [User -> [Store -> Secret \cup {None}]]
    /\ edits \in 0..MaxEdits
RequestTypes ==
    /\ req \in [Request -> ReqType]
    /\ \A r \in Request : /\ req[r].at # "idle" => req[r].who \in User /\ req[r].route \in Route
                          /\ req[r].at = "read" => req[r].spec.key \in Key
SaveTypes ==
    /\ save \in [Tab -> SaveType]
    /\ \A t \in Tab : save[t].at # "idle" => save[t].who \in User
SessionTypes ==
    /\ sess \in [Sid -> SessType]
    /\ \A s \in Sid : sess[s].waits => sess[s].who \in User
Types == StoreTypes /\ RequestTypes /\ SaveTypes /\ SessionTypes

\* A request for a saved entry.
Book(q) == q.at # "idle" /\ q.route \in {"page", "link"}

\* What it can read next, it has been told of.
SourcesSeen ==
    \A r \in Request : Book(req[r]) =>
        LET k == req[r].spec.key IN
        /\ k \in Key
        /\ Sources(req[r].who, k) \subseteq req[r].seen
        /\ entry[k] # None => entry[k].rec \in req[r].recs

\* What it has read, it had been told of; what the user was prompted for
\* replaces it.
ReadsSeen ==
    \A r \in Request : Book(req[r]) =>
        LET q == req[r] IN
        /\ q.route = "link" => q.prompt = None
        /\ q.at \in {"lend", "local"} => q.spec.pw \in q.seen
        /\ q.at = "shared" => q.spec.pw \in q.seen \cup {None}
        /\ q.at \in {"find", "create", "done"} =>
               q.spec.pw \in (IF q.prompt # None THEN {q.prompt} ELSE q.seen)
        /\ q.at # "read" => q.spec.rec \in q.recs

\* It stays a request for its entry, and is answered with its user's session.
Answers(q) == Book(q) => q.spec.key = q.on /\ (q.at = "done" => q.owner = q.who)
OwnAnswers == \A r \in Request : Answers(req[r])

\* An ad-hoc request is not made into a session before the policy has been
\* applied, and nothing of it is read from the address book.
PolicyApplied ==
    /\ \A r \in Request : req[r].at # "idle" /\ req[r].route = "adhoc" =>
           /\ req[r].at \notin {"read", "lend", "find"}
           /\ req[r].at = "create" /\ req[r].who \notin Admin => WithinPolicy(req[r].spec)
    /\ \A s \in Sid : sess[s].waits /\ sess[s].via = "adhoc" /\ sess[s].who \notin Admin =>
           WithinPolicy(sess[s].spec) /\ Admissible(sess[s].spec)

\* The page's sessions of user u that wait and were asked for alike, and the
\* requests that have found none of them and will make another.
Waiting(u, q) ==
    {s \in Sid : sess[s].waits /\ sess[s].via = "page" /\ sess[s].who = u /\ sess[s].spec = q}
Creating(u, q) ==
    {r \in Request : req[r].at = "create" /\ req[r].route = "page"
                     /\ req[r].who = u /\ req[r].spec = q}
Bounded ==
    \A u \in User, q \in SpecType :
        Cardinality(Waiting(u, q)) + Cardinality(Creating(u, q)) <= Cardinality(Request)

ConnectInv == Types /\ SourcesSeen /\ ReadsSeen /\ OwnAnswers /\ PolicyApplied /\ Bounded

-----------------------------------------------------------------------------
(* The steps of a request *)

\* The passwords that a request may go on with.
Resolves(q, pw) ==
    \/ q.at = "local" /\ pw \in {q.spec.pw, creds[q.who]["local"]}
    \/ q.at = "shared" /\ pw \in {q.spec.pw, creds[q.who]["shared"]}

\* Where a request goes that does not end and makes no session.
Goes(q, at, s) ==
    \/ /\ q.at = "read" /\ at = "lend"
       /\ entry[q.spec.key] # None
       /\ s = FromEntry(q.spec.key, entry[q.spec.key].pw, entry[q.spec.key].rec)
    \/ /\ q.at = "lend" /\ at = "local"
       /\ \E pw \in {q.spec.pw, lent} : s = WithPw(q.spec, pw)
    \/ /\ q.at = "local" /\ at = "shared"
       /\ \E pw \in {None, creds[q.who]["local"]} : s = WithPw(q.spec, pw)
    \/ /\ q.route = "page" /\ at = "find"
       /\ \E pw \in Password : /\ Resolves(q, pw) /\ (q.at = "shared" => pw # None)
                               /\ s = WithPw(q.spec, IF q.prompt = None THEN pw ELSE q.prompt)
    \/ /\ q.route = "link" /\ at = "create"
       /\ \E pw \in Password : Resolves(q, pw) /\ pw # None /\ s = WithPw(q.spec, pw)
    \/ /\ q.route = "adhoc" /\ at = "create"
       /\ q.at \in {"local", "shared"}
       /\ \E pw \in Password : s = apply_adhoc_policy(WithPw(q.spec, pw), q.who \in Admin)
    \/ q.at = "find" /\ at = "done" /\ s = q.spec
    \/ q.at = "find" /\ at = "create" /\ s = q.spec /\ find_reusable_session(q.who, q.spec) = {}

Going(r) ==
    \E at \in At \ {"idle"}, s \in SpecType :
        Set(r, Moved(req[r], at, s)) /\ Goes(req[r], at, s) /\ UNCHANGED sess

\* The request that a password is resolved for goes on.
LEMMA ResolvedGoes ==
    ASSUME Types, NEW r \in Request, NEW pw \in Password, Resolved(r, pw),
           req[r].at \in {"local", "shared"}, Resolves(req[r], pw), req[r].at = "shared" => pw # None,
           UNCHANGED sess
    PROVE  Idle(r) \/ Going(r)
<1>1. req[r] \in ReqType /\ req[r].spec \in SpecType /\ req[r].route \in Route
  BY DEF Types, RequestTypes, ReqType
<1> DEFINE q == req[r]
           s == WithPw(q.spec, pw)
<1>2. s \in SpecType /\ [q.spec EXCEPT !.pw = pw] = s
  BY <1>1, WithPwType, WithPwIs
<1>3. q.prompt \in Password
  BY <1>1 DEF ReqType, Password
<1>4. CASE q.route = "page"
  <2> DEFINE p == IF q.prompt = None THEN pw ELSE q.prompt
             x == WithPw(q.spec, p)
  <2>1. p \in Password /\ x \in SpecType
    BY <1>1, <1>3, WithPwType
  <2>2. [s EXCEPT !.pw = q.prompt] = WithPw(q.spec, q.prompt)
    BY <1>2, WithPwIs DEF WithPw
  <2>3. Set(r, [q EXCEPT !.at = "find", !.spec = IF q.prompt = None THEN s
                                                  ELSE [s EXCEPT !.pw = q.prompt]])
    BY <1>2, <1>4, Zenon DEF Resolved
  <2>4. (IF q.prompt = None THEN s ELSE [s EXCEPT !.pw = q.prompt]) = x
    BY <2>2, Zenon
  <2>5. Set(r, [q EXCEPT !.at = "find", !.spec = x])
    BY <2>3, <2>4, Zenon
  <2>6. Goes(q, "find", x)
    BY <1>4 DEF Goes
  <2> HIDE DEF x
  <2>7. Set(r, Moved(q, "find", x))
    BY <1>1, <2>5, MovedIs, Zenon
  <2> QED BY <2>1, <2>6, <2>7 DEF Going, At
<1>5. CASE q.route = "link"
  <2>1. CASE pw = None
    BY <1>5, <2>1 DEF Resolved
  <2>2. CASE pw # None
    <3>1. Set(r, [q EXCEPT !.at = "create", !.spec = s])
      BY <1>2, <1>5, <2>2, Zenon DEF Resolved
    <3>2. Goes(q, "create", s)
      BY <1>5, <2>2 DEF Goes
    <3> HIDE DEF s
    <3>3. Set(r, Moved(q, "create", s))
      BY <1>1, <3>1, MovedIs, Zenon
    <3> QED BY <1>2, <3>2, <3>3 DEF Going, At
  <2> QED BY <2>1, <2>2
<1>6. CASE q.route = "adhoc"
  <2> DEFINE x == apply_adhoc_policy(s, q.who \in Admin)
  <2>1. Set(r, [q EXCEPT !.at = "create", !.spec = x])
    BY <1>2, <1>6, Zenon DEF Resolved
  <2>2. x \in SpecType
    <3> DEFINE b == q.who \in Admin
    <3>1. b \in BOOLEAN
      OBVIOUS
    <3> HIDE DEF b, s
    <3>2. apply_adhoc_policy(s, b) \in SpecType
      BY <1>2, <3>1, PolicyType, Zenon
    <3> QED BY <3>2, Zenon DEF b
  <2>3. Goes(q, "create", x)
    BY <1>6, Zenon DEF Goes
  <2> HIDE DEF x
  <2>4. Set(r, Moved(q, "create", x))
    BY <1>1, <2>1, MovedIs, Zenon
  <2> QED BY <2>2, <2>3, <2>4 DEF Going, At
<1> QED BY <1>1, <1>4, <1>5, <1>6 DEF Route

\* Every step of a request ends it, moves it on, or makes its session.
LEMMA ConnectingStep ==
    ASSUME Types, NEW r \in Request, Connecting(r)
    PROVE  /\ Vault
           /\ \/ Idle(r) /\ UNCHANGED sess
              \/ Going(r)
              \/ create_session(r)
<1> DEFINE q == req[r]
           k == q.spec.key
<1>1. q \in ReqType /\ q.spec \in SpecType /\ q.spec.pw \in Password
  BY DEF Types, RequestTypes, ReqType, SpecType
<1>2. lent \in Password /\ entry \in [Key -> Entry \cup {None}]
  BY DEF Types, StoreTypes
<1>3. ASSUME q.at # "idle"
      PROVE  /\ q.who \in User
             /\ creds[q.who]["local"] \in Password /\ creds[q.who]["shared"] \in Password
             /\ None \in Password
  BY <1>3 DEF Types, StoreTypes, RequestTypes, Password, Store
<1>4. Vault
  BY Zenon DEF Connecting, GetEntry, lend_folder_defaults, ReadLocal, ReadShared, Find, CreateFails,
     create_session, Answered
<1>5. CASE CreateFails(r) \/ Answered(r)
  BY <1>4, <1>5 DEF CreateFails, Answered
<1>6. CASE GetEntry(r)
  <2>1. CASE Idle(r)
    BY <1>4, <1>6, <2>1 DEF GetEntry
  <2>2. CASE ~ Idle(r)
    <3> DEFINE s == FromEntry(k, entry[k].pw, entry[k].rec)
    <3>1. q.at = "read" /\ entry[k] # None /\ UNCHANGED sess /\ Set(r, [q EXCEPT !.at = "lend", !.spec = s])
      BY <1>6, <2>2 DEF GetEntry
    <3>2. k \in Key
      BY <3>1 DEF Types, RequestTypes
    <3>3. entry[k].pw \in Password /\ entry[k].rec \in Ask
      BY <1>2, <3>1, <3>2, BoundsAssumption DEF Entry
    <3>4. s \in SpecType
      BY <3>2, <3>3, FromEntryType
    <3>5. Goes(q, "lend", s)
      BY <3>1 DEF Goes
    <3> HIDE DEF s
    <3>6. Set(r, Moved(q, "lend", s))
      BY <1>1, <3>1, MovedIs, Zenon
    <3> QED BY <1>4, <3>1, <3>4, <3>5, <3>6 DEF Going, At
  <2> QED BY <2>1, <2>2
<1>7. CASE lend_folder_defaults(r)
  <2>1. q.at = "lend" /\ UNCHANGED sess
    BY <1>7 DEF lend_folder_defaults
  <2>2. PICK pw \in {q.spec.pw, lent} : Set(r, [q EXCEPT !.at = "local", !.spec.pw = pw])
    BY <1>7 DEF lend_folder_defaults
  <2> DEFINE s == WithPw(q.spec, pw)
  <2>3. s \in SpecType
    BY <1>1, <1>2, WithPwType
  <2>4. Goes(q, "local", s)
    BY <2>1 DEF Goes
  <2>5. Set(r, Moved(q, "local", s))
    BY <1>1, <2>2, MovedWithPw, Zenon
  <2> QED BY <1>4, <2>1, <2>3, <2>4, <2>5 DEF Going, At
<1>8. CASE ReadLocal(r)
  <2>1. q.at = "local" /\ UNCHANGED sess
    BY <1>8 DEF ReadLocal
  <2>2. ASSUME NEW pw \in Password, Resolves(q, pw), Resolved(r, pw)
        PROVE  Idle(r) \/ Going(r)
    BY <2>1, <2>2, ResolvedGoes
  <2>3. CASE q.spec.pw # Var /\ Resolved(r, q.spec.pw)
    BY <1>1, <1>4, <2>1, <2>2, <2>3 DEF Resolves
  <2>4. CASE q.spec.pw = Var /\ Resolved(r, Var)
    BY <1>1, <1>4, <2>1, <2>2, <2>4 DEF Resolves
  <2>5. CASE Idle(r)
    BY <1>4, <2>1, <2>5
  <2>6. ASSUME NEW v \in {None, creds[q.who]["local"]},
               Set(r, [q EXCEPT !.at = "shared", !.spec.pw = v])
        PROVE  Going(r)
    <3> DEFINE s == WithPw(q.spec, v)
    <3>1. s \in SpecType
      BY <1>1, <1>3, <2>1, WithPwType
    <3>2. Goes(q, "shared", s)
      BY <2>1 DEF Goes
    <3>3. Set(r, Moved(q, "shared", s))
      BY <1>1, <2>6, MovedWithPw, Zenon
    <3> QED BY <2>1, <3>1, <3>2, <3>3 DEF Going, At
  <2>7. ASSUME NEW v \in {None, creds[q.who]["local"]}, v # None, Resolved(r, v)
        PROVE  Idle(r) \/ Going(r)
    BY <1>3, <2>1, <2>2, <2>7 DEF Resolves
  <2>8. \/ q.spec.pw # Var /\ Resolved(r, q.spec.pw)
        \/ q.spec.pw = Var /\ Resolved(r, Var)
        \/ Idle(r)
        \/ \E v \in {None, creds[q.who]["local"]} :
               \/ Set(r, [q EXCEPT !.at = "shared", !.spec.pw = v])
               \/ v # None /\ Resolved(r, v)
    BY <1>8, Zenon DEF ReadLocal
  <2> QED BY <1>4, <2>1, <2>3, <2>4, <2>5, <2>6, <2>7, <2>8
<1>9. CASE ReadShared(r)
  <2>1. q.at = "shared" /\ UNCHANGED sess
    BY <1>9 DEF ReadShared
  <2>2. \/ q.spec.pw # None /\ Resolved(r, q.spec.pw)
        \/ LET v == creds[q.who]["shared"] IN v # None /\ Resolved(r, v)
        \/ Idle(r)
    BY <1>9 DEF ReadShared
  <2>3. ASSUME NEW pw \in Password, Resolves(q, pw), pw # None, Resolved(r, pw)
        PROVE  Idle(r) \/ Going(r)
    BY <2>1, <2>3, ResolvedGoes
  <2> QED BY <1>1, <1>3, <1>4, <2>1, <2>2, <2>3 DEF Resolves
<1>10. CASE Find(r)
  <2>1. q.at = "find" /\ UNCHANGED sess
    BY <1>10 DEF Find
  <2>2. CASE \E s \in find_reusable_session(q.who, q.spec) :
                 Set(r, [q EXCEPT !.at = "done", !.owner = sess[s].who, !.spec = sess[s].spec])
    <3>1. Set(r, [q EXCEPT !.at = "done", !.owner = q.who, !.spec = q.spec])
      <4>1. PICK s \in find_reusable_session(q.who, q.spec) :
                Set(r, [q EXCEPT !.at = "done", !.owner = sess[s].who, !.spec = sess[s].spec])
        BY <2>2, Zenon
      <4>2. sess[s].who = q.who /\ sess[s].spec = q.spec
        BY <4>1 DEF find_reusable_session, reuse_fingerprint
      <4> QED BY <4>1, <4>2, Zenon
    <3>2. Set(r, Moved(q, "done", q.spec))
      BY <1>1, <3>1, DoneWithIs, Zenon
    <3>3. Goes(q, "done", q.spec)
      BY <2>1 DEF Goes
    <3> QED BY <1>1, <1>4, <2>1, <3>2, <3>3 DEF Going, At
  <2>3. CASE /\ find_reusable_session(q.who, q.spec) = {}
             /\ Set(r, [q EXCEPT !.at = "create"])
    <3>1. Set(r, Moved(q, "create", q.spec))
      BY <1>1, <2>3, MovedIs, Zenon
    <3>2. Goes(q, "create", q.spec)
      BY <2>1, <2>3 DEF Goes
    <3> QED BY <1>1, <1>4, <2>1, <3>1, <3>2 DEF Going, At
  <2> QED BY <1>10, <2>2, <2>3, Zenon DEF Find
<1> QED BY <1>4, <1>5, <1>6, <1>7, <1>8, <1>9, <1>10 DEF Connecting

-----------------------------------------------------------------------------
(* The other steps *)

LEMMA BeginStep ==
    ASSUME Types, NEW r \in Request, NEW u \in User, NEW k \in Key, NEW route \in {"page", "link"},
           NEW prompt \in Secret \cup {None}, Begin(r, u, k, route, prompt)
    PROVE  LET x == [at |-> "read", who |-> u, route |-> route, prompt |-> prompt, on |-> k,
                     owner |-> None, spec |-> FromEntry(k, None, "unset"), seen |-> Sources(u, k),
                     recs |-> IF entry[k] = None THEN {} ELSE {entry[k].rec}]
           IN  x \in ReqType /\ Set(r, x)
<1> DEFINE s == FromEntry(k, None, "unset")
           n == Sources(u, k)
           c == IF entry[k] = None THEN {} ELSE {entry[k].rec}
           x == [at |-> "read", who |-> u, route |-> route, prompt |-> prompt, on |-> k,
                 owner |-> None, spec |-> s, seen |-> n, recs |-> c]
<1>1. s \in SpecType
  BY FromEntryType DEF Password, Ask
<1>2. n \in SUBSET Password
  BY DEF Types, StoreTypes, Sources, Password, Entry, Store
<1>3. c \in SUBSET Ask
  BY BoundsAssumption DEF Types, StoreTypes, Entry
<1>4. Set(r, x)
  BY BegunIs, Zenon
<1> HIDE DEF s, n, c
<1>5. x \in ReqType
  BY <1>1, <1>2, <1>3 DEF ReqType, At, Route
<1> QED BY <1>4, <1>5, Zenon DEF s, n, c

LEMMA AdhocStep ==
    ASSUME Types, NEW r \in Request, NEW u \in MayConnectAdhoc, NEW q \in Adhoc,
           ab_adhoc_connect(r, u, q) \/ api_create_session(r, u, q) \/ quick_connect_adhoc(r, u, q)
    PROVE  /\ Vault /\ UNCHANGED sess
           /\ \E at \in {"local", "create"}, s \in SpecType :
                  LET x == [at |-> at, who |-> u, route |-> "adhoc", prompt |-> None, on |-> None,
                            owner |-> None, spec |-> s, seen |-> {}, recs |-> {}]
                  IN  /\ x \in ReqType /\ Set(r, x)
                      /\ at = "create" /\ u \notin Admin => WithinPolicy(s)
<1> DEFINE X(at, s) == [at |-> at, who |-> u, route |-> "adhoc", prompt |-> None, on |-> None,
                        owner |-> None, spec |-> s, seen |-> {}, recs |-> {}]
           b == u \in Admin
           p == apply_adhoc_policy(q, b)
<1>1. q \in SpecType
  BY DEF Adhoc, SpecType, Password
<1>2. b \in BOOLEAN
  OBVIOUS
<1>3. p \in SpecType /\ (~ b => WithinPolicy(p))
  <2> HIDE DEF b
  <2> QED BY <1>1, <1>2, PolicyType, Zenon
<1>4. ASSUME NEW at \in {"local", "create"}, NEW s \in SpecType PROVE X(at, s) \in ReqType
  BY DEF ReqType, At, Route, User, MayConnectAdhoc
<1>5. \/ Set(r, [NoRequest EXCEPT !.at = "local", !.who = u, !.route = "adhoc", !.spec = q])
      \/ Set(r, [NoRequest EXCEPT !.at = "create", !.who = u, !.route = "adhoc", !.spec = p])
  BY Zenon DEF ab_adhoc_connect, api_create_session, quick_connect_adhoc
<1> HIDE DEF p
<1>6. Set(r, X("local", q)) \/ Set(r, X("create", p))
  <2>1. [NoRequest EXCEPT !.at = "local", !.who = u, !.route = "adhoc", !.spec = q] = X("local", q)
    BY AdhocIs, Zenon
  <2>2. [NoRequest EXCEPT !.at = "create", !.who = u, !.route = "adhoc", !.spec = p] = X("create", p)
    BY AdhocIs, Zenon
  <2> QED BY <1>5, <2>1, <2>2, Zenon
<1>7. Vault /\ UNCHANGED sess
  BY DEF ab_adhoc_connect, api_create_session, quick_connect_adhoc
<1> HIDE DEF X
<1>8. \E at \in {"local", "create"}, s \in SpecType :
          /\ X(at, s) \in ReqType /\ Set(r, X(at, s))
          /\ at = "create" /\ u \notin Admin => WithinPolicy(s)
  BY <1>1, <1>3, <1>4, <1>6
<1> QED BY <1>7, <1>8, Zenon DEF X

LEMMA SeenStep ==
    ASSUME Types, NEW us, NEW pws \in SUBSET Password, NEW recs \in SUBSET Ask,
           Seen(us, pws, recs)
    PROVE  /\ req' \in [Request -> ReqType]
           /\ \A r \in Request :
                  IF req[r].at = "idle" \/ req[r].who \notin us THEN req'[r] = req[r]
                  ELSE req'[r] = Told(req[r], pws, recs)
<1>1. \A r \in Request : req[r] \in ReqType
  BY DEF Types, RequestTypes
<1>2. \A r \in Request :
          IF req[r].at = "idle" \/ req[r].who \notin us THEN req'[r] = req[r]
          ELSE req'[r] = Told(req[r], pws, recs)
  <2> SUFFICES ASSUME NEW r \in Request
               PROVE  IF req[r].at = "idle" \/ req[r].who \notin us THEN req'[r] = req[r]
                      ELSE req'[r] = Told(req[r], pws, recs)
    OBVIOUS
  <2>1. req'[r] = IF req[r].at = "idle" \/ req[r].who \notin us THEN req[r]
                  ELSE [req[r] EXCEPT !.seen = @ \cup pws, !.recs = @ \cup recs]
    BY DEF Seen
  <2> QED BY <1>1, <2>1, ToldIs, Zenon
<1>3. \A r \in Request : Told(req[r], pws, recs) \in ReqType
  BY <1>1 DEF Told, ReqType
<1>4. req' = [r \in Request |-> req'[r]]
  <2> DEFINE f(r) == IF req[r].at = "idle" \/ req[r].who \notin us THEN req[r]
                     ELSE [req[r] EXCEPT !.seen = @ \cup pws, !.recs = @ \cup recs]
  <2>1. req' = [r \in Request |-> f(r)]
    BY DEF Seen
  <2> HIDE DEF f
  <2> QED BY <2>1
<1> QED BY <1>1, <1>2, <1>3, <1>4

\* The records of a save.
LEMMA SaveIs ==
    ASSUME NEW x \in SaveType, NEW at, NEW new
    PROVE  [x EXCEPT !.at = at, !.new = new]
           = [at |-> at, who |-> x.who, value |-> x.value, store |-> x.store, new |-> new]
<1> DEFINE S(a, n) == [at |-> a, who |-> x.who, value |-> x.value, store |-> x.store, new |-> n]
<1>1. x = S(x.at, x.new)
  BY DEF SaveType
<1>2. [S(x.at, x.new) EXCEPT !.at = at] = S(at, x.new)
  OBVIOUS
<1>3. [S(at, x.new) EXCEPT !.new = new] = S(at, new)
  OBVIOUS
<1> HIDE DEF S
<1>4. [x EXCEPT !.at = at, !.new = new] = S(at, new)
  BY <1>1, <1>2, <1>3, Zenon
<1> QED BY <1>4, Zenon DEF S

LEMMA SaveReadIs ==
    ASSUME NEW t, save[t] \in SaveType, ReadStore(t)
    PROVE  LET x == save[t] IN
           \/ Saving(t, [at |-> IF x.at = "local" /\ Split THEN "shared" ELSE "write", who |-> x.who,
                         value |-> x.value, store |-> x.store,
                         new |-> [x.new EXCEPT ![x.at] = creds[x.who][x.at]]])
           \/ Saving(t, NoSave)
<1> DEFINE x == save[t]
           S(a, n) == [at |-> a, who |-> x.who, value |-> x.value, store |-> x.store, new |-> n]
           at == IF x.at = "local" /\ Split THEN "shared" ELSE "write"
           st == x.at
           v == creds[x.who][st]
<1>1. x = S(x.at, x.new)
  BY DEF SaveType
<1>2. Saving(t, [x EXCEPT !.at = at, !.new[st] = v]) \/ Saving(t, NoSave)
  BY Zenon DEF ReadStore
<1> HIDE DEF x, at, st, v
<1>3. [S(x.at, x.new) EXCEPT !.at = at] = S(at, x.new)
  OBVIOUS
<1>4. [S(at, x.new) EXCEPT !.new[st] = v] = S(at, [x.new EXCEPT ![st] = v])
  OBVIOUS
<1> HIDE DEF S
<1>5. [x EXCEPT !.at = at, !.new[st] = v] = S(at, [x.new EXCEPT ![st] = v])
  BY <1>1, <1>3, <1>4, Zenon
<1>6. Saving(t, S(at, [x.new EXCEPT ![st] = v])) \/ Saving(t, NoSave)
  BY <1>2, <1>5, Zenon
<1> QED BY <1>6, Zenon DEF S, x, at, st, v

LEMMA SavingIs ==
    ASSUME NEW t, NEW u, NEW v, NEW st, put_my_credentials(t, u, v, st)
    PROVE  Saving(t, [at |-> "local", who |-> u, value |-> v, store |-> st,
                      new |-> [s \in Store |-> None]])
<1> DEFINE S(a, w, x, s, n) == [at |-> a, who |-> w, value |-> x, store |-> s, new |-> n]
           n0 == [s \in Store |-> None]
<1>1. NoSave = S("idle", None, None, "local", n0)
  BY DEF NoSave
<1> HIDE DEF n0
<1>2. [S("idle", None, None, "local", n0) EXCEPT !.at = "local"] = S("local", None, None, "local", n0)
  OBVIOUS
<1>3. [S("local", None, None, "local", n0) EXCEPT !.who = u] = S("local", u, None, "local", n0)
  OBVIOUS
<1>4. [S("local", u, None, "local", n0) EXCEPT !.value = v] = S("local", u, v, "local", n0)
  OBVIOUS
<1>5. [S("local", u, v, "local", n0) EXCEPT !.store = st] = S("local", u, v, st, n0)
  OBVIOUS
<1> HIDE DEF S
<1>6. [NoSave EXCEPT !.at = "local", !.who = u, !.value = v, !.store = st] = S("local", u, v, st, n0)
  BY <1>1, <1>2, <1>3, <1>4, <1>5, Zenon
<1>7. Saving(t, [NoSave EXCEPT !.at = "local", !.who = u, !.value = v, !.store = st])
  BY DEF put_my_credentials
<1>8. Saving(t, S("local", u, v, st, n0))
  BY <1>6, <1>7, Zenon
<1> QED BY <1>8, Zenon DEF S, n0

\* What a save writes is a value of each store.
LEMMA PartitionType ==
    ASSUME NEW x \in SaveType
    PROVE  partition_credential_writes(x) \in [Store -> Secret \cup {None}]
<1>1. x.new["local"] \in Secret \cup {None} /\ x.new["shared"] \in Secret \cup {None}
      /\ x.value \in Secret \cup {None}
  BY DEF SaveType, Store
<1> QED BY <1>1 DEF partition_credential_writes

\* The steps of a save.
TabNext(t) ==
    \/ \E u \in Keeper, v \in New \cup {None}, st \in Store : put_my_credentials(t, u, v, st)
    \/ ReadStore(t) \/ WriteLocal(t) \/ WriteShared(t) \/ WriteFails(t)

LEMMA SaveTypeStep == ASSUME Types, NEW t \in Tab, TabNext(t) PROVE SaveTypes'
<1>1. save[t] \in SaveType /\ NoSave \in SaveType /\ NoSave.at = "idle"
  BY DEF Types, SaveTypes, SaveType, NoSave, Store
<1>2. ASSUME NEW x \in SaveType, Saving(t, x), x.at # "idle" => x.who \in User PROVE SaveTypes'
  BY <1>2 DEF Saving, Types, SaveTypes
<1>3. CASE WriteFails(t) \/ WriteShared(t)
  BY <1>1, <1>2, <1>3 DEF WriteFails, WriteShared, Write
<1>4. ASSUME NEW u \in Keeper, NEW v \in New \cup {None}, NEW st \in Store,
             put_my_credentials(t, u, v, st)
      PROVE  SaveTypes'
  <2> DEFINE x == [at |-> "local", who |-> u, value |-> v, store |-> st,
                   new |-> [s \in Store |-> None]]
  <2>1. x \in SaveType /\ x.who \in User
    BY BoundsAssumption DEF SaveType
  <2>2. Saving(t, x)
    BY <1>4, SavingIs, Zenon
  <2> HIDE DEF x
  <2> QED BY <1>2, <2>1, <2>2
<1>5. CASE ReadStore(t)
  <2>1. save[t].at \in Store /\ save[t].who \in User
    BY <1>5 DEF ReadStore, Types, SaveTypes, Store
  <2> DEFINE st == save[t].at
             at == IF st = "local" /\ Split THEN "shared" ELSE "write"
             v == creds[save[t].who][st]
             x == [at |-> at, who |-> save[t].who, value |-> save[t].value,
                   store |-> save[t].store, new |-> [save[t].new EXCEPT ![st] = v]]
  <2>2. v \in Secret \cup {None}
    BY <2>1 DEF Types, StoreTypes
  <2>3. x \in SaveType /\ x.who \in User
    BY <1>1, <2>1, <2>2 DEF SaveType
  <2>4. Saving(t, x) \/ Saving(t, NoSave)
    BY <1>1, <1>5, SaveReadIs, Zenon
  <2> HIDE DEF x
  <2> QED BY <1>1, <1>2, <2>3, <2>4
<1>6. CASE WriteLocal(t)
  <2> DEFINE new == partition_credential_writes(save[t])
             x == [at |-> "write_shared", who |-> save[t].who, value |-> save[t].value,
                   store |-> save[t].store, new |-> new]
  <2>1. save[t].at = "write" /\ save[t].who \in User
    BY <1>6 DEF WriteLocal, Types, SaveTypes
  <2>2. new \in [Store -> Secret \cup {None}]
    BY <1>1, PartitionType
  <2> HIDE DEF new
  <2>3. x \in SaveType /\ x.who \in User
    BY <1>1, <2>1, <2>2 DEF SaveType
  <2>4. [save[t] EXCEPT !.at = "write_shared", !.new = new] = x
    BY <1>1, SaveIs, Zenon
  <2>5. Saving(t, x) \/ Saving(t, NoSave)
    <3> DEFINE y == IF Split THEN [save[t] EXCEPT !.at = "write_shared", !.new = new] ELSE NoSave
    <3>1. Write(t, "local", new["local"], y)
      BY <1>6 DEF WriteLocal, new
    <3>2. y = x \/ y = NoSave
      BY <2>4, Zenon
    <3> HIDE DEF y
    <3> QED BY <3>1, <3>2 DEF Write
  <2> HIDE DEF x
  <2> QED BY <1>1, <1>2, <2>3, <2>5
<1> QED BY <1>3, <1>4, <1>5, <1>6 DEF TabNext

\* Whatever an edit or a save changes, the requests that may read it next
\* are told of.
Tells(us, pws, recs) ==
    /\ Seen(us, pws, recs)
    /\ \A u \in User, k \in Key :
           /\ Sources(u, k)' \subseteq Sources(u, k) \cup (IF u \in us THEN pws ELSE {})
           /\ entry'[k] # None => \/ u \in us /\ entry'[k].rec \in recs
                                  \/ entry[k] # None /\ entry'[k].rec = entry[k].rec

Edits ==
    \/ \E k \in Key, e \in Edited \cup {None} : UpdateEntry(k, e)
    \/ \E pw \in New \cup {None, Var} : UpdateDefaults(pw)
    \/ \E t \in Tab : TabNext(t)

\* A step that leaves the requests alone tells nobody.
LEMMA ToldNothing == ASSUME Types, UNCHANGED req PROVE Seen({}, {}, {})
BY DEF Types, RequestTypes, Seen

LEMMA EditTells ==
    ASSUME Types, Edits
    PROVE  /\ UNCHANGED sess /\ StoreTypes' /\ SaveTypes'
           /\ \E us \in SUBSET User, pws \in SUBSET Password, recs \in SUBSET Ask : Tells(us, pws, recs)
<1>1. ASSUME NEW k \in Key, NEW e \in Edited \cup {None}, UpdateEntry(k, e)
      PROVE  /\ UNCHANGED <<sess, save>> /\ StoreTypes'
             /\ \E us \in SUBSET User, pws \in SUBSET Password, recs \in SUBSET Ask :
                    Tells(us, pws, recs)
  <2>1. /\ UNCHANGED <<lent, creds, save, sess>> /\ edits' \in 0..MaxEdits
        /\ entry' = [entry EXCEPT ![k] = e]
    BY <1>1, BoundsAssumption DEF UpdateEntry, Edit, Types, StoreTypes
  <2>2. e \in Entry \cup {None}
    BY BoundsAssumption DEF Edited, Entry, Password
  <2>3. StoreTypes'
    BY <2>1, <2>2 DEF Types, StoreTypes
  <2>4. \A j \in Key : entry'[j] = IF j = k THEN e ELSE entry[j]
    BY <2>1 DEF Types, StoreTypes
  <2>5. CASE e = None
    <3>1. Seen({}, {}, {})
      BY <1>1, <2>5, ToldNothing DEF UpdateEntry
    <3>2. Tells({}, {}, {})
      BY <2>1, <2>4, <2>5, <3>1 DEF Tells, Sources
    <3> QED BY <2>1, <2>3, <3>2
  <2>6. CASE e # None
    <3>1. Seen(User, {e.pw}, {e.rec})
      BY <1>1, <2>6 DEF UpdateEntry
    <3>2. e.pw \in Password /\ e.rec \in Ask
      BY <2>2, <2>6, BoundsAssumption DEF Entry
    <3>3. Tells(User, {e.pw}, {e.rec})
      BY <2>1, <2>4, <2>6, <3>1 DEF Tells, Sources
    <3> QED BY <2>1, <2>3, <3>2, <3>3
  <2> QED BY <2>5, <2>6
<1>2. ASSUME NEW pw \in New \cup {None, Var}, UpdateDefaults(pw)
      PROVE  /\ UNCHANGED <<sess, save>> /\ StoreTypes'
             /\ \E us \in SUBSET User, pws \in SUBSET Password, recs \in SUBSET Ask :
                    Tells(us, pws, recs)
  <2>1. /\ UNCHANGED <<entry, creds, save, sess>> /\ edits' \in 0..MaxEdits
        /\ lent' = pw /\ Seen(User, {pw}, {}) /\ pw \in Password
    BY <1>2, BoundsAssumption DEF UpdateDefaults, Edit, Types, StoreTypes, Password
  <2>2. Tells(User, {pw}, {})
    BY <2>1 DEF Tells, Sources
  <2> QED BY <2>1, <2>2 DEF Types, StoreTypes
<1>3. ASSUME NEW t \in Tab, TabNext(t)
      PROVE  /\ UNCHANGED sess /\ StoreTypes'
             /\ \E us \in SUBSET User, pws \in SUBSET Password, recs \in SUBSET Ask :
                    Tells(us, pws, recs)
  <2>1. CASE ReadStore(t) \/ WriteFails(t) \/ \E u \in Keeper, v \in New \cup {None}, st \in Store :
                                                  put_my_credentials(t, u, v, st)
    <3>1. UNCHANGED <<entry, lent, creds, req, sess>> /\ edits' \in 0..MaxEdits
      <4>1. UNCHANGED <<entry, lent, creds, req, sess>> /\ (UNCHANGED edits \/ Edit)
        BY <2>1, Zenon DEF ReadStore, WriteFails, put_my_credentials
      <4> QED BY <4>1, BoundsAssumption DEF Edit, Types, StoreTypes
    <3>2. Tells({}, {}, {})
      BY <3>1, ToldNothing DEF Tells, Sources
    <3> QED BY <3>1, <3>2 DEF Types, StoreTypes
  <2>2. ASSUME NEW st \in Store, NEW v \in Secret \cup {None}, NEW next, Write(t, st, v, next),
               save[t].who \in User
        PROVE  /\ UNCHANGED sess /\ StoreTypes'
               /\ \E us \in SUBSET User, pws \in SUBSET Password, recs \in SUBSET Ask :
                      Tells(us, pws, recs)
    <3> DEFINE w == save[t].who
    <3>1. /\ creds' = [creds EXCEPT ![w][st] = v] /\ Seen({w}, {v}, {})
          /\ UNCHANGED <<entry, lent, sess, edits>>
      BY <2>2 DEF Write
    <3>2. /\ creds' \in [User -> [Store -> Secret \cup {None}]]
          /\ \A u \in User, s \in Store :
                 creds'[u][s] = IF u = w /\ s = st THEN v ELSE creds[u][s]
      BY <2>2, <3>1 DEF Types, StoreTypes
    <3>3. \A u \in User, s \in Store : creds'[u][s] \in {creds[u][s]} \cup (IF u \in {w} THEN {v} ELSE {})
      BY <3>2
    <3>4. Tells({w}, {v}, {})
      BY <3>1, <3>3 DEF Tells, Sources, Store
    <3> QED BY <2>2, <3>1, <3>2, <3>4 DEF Types, StoreTypes, Password
  <2>3. save[t] \in SaveType
    BY DEF Types, SaveTypes
  <2>4. CASE WriteLocal(t)
    <3> DEFINE new == partition_credential_writes(save[t])
    <3>1. new["local"] \in Secret \cup {None}
      BY <2>3, PartitionType DEF Store
    <3>2. save[t].who \in User
      BY <2>4 DEF WriteLocal, Types, SaveTypes
    <3>3. \E next : Write(t, "local", new["local"], next)
      BY <2>4 DEF WriteLocal
    <3> HIDE DEF new
    <3> QED BY <2>2, <3>1, <3>2, <3>3 DEF Store
  <2>5. CASE WriteShared(t)
    <3>1. save[t].new["shared"] \in Secret \cup {None} /\ save[t].who \in User
      BY <2>3, <2>5 DEF WriteShared, Types, SaveTypes, SaveType, Store
    <3> QED BY <2>2, <2>5, <3>1 DEF WriteShared, Store
  <2> QED BY <1>3, <2>1, <2>4, <2>5 DEF TabNext
<1>4. UNCHANGED save => SaveTypes'
  BY DEF Types, SaveTypes
<1> QED BY <1>1, <1>2, <1>3, <1>4, SaveTypeStep DEF Edits

\* The steps of the system.
Begins ==
    \E r \in Request, u \in User, k \in Key, route \in {"page", "link"}, p \in Secret \cup {None} :
        (route = "link" => p = None) /\ Begin(r, u, k, route, p)
Adhocs ==
    \E r \in Request, u \in MayConnectAdhoc, q \in Adhoc :
        ab_adhoc_connect(r, u, q) \/ api_create_session(r, u, q) \/ quick_connect_adhoc(r, u, q)

LEMMA NextCases ==
    ASSUME Next
    PROVE  \/ \E r \in Request : Connecting(r)
           \/ Begins
           \/ Quiet /\ Adhocs
           \/ \E s \in Sid : Leave(s)
           \/ Edits
<1>1. ASSUME NEW r \in Request, NEW k \in Key,
             \/ \E u \in OnPage : \E p \in {None} \cup (IF u \in Keeper THEN Typed ELSE {}) :
                    ab_connect_entry(r, u, k, p)
             \/ \E u \in ByLink : quick_connect(r, u, k)
      PROVE  Begins
  <2>1. OnPage \subseteq User /\ ByLink \subseteq User /\ Typed \subseteq Secret
    BY BoundsAssumption
  <2> QED BY <1>1, <2>1 DEF Begins, ab_connect_entry, quick_connect
<1> QED BY <1>1, Zenon DEF Next, Adhocs, Edits, TabNext

\* A session is made.
LEMMA CreateStep ==
    ASSUME Types, NEW r \in Request, create_session(r)
    PROVE  /\ req[r].at = "create" /\ Admissible(req[r].spec) /\ Vault
           /\ Set(r, Moved(req[r], "done", req[r].spec))
           /\ \E s \in Sid :
                  /\ ~ sess[s].waits
                  /\ sess' = [sess EXCEPT ![s] = [waits |-> TRUE, who |-> req[r].who,
                                                  via |-> req[r].route, spec |-> req[r].spec]]
<1>1. req[r] \in ReqType
  BY DEF Types, RequestTypes
<1>2. Set(r, [req[r] EXCEPT !.at = "done", !.owner = req[r].who])
  BY Zenon DEF create_session
<1>3. Set(r, Moved(req[r], "done", req[r].spec))
  BY <1>1, <1>2, DoneIs, Zenon
<1> QED BY <1>3, Zenon DEF create_session

\* The type of a request.
LEMMA RequestHas ==
    ASSUME Types, NEW r \in Request
    PROVE  /\ req[r] \in ReqType /\ req[r].spec \in SpecType
           /\ req[r].at # "idle" => req[r].who \in User /\ req[r].route \in Route
BY DEF Types, RequestTypes, ReqType

LEMMA MovedType ==
    ASSUME NEW q \in ReqType, NEW at \in At, NEW s \in SpecType
    PROVE  /\ Moved(q, at, s) \in ReqType
           /\ Moved(q, at, s).at = at /\ Moved(q, at, s).spec = s
           /\ Moved(q, at, s).who = q.who /\ Moved(q, at, s).route = q.route
           /\ Moved(q, at, s).prompt = q.prompt
           /\ Moved(q, at, s).seen = q.seen /\ Moved(q, at, s).recs = q.recs
BY DEF Moved, ReqType

LEMMA MovedOwner ==
    ASSUME NEW q, NEW at, NEW s
    PROVE  /\ Moved(q, at, s).at = at /\ Moved(q, at, s).spec = s /\ Moved(q, at, s).route = q.route
           /\ Moved(q, at, s).who = q.who /\ Moved(q, at, s).on = q.on
           /\ at = "done" => Moved(q, at, s).owner = q.who
BY DEF Moved

LEMMA NoRequestType == NoRequest \in ReqType /\ NoRequest.at = "idle"
<1>1. Spec0 \in SpecType
  BY DEF Spec0, SpecType, Password, Ask
<1> QED BY <1>1 DEF NoRequest, ReqType, At

LEMMA NoSessionType == NoSession \in SessType /\ ~ NoSession.waits
<1>1. Spec0 \in SpecType
  BY DEF Spec0, SpecType, Password, Ask
<1> QED BY <1>1 DEF NoSession, SessType

LEMMA TypesStep == ASSUME Types, Next PROVE Types'
<1>1. ASSUME NEW r \in Request, NEW x \in ReqType, Set(r, x),
             x.at # "idle" => x.who \in User /\ x.route \in Route,
             x.at = "read" => x.spec.key \in Key
      PROVE  RequestTypes'
  BY <1>1 DEF Set, Types, RequestTypes
<1>2. ASSUME Vault PROVE StoreTypes' /\ SaveTypes'
  BY <1>2 DEF Vault, Types, StoreTypes, SaveTypes
<1>3. ASSUME UNCHANGED sess PROVE SessionTypes'
  BY <1>3 DEF Types, SessionTypes
<1>4. ASSUME NEW r \in Request, Connecting(r) PROVE Types'
  <2>1. req[r] \in ReqType /\ req[r].spec \in SpecType
    BY RequestHas, Zenon
  <2>2. Vault
    BY <1>4, ConnectingStep, Zenon
  <2>3. req[r].who \in User /\ req[r].route \in Route
    <3>1. req[r].at \in {"read", "lend", "local", "shared", "find", "create", "done"}
      BY <1>4, Zenon DEF Connecting, GetEntry, lend_folder_defaults, ReadLocal, ReadShared,
         Find, CreateFails, create_session, Answered
    <3> QED BY <3>1, RequestHas
  <2>4. CASE Idle(r) /\ UNCHANGED sess
    BY <1>1, <1>2, <1>3, <2>2, <2>4, NoRequestType DEF Idle, Types
  <2>5. CASE Going(r)
    <3>1. PICK at \in At, s \in SpecType :
              Set(r, Moved(req[r], at, s)) /\ Goes(req[r], at, s) /\ UNCHANGED sess
      BY <2>5 DEF Going
    <3>2. at # "read"
      BY <3>1 DEF Goes
    <3> DEFINE x == Moved(req[r], at, s)
    <3>3. x \in ReqType /\ x.at = at /\ x.who = req[r].who /\ x.route = req[r].route
      BY <2>1, MovedType
    <3>4. RequestTypes'
      <4>1. Set(r, x)
        BY <3>1
      <4> HIDE DEF x
      <4> QED BY <1>1, <2>3, <3>2, <3>3, <4>1
    <3> QED BY <1>2, <1>3, <2>2, <3>1, <3>4 DEF Types
  <2>6. CASE create_session(r)
    <3>1. PICK s \in Sid : sess' = [sess EXCEPT ![s] = [waits |-> TRUE, who |-> req[r].who,
                                                       via |-> req[r].route, spec |-> req[r].spec]]
      BY <2>6, CreateStep
    <3>2. SessionTypes'
      BY <2>1, <2>3, <3>1 DEF Types, SessionTypes, SessType
    <3>3. Set(r, Moved(req[r], "done", req[r].spec))
      BY <2>6, CreateStep
    <3> DEFINE x == Moved(req[r], "done", req[r].spec)
    <3>4. x \in ReqType /\ x.at = "done" /\ x.who = req[r].who /\ x.route = req[r].route
      <4>1. "done" \in At
        BY DEF At
      <4> DEFINE q == req[r]
                 s0 == req[r].spec
      <4>2. q \in ReqType /\ s0 \in SpecType
        BY <2>1
      <4> HIDE DEF q, s0
      <4>3. /\ Moved(q, "done", s0) \in ReqType /\ Moved(q, "done", s0).at = "done"
            /\ Moved(q, "done", s0).who = q.who /\ Moved(q, "done", s0).route = q.route
        BY <4>1, <4>2, MovedType
      <4> QED BY <4>3, Zenon DEF q, s0
    <3>5. RequestTypes'
      <4>1. Set(r, x)
        BY <3>3
      <4> HIDE DEF x
      <4> QED BY <1>1, <2>3, <3>4, <4>1
    <3> QED BY <1>2, <2>2, <3>2, <3>5 DEF Types
  <2> QED BY <1>4, <2>4, <2>5, <2>6, ConnectingStep
<1>5. CASE Begins
  <2>1. PICK r \in Request, u \in User, k \in Key, route \in {"page", "link"}, p \in Secret \cup {None} :
            Begin(r, u, k, route, p)
    BY <1>5 DEF Begins
  <2> DEFINE x == [at |-> "read", who |-> u, route |-> route, prompt |-> p, on |-> k,
                   owner |-> None, spec |-> FromEntry(k, None, "unset"), seen |-> Sources(u, k),
                   recs |-> IF entry[k] = None THEN {} ELSE {entry[k].rec}]
  <2>2. x \in ReqType /\ Set(r, x)
    BY <2>1, BeginStep
  <2>3. x.who \in User /\ x.route \in Route /\ x.spec.key \in Key
    BY FromEntryType DEF Route, Password, Ask
  <2> HIDE DEF x
  <2>4. RequestTypes'
    BY <1>1, <2>2, <2>3
  <2>5. Vault /\ UNCHANGED sess
    BY <2>1, Zenon DEF Begin
  <2> QED BY <1>2, <1>3, <2>4, <2>5 DEF Types
<1>6. CASE Adhocs
  <2>1. PICK r \in Request, u \in MayConnectAdhoc, q \in Adhoc :
            ab_adhoc_connect(r, u, q) \/ api_create_session(r, u, q) \/ quick_connect_adhoc(r, u, q)
    BY <1>6 DEF Adhocs
  <2>2. PICK at \in {"local", "create"}, s \in SpecType :
            LET x == [at |-> at, who |-> u, route |-> "adhoc", prompt |-> None, on |-> None,
                      owner |-> None, spec |-> s, seen |-> {}, recs |-> {}]
            IN  x \in ReqType /\ Set(r, x)
    BY <2>1, AdhocStep
  <2>3. RequestTypes'
    BY <1>1, <2>2 DEF Route, MayConnectAdhoc, User
  <2> QED BY <1>2, <1>3, <2>1, <2>3, AdhocStep DEF Types
<1>7. ASSUME NEW s \in Sid, Leave(s) PROVE Types'
  <2>1. sess' = [sess EXCEPT ![s] = NoSession] /\ UNCHANGED <<entry, lent, creds, req, save, edits>>
    BY <1>7 DEF Leave, Only
  <2>2. SessionTypes'
    BY <2>1, NoSessionType DEF Types, SessionTypes
  <2> QED BY <2>1, <2>2 DEF Types, StoreTypes, SaveTypes, RequestTypes
<1>8. CASE Edits
  <2>1. PICK us \in SUBSET User, pws \in SUBSET Password, recs \in SUBSET Ask : Tells(us, pws, recs)
    BY <1>8, EditTells
  <2>2. RequestTypes'
    <3>1. Seen(us, pws, recs)
      BY <2>1 DEF Tells
    <3>2. /\ req' \in [Request -> ReqType]
          /\ \A r \in Request : req'[r] = req[r] \/ req'[r] = Told(req[r], pws, recs)
      BY <3>1, SeenStep
    <3>3. \A r \in Request : /\ req'[r].at = req[r].at /\ req'[r].who = req[r].who
                             /\ req'[r].route = req[r].route /\ req'[r].spec = req[r].spec
      BY <3>2 DEF Told
    <3> QED BY <3>2, <3>3 DEF Types, RequestTypes
  <2> QED BY <1>3, <1>8, <2>2, EditTells DEF Types
<1> QED BY <1>4, <1>5, <1>6, <1>7, <1>8, NextCases

-----------------------------------------------------------------------------
(* No edit is missed *)

\* A request for an entry stays one for that entry.
LEMMA GoesOn ==
    ASSUME Types, NEW r \in Request, NEW at \in At, NEW s \in SpecType, Goes(req[r], at, s)
    PROVE  /\ req[r].at \notin {"idle", "create", "done"} /\ at \notin {"idle", "read"}
           /\ Book(req[r]) => s.key = req[r].spec.key
           /\ Book(req[r]) /\ req[r].at # "read" => s.rec = req[r].spec.rec
<1> DEFINE q == req[r]
<1>1. q \in ReqType /\ q.spec \in SpecType /\ lent \in Password
  BY DEF Types, StoreTypes, RequestTypes, ReqType
<1>2. q.at \notin {"idle", "create", "done"} /\ at \notin {"idle", "read"}
  BY DEF Goes, Resolves
<1>3. q.who \in User /\ creds[q.who]["local"] \in Password /\ None \in Password
  BY <1>2 DEF Types, StoreTypes, RequestTypes, Password, Store
<1>4. ASSUME Book(q), NEW pw \in Password, s = WithPw(q.spec, pw)
      PROVE  s.key = q.spec.key /\ s.rec = q.spec.rec
  BY <1>4 DEF WithPw
<1>5. ASSUME q.at = "read", s = FromEntry(q.spec.key, entry[q.spec.key].pw, entry[q.spec.key].rec)
      PROVE  s.key = q.spec.key
  BY <1>5, FromEntryFields
<1>6. q.prompt \in Password /\ q.spec.pw \in Password
  BY <1>1 DEF ReqType, SpecType, Password
<1> QED BY <1>1, <1>2, <1>3, <1>4, <1>5, <1>6 DEF Goes, Book

\* The other requests stay as they are.
LEMMA SetOthers ==
    ASSUME Types, NEW r \in Request, NEW x, Set(r, x)
    PROVE  \A o \in Request : req'[o] = IF o = r THEN x ELSE req[o]
BY DEF Types, RequestTypes, Set

LEMMA SourcesStep == ASSUME Types, SourcesSeen, Next PROVE SourcesSeen'
<1> DEFINE Told0(x) == Book(x) => LET k == x.spec.key IN
                                  /\ k \in Key
                                  /\ Sources(x.who, k) \subseteq x.seen
                                  /\ entry[k] # None => entry[k].rec \in x.recs
<1>1. \A r \in Request : Told0(req[r])
  BY DEF SourcesSeen
<1>2. ASSUME NEW r \in Request, NEW x, Set(r, x), Told0(x), Vault PROVE SourcesSeen'
  <2>1. \A o \in Request : Told0(req'[o])
    BY <1>1, <1>2, SetOthers
  <2> QED BY <1>2, <2>1 DEF SourcesSeen, Sources, Vault
<1>3. ASSUME NEW r \in Request, Connecting(r) PROVE SourcesSeen'
  <2>1. req[r] \in ReqType /\ req[r].spec \in SpecType /\ Vault
    BY <1>3, ConnectingStep DEF Types, RequestTypes, ReqType
  <2>2. CASE Idle(r)
    BY <1>2, <2>1, <2>2, NoRequestType DEF Idle, Book
  <2>3. ASSUME NEW at \in At, NEW s \in SpecType, Set(r, Moved(req[r], at, s)),
               Book(req[r]) => s.key = req[r].spec.key, req[r].at # "idle"
        PROVE  SourcesSeen'
    <3>1. Told0(Moved(req[r], at, s))
      BY <1>1, <2>1, <2>3, MovedType DEF Book
    <3> HIDE DEF Told0
    <3> QED BY <1>2, <2>1, <2>3, <3>1
  <2>4. CASE Going(r)
    BY <2>3, <2>4, GoesOn DEF Going
  <2>5. CASE create_session(r)
    <3>1. "done" \in At /\ req[r].at # "idle"
      BY <2>5 DEF At, create_session
    <3> QED BY <2>1, <2>3, <2>5, <3>1, CreateStep
  <2> QED BY <1>3, <2>2, <2>4, <2>5, ConnectingStep
<1>4. CASE Begins
  <2>1. PICK r \in Request, u \in User, k \in Key, route \in {"page", "link"}, p \in Secret \cup {None} :
            Begin(r, u, k, route, p)
    BY <1>4 DEF Begins
  <2> DEFINE x == [at |-> "read", who |-> u, route |-> route, prompt |-> p, on |-> k,
                   owner |-> None, spec |-> FromEntry(k, None, "unset"), seen |-> Sources(u, k),
                   recs |-> IF entry[k] = None THEN {} ELSE {entry[k].rec}]
  <2>2. Set(r, x)
    BY <2>1, BeginStep
  <2>3. x.spec.key = k
    BY FromEntryType DEF Password, Ask
  <2>4. Told0(x)
    BY <2>3
  <2>5. Vault
    BY <2>1, Zenon DEF Begin
  <2> HIDE DEF x, Told0
  <2> QED BY <1>2, <2>2, <2>4, <2>5
<1>5. CASE Adhocs
  <2>1. PICK r \in Request, u \in MayConnectAdhoc, q \in Adhoc :
            ab_adhoc_connect(r, u, q) \/ api_create_session(r, u, q) \/ quick_connect_adhoc(r, u, q)
    BY <1>5 DEF Adhocs
  <2>2. PICK at \in {"local", "create"}, s \in SpecType :
            Set(r, [at |-> at, who |-> u, route |-> "adhoc", prompt |-> None, on |-> None,
                    owner |-> None, spec |-> s, seen |-> {}, recs |-> {}])
    BY <2>1, AdhocStep
  <2> QED BY <1>2, <2>1, <2>2, AdhocStep DEF Book
<1>6. ASSUME NEW s \in Sid, Leave(s) PROVE SourcesSeen'
  BY <1>6 DEF Leave, Only, SourcesSeen, Sources
<1>7. CASE Edits
  <2>1. PICK us \in SUBSET User, pws \in SUBSET Password, recs \in SUBSET Ask : Tells(us, pws, recs)
    BY <1>7, EditTells
  <2>2. Seen(us, pws, recs)
    BY <2>1 DEF Tells
  <2>3. ASSUME NEW r \in Request, Book(req'[r]), NEW u, u = req[r].who, NEW k, k = req[r].spec.key
        PROVE  /\ req'[r].who = u /\ req'[r].spec.key = k
               /\ k \in Key
               /\ Sources(u, k)' \subseteq req'[r].seen
               /\ entry'[k] # None => entry'[k].rec \in req'[r].recs
    <3> DEFINE q == req[r]
    <3>1. IF q.at = "idle" \/ u \notin us THEN req'[r] = q ELSE req'[r] = Told(q, pws, recs)
      BY <2>2, <2>3, SeenStep
    <3>2. req'[r].at = q.at /\ req'[r].who = u /\ req'[r].route = q.route /\ req'[r].spec = q.spec
      BY <2>3, <3>1 DEF Told
    <3>3. Book(q) /\ q.at # "idle"
      BY <2>3, <3>2 DEF Book
    <3>4. /\ q.seen \cup (IF u \in us THEN pws ELSE {}) \subseteq req'[r].seen
          /\ q.recs \cup (IF u \in us THEN recs ELSE {}) \subseteq req'[r].recs
      BY <3>1, <3>3 DEF Told
    <3>5. /\ k \in Key /\ u \in User /\ Sources(u, k) \subseteq q.seen
          /\ entry[k] # None => entry[k].rec \in q.recs
      BY <2>3, <3>3 DEF SourcesSeen, Types, RequestTypes
    <3>6. /\ Sources(u, k)' \subseteq Sources(u, k) \cup (IF u \in us THEN pws ELSE {})
          /\ entry'[k] # None => \/ u \in us /\ entry'[k].rec \in recs
                                 \/ entry[k] # None /\ entry'[k].rec = entry[k].rec
      BY <2>1, <3>5 DEF Tells
    <3> QED BY <2>3, <3>2, <3>4, <3>5, <3>6
  <2> QED BY <2>3 DEF SourcesSeen, Sources, Book
<1> QED BY <1>3, <1>4, <1>5, <1>6, <1>7, NextCases

\* What ReadsSeen says of a request.
Reads(q) ==
    /\ q.route = "link" => q.prompt = None
    /\ q.at \in {"lend", "local"} => q.spec.pw \in q.seen
    /\ q.at = "shared" => q.spec.pw \in q.seen \cup {None}
    /\ q.at \in {"find", "create", "done"} =>
           q.spec.pw \in (IF q.prompt # None THEN {q.prompt} ELSE q.seen)
    /\ q.at # "read" => q.spec.rec \in q.recs

LEMMA ReadsParts == ReadsSeen <=> \A r \in Request : Book(req[r]) => Reads(req[r])
BY DEF ReadsSeen, Reads

\* A request goes on with what it has been told of.
LEMMA GoesReads ==
    ASSUME Types, SourcesSeen, ReadsSeen, NEW r \in Request, NEW at \in At, NEW s \in SpecType,
           Goes(req[r], at, s), Book(Moved(req[r], at, s))
    PROVE  Reads(Moved(req[r], at, s))
<1> DEFINE q == req[r]
           k == q.spec.key
           x == Moved(q, at, s)
<1>1. q \in ReqType /\ q.spec \in SpecType /\ lent \in Password
  BY DEF Types, StoreTypes, RequestTypes, ReqType
<1>2. /\ x.at = at /\ x.spec = s /\ x.route = q.route /\ x.prompt = q.prompt
      /\ x.seen = q.seen /\ x.recs = q.recs
  BY <1>1, MovedType
<1>3. Book(q)
  BY <1>2, GoesOn DEF Book
<1>4. Reads(q) /\ q.who \in User /\ q.route \in {"page", "link"}
  BY <1>3, ReadsParts DEF Types, RequestTypes, Book
<1>5. /\ lent \in q.seen /\ creds[q.who]["local"] \in q.seen /\ creds[q.who]["shared"] \in q.seen
      /\ k \in Key
      /\ entry[k] # None => entry[k].pw \in q.seen /\ entry[k].rec \in q.recs
  BY <1>3 DEF SourcesSeen, Sources
<1>6. creds[q.who]["local"] \in Password /\ None \in Password /\ q.spec.pw \in Password
      /\ q.prompt \in Password
  BY <1>1, <1>4 DEF Types, StoreTypes, Password, Store, ReqType, SpecType
<1>7. \A pw : WithPw(q.spec, pw).pw = pw /\ WithPw(q.spec, pw).rec = q.spec.rec
  BY DEF WithPw
<1>8. ASSUME NEW pw \in Password, Resolves(q, pw), q.at = "shared" => pw # None
      PROVE  pw \in q.seen /\ q.spec.rec \in q.recs
  BY <1>4, <1>5, <1>8 DEF Resolves, Reads
<1> HIDE DEF x
<1>9. CASE /\ q.at = "read" /\ at = "lend" /\ entry[k] # None
           /\ s = FromEntry(k, entry[k].pw, entry[k].rec)
  <2>1. s.pw = entry[k].pw /\ s.rec = entry[k].rec
    <3> DEFINE p == entry[k].pw
               c == entry[k].rec
    <3>1. s = FromEntry(k, p, c)
      BY <1>9, Zenon
    <3> HIDE DEF p, c, k
    <3>2. FromEntry(k, p, c).pw = p /\ FromEntry(k, p, c).rec = c
      BY FromEntryFields
    <3>3. s.pw = p /\ s.rec = c
      BY <3>1, <3>2, Zenon
    <3> QED BY <3>3, Zenon DEF p, c, k
  <2>2. x.at = "lend" /\ x.spec.pw \in x.seen /\ x.spec.rec \in x.recs
    BY <1>2, <1>5, <1>9, <2>1, Zenon
  <2>3. x.route = "link" => x.prompt = None
    BY <1>2, <1>4 DEF Reads
  <2>4. Reads(x)
    BY <2>2, <2>3 DEF Reads
  <2> QED BY <2>4, Zenon DEF x
<1>10. CASE q.at = "lend" /\ at = "local" /\ \E pw \in {q.spec.pw, lent} : s = WithPw(q.spec, pw)
  <2>1. Reads(x)
    BY <1>2, <1>4, <1>5, <1>7, <1>10 DEF Reads
  <2> QED BY <2>1, Zenon DEF x
<1>11. CASE /\ q.at = "local" /\ at = "shared"
            /\ \E pw \in {None, creds[q.who]["local"]} : s = WithPw(q.spec, pw)
  <2>1. Reads(x)
    BY <1>2, <1>4, <1>5, <1>7, <1>11 DEF Reads
  <2> QED BY <2>1, Zenon DEF x
<1>12. CASE /\ q.route = "page" /\ at = "find"
            /\ \E pw \in Password : /\ Resolves(q, pw) /\ (q.at = "shared" => pw # None)
                                    /\ s = WithPw(q.spec, IF q.prompt = None THEN pw ELSE q.prompt)
  <2>1. PICK pw \in Password : /\ Resolves(q, pw) /\ (q.at = "shared" => pw # None)
                               /\ s = WithPw(q.spec, IF q.prompt = None THEN pw ELSE q.prompt)
    BY <1>12
  <2>2. s.pw = (IF q.prompt = None THEN pw ELSE q.prompt) /\ s.rec = q.spec.rec
    BY <1>7, <2>1
  <2>3. Reads(x)
    BY <1>2, <1>8, <1>12, <2>1, <2>2 DEF Reads
  <2> QED BY <2>3, Zenon DEF x
<1>13. CASE /\ q.route = "link" /\ at = "create"
            /\ \E pw \in Password : Resolves(q, pw) /\ pw # None /\ s = WithPw(q.spec, pw)
  <2>1. Reads(x)
    BY <1>2, <1>4, <1>7, <1>8, <1>13 DEF Reads
  <2> QED BY <2>1, Zenon DEF x
<1>14. CASE q.at = "find" /\ at \in {"create", "done"} /\ s = q.spec
  <2>1. Reads(x)
    BY <1>2, <1>4, <1>14 DEF Reads
  <2> QED BY <2>1, Zenon DEF x
<1>15. q.route # "adhoc"
  BY <1>4
<1> QED BY <1>9, <1>10, <1>11, <1>12, <1>13, <1>14, <1>15 DEF Goes

LEMMA ReadsStep == ASSUME Types, SourcesSeen, ReadsSeen, Next PROVE ReadsSeen'
<1> DEFINE Good(x) == Book(x) => Reads(x)
<1>1. ReadsSeen' <=> \A r \in Request : Good(req'[r])
  BY DEF ReadsSeen, Book, Reads
<1>2. \A r \in Request : Good(req[r])
  BY ReadsParts
<1>3. ASSUME NEW r \in Request, NEW x, Set(r, x), Good(x) PROVE ReadsSeen'
  <2> HIDE DEF Good
  <2> QED BY <1>1, <1>2, <1>3, SetOthers
<1>4. ASSUME NEW r \in Request, Connecting(r) PROVE ReadsSeen'
  <2>1. CASE Idle(r)
    BY <1>3, <2>1, NoRequestType DEF Idle, Book
  <2>2. CASE Going(r)
    BY <1>3, <2>2, GoesReads DEF Going
  <2>3. CASE create_session(r)
    <3> DEFINE x == Moved(req[r], "done", req[r].spec)
    <3>1. req[r].at = "create" /\ Set(r, x)
      BY <2>3, CreateStep
    <3>2. req[r] \in ReqType /\ req[r].spec \in SpecType /\ "done" \in At
      BY DEF Types, RequestTypes, ReqType, At
    <3>3. /\ x.at = "done" /\ x.spec = req[r].spec /\ x.route = req[r].route
          /\ x.prompt = req[r].prompt /\ x.seen = req[r].seen /\ x.recs = req[r].recs
      BY DEF Moved
    <3> HIDE DEF x
    <3>4. Good(x)
      BY <1>2, <3>1, <3>3 DEF Book, Reads
    <3> QED BY <1>3, <3>1, <3>4
  <2> QED BY <1>4, <2>1, <2>2, <2>3, ConnectingStep
<1>5. CASE Begins
  <2>1. PICK r \in Request, u \in User, k \in Key, route \in {"page", "link"}, p \in Secret \cup {None} :
            (route = "link" => p = None) /\ Begin(r, u, k, route, p)
    BY <1>5 DEF Begins
  <2> DEFINE x == [at |-> "read", who |-> u, route |-> route, prompt |-> p, on |-> k,
                   owner |-> None, spec |-> FromEntry(k, None, "unset"), seen |-> Sources(u, k),
                   recs |-> IF entry[k] = None THEN {} ELSE {entry[k].rec}]
  <2>2. Set(r, x)
    BY <2>1, BeginStep
  <2>3. x.at = "read" /\ x.route = route /\ x.prompt = p
    OBVIOUS
  <2> HIDE DEF x
  <2>4. Good(x)
    BY <2>1, <2>3 DEF Reads
  <2> QED BY <1>3, <2>2, <2>4
<1>6. CASE Adhocs
  <2>1. PICK r \in Request, u \in MayConnectAdhoc, q \in Adhoc :
            ab_adhoc_connect(r, u, q) \/ api_create_session(r, u, q) \/ quick_connect_adhoc(r, u, q)
    BY <1>6 DEF Adhocs
  <2>2. PICK at \in {"local", "create"}, s \in SpecType :
            Set(r, [at |-> at, who |-> u, route |-> "adhoc", prompt |-> None, on |-> None,
                    owner |-> None, spec |-> s, seen |-> {}, recs |-> {}])
    BY <2>1, AdhocStep
  <2> QED BY <1>3, <2>2 DEF Book
<1>7. ASSUME NEW s \in Sid, Leave(s) PROVE ReadsSeen'
  BY <1>1, <1>2, <1>7 DEF Leave, Only
<1>8. CASE Edits
  <2>1. PICK us \in SUBSET User, pws \in SUBSET Password, recs \in SUBSET Ask : Tells(us, pws, recs)
    BY <1>8, EditTells
  <2>2. Seen(us, pws, recs)
    BY <2>1 DEF Tells
  <2>3. ASSUME NEW r \in Request PROVE Good(req'[r])
    <3>1. req'[r] = req[r] \/ req'[r] = Told(req[r], pws, recs)
      BY <2>2, SeenStep
    <3>2. /\ req'[r].at = req[r].at /\ req'[r].route = req[r].route /\ req'[r].spec = req[r].spec
          /\ req'[r].prompt = req[r].prompt
          /\ req[r].seen \subseteq req'[r].seen /\ req[r].recs \subseteq req'[r].recs
      BY <3>1 DEF Told
    <3> QED BY <1>2, <3>2 DEF Book, Reads
  <2> QED BY <1>1, <2>3
<1> QED BY <1>4, <1>5, <1>6, <1>7, <1>8, NextCases

LEMMA OwnStep == ASSUME Types, OwnAnswers, Next PROVE OwnAnswers'
<1>1. \A r \in Request : Answers(req[r])
  BY DEF OwnAnswers
<1>2. ASSUME NEW r \in Request, NEW x, Set(r, x), Answers(x) PROVE OwnAnswers'
  <2>1. \A o \in Request : Answers(req'[o])
    BY <1>1, <1>2, SetOthers
  <2> QED BY <2>1 DEF OwnAnswers, Answers, Book
<1>3. ASSUME NEW r \in Request, NEW at, NEW s, Set(r, Moved(req[r], at, s)),
             Book(req[r]) => s.key = req[r].spec.key, req[r].at # "idle"
      PROVE  OwnAnswers'
  <2> DEFINE x == Moved(req[r], at, s)
  <2>1. /\ x.at = at /\ x.spec = s /\ x.route = req[r].route /\ x.who = req[r].who
        /\ x.on = req[r].on /\ (at = "done" => x.owner = req[r].who)
    BY MovedOwner
  <2>2. Answers(req[r])
    BY <1>1
  <2>3. Set(r, x)
    BY <1>3
  <2> HIDE DEF x
  <2>4. Answers(x)
    BY <1>3, <2>1, <2>2 DEF Answers, Book
  <2> QED BY <1>2, <2>3, <2>4
<1>4. ASSUME NEW r \in Request, Connecting(r) PROVE OwnAnswers'
  <2>1. CASE Idle(r)
    BY <1>2, <2>1, NoRequestType DEF Idle, Book, Answers
  <2>2. CASE Going(r)
    BY <1>3, <2>2, GoesOn DEF Going
  <2>3. CASE create_session(r)
    <3>1. req[r].at # "idle" /\ Set(r, Moved(req[r], "done", req[r].spec))
      BY <2>3, CreateStep
    <3> QED BY <1>3, <3>1
  <2> QED BY <1>4, <2>1, <2>2, <2>3, ConnectingStep
<1>5. CASE Begins
  <2>1. PICK r \in Request, u \in User, k \in Key, route \in {"page", "link"}, p \in Secret \cup {None} :
            Begin(r, u, k, route, p)
    BY <1>5 DEF Begins
  <2> DEFINE x == [at |-> "read", who |-> u, route |-> route, prompt |-> p, on |-> k,
                   owner |-> None, spec |-> FromEntry(k, None, "unset"), seen |-> Sources(u, k),
                   recs |-> IF entry[k] = None THEN {} ELSE {entry[k].rec}]
  <2>2. Set(r, x)
    BY <2>1, BeginStep
  <2>3. x.at = "read" /\ x.on = k /\ x.spec = FromEntry(k, None, "unset")
    OBVIOUS
  <2> HIDE DEF x
  <2>4. x.spec.key = k
    <3> DEFINE a == None
               c == "unset"
    <3> HIDE DEF a, c
    <3>1. FromEntry(k, a, c).key = k
      BY FromEntryFields
    <3> QED BY <2>3, <3>1, Zenon DEF a, c
  <2>5. Answers(x)
    BY <2>3, <2>4 DEF Answers
  <2> QED BY <1>2, <2>2, <2>5
<1>6. CASE Adhocs
  <2>1. PICK r \in Request, u \in MayConnectAdhoc, q \in Adhoc :
            ab_adhoc_connect(r, u, q) \/ api_create_session(r, u, q) \/ quick_connect_adhoc(r, u, q)
    BY <1>6 DEF Adhocs
  <2>2. PICK at \in {"local", "create"}, s \in SpecType :
            Set(r, [at |-> at, who |-> u, route |-> "adhoc", prompt |-> None, on |-> None,
                    owner |-> None, spec |-> s, seen |-> {}, recs |-> {}])
    BY <2>1, AdhocStep
  <2> QED BY <1>2, <2>2 DEF Answers, Book
<1>7. ASSUME NEW s \in Sid, Leave(s) PROVE OwnAnswers'
  BY <1>1, <1>7 DEF Leave, Only, OwnAnswers, Answers, Book
<1>8. CASE Edits
  <2>1. PICK us \in SUBSET User, pws \in SUBSET Password, recs \in SUBSET Ask : Tells(us, pws, recs)
    BY <1>8, EditTells
  <2>2. Seen(us, pws, recs)
    BY <2>1 DEF Tells
  <2>3. ASSUME NEW r \in Request PROVE Answers(req'[r])
    <3>1. req'[r] = req[r] \/ req'[r] = Told(req[r], pws, recs)
      BY <2>2, SeenStep
    <3>2. /\ req'[r].at = req[r].at /\ req'[r].route = req[r].route /\ req'[r].spec = req[r].spec
          /\ req'[r].who = req[r].who /\ req'[r].on = req[r].on /\ req'[r].owner = req[r].owner
      BY <3>1 DEF Told
    <3> QED BY <1>1, <3>2 DEF Answers, Book
  <2> QED BY <2>3 DEF OwnAnswers, Answers, Book
<1> QED BY <1>4, <1>5, <1>6, <1>7, <1>8, NextCases

-----------------------------------------------------------------------------
(* The policy of ad-hoc sessions *)

\* What PolicyApplied says of a request and of a session.
Fenced(q) ==
    q.at # "idle" /\ q.route = "adhoc" =>
        /\ q.at \notin {"read", "lend", "find"}
        /\ q.at = "create" /\ q.who \notin Admin => WithinPolicy(q.spec)
Kept(x) ==
    x.waits /\ x.via = "adhoc" /\ x.who \notin Admin => WithinPolicy(x.spec) /\ Admissible(x.spec)

LEMMA PolicyParts ==
    PolicyApplied <=> (\A r \in Request : Fenced(req[r])) /\ (\A s \in Sid : Kept(sess[s]))
BY DEF PolicyApplied, Fenced, Kept

LEMMA GoesFenced ==
    ASSUME Types, PolicyApplied, NEW r \in Request, NEW at \in At, NEW s \in SpecType,
           Goes(req[r], at, s)
    PROVE  Fenced(Moved(req[r], at, s))
<1> DEFINE q == req[r]
           x == Moved(q, at, s)
<1>1. q \in ReqType /\ q.spec \in SpecType
  BY DEF Types, RequestTypes, ReqType
<1>2. x.at = at /\ x.spec = s /\ x.route = q.route /\ x.who = q.who
  BY <1>1, MovedType
<1>3. Fenced(q) /\ q.at # "idle"
  BY PolicyParts, GoesOn
<1> HIDE DEF x
<1>4. CASE q.route = "adhoc" /\ q.at \in {"local", "shared"} /\ at = "create"
  <2> DEFINE b == q.who \in Admin
  <2>1. PICK pw \in Password : s = apply_adhoc_policy(WithPw(q.spec, pw), b)
    BY <1>4, Zenon DEF Goes
  <2>2. b \in BOOLEAN /\ WithPw(q.spec, pw) \in SpecType
    BY <1>1, WithPwType
  <2>3. ~ b => WithinPolicy(s)
    <3> HIDE DEF b
    <3> QED BY <2>1, <2>2, PolicyType, Zenon
  <2>4. Fenced(x)
    BY <1>2, <1>4, <2>3 DEF Fenced
  <2> QED BY <2>4, Zenon DEF x
<1>5. CASE q.route # "adhoc" \/ at = "shared"
  <2>1. Fenced(x)
    BY <1>2, <1>5 DEF Fenced
  <2> QED BY <2>1, Zenon DEF x
<1>6. q.route = "adhoc" => q.at \in {"local", "shared"} /\ at \in {"create", "shared"}
  BY <1>3 DEF Goes, Resolves, Fenced
<1> QED BY <1>4, <1>5, <1>6

LEMMA PolicyStep == ASSUME Types, PolicyApplied, Next PROVE PolicyApplied'
<1>1. (\A r \in Request : Fenced(req[r])) /\ (\A s \in Sid : Kept(sess[s]))
  BY PolicyParts
<1>2. (\A r \in Request : Fenced(req'[r])) /\ (\A s \in Sid : Kept(sess'[s])) => PolicyApplied'
  BY DEF PolicyApplied, Fenced, Kept
<1>3. ASSUME NEW r \in Request, NEW x, Set(r, x), Fenced(x)
      PROVE  \A o \in Request : Fenced(req'[o])
  BY <1>1, <1>3, SetOthers
<1>4. ASSUME UNCHANGED sess PROVE \A s \in Sid : Kept(sess'[s])
  BY <1>1, <1>4
<1>5. ASSUME NEW r \in Request, Connecting(r) PROVE PolicyApplied'
  <2>1. CASE Idle(r) /\ UNCHANGED sess
    <3>1. Fenced(NoRequest)
      BY NoRequestType DEF Fenced
    <3> QED BY <1>2, <1>3, <1>4, <2>1, <3>1 DEF Idle
  <2>2. CASE Going(r)
    BY <1>2, <1>3, <1>4, <2>2, GoesFenced DEF Going
  <2>3. CASE create_session(r)
    <3> DEFINE x == Moved(req[r], "done", req[r].spec)
    <3>1. req[r].at = "create" /\ Set(r, x) /\ Admissible(req[r].spec)
      BY <2>3, CreateStep
    <3>2. Fenced(x)
      BY DEF Moved, Fenced
    <3>3. PICK s \in Sid : sess' = [sess EXCEPT ![s] = [waits |-> TRUE, who |-> req[r].who,
                                                       via |-> req[r].route, spec |-> req[r].spec]]
      BY <2>3, CreateStep
    <3>4. Kept([waits |-> TRUE, who |-> req[r].who, via |-> req[r].route, spec |-> req[r].spec])
      BY <1>1, <3>1 DEF Fenced, Kept
    <3>5. \A o \in Sid : Kept(sess'[o])
      <4>1. \A o \in Sid : sess'[o] = sess[o] \/ sess'[o] = [waits |-> TRUE, who |-> req[r].who,
                                                       via |-> req[r].route, spec |-> req[r].spec]
        BY <3>3 DEF Types, SessionTypes
      <4> QED BY <1>1, <3>4, <4>1
    <3> HIDE DEF x
    <3> QED BY <1>2, <1>3, <3>1, <3>2, <3>5
  <2> QED BY <1>5, <2>1, <2>2, <2>3, ConnectingStep
<1>6. CASE Begins
  <2>1. PICK r \in Request, u \in User, k \in Key, route \in {"page", "link"}, p \in Secret \cup {None} :
            Begin(r, u, k, route, p)
    BY <1>6 DEF Begins
  <2> DEFINE x == [at |-> "read", who |-> u, route |-> route, prompt |-> p, on |-> k,
                   owner |-> None, spec |-> FromEntry(k, None, "unset"), seen |-> Sources(u, k),
                   recs |-> IF entry[k] = None THEN {} ELSE {entry[k].rec}]
  <2>2. Set(r, x)
    BY <2>1, BeginStep
  <2>3. x.route = route
    OBVIOUS
  <2> HIDE DEF x
  <2>4. Fenced(x)
    BY <2>3 DEF Fenced
  <2>5. UNCHANGED sess
    BY <2>1, Zenon DEF Begin
  <2> QED BY <1>2, <1>3, <1>4, <2>2, <2>4, <2>5
<1>7. CASE Adhocs
  <2>1. PICK r \in Request, u \in MayConnectAdhoc, q \in Adhoc :
            ab_adhoc_connect(r, u, q) \/ api_create_session(r, u, q) \/ quick_connect_adhoc(r, u, q)
    BY <1>7 DEF Adhocs
  <2>2. PICK at \in {"local", "create"}, s \in SpecType :
            /\ Set(r, [at |-> at, who |-> u, route |-> "adhoc", prompt |-> None, on |-> None,
                       owner |-> None, spec |-> s, seen |-> {}, recs |-> {}])
            /\ at = "create" /\ u \notin Admin => WithinPolicy(s)
    BY <2>1, AdhocStep
  <2>3. Fenced([at |-> at, who |-> u, route |-> "adhoc", prompt |-> None, on |-> None,
                owner |-> None, spec |-> s, seen |-> {}, recs |-> {}])
    BY <2>2 DEF Fenced
  <2>4. UNCHANGED sess
    BY <2>1, AdhocStep
  <2> QED BY <1>2, <1>3, <1>4, <2>2, <2>3, <2>4
<1>8. ASSUME NEW s \in Sid, Leave(s) PROVE PolicyApplied'
  <2>1. UNCHANGED req /\ \A o \in Sid : sess'[o] = sess[o] \/ sess'[o] = NoSession
    BY <1>8 DEF Leave, Only, Types, SessionTypes
  <2>2. Kept(NoSession)
    BY NoSessionType DEF Kept
  <2> QED BY <1>1, <1>2, <2>1, <2>2
<1>9. CASE Edits
  <2>1. PICK us \in SUBSET User, pws \in SUBSET Password, recs \in SUBSET Ask : Tells(us, pws, recs)
    BY <1>9, EditTells
  <2>2. Seen(us, pws, recs) /\ UNCHANGED sess
    BY <1>9, <2>1, EditTells DEF Tells
  <2>3. ASSUME NEW r \in Request PROVE Fenced(req'[r])
    <3>1. req'[r] = req[r] \/ req'[r] = Told(req[r], pws, recs)
      BY <2>2, SeenStep
    <3>2. /\ req'[r].at = req[r].at /\ req'[r].route = req[r].route /\ req'[r].spec = req[r].spec
          /\ req'[r].who = req[r].who
      BY <3>1 DEF Told
    <3> QED BY <1>1, <3>2 DEF Fenced
  <2> QED BY <1>2, <1>4, <2>2, <2>3
<1> QED BY <1>5, <1>6, <1>7, <1>8, <1>9, NextCases

\* What is admissible and within the policy is what AdhocWithinPolicy asks for.
LEMMA PolicySuffices == ASSUME Types, PolicyApplied PROVE AdhocWithinPolicy
<1> SUFFICES ASSUME NEW s \in Sid, sess[s].waits, sess[s].via = "adhoc", sess[s].who \notin Admin
             PROVE  LET q == sess[s].spec IN
                    /\ q.key = None
                    /\ SiteRecording => recording_enabled_for(q)
                    /\ is_drive_enabled(q) => SiteDrive
                    /\ \A d \in Dialled(q) : d[2] \in Allowed[d[1]]
  BY DEF AdhocWithinPolicy
<1> DEFINE q == sess[s].spec
<1>1. WithinPolicy(q) /\ Admissible(q) /\ q \in SpecType
  BY DEF PolicyApplied, Types, SessionTypes, SessType
<1>2. q.key = None
  BY <1>1 DEF WithinPolicy
<1>3. SiteRecording => recording_enabled_for(q)
  BY <1>1 DEF WithinPolicy, recording_enabled_for, SpecType, Ask
<1>4. is_drive_enabled(q) => SiteDrive
  BY <1>1 DEF WithinPolicy, is_drive_enabled, SpecType, Ask
<1>5. q.kind \in {"ssh", "rdp", "vnc", "spice", "proxmox", "web", "vdi"} /\ q.fence = TRUE
  BY <1>1, KindAssumption DEF SpecType, WithinPolicy
<1>6. FirstHop(q)
  BY <1>1 DEF Admissible
<1>7. q.jump # None => q.jump \in Allowed["ssh"]
  BY <1>5, <1>6 DEF FirstHop
<1>8. \A d \in Dialled(q) : d[2] \in Allowed[d[1]]
  <2>1. CASE q.kind # "vdi" /\ q.jump # None
    BY <1>7, <2>1 DEF Dialled
  <2>2. CASE q.kind = "vdi"
    <3>1. VdiArm(q)
      BY <1>1, <2>2 DEF Admissible
    <3>2. ListOf[q.kind] = "image"
      BY <2>2 DEF ListOf
    <3> QED BY <2>2, <3>1, <3>2 DEF VdiArm, Dialled
  <2>3. CASE q.kind # "vdi" /\ q.jump = None
    <3>1. q.host \in Allowed[ListOf[q.kind]]
      <4>1. /\ q.kind = "ssh" => SshArm(q)
            /\ q.kind = "rdp" => RdpArm(q)
            /\ q.kind = "vnc" => VncArm(q)
            /\ q.kind = "spice" => SpiceArm(q)
            /\ q.kind = "proxmox" => ProxmoxArm(q)
            /\ q.kind = "web" => WebArm(q)
        BY <1>1 DEF Admissible
      <4>2. /\ ListOf["ssh"] = "ssh" /\ ListOf["rdp"] = "rdp" /\ ListOf["web"] = "web"
            /\ ListOf["vnc"] = "vnc" /\ ListOf["spice"] = "vnc" /\ ListOf["proxmox"] = "vnc"
        BY DEF ListOf
      <4> QED BY <1>5, <2>3, <4>1, <4>2 DEF SshArm, RdpArm, VncArm, SpiceArm, WebArm, ProxmoxArm,
             check_session_network
    <3>2. q.kind = "proxmox" => q.proxy \in Allowed["vnc"]
      BY <1>1, <1>5, <2>3 DEF Admissible, ProxmoxArm
    <3> QED BY <2>3, <3>1, <3>2 DEF Dialled
  <2> QED BY <2>1, <2>2, <2>3
<1> QED BY <1>2, <1>3, <1>4, <1>8

-----------------------------------------------------------------------------
(* Clicks do not pile up *)

LEMMA CountsFinite ==
    ASSUME NEW u, NEW q
    PROVE  /\ IsFiniteSet(Waiting(u, q)) /\ IsFiniteSet(Creating(u, q))
           /\ Cardinality(Waiting(u, q)) \in Nat /\ Cardinality(Creating(u, q)) \in Nat
           /\ Cardinality(Creating(u, q)) <= Cardinality(Request) /\ Cardinality(Request) \in Nat
<1>1. Waiting(u, q) \subseteq Sid /\ Creating(u, q) \subseteq Request
  BY DEF Waiting, Creating
<1> QED BY <1>1, FiniteAssumption, FS_Subset, FS_CardinalityType

\* Fewer of both are no more.
LEMMA CountsShrink ==
    ASSUME NEW W, NEW C, IsFiniteSet(W), IsFiniteSet(C), NEW V \in SUBSET W, NEW D \in SUBSET C,
           NEW n \in Nat, Cardinality(W) + Cardinality(C) <= n
    PROVE  Cardinality(V) + Cardinality(D) <= n
<1>1. /\ Cardinality(V) <= Cardinality(W) /\ Cardinality(V) \in Nat /\ Cardinality(W) \in Nat
      /\ Cardinality(D) <= Cardinality(C) /\ Cardinality(D) \in Nat /\ Cardinality(C) \in Nat
  BY FS_Subset, FS_CardinalityType
<1> QED BY <1>1

LEMMA BoundedStep == ASSUME Types, Bounded, Next PROVE Bounded'
<1> SUFFICES ASSUME NEW u \in User, NEW q \in SpecType
             PROVE  Cardinality(Waiting(u, q)') + Cardinality(Creating(u, q)') <= Cardinality(Request)
  BY DEF Bounded
<1> DEFINE W == Waiting(u, q)
           C == Creating(u, q)
           V == Waiting(u, q)'
           D == Creating(u, q)'
           n == Cardinality(Request)
<1>1. /\ IsFiniteSet(W) /\ IsFiniteSet(C) /\ Cardinality(C) <= n /\ n \in Nat
      /\ Cardinality(W) \in Nat /\ Cardinality(C) \in Nat
      /\ Cardinality(W) + Cardinality(C) <= n
  BY CountsFinite DEF Bounded
<1>2. IsFiniteSet(D) /\ Cardinality(D) \in Nat /\ Cardinality(D) <= n
  <2>1. D \subseteq Request
    BY DEF Creating
  <2> QED BY <2>1, FiniteAssumption, FS_Subset, FS_CardinalityType
<1>3. V = {s \in Sid : sess'[s].waits /\ sess'[s].via = "page" /\ sess'[s].who = u /\ sess'[s].spec = q}
  BY DEF Waiting
<1>4. D = {r \in Request : req'[r].at = "create" /\ req'[r].route = "page"
                           /\ req'[r].who = u /\ req'[r].spec = q}
  BY DEF Creating
<1>5. /\ W = {s \in Sid : sess[s].waits /\ sess[s].via = "page" /\ sess[s].who = u /\ sess[s].spec = q}
      /\ C = {r \in Request : req[r].at = "create" /\ req[r].route = "page"
                              /\ req[r].who = u /\ req[r].spec = q}
  BY DEF Waiting, Creating
<1> HIDE DEF W, C, V, D, n
<1>6. ASSUME V \subseteq W, D \subseteq C PROVE Cardinality(V) + Cardinality(D) <= n
  BY <1>1, <1>6, CountsShrink
<1>7. ASSUME NEW r \in Request, NEW x, Set(r, x), ~ (x.at = "create" /\ x.route = "page")
      PROVE  D \subseteq C
  BY <1>4, <1>5, <1>7, SetOthers
<1>8. ASSUME UNCHANGED sess PROVE V = W
  BY <1>3, <1>5, <1>8
<1>9. ASSUME NEW r \in Request, Connecting(r) PROVE Cardinality(V) + Cardinality(D) <= n
  <2>1. req[r] \in ReqType /\ req[r].spec \in SpecType
    BY RequestHas, Zenon
  <2>2. CASE Idle(r) /\ UNCHANGED sess
    BY <1>6, <1>7, <1>8, <2>2, NoRequestType DEF Idle
  <2>3. CASE Going(r)
    <3>1. PICK at \in At, s \in SpecType :
              Set(r, Moved(req[r], at, s)) /\ Goes(req[r], at, s) /\ UNCHANGED sess
      BY <2>3 DEF Going
    <3> DEFINE x == Moved(req[r], at, s)
    <3>2. x.at = at /\ x.spec = s /\ x.route = req[r].route /\ x.who = req[r].who /\ Set(r, x)
      BY <2>1, <3>1, MovedType
    <3> HIDE DEF x
    <3>3. CASE at = "create" /\ req[r].route = "page" /\ req[r].who = u /\ s = q
      <4>1. s = req[r].spec /\ find_reusable_session(req[r].who, req[r].spec) = {}
        BY <3>1, <3>3 DEF Goes
      <4>2. W = {}
        BY <1>5, <3>3, <4>1 DEF find_reusable_session
      <4>3. V = {}
        BY <1>8, <3>1, <4>2
      <4> QED BY <1>2, <4>3, FS_EmptySet
    <3>4. CASE ~ (at = "create" /\ req[r].route = "page" /\ req[r].who = u /\ s = q)
      <4>1. D \subseteq C
        BY <1>4, <1>5, <3>2, <3>4, SetOthers
      <4> QED BY <1>6, <1>8, <3>1, <4>1
    <3> QED BY <3>3, <3>4
  <2>4. CASE create_session(r)
    <3> DEFINE x == Moved(req[r], "done", req[r].spec)
               y == [waits |-> TRUE, who |-> req[r].who, via |-> req[r].route, spec |-> req[r].spec]
    <3>1. req[r].at = "create" /\ Set(r, x) /\ x.at = "done"
      BY <2>4, CreateStep DEF Moved
    <3>2. PICK s \in Sid : ~ sess[s].waits /\ sess' = [sess EXCEPT ![s] = y]
      BY <2>4, CreateStep
    <3>3. \A o \in Sid : sess'[o] = IF o = s THEN y ELSE sess[o]
      BY <3>2 DEF Types, SessionTypes
    <3>4. y.waits /\ y.who = req[r].who /\ y.via = req[r].route /\ y.spec = req[r].spec
      OBVIOUS
    <3> HIDE DEF x, y
    <3>5. CASE req[r].route = "page" /\ req[r].who = u /\ req[r].spec = q
      <4>1. r \in C /\ D = C \ {r}
        BY <1>4, <1>5, <3>1, <3>5, SetOthers
      <4>2. s \notin W /\ V = W \cup {s}
        BY <1>3, <1>5, <3>2, <3>3, <3>4, <3>5
      <4>3. Cardinality(D) = Cardinality(C) - 1
        BY <1>1, <4>1, FS_RemoveElement
      <4>4. Cardinality(V) = Cardinality(W) + 1
        BY <1>1, <4>2, FS_AddElement
      <4> QED BY <1>1, <4>3, <4>4
    <3>6. CASE ~ (req[r].route = "page" /\ req[r].who = u /\ req[r].spec = q)
      <4>1. D \subseteq C
        BY <1>7, <3>1
      <4>2. V \subseteq W
        BY <1>3, <1>5, <3>3, <3>4, <3>6
      <4> QED BY <1>6, <4>1, <4>2
    <3> QED BY <3>5, <3>6
  <2> QED BY <1>9, <2>2, <2>3, <2>4, ConnectingStep
<1>10. ASSUME Begins PROVE Cardinality(V) + Cardinality(D) <= n
  <2>1. PICK r \in Request, w \in User, k \in Key, route \in {"page", "link"}, p \in Secret \cup {None} :
            Begin(r, w, k, route, p)
    BY <1>10 DEF Begins
  <2> DEFINE x == [at |-> "read", who |-> w, route |-> route, prompt |-> p, on |-> k,
                   owner |-> None, spec |-> FromEntry(k, None, "unset"), seen |-> Sources(w, k),
                   recs |-> IF entry[k] = None THEN {} ELSE {entry[k].rec}]
  <2>2. Set(r, x)
    BY <2>1, BeginStep
  <2>3. x.at = "read"
    OBVIOUS
  <2> HIDE DEF x
  <2>4. UNCHANGED sess
    BY <2>1, Zenon DEF Begin
  <2> QED BY <1>6, <1>7, <1>8, <2>2, <2>3, <2>4
<1>11. ASSUME Adhocs PROVE Cardinality(V) + Cardinality(D) <= n
  <2>1. PICK r \in Request, w \in MayConnectAdhoc, a \in Adhoc :
            ab_adhoc_connect(r, w, a) \/ api_create_session(r, w, a) \/ quick_connect_adhoc(r, w, a)
    BY <1>11 DEF Adhocs
  <2>2. PICK at \in {"local", "create"}, s \in SpecType :
            Set(r, [at |-> at, who |-> w, route |-> "adhoc", prompt |-> None, on |-> None,
                    owner |-> None, spec |-> s, seen |-> {}, recs |-> {}])
    BY <2>1, AdhocStep
  <2>3. UNCHANGED sess
    BY <2>1, AdhocStep
  <2> QED BY <1>6, <1>7, <1>8, <2>2, <2>3
<1>12. ASSUME NEW s \in Sid, Leave(s) PROVE Cardinality(V) + Cardinality(D) <= n
  <2>1. UNCHANGED req /\ \A o \in Sid : sess'[o] = sess[o] \/ sess'[o] = NoSession
    BY <1>12 DEF Leave, Only, Types, SessionTypes
  <2>2. V \subseteq W /\ D \subseteq C
    BY <1>3, <1>4, <1>5, <2>1, NoSessionType
  <2> QED BY <1>6, <2>2
<1>13. ASSUME Edits PROVE Cardinality(V) + Cardinality(D) <= n
  <2>1. PICK us \in SUBSET User, pws \in SUBSET Password, recs \in SUBSET Ask : Tells(us, pws, recs)
    BY <1>13, EditTells
  <2>2. Seen(us, pws, recs) /\ UNCHANGED sess
    BY <1>13, <2>1, EditTells DEF Tells
  <2>3. \A r \in Request : /\ req'[r].at = req[r].at /\ req'[r].route = req[r].route
                           /\ req'[r].spec = req[r].spec /\ req'[r].who = req[r].who
    <3> SUFFICES ASSUME NEW r \in Request
                 PROVE  /\ req'[r].at = req[r].at /\ req'[r].route = req[r].route
                        /\ req'[r].spec = req[r].spec /\ req'[r].who = req[r].who
      OBVIOUS
    <3>1. req'[r] = req[r] \/ req'[r] = Told(req[r], pws, recs)
      BY <2>2, SeenStep
    <3> QED BY <3>1 DEF Told
  <2>4. D \subseteq C
    BY <1>4, <1>5, <2>3
  <2> QED BY <1>6, <1>8, <2>2, <2>4
<1> QED BY <1>9, <1>10, <1>11, <1>12, <1>13, NextCases DEF V, D, n

LEMMA BoundSuffices == ASSUME Types, Bounded PROVE ClicksDoNotPileUp
<1> SUFFICES ASSUME NEW s \in Sid, sess[s].waits
             PROVE  Cardinality({t \in Sid : /\ sess[t].waits /\ sess[t].via = "page"
                                             /\ sess[t].who = sess[s].who /\ sess[t].spec = sess[s].spec})
                    <= Cardinality(Request)
  BY DEF ClicksDoNotPileUp
<1> DEFINE T == {t \in Sid : /\ sess[t].waits /\ sess[t].via = "page"
                             /\ sess[t].who = sess[s].who /\ sess[t].spec = sess[s].spec}
<1>1. PICK u \in User, q \in SpecType : u = sess[s].who /\ q = sess[s].spec
  BY DEF Types, SessionTypes, SessType
<1>2. T = Waiting(u, q)
  BY <1>1 DEF Waiting
<1>3. Cardinality(Waiting(u, q)) + Cardinality(Creating(u, q)) <= Cardinality(Request)
  BY DEF Bounded
<1>4. /\ Cardinality(Waiting(u, q)) \in Nat /\ Cardinality(Creating(u, q)) \in Nat
      /\ Cardinality(Request) \in Nat
  BY CountsFinite
<1> HIDE DEF T
<1>5. Cardinality(T) <= Cardinality(Request)
  BY <1>2, <1>3, <1>4
<1> QED BY <1>5 DEF T

-----------------------------------------------------------------------------
(* Theorems *)

LEMMA InitInv == Init => ConnectInv
<1> SUFFICES ASSUME Init PROVE ConnectInv
  OBVIOUS
<1>1. \A r \in Request : req[r] = NoRequest
  BY DEF Init
<1>2. \A s \in Sid : sess[s] = NoSession
  BY DEF Init
<1>3. StoreTypes
  BY BoundsAssumption DEF Init, StoreTypes, Entry, Password, Ask
<1>4. RequestTypes
  BY <1>1, NoRequestType DEF Init, RequestTypes
<1>5. SaveTypes
  <2>1. NoSave \in SaveType /\ NoSave.at = "idle"
    BY DEF SaveType, NoSave, Store
  <2> QED BY <2>1 DEF Init, SaveTypes
<1>6. SessionTypes
  BY <1>2, NoSessionType DEF Init, SessionTypes
<1>7. SourcesSeen /\ ReadsSeen /\ OwnAnswers
  BY <1>1, NoRequestType DEF SourcesSeen, ReadsSeen, OwnAnswers, Answers, Book
<1>8. PolicyApplied
  BY <1>1, <1>2, NoRequestType, NoSessionType DEF PolicyApplied
<1>9. Bounded
  <2>1. \A u, q : Waiting(u, q) = {} /\ Creating(u, q) = {}
    BY <1>1, <1>2, NoRequestType, NoSessionType DEF Waiting, Creating
  <2>2. Cardinality(Request) \in Nat
    BY FiniteAssumption, FS_CardinalityType
  <2> QED BY <2>1, <2>2, FS_EmptySet DEF Bounded
<1> QED BY <1>3, <1>4, <1>5, <1>6, <1>7, <1>8, <1>9 DEF ConnectInv, Types

LEMMA NextInv == ConnectInv /\ [Next]_vars => ConnectInv'
<1> SUFFICES ASSUME ConnectInv, [Next]_vars PROVE ConnectInv'
  OBVIOUS
<1>1. CASE Next
  BY <1>1, TypesStep, SourcesStep, ReadsStep, OwnStep, PolicyStep, BoundedStep DEF ConnectInv
<1>2. CASE UNCHANGED vars
  BY <1>2 DEF vars, ConnectInv, Types, StoreTypes, RequestTypes, SaveTypes, SessionTypes,
     SourcesSeen, ReadsSeen, OwnAnswers, Answers, PolicyApplied, Bounded, Sources, Waiting, Creating, Book
<1> QED BY <1>1, <1>2

LEMMA InvHolds == Spec => []ConnectInv
BY InitInv, NextInv, PTL DEF Spec

\* Entries, requests, saves and sessions stay well formed.
THEOREM ConnectTypeCorrect == Spec => []TypeOK
<1>1. ConnectInv => TypeOK
  BY DEF ConnectInv, Types, StoreTypes, RequestTypes, SaveTypes, SessionTypes, TypeOK, At,
     ReqType, SpecType, SaveType, SessType
<1> QED BY <1>1, InvHolds, PTL

\* The session that Connect answers with, new or found waiting, is one of the
\* user who clicked, for the entry that was clicked, and has a password and a
\* recording setting that were stored, or typed, since the click: for any
\* number of users, entries, requests, edits and saves between its reads of
\* Vault.
THEOREM NoStaleSession == Spec => []NeverAStaleSession
<1>1. ConnectInv => NeverAStaleSession
  BY DEF ConnectInv, ReadsSeen, OwnAnswers, Answers, Book, NeverAStaleSession
<1> QED BY <1>1, InvHolds, PTL

\* However many times Connect is clicked, no more sessions wait that could
\* stand in for each other than requests are in flight together.
THEOREM ClicksStayBounded == Spec => []ClicksDoNotPileUp
<1>1. ConnectInv => ClicksDoNotPileUp
  BY BoundSuffices DEF ConnectInv
<1> QED BY <1>1, InvHolds, PTL

\* No route to an ad-hoc session gets round apply_adhoc_policy or the checks
\* of create_session, for any allowlists and settings of the site; the proxy
\* of a SPICE request is not among what they check.
THEOREM PolicyHolds == Spec => []AdhocWithinPolicy
<1>1. ConnectInv => AdhocWithinPolicy
  BY PolicySuffices DEF ConnectInv
<1> QED BY <1>1, InvHolds, PTL

=============================================================================
