--------------------------- MODULE FolderAccessProofs ---------------------------
(***************************************************************************)
(* Proofs about FolderAccess, for every tree of folders, all users, groups *)
(* and configurations, and any number of handlers.                         *)
(***************************************************************************)
EXTENDS FolderAccess, TLAPS

\* The jobs of handlers that are at work.
Work ==
    [op : {"open", "visible", "index", "config", "put_defaults", "delete_folder"},
     who : User \cup {None}, folder : Folder, at : Folder, i : Nat, todo : SUBSET Folder,
     open : SUBSET Folder,
     data : Config \cup {None}, gives : Credentials, keeps : Credentials,
     lent : [from : Folder, what : Credentials] \cup {None},
     snap : [Folder -> Config \cup {None}] \cup {None},
     during : SUBSET {"put", "delete", "fail"}]

Reading == {"open", "visible", "index"}

\* Which handler waits for which call.
Stage(p, j) ==
    /\ j.op \in Reading => j.who \in User /\ j.snap \in [Folder -> Config \cup {None}]
    /\ j.op \notin Reading => j.who = None
    /\ p \in {"access", "done"} => j.op \in Reading
    /\ p \in {"entry", "lend", "climb"} => j.op = "open"
    /\ p \in {"read", "put"} => j.op = "config" /\ j.data \in Config
    /\ p \in {"config", "defaults", "lends"} => j.op = "put_defaults"
    /\ p \in {"collect", "wipe_config", "wipe_defaults"} => j.op = "delete_folder"

\* A folder's .config is what it was when a user's request began, or gone,
\* as long as none was written; and the same if none was deleted either.
Follows(cfg, j) ==
    /\ "put" \notin j.during => \A f \in Folder : cfg[f] \in {None, j.snap[f]}
    /\ j.during = {} => cfg = j.snap

\* The folders that the user could open when the request began.
Right(j) == {f \in Folder : Reach(j.snap, j.who, f)}

\* While no .config was written, nothing is open that should not be: the walk
\* has come up through folders that inherit, and one that lends through
\* folders that share their parent's audience.
Sound(p, j) ==
    "put" \notin j.during =>
        /\ j.open \subseteq Right(j)
        /\ p = "access" => \A k \in 1..(j.i - 1) :
               j.snap[Path[j.at][k]] # None /\ j.snap[Path[j.at][k]].inherit
        /\ p \in {"entry", "lend", "climb"} => j.at \in Right(j)
        /\ p \in {"lend", "climb"} => \A k \in 1..(j.i - 1) :
               j.snap[Path[j.at][k]] # None /\ shares_parent_audience(j.snap[Path[j.at][k]])
        /\ j.lent # None => j.lent.from \in Right(j)

\* The folders below those of a set.
Below(T) == {g \in Folder : \E h \in T : g \in Subtree(h)}

\* The folders that a listing has yet to come to.
Ahead(p, j) == IF p = "access" THEN Below(j.todo \cup {j.at}) ELSE {}

\* While nothing has changed or failed, nothing is closed that should be
\* open: what is not open yet lies ahead.
Complete(p, j) ==
    j.during = {} =>
        /\ p = "access" => \A k \in 1..(j.i - 1) : ~ grants(j.snap[Path[j.at][k]], j.who)
        /\ j.op = "open" => /\ j.at = j.folder
                            /\ p = "access" => j.open = {}
                            /\ p # "access" => j.open = Right(j) \cap {j.folder}
        /\ j.op = "visible" => /\ p = "access" => j.open = {}
                               /\ j.open = {} => Right(j) \cap Subtree(j.folder) \subseteq Ahead(p, j)
        /\ j.op = "index" => Right(j) \subseteq j.open \cup Ahead(p, j)

\* A walk stays on its path, and one that goes on has not reached the end.
OnPath(p, j) ==
    /\ j.i \in 1..Len(Path[j.at])
    /\ p = "climb" => j.i < Len(Path[j.at])

\* A deletion stays in its folder's tree, and is at a folder of it.
Deletes(p, j) ==
    j.op = "delete_folder" =>
        /\ j.i = 1 /\ j.todo \subseteq Subtree(j.folder)
        /\ p = "wipe_defaults" => j.at \in Subtree(j.folder)

\* What is true of a handler that waits for p with job j.
Good(cfg, p, j) ==
    /\ p \in Call /\ (p = "idle" <=> j = NoJob)
    /\ j # NoJob =>
           /\ j \in Work /\ Stage(p, j) /\ OnPath(p, j) /\ Deletes(p, j)
           /\ j.op \in Reading => Follows(cfg, j) /\ Sound(p, j) /\ Complete(p, j)

Types ==
    /\ config \in [Folder -> Config \cup {None}]
    /\ defaults \in [Folder -> Credentials]
    /\ pc \in [Req -> Call]
    /\ job \in [Req -> JobType]
    /\ made \in 0..MaxRequests
    /\ past \subseteq {"cut", "race"}

Handlers == \A r \in Req : Good(config, pc[r], job[r])

\* A handler that is about to lend has seen the folder's .config, which is
\* still there.
Lends(cfg, p, j) ==
    p = "defaults" \/ (p = "lends" /\ j.gives # {}) => cfg[j.folder] # None

\* As long as no deletion was cut short or raced, none is at work on a folder
\* whose defaults are being set.
Lending ==
    past = {} =>
        /\ \A r, q \in Req : ~ Clash(job[r], job[q])
        /\ \A r \in Req : Lends(config, pc[r], job[r])

FolderInv == Types /\ Handlers /\ Lending /\ DefaultsHaveAFolder

-----------------------------------------------------------------------------
(* Paths *)

LEMMA PathFacts ==
    ASSUME NEW f \in Folder
    PROVE  /\ Len(Path[f]) \in Nat \ {0} /\ Path[f][1] = f
           /\ \A i \in 1..Len(Path[f]) : Path[f][i] \in Folder
<1>1. Path[f] \in Seq(Folder) /\ Len(Path[f]) > 0 /\ Path[f][1] = f
  BY PathAssumption
<1> QED BY <1>1

LEMMA PathTail ==
    ASSUME NEW f \in Folder, NEW i \in 1..Len(Path[f]), NEW j \in i..Len(Path[f])
    PROVE  /\ Len(Path[Path[f][i]]) = Len(Path[f]) - i + 1
           /\ Path[Path[f][i]][j - i + 1] = Path[f][j]
BY PathAssumption

\* A folder below another is that folder, or below one of its children.
LEMMA SubtreeSplit ==
    ASSUME NEW f \in Folder, NEW g \in Subtree(f), g # f
    PROVE  \E c \in Children(f) : g \in Subtree(c)
<1>1. g \in Folder /\ \E i \in 1..Len(Path[g]) : Path[g][i] = f
  BY DEF Subtree
<1>2. PICK i \in 1..Len(Path[g]) : Path[g][i] = f
  BY <1>1
<1>3. Len(Path[g]) \in Nat \ {0} /\ Path[g][1] = g
  BY <1>1, PathFacts
<1>4. i # 1
  BY <1>2, <1>3
<1>5. i - 1 \in 1..Len(Path[g]) /\ i \in (i - 1)..Len(Path[g])
  BY <1>3, <1>4
<1> DEFINE c == Path[g][i - 1]
<1>6. c \in Folder
  BY <1>1, <1>5, PathFacts
<1>7. Len(Path[c]) = Len(Path[g]) - (i - 1) + 1 /\ Path[c][i - (i - 1) + 1] = Path[g][i]
  BY <1>1, <1>5, PathTail
<1>8. Len(Path[c]) > 1
  BY <1>3, <1>7
<1>9. i - (i - 1) + 1 = 2
  OBVIOUS
<1>10. Path[c][2] = f
  BY <1>2, <1>7, <1>9
<1>11. c \in Children(f)
  BY <1>6, <1>8, <1>10 DEF Children
<1>12. g \in Subtree(c)
  BY <1>1, <1>5 DEF Subtree
<1> QED BY <1>11, <1>12

\* Every folder is below one at the top, and below itself.
LEMMA TopCovers ==
    ASSUME NEW f \in Folder
    PROVE  f \in Subtree(f) /\ \E t \in Top : f \in Subtree(t)
<1>1. Len(Path[f]) \in Nat \ {0} /\ Path[f][1] = f
  BY PathFacts
<1>2. f \in Subtree(f)
  BY <1>1 DEF Subtree
<1> DEFINE n == Len(Path[f])
           t == Path[f][n]
<1>3. n \in 1..Len(Path[f]) /\ n \in n..Len(Path[f])
  BY <1>1
<1>4. t \in Folder /\ Len(Path[t]) = Len(Path[f]) - n + 1
  BY <1>3, PathFacts, PathTail
<1>5. t \in Top
  BY <1>1, <1>4 DEF Top
<1>6. f \in Subtree(t)
  BY <1>3 DEF Subtree
<1> QED BY <1>2, <1>5, <1>6

LEMMA ChildrenBelow ==
    ASSUME NEW f \in Folder, NEW T, f \in T
    PROVE  Below(T) \subseteq Below((T \ {f}) \cup Children(f)) \cup {f}
<1>1. SUFFICES ASSUME NEW g \in Below(T), g # f
               PROVE  g \in Below((T \ {f}) \cup Children(f))
  OBVIOUS
<1>2. g \in Folder /\ \E h \in T : g \in Subtree(h)
  BY DEF Below
<1>3. PICK h \in T : g \in Subtree(h)
  BY <1>2
<1>4. CASE h # f
  BY <1>2, <1>3, <1>4 DEF Below
<1>5. CASE h = f
  <2>1. PICK c \in Children(f) : g \in Subtree(c)
    BY <1>1, <1>3, <1>5, SubtreeSplit
  <2> QED BY <1>2, <2>1 DEF Below
<1> QED BY <1>4, <1>5

-----------------------------------------------------------------------------
(* Reach *)

\* A user who can open a folder, but is admitted by none of the folders from
\* it up to another, can open that one.
LEMMA SuffixReach ==
    ASSUME NEW cfg, NEW u, NEW f \in Folder, NEW i \in 1..Len(Path[f]), Reach(cfg, u, f),
           \A k \in 1..(i - 1) : ~ grants(cfg[Path[f][k]], u)
    PROVE  Reach(cfg, u, Path[f][i])
<1> DEFINE g == Path[f][i]
<1>1. PICK m \in 1..Len(Path[f]) :
          /\ cfg[Path[f][m]] # None /\ grants(cfg[Path[f][m]], u)
          /\ \A k \in 1..(m - 1) : cfg[Path[f][k]] # None /\ cfg[Path[f][k]].inherit
  BY DEF Reach
<1>2. Len(Path[f]) \in Nat \ {0}
  BY PathFacts
<1>3. m \in i..Len(Path[f])
  BY <1>1, <1>2
<1>4. Len(Path[g]) = Len(Path[f]) - i + 1 /\ Path[g][m - i + 1] = Path[f][m]
  BY <1>3, PathTail
<1>5. m - i + 1 \in 1..Len(Path[g])
  BY <1>2, <1>3, <1>4
<1>6. ASSUME NEW k \in 1..((m - i + 1) - 1)
      PROVE  cfg[Path[g][k]] # None /\ cfg[Path[g][k]].inherit
  <2>1. k + i - 1 \in i..Len(Path[f]) /\ k + i - 1 \in 1..(m - 1)
    BY <1>2, <1>3
  <2>2. Path[g][(k + i - 1) - i + 1] = Path[f][k + i - 1]
    BY <2>1, PathTail
  <2>3. (k + i - 1) - i + 1 = k
    OBVIOUS
  <2>4. Path[g][k] = Path[f][k + i - 1]
    BY <2>2, <2>3
  <2> QED BY <1>1, <2>1, <2>4
<1> HIDE DEF g
<1>7. cfg[Path[g][m - i + 1]] # None /\ grants(cfg[Path[g][m - i + 1]], u)
  BY <1>1, <1>4
<1>8. Reach(cfg, u, g)
  BY <1>5, <1>6, <1>7 DEF Reach
<1> QED BY <1>8 DEF g

\* A walk that ends without being let in was right.
LEMMA Denied ==
    ASSUME NEW cfg, NEW u, NEW f \in Folder, NEW i \in 1..Len(Path[f]),
           \A k \in 1..(i - 1) : ~ grants(cfg[Path[f][k]], u),
           cfg[Path[f][i]] # None => /\ ~ grants(cfg[Path[f][i]], u)
                                     /\ cfg[Path[f][i]].inherit => i = Len(Path[f])
    PROVE  ~ Reach(cfg, u, f)
<1> SUFFICES ASSUME Reach(cfg, u, f) PROVE FALSE
  OBVIOUS
<1>1. PICK m \in 1..Len(Path[f]) :
          /\ cfg[Path[f][m]] # None /\ grants(cfg[Path[f][m]], u)
          /\ \A k \in 1..(m - 1) : cfg[Path[f][k]] # None /\ cfg[Path[f][k]].inherit
  BY DEF Reach
<1>2. Len(Path[f]) \in Nat \ {0}
  BY PathFacts
<1>3. m > i
  BY <1>1, <1>2
<1>4. i \in 1..(m - 1)
  BY <1>2, <1>3
<1>5. cfg[Path[f][i]] # None /\ cfg[Path[f][i]].inherit
  BY <1>1, <1>4
<1> QED BY <1>2, <1>3, <1>5

-----------------------------------------------------------------------------
(* Jobs *)

LEMMA WorkOrNone ==
    /\ \A j \in Work : j # NoJob
    /\ \A j \in JobType : j # NoJob => j \in Work
    /\ \A j \in Work : j \in JobType
    /\ NoJob \in JobType
<1>1. \A j \in Work : j.op # "none"
  BY DEF Work
<1>2. NoJob.op = "none"
  BY DEF NoJob
<1>3. JobType = Work \cup {NoJob}
  BY Zenon DEF JobType, Work
<1>4. \A j \in Work : j # NoJob
  BY <1>1, <1>2, Zenon
<1> HIDE DEF NoJob
<1> QED BY <1>3, <1>4, Zenon

LEMMA Idle == \A cfg : Good(cfg, "idle", NoJob)
BY Zenon DEF Good, Call

\* What the fields of a job hold.
LEMMA Fields ==
    ASSUME NEW j \in Work
    PROVE  /\ j.folder \in Folder /\ j.at \in Folder /\ j.i \in Nat
           /\ j.todo \subseteq Folder /\ j.open \subseteq Folder
           /\ j.gives \in Credentials /\ j.keeps \in Credentials
           /\ j.during \subseteq {"put", "delete", "fail"}
           /\ j.lent # None => j.lent \in [from : Folder, what : Credentials]
           /\ j.data \in Config \cup {None}
           /\ j.who \in User \cup {None}
BY DEF Work

\* What two jobs have in common that differ in the place of their walk ...
Elsewhere(j, k) ==
    /\ k.op = j.op /\ k.who = j.who /\ k.folder = j.folder /\ k.open = j.open
    /\ k.data = j.data /\ k.gives = j.gives /\ k.lent = j.lent
    /\ k.snap = j.snap /\ k.during = j.during

\* ... or in what they write.
Otherwise(j, k) ==
    /\ k.op = j.op /\ k.who = j.who /\ k.folder = j.folder /\ k.snap = j.snap
    /\ k.at = j.at /\ k.i = j.i

LEMMA SetI ==
    ASSUME NEW j \in Work, NEW n \in Nat
    PROVE  LET k == [j EXCEPT !.i = n] IN
           k \in Work /\ Elsewhere(j, k) /\ k.i = n /\ k.at = j.at /\ k.todo = j.todo
BY DEF Work, Elsewhere

LEMMA SetOpen ==
    ASSUME NEW j \in Work, NEW f \in Folder
    PROVE  LET k == [j EXCEPT !.open = @ \cup {f}] IN
           /\ k \in Work /\ k.op = j.op /\ k.who = j.who /\ k.folder = j.folder
           /\ k.lent = j.lent /\ k.snap = j.snap /\ k.during = j.during
           /\ k.open = j.open \cup {f} /\ k.at = j.at /\ k.i = j.i /\ k.todo = j.todo
BY DEF Work

LEMMA SetDuring ==
    ASSUME NEW j \in Work, NEW what \in {"put", "delete", "fail"}
    PROVE  LET k == [j EXCEPT !.during = @ \cup {what}] IN
           /\ k \in Work /\ k.op = j.op /\ k.who = j.who /\ k.folder = j.folder
           /\ k.data = j.data /\ k.gives = j.gives
           /\ k.lent = j.lent /\ k.snap = j.snap /\ k.during = j.during \cup {what}
           /\ k.open = j.open /\ k.at = j.at /\ k.i = j.i /\ k.todo = j.todo
BY DEF Work

LEMMA SetTodo ==
    ASSUME NEW j \in Work, NEW T \in SUBSET Folder
    PROVE  LET k == [j EXCEPT !.todo = T] IN
           k \in Work /\ Elsewhere(j, k) /\ k.i = j.i /\ k.at = j.at /\ k.todo = T
BY DEF Work, Elsewhere

LEMMA SetAt ==
    ASSUME NEW j \in Work, NEW f \in Folder
    PROVE  LET k == [j EXCEPT !.at = f] IN
           k \in Work /\ Elsewhere(j, k) /\ k.i = j.i /\ k.at = f /\ k.todo = j.todo
BY DEF Work, Elsewhere

LEMMA SetLent ==
    ASSUME NEW j \in Work, NEW x \in [from : Folder, what : Credentials] \cup {None}
    PROVE  LET k == [j EXCEPT !.lent = x] IN
           /\ k \in Work /\ k.op = j.op /\ k.who = j.who /\ k.folder = j.folder
           /\ k.lent = x /\ k.snap = j.snap /\ k.during = j.during
           /\ k.open = j.open /\ k.at = j.at /\ k.i = j.i /\ k.todo = j.todo
BY DEF Work

LEMMA SetUsers ==
    ASSUME NEW j \in Work, j.data \in Config, NEW U \in SUBSET User
    PROVE  LET k == [j EXCEPT !.data.users = U] IN
           k \in Work /\ Otherwise(j, k) /\ k.data \in Config
<1> DEFINE d == [j.data EXCEPT !.users = U]
<1>1. d \in Config
  BY DEF Config
<1>2. [j EXCEPT !.data.users = U] = [j EXCEPT !.data = d]
  BY DEF Work
<1> HIDE DEF d
<1> QED BY <1>1, <1>2 DEF Work, Otherwise

LEMMA SetPatch ==
    ASSUME NEW j \in Work, NEW G \in Credentials, NEW K \in Credentials
    PROVE  LET k == [j EXCEPT !.gives = G, !.keeps = K] IN
           k \in Work /\ Otherwise(j, k)
<1> DEFINE x == [j EXCEPT !.gives = G]
<1>1. x \in Work /\ Otherwise(j, x)
  BY DEF Work, Otherwise
<1>2. [j EXCEPT !.gives = G, !.keeps = K] = [x EXCEPT !.keeps = K]
  BY Zenon
<1> HIDE DEF x
<1> DEFINE y == [x EXCEPT !.keeps = K]
<1>3. y \in Work /\ Otherwise(x, y)
  BY <1>1 DEF Work, Otherwise
<1> HIDE DEF y
<1>4. y \in Work /\ Otherwise(j, y)
  BY <1>1, <1>3, Zenon DEF Otherwise
<1> QED BY <1>2, <1>4, Zenon DEF y

LEMMA SetFailed ==
    ASSUME NEW j \in Work
    PROVE  LET k == [j EXCEPT !.lent = None, !.during = @ \cup {"fail"}] IN
           /\ k \in Work /\ k.op = j.op /\ k.who = j.who /\ k.folder = j.folder
           /\ k.lent = None /\ k.snap = j.snap /\ k.during = j.during \cup {"fail"}
           /\ k.open = j.open /\ k.at = j.at /\ k.i = j.i /\ k.todo = j.todo
<1> DEFINE x == [j EXCEPT !.lent = None]
<1>1. /\ x \in Work /\ x.op = j.op /\ x.who = j.who /\ x.folder = j.folder
      /\ x.lent = None /\ x.snap = j.snap /\ x.during = j.during
      /\ x.open = j.open /\ x.at = j.at /\ x.i = j.i /\ x.todo = j.todo
  BY SetLent
<1>2. [j EXCEPT !.lent = None, !.during = @ \cup {"fail"}] = [x EXCEPT !.during = @ \cup {"fail"}]
  BY <1>1, Zenon
<1> HIDE DEF x
<1> DEFINE y == [x EXCEPT !.during = @ \cup {"fail"}]
<1>3. /\ y \in Work /\ y.op = x.op /\ y.who = x.who /\ y.folder = x.folder
      /\ y.lent = x.lent /\ y.snap = x.snap /\ y.during = x.during \cup {"fail"}
      /\ y.open = x.open /\ y.at = x.at /\ y.i = x.i /\ y.todo = x.todo
  BY <1>1, SetDuring, Zenon
<1> HIDE DEF y
<1>4. /\ y \in Work /\ y.op = j.op /\ y.who = j.who /\ y.folder = j.folder
      /\ y.lent = None /\ y.snap = j.snap /\ y.during = j.during \cup {"fail"}
      /\ y.open = j.open /\ y.at = j.at /\ y.i = j.i /\ y.todo = j.todo
  BY <1>1, <1>3, Zenon
<1> QED BY <1>2, <1>4, Zenon DEF y

\* A walk begins at another folder.
Placed(j, k, g, T) == Elsewhere(j, k) /\ k.i = 1 /\ k.at = g /\ k.todo = T

LEMMA SetPlace ==
    ASSUME NEW j \in Work, NEW g \in Folder, NEW T \in SUBSET Folder
    PROVE  LET k == [j EXCEPT !.at = g, !.i = 1, !.todo = T] IN
           k \in Work /\ Placed(j, k, g, T)
<1> DEFINE x == [j EXCEPT !.at = g]
<1>1. x \in Work /\ Elsewhere(j, x) /\ x.i = j.i /\ x.at = g /\ x.todo = j.todo
  BY SetAt
<1>2. [j EXCEPT !.at = g, !.i = 1, !.todo = T] = [x EXCEPT !.i = 1, !.todo = T]
  BY Zenon
<1> HIDE DEF x
<1> DEFINE y == [x EXCEPT !.i = 1]
<1>3. y \in Work /\ Elsewhere(x, y) /\ y.i = 1 /\ y.at = x.at /\ y.todo = x.todo
  BY <1>1, SetI
<1>4. [x EXCEPT !.i = 1, !.todo = T] = [y EXCEPT !.todo = T]
  BY Zenon
<1> HIDE DEF y
<1> DEFINE z == [y EXCEPT !.todo = T]
<1>5. z \in Work /\ Elsewhere(y, z) /\ z.i = y.i /\ z.at = y.at /\ z.todo = T
  BY <1>3, SetTodo
<1> HIDE DEF z
<1>6. Placed(j, z, g, T)
  BY <1>1, <1>3, <1>5, Zenon DEF Elsewhere, Placed
<1> QED BY <1>2, <1>4, <1>5, <1>6, Zenon DEF z

-----------------------------------------------------------------------------
(* A handler that waits for another call, and leaves what is stored *)

LEMMA GoodJob ==
    ASSUME NEW cfg, NEW p, NEW j, Good(cfg, p, j)
    PROVE  p \in Call /\ j \in JobType
<1>1. p \in Call /\ (j # NoJob => j \in Work)
  BY Zenon DEF Good
<1> QED BY <1>1, WorkOrNone, Zenon

\* What a handler's next call and job must be for Lending and
\* DefaultsHaveAFolder to go on holding, if no deletion was disturbed.
Apart(r, p, j) ==
    /\ pc[r] # "wipe_defaults" /\ Lends(config, p, j)
    /\ \A q \in Req \ {r} : ~ Clash(j, job[q]) /\ ~ Clash(job[q], j)

LEMMA NoClashWithItself == ASSUME NEW j PROVE ~ Clash(j, j)
BY DEF Clash

LEMMA Turns ==
    ASSUME FolderInv, NEW r \in Req, NEW p, NEW j, Then(r, p, j),
           UNCHANGED <<config, defaults>>, made' \in 0..MaxRequests,
           past' \subseteq {"cut", "race"}, past \subseteq past',
           Good(config, p, j), past' = {} => Apart(r, p, j)
    PROVE  FolderInv'
<1>1. pc \in [Req -> Call] /\ job \in [Req -> JobType]
  BY DEF FolderInv, Types
<1>2. pc' = [pc EXCEPT ![r] = p] /\ job' = [job EXCEPT ![r] = j]
  BY DEF Then
<1>3. pc'[r] = p /\ job'[r] = j
  BY <1>1, <1>2
<1>4. \A q \in Req \ {r} : pc'[q] = pc[q] /\ job'[q] = job[q]
  BY <1>1, <1>2
<1>5. Types'
  <2>1. pc' \in [Req -> Call] /\ job' \in [Req -> JobType]
    BY <1>1, <1>2, GoodJob
  <2> QED BY <2>1 DEF FolderInv, Types
<1>6. Handlers'
  <2>1. \A q \in Req : Good(config, pc'[q], job'[q])
    BY <1>3, <1>4, Zenon DEF FolderInv, Handlers
  <2> QED BY <2>1, Zenon DEF Handlers
<1>7. Lending'
  <2>1. SUFFICES ASSUME past' = {}
                 PROVE  /\ \A x, q \in Req : ~ Clash(job'[x], job'[q])
                        /\ \A q \in Req : Lends(config, pc'[q], job'[q])
    BY Zenon DEF Lending
  <2>2. past = {} /\ Apart(r, p, j)
    BY <2>1
  <2>3. /\ \A x, q \in Req : ~ Clash(job[x], job[q])
        /\ \A q \in Req : Lends(config, pc[q], job[q])
    BY <2>2 DEF FolderInv, Lending
  <2>4. \A q \in Req : Lends(config, pc'[q], job'[q])
    BY <1>3, <1>4, <2>2, <2>3, Zenon DEF Apart
  <2>5. ASSUME NEW x \in Req, NEW q \in Req
        PROVE  ~ Clash(job'[x], job'[q])
    <3>1. CASE x = r /\ q = r
      BY <1>3, <3>1, NoClashWithItself, Zenon
    <3>2. CASE x = r /\ q # r
      BY <1>3, <1>4, <2>2, <3>2, Zenon DEF Apart
    <3>3. CASE x # r /\ q = r
      BY <1>3, <1>4, <2>2, <3>3, Zenon DEF Apart
    <3>4. CASE x # r /\ q # r
      BY <1>4, <2>3, <3>4, Zenon
    <3> QED BY <3>1, <3>2, <3>3, <3>4
  <2> QED BY <2>4, <2>5
<1>8. DefaultsHaveAFolder'
  <2>1. SUFFICES ASSUME past' = {}, NEW f \in Folder, defaults[f] # {}, config[f] = None
                 PROVE  \E q \in Req : pc'[q] = "wipe_defaults" /\ job'[q].at = f
    BY Zenon DEF DefaultsHaveAFolder
  <2>2. past = {} /\ pc[r] # "wipe_defaults"
    BY <2>1 DEF Apart
  <2>3. PICK q \in Req : pc[q] = "wipe_defaults" /\ job[q].at = f
    BY <2>1, <2>2 DEF FolderInv, DefaultsHaveAFolder
  <2>4. q # r
    BY <2>2, <2>3
  <2> QED BY <1>4, <2>3, <2>4
<1> QED BY <1>5, <1>6, <1>7, <1>8 DEF FolderInv

LEMMA SameClash ==
    ASSUME NEW j \in Work, NEW k \in Work, k.op = j.op, k.folder = j.folder, NEW x
    PROVE  (Clash(k, x) <=> Clash(j, x)) /\ (Clash(x, k) <=> Clash(x, j))
<1>1. j # NoJob /\ k # NoJob
  BY WorkOrNone
<1> QED BY <1>1, Zenon DEF Clash

\* A step that only moves a handler on keeps the invariant if it keeps what
\* is true of that handler.
LEMMA MovesOn ==
    ASSUME FolderInv, NEW r \in Req, NEW p, NEW j, Then(r, p, j), Stored,
           pc[r] # "wipe_defaults", Good(config, p, j),
           j \in Work, job[r] \in Work, j.op = job[r].op, j.folder = job[r].folder,
           past = {} => Lends(config, p, j)
    PROVE  FolderInv'
<1>1. past \subseteq {"cut", "race"} /\ made \in 0..MaxRequests
  BY DEF FolderInv, Types
<1>2. config' = config /\ defaults' = defaults /\ made' = made /\ past' = past
  BY DEF Stored
<1>3. ASSUME past = {} PROVE Apart(r, p, j)
  <2>1. \A q \in Req : ~ Clash(job[r], job[q]) /\ ~ Clash(job[q], job[r])
    BY <1>3 DEF FolderInv, Lending
  <2>2. \A q \in Req : ~ Clash(j, job[q]) /\ ~ Clash(job[q], j)
    BY <2>1, SameClash, Zenon
  <2> QED BY <1>3, <2>2 DEF Apart
<1> QED BY <1>1, <1>2, <1>3, Turns

\* So does one that ends it.
LEMMA Ends ==
    ASSUME FolderInv, NEW r \in Req, Reply(r), UNCHANGED <<config, defaults, made>>,
           pc[r] # "wipe_defaults" \/ past' # {},
           past' \subseteq {"cut", "race"}, past \subseteq past'
    PROVE  FolderInv'
<1>1. Then(r, "idle", NoJob)
  BY DEF Reply
<1>2. Good(config, "idle", NoJob)
  BY Idle
<1>3. ASSUME past' = {} PROVE Apart(r, "idle", NoJob)
  <2>1. \A x : ~ Clash(NoJob, x) /\ ~ Clash(x, NoJob)
    BY Zenon DEF Clash
  <2>2. Lends(config, "idle", NoJob)
    BY Zenon DEF Lends
  <2> QED BY <1>3, <2>1, <2>2 DEF Apart
<1>4. made' \in 0..MaxRequests
  BY DEF FolderInv, Types
<1> QED BY <1>1, <1>2, <1>3, <1>4, Turns

\* What is known of a handler at work.
LEMMA AtWork ==
    ASSUME FolderInv, NEW r \in Req, pc[r] # "idle"
    PROVE  /\ job[r] \in Work /\ job[r] # NoJob
           /\ Stage(pc[r], job[r]) /\ OnPath(pc[r], job[r]) /\ Deletes(pc[r], job[r])
           /\ job[r].op \in Reading =>
                  /\ Follows(config, job[r])
                  /\ Sound(pc[r], job[r])
                  /\ Complete(pc[r], job[r])
           /\ Lends(config, pc[r], job[r]) \/ past # {}
<1>1. Good(config, pc[r], job[r])
  BY DEF FolderInv, Handlers
<1>2. job[r] # NoJob
  BY <1>1, Zenon DEF Good
<1>3. past = {} => Lends(config, pc[r], job[r])
  BY DEF FolderInv, Lending
<1> QED BY <1>1, <1>2, <1>3, Zenon DEF Good

-----------------------------------------------------------------------------
(* Admin handlers *)

LEMMA AdminGood ==
    ASSUME NEW cfg, NEW p \in Call \ {"idle", "climb"}, NEW k \in Work,
           k.op \notin Reading, Stage(p, k), Deletes(p, k), k.i \in 1..Len(Path[k.at])
    PROVE  Good(cfg, p, k)
<1>1. k # NoJob
  BY WorkOrNone
<1>2. OnPath(p, k)
  BY DEF OnPath
<1>3. p \in Call /\ p # "idle"
  OBVIOUS
<1> QED BY <1>1, <1>2, <1>3, Zenon DEF Good

LEMMA ReadExistingStep ==
    ASSUME FolderInv, NEW r \in Req, ReadExisting(r)
    PROVE  FolderInv'
<1> DEFINE j == job[r]
           U == IF config[j.folder] = None THEN {} ELSE config[j.folder].users
           k == [j EXCEPT !.data.users = U]
<1>1. pc[r] = "read" /\ Then(r, "put", k) /\ Stored
  BY Zenon DEF ReadExisting
<1>2. /\ j \in Work /\ Stage("read", j) /\ OnPath("read", j)
  BY <1>1, AtWork
<1>3. j.op = "config" /\ j.data \in Config /\ j.who = None /\ j.i \in 1..Len(Path[j.at])
  BY <1>2 DEF Stage, OnPath, Reading
<1>4. U \in SUBSET User
  <2>1. config[j.folder] \in Config \cup {None}
    BY <1>2, Fields DEF FolderInv, Types
  <2> QED BY <2>1 DEF Config
<1> HIDE DEF U
<1>5. k \in Work /\ Otherwise(j, k) /\ k.data \in Config
  BY <1>2, <1>3, <1>4, SetUsers
<1>6. /\ k.op = "config" /\ k.folder = j.folder /\ k.who = None
      /\ k.at = j.at /\ k.i = j.i
  BY <1>3, <1>5 DEF Otherwise
<1> HIDE DEF k
<1>7. Stage("put", k) /\ Deletes("put", k) /\ k.op \notin Reading /\ "put" \in Call
  BY <1>5, <1>6 DEF Stage, Deletes, Reading, Call
<1>8. Good(config, "put", k)
  BY <1>3, <1>5, <1>6, <1>7, AdminGood
<1>9. Lends(config, "put", k) /\ "read" # "wipe_defaults"
  BY DEF Lends
<1> QED BY <1>1, <1>2, <1>3, <1>5, <1>6, <1>8, <1>9, MovesOn

LEMMA FolderExistsStep ==
    ASSUME FolderInv, NEW r \in Req, FolderExists(r)
    PROVE  FolderInv'
<1> DEFINE j == job[r]
<1>1. pc[r] = "config" /\ Stored
  BY Zenon DEF FolderExists
<1>2. j \in Work /\ Stage("config", j) /\ OnPath("config", j)
  BY <1>1, AtWork
<1>3. j.op = "put_defaults" /\ j.who = None /\ j.i \in 1..Len(Path[j.at])
  BY <1>2 DEF Stage, OnPath, Reading
<1>4. CASE config[j.folder] = None
  <2>1. Reply(r)
    BY <1>4, Zenon DEF FolderExists
  <2>2. past' = past /\ past \subseteq {"cut", "race"}
    BY <1>1 DEF Stored, FolderInv, Types
  <2> QED BY <1>1, <2>1, <2>2, Ends DEF Stored
<1>5. CASE config[j.folder] # None
  <2>1. Then(r, "defaults", j)
    BY <1>5, Zenon DEF FolderExists
  <2>2. Stage("defaults", j) /\ Deletes("defaults", j) /\ j.op \notin Reading /\ "defaults" \in Call
    BY <1>2, <1>3 DEF Stage, Deletes, Reading, Call
  <2>3. Good(config, "defaults", j)
    BY <1>2, <1>3, <2>2, AdminGood
  <2>4. Lends(config, "defaults", j) /\ "config" # "wipe_defaults"
    BY <1>5 DEF Lends
  <2> QED BY <1>1, <1>2, <2>1, <2>3, <2>4, MovesOn
<1> QED BY <1>4, <1>5

LEMMA ReadDefaultsStep ==
    ASSUME FolderInv, NEW r \in Req, ReadDefaults(r)
    PROVE  FolderInv'
<1> DEFINE j == job[r]
           G == j.gives \cup (j.keeps \cap defaults[j.folder])
           E == {}
           k == [j EXCEPT !.gives = G, !.keeps = E]
<1>1. pc[r] = "defaults" /\ Then(r, "lends", k) /\ Stored
  BY Zenon DEF ReadDefaults
<1>2. /\ j \in Work /\ Stage("defaults", j) /\ OnPath("defaults", j)
      /\ Lends(config, "defaults", j) \/ past # {}
  BY <1>1, AtWork
<1>3. j.op = "put_defaults" /\ j.who = None /\ j.i \in 1..Len(Path[j.at])
  BY <1>2 DEF Stage, OnPath, Reading
<1>4. G \in Credentials /\ E \in Credentials
  BY <1>2, Fields DEF Credentials
<1> HIDE DEF G, E
<1>5. k \in Work /\ Otherwise(j, k)
  BY <1>2, <1>4, SetPatch
<1> HIDE DEF k
<1>6. /\ k.op = "put_defaults" /\ k.folder = j.folder /\ k.who = None
      /\ k.at = j.at /\ k.i = j.i
  BY <1>3, <1>5 DEF Otherwise
<1>7. Stage("lends", k) /\ Deletes("lends", k) /\ k.op \notin Reading /\ "lends" \in Call
  BY <1>5, <1>6 DEF Stage, Deletes, Reading, Call
<1>8. Good(config, "lends", k)
  BY <1>3, <1>5, <1>6, <1>7, AdminGood
<1>9. past = {} => Lends(config, "lends", k)
  BY <1>2, <1>6 DEF Lends
<1> QED BY <1>1, <1>2, <1>3, <1>5, <1>6, <1>8, <1>9, MovesOn

LEMMA CollectStep ==
    ASSUME FolderInv, NEW r \in Req, Collect(r)
    PROVE  FolderInv'
<1> DEFINE j == job[r]
<1>1. /\ pc[r] = "collect" /\ Stored
      /\ \E T \in SUBSET Subtree(j.folder) : Then(r, "wipe_config", [j EXCEPT !.todo = T])
  BY Zenon DEF Collect
<1>2. PICK T \in SUBSET Subtree(j.folder) : Then(r, "wipe_config", [j EXCEPT !.todo = T])
  BY <1>1
<1> DEFINE k == [j EXCEPT !.todo = T]
<1>3. j \in Work /\ Stage("collect", j) /\ OnPath("collect", j) /\ Deletes("collect", j)
  BY <1>1, AtWork
<1>4. j.op = "delete_folder" /\ j.who = None /\ j.i \in 1..Len(Path[j.at]) /\ j.i = 1
  BY <1>3 DEF Stage, OnPath, Reading, Deletes
<1>5. T \in SUBSET Folder
  BY DEF Subtree
<1>6. k \in Work /\ Elsewhere(j, k) /\ k.i = j.i /\ k.at = j.at /\ k.todo = T
  BY <1>3, <1>5, SetTodo
<1>7. Then(r, "wipe_config", k)
  BY <1>2
<1> HIDE DEF k
<1>8. k.op = "delete_folder" /\ k.folder = j.folder /\ k.who = None
  BY <1>4, <1>6 DEF Elsewhere
<1>9. /\ Stage("wipe_config", k) /\ Deletes("wipe_config", k)
      /\ k.op \notin Reading /\ "wipe_config" \in Call
  BY <1>4, <1>6, <1>8 DEF Stage, Deletes, Reading, Call
<1>10. Good(config, "wipe_config", k)
  BY <1>4, <1>6, <1>9, AdminGood
<1>11. Lends(config, "wipe_config", k)
  BY DEF Lends
<1> QED BY <1>1, <1>3, <1>4, <1>6, <1>7, <1>8, <1>10, <1>11, MovesOn

LEMMA AnswerStep ==
    ASSUME FolderInv, NEW r \in Req, Answer(r)
    PROVE  FolderInv'
<1>1. pc[r] = "done" /\ Reply(r) /\ Stored
  BY Zenon DEF Answer
<1>2. past \subseteq {"cut", "race"}
  BY DEF FolderInv, Types
<1> QED BY <1>1, <1>2, Ends DEF Stored

LEMMA CutStep ==
    ASSUME FolderInv, NEW r \in Req, Cut(r)
    PROVE  FolderInv'
<1>1. /\ pc[r] # "idle" /\ Reply(r) /\ UNCHANGED <<config, defaults, made>>
      /\ past' = past \cup (IF job[r].op = "delete_folder" THEN {"cut"} ELSE {})
  BY Zenon DEF Cut
<1>2. past \subseteq {"cut", "race"}
  BY DEF FolderInv, Types
<1>3. Stage(pc[r], job[r])
  BY <1>1, AtWork
<1>4. pc[r] = "wipe_defaults" => past' # {}
  BY <1>1, <1>3 DEF Stage
<1> QED BY <1>1, <1>2, <1>4, Ends

-----------------------------------------------------------------------------
(* What is stored changes *)

\* A job of a user's request learns what happened.
Told(j, what) ==
    IF j = NoJob \/ j.who = None THEN j ELSE [j EXCEPT !.during = @ \cup {what}]

LEMMA TellIs ==
    ASSUME NEW jobs, NEW what
    PROVE  Tell(jobs, what) = [q \in Req |-> Told(jobs[q], what)]
BY Zenon DEF Tell, Told

LEMMA ToldAdmin ==
    ASSUME NEW cfg, NEW p, NEW j, Good(cfg, p, j), j = NoJob \/ j.op \notin Reading, NEW what
    PROVE  Told(j, what) = j /\ \A d : Good(d, p, j)
<1>1. j # NoJob => Stage(p, j)
  BY Zenon DEF Good
<1>2. j # NoJob => j.who = None
  BY <1>1 DEF Stage
<1>3. Told(j, what) = j
  BY <1>2, Zenon DEF Told
<1>4. \A d : Good(d, p, j)
  BY Zenon DEF Good
<1> QED BY <1>3, <1>4

LEMMA ToldReader ==
    ASSUME NEW cfg, NEW p, NEW j, Good(cfg, p, j), j # NoJob, j.op \in Reading,
           NEW what \in {"put", "delete", "fail"}, NEW d,
           what = "delete" => \A f \in Folder : d[f] \in {None, cfg[f]}, what # "fail"
    PROVE  /\ Told(j, what) \in Work /\ Told(j, what).op = j.op
           /\ Told(j, what).folder = j.folder /\ Good(d, p, Told(j, what))
<1>1. /\ p \in Call /\ p # "idle" /\ j \in Work /\ Stage(p, j) /\ OnPath(p, j)
      /\ Follows(cfg, j) /\ Sound(p, j)
  BY Zenon DEF Good
<1>2. j.who # None
  BY <1>1, NoneAssumption DEF Stage
<1> DEFINE k == [j EXCEPT !.during = @ \cup {what}]
<1>3. Told(j, what) = k
  BY <1>2, Zenon DEF Told
<1>4. /\ k \in Work /\ k.op = j.op /\ k.who = j.who /\ k.folder = j.folder
      /\ k.data = j.data /\ k.gives = j.gives
      /\ k.lent = j.lent /\ k.snap = j.snap /\ k.during = j.during \cup {what}
      /\ k.open = j.open /\ k.at = j.at /\ k.i = j.i /\ k.todo = j.todo
  BY <1>1, SetDuring
<1> HIDE DEF k
<1>5. Stage(p, k)
  BY <1>1, <1>4, Zenon DEF Stage
<1>6. OnPath(p, k)
  BY <1>1, <1>4, Zenon DEF OnPath
<1>7. j.op # "delete_folder"
  BY DEF Reading
<1>8. Deletes(p, k)
  BY <1>4, <1>7, Zenon DEF Deletes
<1>9. what \in k.during
  BY <1>4
<1>10. Complete(p, k)
  BY <1>9 DEF Complete
<1>11. CASE what = "put"
  <2>1. Sound(p, k) /\ Follows(d, k)
    BY <1>9, <1>11 DEF Sound, Follows
  <2> QED BY <1>1, <1>3, <1>4, <1>5, <1>6, <1>8, <1>10, <2>1, WorkOrNone, Zenon DEF Good
<1>12. CASE what = "delete"
  <2>1. "put" \notin k.during => "put" \notin j.during
    BY <1>4
  <2>2. Right(k) = Right(j)
    BY <1>4, Zenon DEF Right
  <2>3. Sound(p, k)
    BY <1>1, <1>4, <2>1, <2>2, Zenon DEF Sound
  <2>4. Follows(d, k)
    <3>1. k.during # {}
      BY <1>9
    <3>2. ASSUME "put" \notin k.during, NEW f \in Folder PROVE d[f] \in {None, k.snap[f]}
      <4>1. cfg[f] \in {None, j.snap[f]}
        BY <1>1, <2>1, <3>2, Zenon DEF Follows
      <4>2. d[f] \in {None, cfg[f]}
        BY <1>12
      <4> QED BY <1>4, <4>1, <4>2
    <3> QED BY <3>1, <3>2, Zenon DEF Follows
  <2> QED BY <1>1, <1>3, <1>4, <1>5, <1>6, <1>8, <1>10, <2>3, <2>4, WorkOrNone, Zenon DEF Good
<1> QED BY <1>11, <1>12

\* A .config is written or deleted.  jobs are the handlers' jobs but for what
\* they are told.
LEMMA Telling ==
    ASSUME NEW jobs \in [Req -> JobType], NEW calls \in [Req -> Call],
           NEW cfg, NEW d, NEW what \in {"put", "delete"},
           what = "delete" => \A f \in Folder : d[f] \in {None, cfg[f]},
           \A q \in Req : Good(cfg, calls[q], jobs[q])
    PROVE  /\ Tell(jobs, what) \in [Req -> JobType]
           /\ \A q \in Req : /\ Good(d, calls[q], Tell(jobs, what)[q])
                             /\ jobs[q] = NoJob \/ jobs[q].op \notin Reading
                                    => Tell(jobs, what)[q] = jobs[q]
                             /\ jobs[q] # NoJob /\ jobs[q].op \in Reading
                                    => /\ Tell(jobs, what)[q] \in Work
                                       /\ Tell(jobs, what)[q].op \in Reading
<1>1. \A q \in Req : Tell(jobs, what)[q] = Told(jobs[q], what)
  BY TellIs, Zenon
<1>2. ASSUME NEW q \in Req
      PROVE  /\ Good(d, calls[q], Told(jobs[q], what))
             /\ jobs[q] = NoJob \/ jobs[q].op \notin Reading => Told(jobs[q], what) = jobs[q]
             /\ jobs[q] # NoJob /\ jobs[q].op \in Reading
                    => Told(jobs[q], what) \in Work /\ Told(jobs[q], what).op \in Reading
  <2>1. Good(cfg, calls[q], jobs[q])
    OBVIOUS
  <2>2. CASE jobs[q] = NoJob \/ jobs[q].op \notin Reading
    <3>1. Told(jobs[q], what) = jobs[q] /\ \A e : Good(e, calls[q], jobs[q])
      BY <2>1, <2>2, ToldAdmin
    <3> QED BY <2>2, <3>1, Zenon
  <2>3. CASE jobs[q] # NoJob /\ jobs[q].op \in Reading
    <3>1. what \in {"put", "delete", "fail"} /\ what # "fail"
      OBVIOUS
    <3>2. /\ Told(jobs[q], what) \in Work /\ Told(jobs[q], what).op = jobs[q].op
          /\ Good(d, calls[q], Told(jobs[q], what))
      BY <2>1, <2>3, <3>1, ToldReader
    <3> QED BY <2>3, <3>2, Zenon
  <2> QED BY <2>2, <2>3
<1>3. \A q \in Req : Told(jobs[q], what) \in JobType
  BY <1>2, GoodJob, Zenon
<1>4. Tell(jobs, what) \in [Req -> JobType]
  BY <1>3, TellIs, Zenon
<1> QED BY <1>1, <1>2, <1>4, Zenon

\* Those who delete or lend are not told anything.
LEMMA TellClash ==
    ASSUME NEW j, NEW k, NEW x, NEW y,
           j = NoJob \/ j.op \notin Reading => x = j,
           j # NoJob /\ j.op \in Reading => x \in Work /\ x.op \in Reading,
           k = NoJob \/ k.op \notin Reading => y = k,
           k # NoJob /\ k.op \in Reading => y \in Work /\ y.op \in Reading,
           Clash(x, y)
    PROVE  Clash(j, k)
<1>1. x.op = "delete_folder" /\ y.op = "put_defaults"
  BY Zenon DEF Clash
<1>2. x.op \notin Reading /\ y.op \notin Reading
  BY <1>1 DEF Reading
<1>3. x = j /\ y = k
  BY <1>2
<1> QED BY <1>3

LEMMA Stores ==
    ASSUME FolderInv, NEW jobs \in [Req -> JobType], NEW what \in {"put", "delete"},
           pc' \in [Req -> Call], job' = Tell(jobs, what),
           config' \in [Folder -> Config \cup {None}],
           UNCHANGED <<defaults, made, past>>,
           what = "delete" => \A f \in Folder : config'[f] \in {None, config[f]},
           \A q \in Req : Good(config, pc'[q], jobs[q]),
           past = {} =>
               /\ \A x, q \in Req : ~ Clash(jobs[x], jobs[q])
               /\ \A q \in Req : Lends(config', pc'[q], jobs[q])
               /\ \A f \in Folder : defaults[f] # {} /\ config'[f] = None
                      => \E q \in Req : pc'[q] = "wipe_defaults" /\ jobs[q].at = f
    PROVE  FolderInv'
<1>1. /\ job' \in [Req -> JobType]
      /\ \A q \in Req : /\ Good(config', pc'[q], job'[q])
                        /\ jobs[q] = NoJob \/ jobs[q].op \notin Reading => job'[q] = jobs[q]
                        /\ jobs[q] # NoJob /\ jobs[q].op \in Reading
                               => job'[q] \in Work /\ job'[q].op \in Reading
  BY Telling
<1>2. Types'
  BY <1>1 DEF FolderInv, Types
<1>3. Handlers'
  BY <1>1, Zenon DEF Handlers
<1>4. ASSUME NEW q \in Req, pc'[q] \in {"defaults", "lends", "wipe_defaults"}
      PROVE  job'[q] = jobs[q]
  <2>1. jobs[q] # NoJob => Stage(pc'[q], jobs[q])
    BY Zenon DEF Good
  <2>2. jobs[q] # NoJob => jobs[q].op \notin Reading
    BY <1>4, <2>1 DEF Stage, Reading
  <2> QED BY <1>1, <2>2
<1>5. Lending'
  <2>1. SUFFICES ASSUME past = {}
                 PROVE  /\ \A x, q \in Req : ~ Clash(job'[x], job'[q])
                        /\ \A q \in Req : Lends(config', pc'[q], job'[q])
    BY Zenon DEF Lending
  <2>2. ASSUME NEW x \in Req, NEW q \in Req PROVE ~ Clash(job'[x], job'[q])
    <3>1. ~ Clash(jobs[x], jobs[q])
      BY <2>1
    <3> QED BY <1>1, <3>1, TellClash
  <2>3. ASSUME NEW q \in Req PROVE Lends(config', pc'[q], job'[q])
    <3>1. Lends(config', pc'[q], jobs[q])
      BY <2>1
    <3>2. CASE pc'[q] \in {"defaults", "lends", "wipe_defaults"}
      BY <1>4, <3>1, <3>2
    <3>3. CASE pc'[q] \notin {"defaults", "lends", "wipe_defaults"}
      BY <3>3 DEF Lends
    <3> QED BY <3>2, <3>3
  <2> QED BY <2>2, <2>3
<1>6. DefaultsHaveAFolder'
  <2>1. SUFFICES ASSUME past = {}, NEW f \in Folder, defaults[f] # {}, config'[f] = None
                 PROVE  \E q \in Req : pc'[q] = "wipe_defaults" /\ job'[q].at = f
    BY Zenon DEF DefaultsHaveAFolder
  <2>2. PICK q \in Req : pc'[q] = "wipe_defaults" /\ jobs[q].at = f
    BY <2>1
  <2>3. job'[q] = jobs[q]
    BY <1>4, <2>2
  <2> QED BY <2>2, <2>3
<1> QED BY <1>2, <1>3, <1>5, <1>6 DEF FolderInv

LEMMA PutConfigStep ==
    ASSUME FolderInv, NEW r \in Req, PutConfig(r)
    PROVE  FolderInv'
<1> DEFINE j == job[r]
           jobs == [job EXCEPT ![r] = NoJob]
<1>1. /\ pc[r] = "put" /\ config' = [config EXCEPT ![j.folder] = j.data]
      /\ pc' = [pc EXCEPT ![r] = "idle"] /\ job' = Tell(jobs, "put")
      /\ UNCHANGED <<defaults, made, past>>
  BY Zenon DEF PutConfig, put_folder_config
<1>2. j \in Work /\ Stage("put", j)
  BY <1>1, AtWork
<1>3. j.data \in Config /\ j.data # None /\ j.folder \in Folder
  BY <1>2, Fields, NoneAssumption DEF Stage
<1>4. /\ pc \in [Req -> Call] /\ job \in [Req -> JobType]
      /\ config \in [Folder -> Config \cup {None}]
  BY DEF FolderInv, Types
<1>5. /\ jobs \in [Req -> JobType] /\ jobs[r] = NoJob
      /\ \A q \in Req \ {r} : jobs[q] = job[q]
  BY <1>4, WorkOrNone
<1>6. pc' \in [Req -> Call] /\ pc'[r] = "idle" /\ \A q \in Req \ {r} : pc'[q] = pc[q]
  BY <1>1, <1>4 DEF Call
<1>7. /\ config' \in [Folder -> Config \cup {None}]
      /\ \A f \in Folder : config[f] # None => config'[f] # None
  BY <1>1, <1>3, <1>4
<1> HIDE DEF jobs
<1>8. \A q \in Req : Good(config, pc'[q], jobs[q])
  BY <1>5, <1>6, Idle, Zenon DEF FolderInv, Handlers
<1>9. ASSUME past = {}
      PROVE  /\ \A x, q \in Req : ~ Clash(jobs[x], jobs[q])
             /\ \A q \in Req : Lends(config', pc'[q], jobs[q])
             /\ \A f \in Folder : defaults[f] # {} /\ config'[f] = None
                    => \E q \in Req : pc'[q] = "wipe_defaults" /\ jobs[q].at = f
  <2>1. /\ \A x, q \in Req : ~ Clash(job[x], job[q])
        /\ \A q \in Req : Lends(config, pc[q], job[q])
    BY <1>9 DEF FolderInv, Lending
  <2>2. \A x : ~ Clash(NoJob, x) /\ ~ Clash(x, NoJob)
    BY Zenon DEF Clash
  <2>3. ASSUME NEW x \in Req, NEW q \in Req PROVE ~ Clash(jobs[x], jobs[q])
    <3>1. CASE x = r
      BY <1>5, <2>2, <3>1, Zenon
    <3>2. CASE q = r
      BY <1>5, <2>2, <3>2, Zenon
    <3>3. CASE x # r /\ q # r
      <4>1. jobs[x] = job[x] /\ jobs[q] = job[q]
        BY <1>5, <3>3
      <4>2. ~ Clash(job[x], job[q])
        BY <2>1
      <4> QED BY <4>1, <4>2, Zenon
    <3> QED BY <3>1, <3>2, <3>3
  <2>4. ASSUME NEW q \in Req PROVE Lends(config', pc'[q], jobs[q])
    <3>1. CASE q = r
      BY <1>6, <3>1 DEF Lends
    <3>2. CASE q # r /\ pc[q] = "idle"
      BY <1>6, <3>2 DEF Lends
    <3>3. CASE q # r /\ pc[q] # "idle"
      <4>1. job[q].folder \in Folder
        BY <3>3, AtWork, Fields
      <4>2. Lends(config, pc[q], job[q])
        BY <2>1
      <4>3. Lends(config', pc[q], job[q])
        BY <1>7, <4>1, <4>2, Zenon DEF Lends
      <4> QED BY <1>5, <1>6, <3>3, <4>3
    <3> QED BY <3>1, <3>2, <3>3
  <2>5. ASSUME NEW f \in Folder, defaults[f] # {}, config'[f] = None
        PROVE  \E q \in Req : pc'[q] = "wipe_defaults" /\ jobs[q].at = f
    <3>1. config[f] = None
      BY <1>7, <2>5
    <3>2. PICK q \in Req : pc[q] = "wipe_defaults" /\ job[q].at = f
      BY <1>9, <2>5, <3>1 DEF FolderInv, DefaultsHaveAFolder
    <3>3. q # r
      BY <1>1, <3>2
    <3> QED BY <1>5, <1>6, <3>2, <3>3
  <2> QED BY <2>3, <2>4, <2>5
<1>10. "put" \in {"put", "delete"} /\ "put" # "delete"
  OBVIOUS
<1> QED BY <1>1, <1>5, <1>6, <1>7, <1>8, <1>9, <1>10, Stores

LEMMA PutDefaultsStep ==
    ASSUME FolderInv, NEW r \in Req, PutDefaults(r)
    PROVE  FolderInv'
<1> DEFINE j == job[r]
<1>1. /\ pc[r] = "lends" /\ defaults' = [defaults EXCEPT ![j.folder] = j.gives]
      /\ pc' = [pc EXCEPT ![r] = "idle"] /\ job' = [job EXCEPT ![r] = NoJob]
      /\ UNCHANGED <<config, made, past>>
  BY Zenon DEF PutDefaults, put_folder_defaults, Reply, Then
<1>2. j \in Work /\ (Lends(config, "lends", j) \/ past # {})
  BY <1>1, AtWork
<1>3. j.gives \in Credentials /\ j.folder \in Folder
  BY <1>2, Fields
<1>4. /\ pc \in [Req -> Call] /\ job \in [Req -> JobType]
      /\ defaults \in [Folder -> Credentials]
  BY DEF FolderInv, Types
<1>5. /\ job' \in [Req -> JobType] /\ job'[r] = NoJob
      /\ \A q \in Req \ {r} : job'[q] = job[q]
  BY <1>1, <1>4, WorkOrNone
<1>6. pc' \in [Req -> Call] /\ pc'[r] = "idle" /\ \A q \in Req \ {r} : pc'[q] = pc[q]
  BY <1>1, <1>4 DEF Call
<1>7. /\ defaults' \in [Folder -> Credentials]
      /\ defaults'[j.folder] = j.gives
      /\ \A f \in Folder \ {j.folder} : defaults'[f] = defaults[f]
  BY <1>1, <1>3, <1>4
<1>8. Types'
  BY <1>1, <1>5, <1>6, <1>7 DEF FolderInv, Types
<1>9. \A q \in Req : Good(config, pc'[q], job'[q])
  BY <1>5, <1>6, Idle, Zenon DEF FolderInv, Handlers
<1>10. Handlers'
  BY <1>1, <1>9, Zenon DEF Handlers
<1>11. Lending'
  <2>1. SUFFICES ASSUME past = {}
                 PROVE  /\ \A x, q \in Req : ~ Clash(job'[x], job'[q])
                        /\ \A q \in Req : Lends(config, pc'[q], job'[q])
    BY <1>1, Zenon DEF Lending
  <2>2. /\ \A x, q \in Req : ~ Clash(job[x], job[q])
        /\ \A q \in Req : Lends(config, pc[q], job[q])
    BY <2>1 DEF FolderInv, Lending
  <2>3. \A x : ~ Clash(NoJob, x) /\ ~ Clash(x, NoJob)
    BY Zenon DEF Clash
  <2>4. Lends(config, "idle", NoJob)
    BY Zenon DEF Lends
  <2>5. ASSUME NEW x \in Req, NEW q \in Req PROVE ~ Clash(job'[x], job'[q])
    <3>1. CASE x = r
      BY <1>5, <2>3, <3>1, Zenon
    <3>2. CASE q = r
      BY <1>5, <2>3, <3>2, Zenon
    <3>3. CASE x # r /\ q # r
      <4>1. job'[x] = job[x] /\ job'[q] = job[q]
        BY <1>5, <3>3
      <4>2. ~ Clash(job[x], job[q])
        BY <2>2
      <4> QED BY <4>1, <4>2, Zenon
    <3> QED BY <3>1, <3>2, <3>3
  <2>6. \A q \in Req : Lends(config, pc'[q], job'[q])
    BY <1>5, <1>6, <2>2, <2>4, Zenon
  <2> QED BY <2>5, <2>6
<1>12. DefaultsHaveAFolder'
  <2>1. SUFFICES ASSUME past = {}, NEW f \in Folder, defaults'[f] # {}, config[f] = None
                 PROVE  \E q \in Req : pc'[q] = "wipe_defaults" /\ job'[q].at = f
    BY <1>1, Zenon DEF DefaultsHaveAFolder
  <2>2. f # j.folder
    BY <1>2, <1>7, <2>1 DEF Lends
  <2>3. PICK q \in Req : pc[q] = "wipe_defaults" /\ job[q].at = f
    BY <1>7, <2>1, <2>2 DEF FolderInv, DefaultsHaveAFolder
  <2>4. q # r
    BY <1>1, <2>3
  <2> QED BY <1>5, <1>6, <2>3, <2>4
<1> QED BY <1>8, <1>10, <1>11, <1>12 DEF FolderInv

\* A deletion moves to a folder and wipes its .config, or fails to.
LEMMA WipeConfigStep ==
    ASSUME FolderInv, NEW r \in Req, WipeConfig(r)
    PROVE  FolderInv'
<1> DEFINE j == job[r]
<1>1. PICK f \in Folder :
          /\ Turn(r, f)
          /\ pc' = [pc EXCEPT ![r] = "wipe_defaults"]
          /\ \/ /\ config' = [config EXCEPT ![f] = None]
                /\ job' = Tell([job EXCEPT ![r].at = f], "delete")
                /\ UNCHANGED past
             \/ /\ job' = [job EXCEPT ![r].at = f]
                /\ past' = past \cup {"cut"}
                /\ UNCHANGED config
  BY Zenon DEF WipeConfig
<1>2. pc[r] = "wipe_config" /\ UNCHANGED <<defaults, made>>
  BY Zenon DEF WipeConfig
<1> DEFINE k == [j EXCEPT !.at = f]
           jobs == [job EXCEPT ![r] = k]
<1>3. [job EXCEPT ![r].at = f] = jobs
  BY Zenon
<1>4. j \in Work /\ Stage("wipe_config", j) /\ Deletes("wipe_config", j)
  BY <1>2, AtWork
<1>5. /\ j.op = "delete_folder" /\ j.who = None /\ j.i = 1
      /\ j.todo \subseteq Subtree(j.folder) /\ f \in Subtree(j.folder)
  BY <1>1, <1>4 DEF Stage, Deletes, Turn, Reading
<1>6. k \in Work /\ Elsewhere(j, k) /\ k.i = j.i /\ k.at = f /\ k.todo = j.todo
  BY <1>4, SetAt
<1> HIDE DEF k
<1>7. /\ k.op = "delete_folder" /\ k.folder = j.folder /\ k.who = None
  BY <1>5, <1>6 DEF Elsewhere
<1>8. Good(config, "wipe_defaults", k)
  <2>1. /\ Stage("wipe_defaults", k) /\ k.op \notin Reading
        /\ "wipe_defaults" \in Call \ {"idle", "climb"}
    BY <1>6, <1>7 DEF Stage, Reading, Call
  <2>2. Deletes("wipe_defaults", k)
    BY <1>5, <1>6, <1>7 DEF Deletes
  <2>3. k.i \in 1..Len(Path[k.at])
    BY <1>5, <1>6, PathFacts
  <2> QED BY <1>6, <2>1, <2>2, <2>3, AdminGood
<1>9. /\ pc \in [Req -> Call] /\ job \in [Req -> JobType] /\ past \subseteq {"cut", "race"}
      /\ config \in [Folder -> Config \cup {None}] /\ made \in 0..MaxRequests
  BY DEF FolderInv, Types
<1>10. CASE job' = [job EXCEPT ![r].at = f] /\ past' = past \cup {"cut"} /\ UNCHANGED config
  <2>1. Then(r, "wipe_defaults", k)
    BY <1>1, <1>3, <1>10 DEF Then
  <2>2. /\ past' # {} /\ past' \subseteq {"cut", "race"} /\ past \subseteq past'
        /\ made' \in 0..MaxRequests
    BY <1>2, <1>9, <1>10
  <2> QED BY <1>2, <1>8, <1>10, <2>1, <2>2, Turns
<1>11. CASE /\ config' = [config EXCEPT ![f] = None]
            /\ job' = Tell([job EXCEPT ![r].at = f], "delete")
            /\ UNCHANGED past
  <2>1. job' = Tell(jobs, "delete")
    BY <1>3, <1>11
  <2>2. k \in JobType
    BY <1>6, WorkOrNone
  <2>3. /\ jobs \in [Req -> JobType] /\ jobs[r] = k
        /\ \A q \in Req \ {r} : jobs[q] = job[q]
    BY <1>9, <2>2
  <2>4. /\ pc' \in [Req -> Call] /\ pc'[r] = "wipe_defaults"
        /\ \A q \in Req \ {r} : pc'[q] = pc[q]
    BY <1>1, <1>9 DEF Call
  <2>5. /\ config' \in [Folder -> Config \cup {None}] /\ config'[f] = None
        /\ \A g \in Folder \ {f} : config'[g] = config[g]
    BY <1>9, <1>11
  <2> HIDE DEF jobs
  <2>6. \A q \in Req : Good(config, pc'[q], jobs[q])
    BY <1>8, <2>3, <2>4, Zenon DEF FolderInv, Handlers
  <2>7. \A g \in Folder : config'[g] \in {None, config[g]}
    BY <2>5
  <2>8. ASSUME past = {}
        PROVE  /\ \A x, q \in Req : ~ Clash(jobs[x], jobs[q])
               /\ \A q \in Req : Lends(config', pc'[q], jobs[q])
               /\ \A g \in Folder : defaults[g] # {} /\ config'[g] = None
                      => \E q \in Req : pc'[q] = "wipe_defaults" /\ jobs[q].at = g
    <3>1. /\ \A x, q \in Req : ~ Clash(job[x], job[q])
          /\ \A q \in Req : Lends(config, pc[q], job[q])
      BY <2>8 DEF FolderInv, Lending
    <3>2. ASSUME NEW x \in Req, NEW q \in Req PROVE ~ Clash(jobs[x], jobs[q])
      <4>1. ~ Clash(job[x], job[q])
        BY <3>1
      <4>2. CASE x = r /\ q = r
        BY <4>2, NoClashWithItself, Zenon
      <4>3. CASE x = r /\ q # r
        BY <1>4, <1>5, <1>6, <1>7, <2>3, <4>1, <4>3, SameClash
      <4>4. CASE x # r /\ q = r
        BY <1>4, <1>5, <1>6, <1>7, <2>3, <4>1, <4>4, SameClash
      <4>5. CASE x # r /\ q # r
        BY <2>3, <4>1, <4>5
      <4> QED BY <4>2, <4>3, <4>4, <4>5
    <3>3. ASSUME NEW q \in Req PROVE Lends(config', pc'[q], jobs[q])
      <4>1. CASE q = r \/ pc[q] \notin {"defaults", "lends"}
        BY <2>4, <4>1 DEF Lends
      <4>2. CASE q # r /\ pc[q] \in {"defaults", "lends"}
        <5>1. job[q] \in Work /\ job[q] # NoJob /\ Stage(pc[q], job[q])
          BY <4>2, AtWork
        <5>2. job[q].op = "put_defaults" /\ job[q].folder \in Folder
          BY <4>2, <5>1, Fields DEF Stage
        <5>3. ~ Clash(j, job[q]) /\ j # NoJob
          BY <1>4, <3>1, WorkOrNone
        <5>4. job[q].folder \notin Subtree(j.folder)
          BY <1>5, <5>1, <5>2, <5>3, Zenon DEF Clash
        <5>5. config'[job[q].folder] = config[job[q].folder]
          BY <1>5, <2>5, <5>2, <5>4
        <5>6. Lends(config, pc[q], job[q])
          BY <3>1
        <5>7. Lends(config', pc[q], job[q])
          BY <5>5, <5>6, Zenon DEF Lends
        <5> QED BY <2>3, <2>4, <4>2, <5>7
      <4> QED BY <4>1, <4>2
    <3>4. ASSUME NEW g \in Folder, defaults[g] # {}, config'[g] = None
          PROVE  \E q \in Req : pc'[q] = "wipe_defaults" /\ jobs[q].at = g
      <4>1. CASE g = f
        BY <1>6, <2>3, <2>4, <4>1
      <4>2. CASE g # f
        <5>1. PICK q \in Req : pc[q] = "wipe_defaults" /\ job[q].at = g
          BY <2>5, <2>8, <3>4, <4>2 DEF FolderInv, DefaultsHaveAFolder
        <5>2. q # r
          BY <1>2, <5>1
        <5> QED BY <2>3, <2>4, <5>1, <5>2
      <4> QED BY <4>1, <4>2
    <3> QED BY <3>2, <3>3, <3>4
  <2>9. UNCHANGED <<defaults, made, past>>
    BY <1>2, <1>11
  <2> QED BY <2>1, <2>3, <2>4, <2>5, <2>6, <2>7, <2>8, <2>9, Stores
<1> QED BY <1>1, <1>10, <1>11, Zenon

LEMMA WipeDefaultsStep ==
    ASSUME FolderInv, NEW r \in Req, WipeDefaults(r)
    PROVE  FolderInv'
<1> DEFINE j == job[r]
           rest == j.todo \ {j.at}
           p == IF rest = {} THEN "idle" ELSE "wipe_config"
           k == IF rest = {} THEN NoJob ELSE [j EXCEPT !.todo = rest]
<1>1. /\ pc[r] = "wipe_defaults" /\ Then(r, p, k) /\ UNCHANGED <<config, made>>
      /\ \/ defaults' = [defaults EXCEPT ![j.at] = {}] /\ UNCHANGED past
         \/ past' = past \cup {"cut"} /\ UNCHANGED defaults
  BY Zenon DEF WipeDefaults, Then
<1>2. j \in Work /\ Stage("wipe_defaults", j) /\ OnPath("wipe_defaults", j)
      /\ Deletes("wipe_defaults", j)
  BY <1>1, AtWork
<1>3. /\ j.op = "delete_folder" /\ j.who = None /\ j.i = 1 /\ j.i \in 1..Len(Path[j.at])
      /\ j.todo \subseteq Subtree(j.folder)
  BY <1>2 DEF Stage, OnPath, Deletes, Reading
<1>4. rest \subseteq Folder
  BY <1>2, Fields
<1>5. /\ Good(config, p, k) /\ Lends(config, p, k)
      /\ past = {} => \A q \in Req : ~ Clash(k, job[q]) /\ ~ Clash(job[q], k)
  <2>1. CASE rest = {}
    <3>1. p = "idle" /\ k = NoJob
      BY <2>1, Zenon
    <3>2. \A x : ~ Clash(NoJob, x) /\ ~ Clash(x, NoJob)
      BY Zenon DEF Clash
    <3>3. Lends(config, "idle", NoJob)
      BY Zenon DEF Lends
    <3> HIDE DEF p, k
    <3> QED BY <3>1, <3>2, <3>3, Idle, Zenon
  <2>2. CASE rest # {}
    <3> DEFINE x == [j EXCEPT !.todo = rest]
    <3>1. p = "wipe_config" /\ k = x
      BY <2>2, Zenon
    <3> HIDE DEF p, k
    <3>2. x \in Work /\ Elsewhere(j, x) /\ x.i = j.i /\ x.at = j.at /\ x.todo = rest
      BY <1>2, <1>4, SetTodo
    <3> HIDE DEF x
    <3>3. x.op = "delete_folder" /\ x.folder = j.folder /\ x.who = None
      BY <1>3, <3>2 DEF Elsewhere
    <3>4. /\ Stage("wipe_config", x) /\ Deletes("wipe_config", x) /\ x.op \notin Reading
          /\ "wipe_config" \in Call \ {"idle", "climb"} /\ Lends(config, "wipe_config", x)
      BY <1>3, <3>2, <3>3 DEF Stage, Deletes, Reading, Call, Lends
    <3>5. Good(config, "wipe_config", x)
      BY <1>3, <3>2, <3>4, AdminGood
    <3>6. ASSUME past = {}, NEW q \in Req PROVE ~ Clash(x, job[q]) /\ ~ Clash(job[q], x)
      <4>1. ~ Clash(j, job[q]) /\ ~ Clash(job[q], j)
        BY <3>6 DEF FolderInv, Lending
      <4> QED BY <1>2, <1>3, <3>2, <3>3, <4>1, SameClash
    <3> QED BY <3>1, <3>4, <3>5, <3>6, Zenon
  <2> QED BY <2>1, <2>2
<1>6. /\ pc \in [Req -> Call] /\ job \in [Req -> JobType] /\ past \subseteq {"cut", "race"}
      /\ defaults \in [Folder -> Credentials] /\ made \in 0..MaxRequests
  BY DEF FolderInv, Types
<1> HIDE DEF p, k
<1>7. CASE past' = past \cup {"cut"} /\ UNCHANGED defaults
  <2>1. /\ past' # {} /\ past' \subseteq {"cut", "race"} /\ past \subseteq past'
        /\ made' \in 0..MaxRequests
    BY <1>1, <1>6, <1>7
  <2> QED BY <1>1, <1>5, <1>7, <2>1, Turns
<1>8. CASE defaults' = [defaults EXCEPT ![j.at] = {}] /\ UNCHANGED past
  <2>1. pc' = [pc EXCEPT ![r] = p] /\ job' = [job EXCEPT ![r] = k]
    BY <1>1 DEF Then
  <2>2. pc'[r] = p /\ job'[r] = k
    BY <1>6, <2>1
  <2>3. \A q \in Req \ {r} : pc'[q] = pc[q] /\ job'[q] = job[q]
    BY <1>6, <2>1
  <2>4. /\ defaults' \in [Folder -> Credentials] /\ defaults'[j.at] = {}
        /\ \A f \in Folder \ {j.at} : defaults'[f] = defaults[f]
    BY <1>2, <1>6, <1>8, Fields DEF Credentials
  <2>5. Types'
    <3>1. pc' \in [Req -> Call] /\ job' \in [Req -> JobType]
      BY <1>5, <1>6, <2>1, GoodJob
    <3> QED BY <1>1, <1>8, <2>4, <3>1 DEF FolderInv, Types
  <2>6. Handlers'
    <3>1. \A q \in Req : Good(config, pc'[q], job'[q])
      BY <1>5, <2>2, <2>3, Zenon DEF FolderInv, Handlers
    <3> QED BY <1>1, <3>1, Zenon DEF Handlers
  <2>7. Lending'
    <3>1. SUFFICES ASSUME past = {}
                   PROVE  /\ \A x, q \in Req : ~ Clash(job'[x], job'[q])
                          /\ \A q \in Req : Lends(config, pc'[q], job'[q])
      BY <1>1, <1>8, Zenon DEF Lending
    <3>2. /\ \A x, q \in Req : ~ Clash(job[x], job[q])
          /\ \A q \in Req : Lends(config, pc[q], job[q])
      BY <3>1 DEF FolderInv, Lending
    <3>3. \A q \in Req : Lends(config, pc'[q], job'[q])
      BY <1>5, <2>2, <2>3, <3>2, Zenon
    <3>4. ASSUME NEW x \in Req, NEW q \in Req PROVE ~ Clash(job'[x], job'[q])
      <4>1. CASE x = r /\ q = r
        BY <4>1, NoClashWithItself, Zenon
      <4>2. CASE x = r /\ q # r
        BY <1>5, <2>2, <2>3, <3>1, <4>2, Zenon
      <4>3. CASE x # r /\ q = r
        BY <1>5, <2>2, <2>3, <3>1, <4>3, Zenon
      <4>4. CASE x # r /\ q # r
        <5>1. job'[x] = job[x] /\ job'[q] = job[q]
          BY <2>3, <4>4
        <5>2. ~ Clash(job[x], job[q])
          BY <3>2
        <5> QED BY <5>1, <5>2, Zenon
      <4> QED BY <4>1, <4>2, <4>3, <4>4
    <3> QED BY <3>3, <3>4
  <2>8. DefaultsHaveAFolder'
    <3>1. SUFFICES ASSUME past = {}, NEW f \in Folder, defaults'[f] # {}, config[f] = None
                   PROVE  \E q \in Req : pc'[q] = "wipe_defaults" /\ job'[q].at = f
      BY <1>1, <1>8, Zenon DEF DefaultsHaveAFolder
    <3>2. f # j.at
      BY <2>4, <3>1
    <3>3. PICK q \in Req : pc[q] = "wipe_defaults" /\ job[q].at = f
      BY <2>4, <3>1, <3>2 DEF FolderInv, DefaultsHaveAFolder
    <3>4. q # r
      BY <3>2, <3>3
    <3> QED BY <2>3, <3>3, <3>4
  <2> QED BY <2>5, <2>6, <2>7, <2>8 DEF FolderInv
<1> QED BY <1>1, <1>7, <1>8

-----------------------------------------------------------------------------
(* Handlers start *)

LEMMA BeginStep ==
    ASSUME FolderInv, NEW r \in Req, NEW j, NEW at, Begin(r, j, at), Good(config, at, j),
           Lends(config, at, j)
    PROVE  FolderInv'
<1>1. /\ pc[r] = "idle" /\ made < MaxRequests /\ made' = made + 1 /\ Then(r, at, j)
      /\ past' = past \cup (IF \E q \in Req : Clash(j, job[q]) \/ Clash(job[q], j)
                            THEN {"race"} ELSE {})
      /\ UNCHANGED <<config, defaults>>
  BY Zenon DEF Begin
<1>2. past \subseteq {"cut", "race"} /\ made \in 0..MaxRequests
  BY DEF FolderInv, Types
<1>3. made' \in 0..MaxRequests
  BY <1>1, <1>2, BoundsAssumption
<1>4. past' \subseteq {"cut", "race"} /\ past \subseteq past'
  BY <1>1, <1>2
<1>5. ASSUME past' = {} PROVE Apart(r, at, j)
  <2>1. ~ \E q \in Req : Clash(j, job[q]) \/ Clash(job[q], j)
    BY <1>1, <1>5
  <2> QED BY <1>1, <2>1 DEF Apart
<1> QED BY <1>1, <1>3, <1>4, <1>5, Turns

\* The fields of a job that begins.
Fresh(k) ==
    /\ k.at = k.folder /\ k.i = 1 /\ k.open = {} /\ k.lent = None /\ k.during = {}

LEMMA JobIs ==
    ASSUME FolderInv,
           NEW op \in {"open", "visible", "index", "config", "put_defaults", "delete_folder"},
           NEW who \in User \cup {None}, NEW f \in Folder, NEW data \in Config \cup {None}
    PROVE  /\ Job(op, who, f, data) \in Work /\ Fresh(Job(op, who, f, data))
           /\ Job(op, who, f, data).op = op /\ Job(op, who, f, data).who = who
           /\ Job(op, who, f, data).folder = f /\ Job(op, who, f, data).data = data
           /\ Job(op, who, f, data).todo = {} /\ Job(op, who, f, data).gives = {}
           /\ who # None => Job(op, who, f, data).snap = config
<1> DEFINE S == IF who = None THEN None ELSE config
<1>1. S \in [Folder -> Config \cup {None}] \cup {None}
  BY DEF FolderInv, Types
<1>2. who # None => S = config
  OBVIOUS
<1> HIDE DEF S
<1> DEFINE k == [op |-> op, who |-> who, folder |-> f, at |-> f, i |-> 1, todo |-> {},
                 open |-> {}, data |-> data, gives |-> {}, keeps |-> {}, lent |-> None,
                 snap |-> S, during |-> {}]
<1>3. Job(op, who, f, data) = k
  BY Zenon DEF Job, S
<1>4. k \in Work
  BY <1>1 DEF Work, Credentials
<1>5. /\ k.at = f /\ k.folder = f /\ k.i = 1 /\ k.open = {} /\ k.lent = None /\ k.during = {}
      /\ k.op = op /\ k.who = who /\ k.data = data /\ k.todo = {} /\ k.gives = {} /\ k.snap = S
  OBVIOUS
<1> HIDE DEF k
<1> QED BY <1>2, <1>3, <1>4, <1>5, Zenon DEF Fresh

\* A user's request begins with everything ahead of it.
LEMMA ReaderBegins ==
    ASSUME FolderInv, NEW k \in Work, k.op \in Reading, k.who \in User, k.snap = config, Fresh(k),
           k.op = "index" => k.todo \cup {k.at} = Top
    PROVE  Good(config, "access", k)
<1>1. k # NoJob /\ k.folder \in Folder /\ k.at \in Folder
  BY WorkOrNone, Fields
<1>2. config \in [Folder -> Config \cup {None}]
  BY DEF FolderInv, Types
<1>3. Stage("access", k)
  BY <1>2 DEF Stage
<1>4. OnPath("access", k)
  BY <1>1, PathFacts DEF OnPath, Fresh
<1>5. Deletes("access", k)
  BY DEF Deletes, Reading
<1>6. Follows(config, k)
  BY Zenon DEF Follows
<1>7. k.i = 1 /\ 1..(k.i - 1) = {}
  BY DEF Fresh
<1>8. Sound("access", k)
  <2>1. /\ k.open = {} /\ k.lent = None /\ "access" \notin {"entry", "lend", "climb"}
        /\ "access" \notin {"lend", "climb"}
    BY DEF Fresh
  <2>2. {} \subseteq Right(k)
    OBVIOUS
  <2> QED BY <1>7, <2>1, <2>2, Zenon DEF Sound
<1>9. Complete("access", k)
  <2>1. k.open = {} /\ k.at = k.folder
    BY DEF Fresh
  <2>2. Ahead("access", k) = Below(k.todo \cup {k.at})
    BY DEF Ahead
  <2>3. Right(k) \cap Subtree(k.folder) \subseteq Ahead("access", k)
    BY <2>1, <2>2 DEF Below, Right
  <2>4. ASSUME k.op = "index" PROVE Right(k) \subseteq Ahead("access", k)
    <3>1. SUFFICES ASSUME NEW f \in Right(k) PROVE f \in Below(Top)
      BY <2>2, <2>4
    <3>2. f \in Folder
      BY DEF Right
    <3>3. PICK t \in Top : f \in Subtree(t)
      BY <3>2, TopCovers
    <3> QED BY <3>2, <3>3 DEF Below
  <2> QED BY <1>7, <2>1, <2>3, <2>4 DEF Complete
<1> QED BY <1>1, <1>3, <1>4, <1>5, <1>6, <1>8, <1>9, Zenon DEF Good, Call

LEMMA NoneIsNobody == \A u \in User : u # None
BY NoneAssumption

LEMMA ReaderStep ==
    ASSUME FolderInv, NEW r \in Req, NEW op \in {"open", "visible"}, NEW u \in User,
           NEW f \in Folder, Begin(r, Job(op, u, f, None), "access")
    PROVE  FolderInv'
<1> DEFINE k == Job(op, u, f, None)
<1>1. /\ op \in {"open", "visible", "index", "config", "put_defaults", "delete_folder"}
      /\ u \in User \cup {None} /\ None \in Config \cup {None}
  OBVIOUS
<1>2. /\ k \in Work /\ Fresh(k) /\ k.op = op /\ k.who = u /\ k.snap = config
  BY <1>1, JobIs, NoneIsNobody
<1> HIDE DEF k
<1>3. k.op \in Reading /\ k.op # "index"
  BY <1>2 DEF Reading
<1>4. Good(config, "access", k)
  BY <1>2, <1>3, ReaderBegins
<1>5. Lends(config, "access", k)
  BY DEF Lends
<1>6. Begin(r, k, "access")
  BY DEF k
<1> QED BY <1>4, <1>5, <1>6, BeginStep

LEMMA SearchStep ==
    ASSUME FolderInv, NEW r \in Req, ab_search_index(r)
    PROVE  FolderInv'
<1>1. PICK u \in User, f \in Top :
          Begin(r, [Job("index", u, f, None) EXCEPT !.todo = Top \ {f}], "access")
  BY Zenon DEF ab_search_index
<1> DEFINE j == Job("index", u, f, None)
           T == Top \ {f}
           k == [j EXCEPT !.todo = T]
<1>2. f \in Folder /\ T \in SUBSET Folder /\ T \cup {f} = Top
  BY DEF Top
<1>3. /\ u \in User \cup {None} /\ None \in Config \cup {None}
      /\ "index" \in {"open", "visible", "index", "config", "put_defaults", "delete_folder"}
  OBVIOUS
<1>4. j \in Work /\ Fresh(j) /\ j.op = "index" /\ j.who = u /\ j.snap = config /\ j.folder = f
  BY <1>2, <1>3, JobIs, NoneIsNobody
<1> HIDE DEF j, T
<1>5. k \in Work /\ Elsewhere(j, k) /\ k.i = j.i /\ k.at = j.at /\ k.todo = T
  BY <1>2, <1>4, SetTodo
<1> HIDE DEF k
<1>6. Fresh(k) /\ k.op = "index" /\ k.who = u /\ k.snap = config /\ k.at = f
  BY <1>4, <1>5, Zenon DEF Fresh, Elsewhere
<1>7. k.op \in Reading /\ k.todo \cup {k.at} = Top
  BY <1>2, <1>5, <1>6 DEF Reading
<1>8. Good(config, "access", k)
  BY <1>5, <1>6, <1>7, ReaderBegins
<1>9. Lends(config, "access", k)
  BY DEF Lends
<1>10. Begin(r, k, "access")
  BY <1>1, Zenon DEF k, j, T
<1> QED BY <1>8, <1>9, <1>10, BeginStep

\* An admin's request begins.
LEMMA AdminBegins ==
    ASSUME FolderInv, NEW k \in Work, NEW at \in {"put", "read", "config", "lends", "collect"},
           k.who = None, k.at = k.folder, k.i = 1,
           at \in {"put", "read"} => k.op = "config" /\ k.data \in Config,
           at = "config" => k.op = "put_defaults",
           at = "lends" => k.op = "put_defaults" /\ k.gives = {},
           at = "collect" => k.op = "delete_folder" /\ k.todo = {}
    PROVE  Good(config, at, k) /\ Lends(config, at, k)
<1>1. k.op \notin Reading /\ at \in Call \ {"idle", "climb"}
  BY DEF Reading, Call
<1>2. Stage(at, k)
  BY <1>1 DEF Stage
<1>3. Deletes(at, k)
  BY DEF Deletes
<1>4. k.i \in 1..Len(Path[k.at])
  BY Fields, PathFacts
<1>5. Lends(config, at, k)
  BY DEF Lends
<1> QED BY <1>1, <1>2, <1>3, <1>4, <1>5, AdminGood

LEMMA AdminJob ==
    ASSUME FolderInv, NEW op \in {"config", "put_defaults", "delete_folder"}, NEW f \in Folder,
           NEW data \in Config \cup {None}
    PROVE  /\ Job(op, None, f, data) \in Work
           /\ Job(op, None, f, data).op = op /\ Job(op, None, f, data).who = None
           /\ Job(op, None, f, data).folder = f /\ Job(op, None, f, data).data = data
           /\ Job(op, None, f, data).at = f /\ Job(op, None, f, data).i = 1
           /\ Job(op, None, f, data).todo = {} /\ Job(op, None, f, data).gives = {}
<1>1. /\ op \in {"open", "visible", "index", "config", "put_defaults", "delete_folder"}
      /\ None \in User \cup {None}
  OBVIOUS
<1> DEFINE k == Job(op, None, f, data)
<1>2. /\ k \in Work /\ Fresh(k) /\ k.op = op /\ k.who = None /\ k.folder = f /\ k.data = data
      /\ k.todo = {} /\ k.gives = {}
  BY <1>1, JobIs
<1> HIDE DEF k
<1>3. k.at = f /\ k.i = 1
  BY <1>2 DEF Fresh
<1> QED BY <1>2, <1>3, Zenon DEF k

LEMMA ConfigBegins ==
    ASSUME FolderInv, NEW r \in Req, NEW f \in Folder, NEW c \in Given, NEW at \in {"put", "read"},
           Begin(r, Job("config", None, f, c), at)
    PROVE  FolderInv'
<1> DEFINE k == Job("config", None, f, c)
<1>1. c \in Config /\ c \in Config \cup {None}
  BY GivenAssumption
<1>2. /\ k \in Work /\ k.op = "config" /\ k.who = None /\ k.folder = f /\ k.data = c
      /\ k.at = f /\ k.i = 1
  BY <1>1, AdminJob
<1>3. Begin(r, k, at)
  OBVIOUS
<1> HIDE DEF k
<1>4. at \in {"put", "read", "config", "lends", "collect"} /\ at \notin {"config", "lends", "collect"}
  OBVIOUS
<1>5. Good(config, at, k) /\ Lends(config, at, k)
  BY <1>1, <1>2, <1>4, AdminBegins
<1> QED BY <1>3, <1>5, BeginStep

LEMMA PatchBegins ==
    ASSUME FolderInv, NEW r \in Req, ab_put_folder_defaults(r)
    PROVE  FolderInv'
<1>1. PICK f \in Folder, G \in Credentials : \E K \in SUBSET (Part \ G) :
          Begin(r, [Job("put_defaults", None, f, None) EXCEPT !.gives = G, !.keeps = K], "config")
  BY DEF ab_put_folder_defaults
<1>2. PICK K \in SUBSET (Part \ G) :
          Begin(r, [Job("put_defaults", None, f, None) EXCEPT !.gives = G, !.keeps = K], "config")
  BY <1>1
<1> DEFINE j == Job("put_defaults", None, f, None)
           k == [j EXCEPT !.gives = G, !.keeps = K]
<1>3. K \in Credentials /\ None \in Config \cup {None}
  BY DEF Credentials
<1>4. "put_defaults" \in {"config", "put_defaults", "delete_folder"}
  OBVIOUS
<1>5. j \in Work /\ j.op = "put_defaults" /\ j.who = None /\ j.folder = f /\ j.at = f /\ j.i = 1
  BY <1>3, <1>4, AdminJob
<1>6. Begin(r, k, "config")
  BY <1>2, Zenon
<1> HIDE DEF j
<1>7. k \in Work /\ Otherwise(j, k)
  BY <1>3, <1>5, SetPatch
<1> HIDE DEF k
<1>8. k.op = "put_defaults" /\ k.who = None /\ k.folder = f /\ k.at = f /\ k.i = 1
  BY <1>5, <1>7 DEF Otherwise
<1>9. /\ "config" \in {"put", "read", "config", "lends", "collect"}
      /\ "config" \notin {"put", "read", "lends", "collect"}
  OBVIOUS
<1>10. Good(config, "config", k) /\ Lends(config, "config", k)
  BY <1>7, <1>8, <1>9, AdminBegins
<1> QED BY <1>6, <1>10, BeginStep

LEMMA ClearBegins ==
    ASSUME FolderInv, NEW r \in Req, NEW f \in Folder,
           NEW op \in {"put_defaults", "delete_folder"}, NEW at,
           (op = "put_defaults" /\ at = "lends") \/ (op = "delete_folder" /\ at = "collect"),
           Begin(r, Job(op, None, f, None), at)
    PROVE  FolderInv'
<1> DEFINE k == Job(op, None, f, None)
<1>1. None \in Config \cup {None} /\ op \in {"config", "put_defaults", "delete_folder"}
  OBVIOUS
<1>2. /\ k \in Work /\ k.op = op /\ k.who = None /\ k.folder = f
      /\ k.at = f /\ k.i = 1 /\ k.todo = {} /\ k.gives = {}
  BY <1>1, AdminJob
<1>3. Begin(r, k, at)
  OBVIOUS
<1> HIDE DEF k
<1>4. at \in {"put", "read", "config", "lends", "collect"} /\ at \notin {"put", "read", "config"}
  OBVIOUS
<1>5. Good(config, at, k) /\ Lends(config, at, k)
  BY <1>2, <1>4, AdminBegins
<1> QED BY <1>3, <1>5, BeginStep

-----------------------------------------------------------------------------
(* Who may open a folder *)

\* What a user's request does not change.
SameRequest(j, k) == k.op = j.op /\ k.who = j.who /\ k.folder = j.folder /\ k.snap = j.snap

LEMMA ReaderMoves ==
    ASSUME FolderInv, NEW r \in Req, pc[r] \in {"access", "entry", "lend", "climb"},
           NEW p \in {"access", "entry", "lend", "climb", "done"}, NEW k \in Work,
           Then(r, p, k), Stored, SameRequest(job[r], k),
           p \in {"entry", "lend", "climb"} => k.op = "open", OnPath(p, k),
           Follows(config, k), Sound(p, k), Complete(p, k)
    PROVE  FolderInv'
<1>1. job[r] \in Work /\ Stage(pc[r], job[r])
  BY AtWork
<1>2. job[r].op \in Reading
  BY <1>1 DEF Stage, Reading
<1>3. Stage(p, k) /\ k.op \in Reading
  BY <1>1, <1>2 DEF Stage, SameRequest
<1>4. Deletes(p, k)
  BY <1>3 DEF Deletes, Reading
<1>5. p \in Call /\ p # "idle" /\ k # NoJob
  BY WorkOrNone DEF Call
<1>6. Good(config, p, k)
  BY <1>3, <1>4, <1>5, Zenon DEF Good
<1>7. Lends(config, p, k)
  BY DEF Lends
<1>8. k.op = job[r].op /\ k.folder = job[r].folder
  BY DEF SameRequest
<1> QED BY <1>1, <1>6, <1>7, <1>8, MovesOn

\* A listing goes on: what it should open is open, or below the folders left.
LEMMA GoOnStep ==
    ASSUME FolderInv, NEW r \in Req, pc[r] = "access", Stored, NEW j \in Work,
           NEW below \in SUBSET Folder, GoOn(r, j, below), SameRequest(job[r], j),
           j.op \in {"visible", "index"}, OnPath("done", j), Follows(config, j),
           "put" \notin j.during => /\ j.open \subseteq Right(j)
                                    /\ j.lent # None => j.lent.from \in Right(j),
           j.during = {} =>
               /\ j.op = "visible" =>
                      /\ j.open = {}
                      /\ Right(j) \cap Subtree(j.folder) \subseteq Below(j.todo \cup below)
               /\ j.op = "index" => Right(j) \subseteq j.open \cup Below(j.todo \cup below)
    PROVE  FolderInv'
<1> DEFINE todo == j.todo \cup below
<1>1. todo \subseteq Folder
  BY Fields
<1>2. pc[r] \in {"access", "entry", "lend", "climb"}
  OBVIOUS
<1>3. CASE todo = {}
  <2>1. Then(r, "done", j)
    BY <1>3, Zenon DEF GoOn
  <2>2. Below(todo) = {}
    BY <1>3 DEF Below
  <2>3. Sound("done", j)
    BY DEF Sound
  <2>4. j.op # "open" /\ Ahead("done", j) = {}
    BY DEF Ahead
  <2>5. Complete("done", j)
    BY <2>2, <2>4 DEF Complete
  <2> HIDE DEF todo
  <2>6. /\ "done" \in {"access", "entry", "lend", "climb", "done"}
        /\ "done" \notin {"entry", "lend", "climb"}
    OBVIOUS
  <2> QED BY <1>2, <2>1, <2>3, <2>5, <2>6, ReaderMoves
<1>4. CASE todo # {}
  <2>1. PICK g \in todo : Then(r, "access", [j EXCEPT !.at = g, !.i = 1, !.todo = todo \ {g}])
    BY <1>4, Zenon DEF GoOn
  <2> DEFINE T == todo \ {g}
             k == [j EXCEPT !.at = g, !.i = 1, !.todo = T]
  <2>2. g \in Folder /\ T \in SUBSET Folder /\ T \cup {g} = todo
    BY <1>1
  <2>3. Then(r, "access", k)
    BY <2>1
  <2> HIDE DEF todo, T
  <2>4. k \in Work /\ Elsewhere(j, k) /\ k.i = 1 /\ k.at = g /\ k.todo = T
    <3>1. k \in Work /\ Placed(j, k, g, T)
      BY <2>2, SetPlace
    <3> QED BY <3>1, Zenon DEF Placed
  <2> HIDE DEF k
  <2>5. /\ k.op = j.op /\ k.who = j.who /\ k.folder = j.folder /\ k.snap = j.snap
        /\ k.open = j.open /\ k.lent = j.lent /\ k.during = j.during
    BY <2>4 DEF Elsewhere
  <2>6. Right(k) = Right(j)
    BY <2>5, Zenon DEF Right
  <2>7. 1..(k.i - 1) = {}
    BY <2>4
  <2>8. Sound("access", k)
    <3>1. "access" \notin {"entry", "lend", "climb"} /\ "access" \notin {"lend", "climb"}
      OBVIOUS
    <3> QED BY <2>5, <2>6, <2>7, <3>1, Zenon DEF Sound
  <2>9. Ahead("access", k) = Below(todo)
    BY <2>2, <2>4 DEF Ahead
  <2>10. Complete("access", k)
    <3>1. j.op # "open"
      OBVIOUS
    <3>2. j.during = {} =>
              /\ j.op = "visible" =>
                     j.open = {} /\ Right(j) \cap Subtree(j.folder) \subseteq Below(todo)
              /\ j.op = "index" => Right(j) \subseteq j.open \cup Below(todo)
      BY DEF todo
    <3> QED BY <2>5, <2>6, <2>7, <2>9, <3>1, <3>2, Zenon DEF Complete
  <2>11. OnPath("access", k)
    BY <2>2, <2>4, PathFacts DEF OnPath
  <2>12. Follows(config, k)
    BY <2>5, Zenon DEF Follows
  <2>13. SameRequest(job[r], k)
    BY <2>5, Zenon DEF SameRequest
  <2>14. /\ "access" \in {"access", "entry", "lend", "climb", "done"}
         /\ "access" \notin {"entry", "lend", "climb"}
    OBVIOUS
  <2> QED BY <1>2, <2>3, <2>4, <2>8, <2>10, <2>11, <2>12, <2>13, <2>14, ReaderMoves
<1> QED BY <1>3, <1>4

\* What is known of a walk.
LEMMA OnTheWalk ==
    ASSUME FolderInv, NEW r \in Req, pc[r] = "access"
    PROVE  /\ job[r] \in Work /\ job[r].op \in Reading /\ job[r].who \in User
           /\ OnPath("access", job[r]) /\ job[r].at \in Folder /\ Here(job[r]) \in Folder
           /\ Here(job[r]) = Path[job[r].at][job[r].i]
           /\ Follows(config, job[r]) /\ Sound("access", job[r]) /\ Complete("access", job[r])
<1>1. /\ job[r] \in Work /\ Stage("access", job[r]) /\ OnPath("access", job[r])
      /\ job[r].op \in Reading =>
             Follows(config, job[r]) /\ Sound("access", job[r]) /\ Complete("access", job[r])
  BY AtWork
<1>2. job[r].op \in Reading /\ job[r].who \in User
  BY <1>1 DEF Stage
<1>3. job[r].at \in Folder
  BY <1>1, Fields
<1>4. Here(job[r]) \in Folder
  BY <1>1, <1>3, PathFacts DEF Here, OnPath
<1> QED BY <1>1, <1>2, <1>3, <1>4 DEF Here

\* A listing is refused, after a failure or rightly.
LEMMA RefusedStep ==
    ASSUME FolderInv, NEW r \in Req, pc[r] = "access", Stored, NEW j \in Work,
           NEW below \in SUBSET Folder, Refused(r, j, below), SameRequest(job[r], j),
           j.open = job[r].open, j.at = job[r].at, j.i = job[r].i, j.todo = job[r].todo,
           j.lent = job[r].lent,
           \/ j.during = job[r].during \cup {"fail"}
           \/ /\ j.during = job[r].during
              /\ below = Children(j.at)
              /\ j.during = {} => j.at \notin Right(j)
    PROVE  FolderInv'
<1>1. /\ job[r] \in Work /\ job[r].op \in Reading /\ OnPath("access", job[r])
      /\ Follows(config, job[r]) /\ Sound("access", job[r]) /\ Complete("access", job[r])
  BY OnTheWalk
<1>2. j.during = {} => /\ job[r].during = {} /\ below = Children(j.at)
                       /\ j.at \notin Right(j)
  OBVIOUS
<1>3. "put" \notin j.during => "put" \notin job[r].during
  OBVIOUS
<1>4. Right(j) = Right(job[r])
  BY Zenon DEF Right, SameRequest
<1>5. Follows(config, j)
  BY <1>1, <1>2, <1>3, Zenon DEF Follows, SameRequest
<1>6. OnPath("done", j)
  BY <1>1, Zenon DEF OnPath
<1>7. "put" \notin j.during => /\ j.open \subseteq Right(j)
                               /\ j.lent # None => j.lent.from \in Right(j)
  BY <1>1, <1>3, <1>4, Zenon DEF Sound
<1>8. CASE j.op = "open"
  <2>1. Then(r, "done", j)
    BY <1>8, Zenon DEF Refused
  <2>2. Sound("done", j)
    BY <1>7 DEF Sound
  <2>3. ASSUME j.during = {} PROVE j.open = Right(j) \cap {j.folder} /\ j.at = j.folder
    <3>1. job[r].op = "open" /\ job[r].folder = j.folder
      BY <1>8 DEF SameRequest
    <3>2. job[r].at = job[r].folder /\ job[r].open = {}
      BY <1>1, <1>2, <2>3, <3>1 DEF Complete
    <3>3. j.at = j.folder /\ j.open = {} /\ j.at \notin Right(j)
      BY <1>2, <2>3, <3>1, <3>2
    <3> QED BY <3>3
  <2>4. Complete("done", j)
    BY <1>8, <2>3 DEF Complete
  <2>5. /\ "done" \in {"access", "entry", "lend", "climb", "done"}
        /\ "done" \notin {"entry", "lend", "climb"}
        /\ pc[r] \in {"access", "entry", "lend", "climb"}
    OBVIOUS
  <2> QED BY <1>5, <1>6, <2>1, <2>2, <2>4, <2>5, ReaderMoves
<1>9. CASE j.op # "open"
  <2>1. GoOn(r, j, below)
    BY <1>9, Zenon DEF Refused
  <2>2. j.op \in {"visible", "index"}
    BY <1>1, <1>9 DEF SameRequest, Reading
  <2>3. ASSUME j.during = {}
        PROVE  /\ j.op = "visible" =>
                      /\ j.open = {}
                      /\ Right(j) \cap Subtree(j.folder) \subseteq Below(j.todo \cup below)
               /\ j.op = "index" => Right(j) \subseteq j.open \cup Below(j.todo \cup below)
    <3> DEFINE T == j.todo \cup {j.at}
    <3>1. j.at \in Folder
      BY Fields
    <3>2. Below(T) \subseteq Below((T \ {j.at}) \cup Children(j.at)) \cup {j.at}
      BY <3>1, ChildrenBelow
    <3>3. Below((T \ {j.at}) \cup Children(j.at)) \subseteq Below(j.todo \cup below)
      BY <1>2, <2>3 DEF Below
    <3>4. j.at \notin Right(j)
      BY <1>2, <2>3
    <3>5. Ahead("access", job[r]) = Below(T)
      BY DEF Ahead
    <3>6. /\ j.op = "visible" => job[r].open = {}
          /\ j.op = "visible" /\ job[r].open = {} =>
                 Right(job[r]) \cap Subtree(job[r].folder) \subseteq Ahead("access", job[r])
          /\ j.op = "index" => Right(job[r]) \subseteq job[r].open \cup Ahead("access", job[r])
      BY <1>1, <1>2, <2>3, Zenon DEF Complete, SameRequest
    <3>7. job[r].folder = j.folder
      BY DEF SameRequest
    <3> HIDE DEF T
    <3>8. /\ j.op = "visible" => Right(j) \cap Subtree(j.folder) \subseteq Below(T)
          /\ j.op = "index" => Right(j) \subseteq j.open \cup Below(T)
      BY <1>4, <3>5, <3>6, <3>7, Zenon
    <3> QED BY <3>2, <3>3, <3>4, <3>6, <3>8
  <2> QED BY <1>5, <1>6, <1>7, <2>1, <2>2, <2>3, GoOnStep
<1> QED BY <1>8, <1>9

\* What is found in a .config stood there when the request began.
LEMMA FollowsAt ==
    ASSUME NEW j, NEW f \in Folder, Follows(config, j), "put" \notin j.during, config[f] # None
    PROVE  j.snap[f] = config[f]
<1>1. config[f] \in {None, j.snap[f]}
  BY Zenon DEF Follows
<1> QED BY <1>1

LEMMA GrantedStep ==
    ASSUME FolderInv, NEW r \in Req, pc[r] = "access", Stored, Granted(r),
           config[Here(job[r])] # None, grants(config[Here(job[r])], job[r].who)
    PROVE  FolderInv'
<1> DEFINE j == job[r]
           k == [j EXCEPT !.open = @ \cup {j.at}]
<1>1. /\ j \in Work /\ j.op \in Reading /\ j.who \in User /\ OnPath("access", j)
      /\ j.at \in Folder /\ Here(j) \in Folder /\ Here(j) = Path[j.at][j.i]
      /\ Follows(config, j) /\ Sound("access", j) /\ Complete("access", j)
  BY OnTheWalk
<1>2. /\ k \in Work /\ k.op = j.op /\ k.who = j.who /\ k.folder = j.folder
      /\ k.lent = j.lent /\ k.snap = j.snap /\ k.during = j.during
      /\ k.open = j.open \cup {j.at} /\ k.at = j.at /\ k.i = j.i /\ k.todo = j.todo
  BY <1>1, SetOpen
<1>3. /\ j.op = "open" => Then(r, "entry", k)
      /\ j.op = "visible" => Then(r, "done", k)
      /\ j.op = "index" => GoOn(r, k, Children(j.at))
  <2>1. /\ k.op = "open" => Then(r, "entry", k)
        /\ k.op = "visible" => Then(r, "done", k)
        /\ k.op = "index" => GoOn(r, k, Children(k.at))
    BY Zenon DEF Granted
  <2> HIDE DEF k
  <2> QED BY <1>2, <2>1
<1> HIDE DEF k
<1>4. Right(k) = Right(j) /\ SameRequest(j, k)
  BY <1>2, Zenon DEF Right, SameRequest
<1>5. ASSUME "put" \notin j.during PROVE j.at \in Right(j)
  <2>1. Here(j) \in Folder /\ Here(j) = Path[j.at][j.i] /\ Follows(config, j)
    BY <1>1
  <2>2. j.snap[Path[j.at][j.i]] # None /\ grants(j.snap[Path[j.at][j.i]], j.who)
    <3>1. j.snap[Here(j)] = config[Here(j)]
      BY <1>5, <2>1, FollowsAt
    <3> QED BY <2>1, <3>1, Zenon
  <2>3. j.i \in 1..Len(Path[j.at])
    BY <1>1 DEF OnPath
  <2>4. \A n \in 1..(j.i - 1) : j.snap[Path[j.at][n]] # None /\ j.snap[Path[j.at][n]].inherit
    BY <1>1, <1>5, Zenon DEF Sound
  <2>5. Reach(j.snap, j.who, j.at)
    BY <2>2, <2>3, <2>4, Zenon DEF Reach
  <2> QED BY <1>1, <2>5 DEF Right
<1>6. "put" \notin k.during => /\ k.open \subseteq Right(k) /\ k.at \in Right(k)
                               /\ k.lent # None => k.lent.from \in Right(k)
  <2>1. "put" \notin j.during => /\ j.open \subseteq Right(j)
                                 /\ j.lent # None => j.lent.from \in Right(j)
    BY <1>1, Zenon DEF Sound
  <2> QED BY <1>2, <1>4, <1>5, <2>1
<1>7. Follows(config, k)
  BY <1>1, <1>2, Zenon DEF Follows
<1>8. OnPath("done", k) /\ OnPath("entry", k)
  BY <1>1, <1>2 DEF OnPath
<1>9. /\ pc[r] \in {"access", "entry", "lend", "climb"} /\ "put" \notin {}
      /\ "done" \in {"access", "entry", "lend", "climb", "done"}
      /\ "entry" \in {"access", "entry", "lend", "climb", "done"}
      /\ "done" \notin {"entry", "lend", "climb"}
  OBVIOUS
<1>10. CASE j.op = "open"
  <2>1. Then(r, "entry", k)
    BY <1>3, <1>10
  <2>2. Sound("entry", k)
    BY <1>6 DEF Sound
  <2>3. ASSUME k.during = {} PROVE k.at = k.folder /\ k.open = Right(k) \cap {k.folder}
    <3>1. j.at = j.folder /\ j.open = {}
      BY <1>1, <1>2, <1>10, <2>3 DEF Complete
    <3>2. k.at \in Right(k)
      BY <1>6, <2>3
    <3> QED BY <1>2, <3>1, <3>2
  <2>4. Complete("entry", k)
    BY <1>2, <1>10, <2>3 DEF Complete
  <2> QED BY <1>2, <1>4, <1>7, <1>8, <1>9, <1>10, <2>1, <2>2, <2>4, ReaderMoves
<1>11. CASE j.op = "visible"
  <2>1. Then(r, "done", k)
    BY <1>3, <1>11
  <2>2. Sound("done", k)
    BY <1>6 DEF Sound
  <2>3. k.open # {}
    BY <1>2
  <2>4. Complete("done", k)
    BY <1>2, <1>11, <2>3 DEF Complete
  <2> QED BY <1>2, <1>4, <1>7, <1>8, <1>9, <2>1, <2>2, <2>4, ReaderMoves
<1>12. CASE j.op = "index"
  <2>1. GoOn(r, k, Children(j.at)) /\ Children(j.at) \in SUBSET Folder
    BY <1>3, <1>12 DEF Children
  <2>2. ASSUME k.during = {}
        PROVE  Right(k) \subseteq k.open \cup Below(k.todo \cup Children(j.at))
    <3> DEFINE T == j.todo \cup {j.at}
    <3>1. Below(T) \subseteq Below((T \ {j.at}) \cup Children(j.at)) \cup {j.at}
      BY <1>1, ChildrenBelow
    <3>2. Below((T \ {j.at}) \cup Children(j.at)) \subseteq Below(j.todo \cup Children(j.at))
      BY DEF Below
    <3>3. Ahead("access", j) = Below(T)
      BY DEF Ahead
    <3> HIDE DEF T
    <3>4. Right(j) \subseteq j.open \cup Below(T)
      BY <1>1, <1>2, <1>12, <2>2, <3>3, Zenon DEF Complete
    <3> QED BY <1>2, <1>4, <3>1, <3>2, <3>4
  <2>3. k.op \in {"visible", "index"} /\ k.op # "visible"
    BY <1>2, <1>12
  <2> QED BY <1>2, <1>4, <1>6, <1>7, <1>8, <2>1, <2>2, <2>3, GoOnStep
<1> QED BY <1>1, <1>10, <1>11, <1>12 DEF Reading

LEMMA ResolveStep ==
    ASSUME FolderInv, NEW r \in Req, resolve_folder_access(r)
    PROVE  FolderInv'
<1> DEFINE j == job[r]
           c == config[Here(j)]
<1>1. /\ pc[r] = "access" /\ Stored
      /\ \/ c # None /\ grants(c, j.who) /\ Granted(r)
         \/ /\ c # None /\ ~ grants(c, j.who) /\ c.inherit /\ j.i < Len(Path[j.at])
            /\ Then(r, "access", [j EXCEPT !.i = @ + 1])
         \/ /\ c # None => ~ grants(c, j.who) /\ (c.inherit => j.i = Len(Path[j.at]))
            /\ Refused(r, j, Children(j.at))
  BY Zenon DEF resolve_folder_access
<1>2. /\ j \in Work /\ j.op \in Reading /\ j.who \in User /\ OnPath("access", j)
      /\ j.at \in Folder /\ Here(j) \in Folder /\ Here(j) = Path[j.at][j.i]
      /\ Follows(config, j) /\ Sound("access", j) /\ Complete("access", j)
  BY <1>1, OnTheWalk
<1>3. /\ pc[r] = "access" /\ Stored
      /\ "put" \notin j.during /\ c # None => j.snap[Path[j.at][j.i]] = c
      /\ j.during = {} => j.snap[Path[j.at][j.i]] = c
  <2>1. Here(j) \in Folder /\ Here(j) = Path[j.at][j.i] /\ Follows(config, j)
    BY <1>2
  <2>2. "put" \notin j.during /\ c # None => j.snap[Here(j)] = c
    BY <2>1, FollowsAt
  <2>3. j.during = {} => j.snap[Here(j)] = c
    BY <2>1, Zenon DEF Follows
  <2> QED BY <1>1, <2>1, <2>2, <2>3, Zenon
<1>4. CASE c # None /\ grants(c, j.who) /\ Granted(r)
  BY <1>1, <1>4, GrantedStep
<1>5. CASE /\ c # None /\ ~ grants(c, j.who) /\ c.inherit /\ j.i < Len(Path[j.at])
           /\ Then(r, "access", [j EXCEPT !.i = @ + 1])
  <2> DEFINE n == j.i + 1
             k == [j EXCEPT !.i = n]
  <2>1. Then(r, "access", k)
    BY <1>5, Zenon
  <2>2. n \in Nat /\ n \in 1..Len(Path[j.at]) /\ j.i \in 1..Len(Path[j.at])
    BY <1>2, <1>5, PathFacts DEF OnPath
  <2>3. \A m \in 1..(n - 1) : m \in 1..(j.i - 1) \/ m = j.i
    BY <2>2
  <2> HIDE DEF n
  <2>4. k \in Work /\ Elsewhere(j, k) /\ k.i = n /\ k.at = j.at /\ k.todo = j.todo
    BY <1>2, <2>2, SetI
  <2> HIDE DEF k
  <2>5. /\ k.op = j.op /\ k.who = j.who /\ k.folder = j.folder /\ k.snap = j.snap
        /\ k.open = j.open /\ k.lent = j.lent /\ k.during = j.during
    BY <2>4, Zenon DEF Elsewhere
  <2>6. Right(k) = Right(j) /\ SameRequest(j, k)
    BY <2>5, Zenon DEF Right, SameRequest
  <2>7. Follows(config, k)
    BY <1>2, <2>5, Zenon DEF Follows
  <2>8. OnPath("access", k)
    <3>1. "access" # "climb"
      OBVIOUS
    <3> QED BY <2>2, <2>4, <3>1, Zenon DEF OnPath
  <2>9. Sound("access", k)
    <3>1. SUFFICES ASSUME "put" \notin j.during
                   PROVE  /\ j.open \subseteq Right(j)
                          /\ \A m \in 1..(n - 1) :
                                 j.snap[Path[j.at][m]] # None /\ j.snap[Path[j.at][m]].inherit
                          /\ j.lent # None => j.lent.from \in Right(j)
      <4>1. "access" \notin {"entry", "lend", "climb"} /\ "access" \notin {"lend", "climb"}
        OBVIOUS
      <4> QED BY <2>4, <2>5, <2>6, <4>1, Zenon DEF Sound
    <3>2. /\ j.open \subseteq Right(j)
          /\ \A m \in 1..(j.i - 1) :
                 j.snap[Path[j.at][m]] # None /\ j.snap[Path[j.at][m]].inherit
          /\ j.lent # None => j.lent.from \in Right(j)
      BY <1>2, <3>1, Zenon DEF Sound
    <3>3. j.snap[Path[j.at][j.i]] # None /\ j.snap[Path[j.at][j.i]].inherit
      BY <1>3, <1>5, <3>1, Zenon
    <3> QED BY <2>3, <3>2, <3>3
  <2>10. Complete("access", k)
    <3>1. Ahead("access", k) = Ahead("access", j)
      BY <2>4, Zenon DEF Ahead
    <3>2. ASSUME j.during = {}
          PROVE  \A m \in 1..(n - 1) : ~ grants(j.snap[Path[j.at][m]], j.who)
      <4>1. \A m \in 1..(j.i - 1) : ~ grants(j.snap[Path[j.at][m]], j.who)
        BY <1>2, <3>2, Zenon DEF Complete
      <4>2. ~ grants(j.snap[Path[j.at][j.i]], j.who)
        BY <1>3, <1>5, <3>2, Zenon
      <4> QED BY <2>3, <4>1, <4>2
    <3>3. j.during = {} =>
              /\ j.op = "open" => j.at = j.folder /\ j.open = {}
              /\ j.op = "visible" =>
                     /\ j.open = {}
                     /\ Right(j) \cap Subtree(j.folder) \subseteq Ahead("access", j)
              /\ j.op = "index" => Right(j) \subseteq j.open \cup Ahead("access", j)
      BY <1>2, Zenon DEF Complete
    <3> QED BY <2>4, <2>5, <2>6, <3>1, <3>2, <3>3, Zenon DEF Complete
  <2>11. /\ "access" \in {"access", "entry", "lend", "climb", "done"}
         /\ "access" \notin {"entry", "lend", "climb"}
         /\ pc[r] \in {"access", "entry", "lend", "climb"} /\ Stored /\ k \in Work
    BY <1>3, <2>4
  <2> HIDE DEF j, c
  <2> QED BY <2>1, <2>6, <2>7, <2>8, <2>9, <2>10, <2>11, ReaderMoves DEF j
<1>6. CASE /\ c # None => ~ grants(c, j.who) /\ (c.inherit => j.i = Len(Path[j.at]))
           /\ Refused(r, j, Children(j.at))
  <2>1. ASSUME j.during = {} PROVE j.at \notin Right(j)
    <3>1. \A m \in 1..(j.i - 1) : ~ grants(j.snap[Path[j.at][m]], j.who)
      BY <1>2, <2>1, Zenon DEF Complete
    <3>2. j.snap[Path[j.at][j.i]] # None =>
              /\ ~ grants(j.snap[Path[j.at][j.i]], j.who)
              /\ j.snap[Path[j.at][j.i]].inherit => j.i = Len(Path[j.at])
      BY <1>3, <1>6, <2>1, Zenon
    <3>3. j.i \in 1..Len(Path[j.at])
      BY <1>2 DEF OnPath
    <3>4. ~ Reach(j.snap, j.who, j.at)
      BY <1>2, <3>1, <3>2, <3>3, Denied
    <3> QED BY <3>4 DEF Right
  <2>2. SameRequest(j, j) /\ Children(j.at) \in SUBSET Folder
    BY DEF SameRequest, Children
  <2>3. Refused(r, j, Children(j.at)) /\ j \in Work
    BY <1>2, <1>6
  <2> QED BY <1>3, <2>1, <2>2, <2>3, RefusedStep
<1> QED BY <1>1, <1>4, <1>5, <1>6

LEMMA FailedStep ==
    ASSUME FolderInv, NEW r \in Req, folder_or_descendant_accessible(r)
    PROVE  FolderInv'
<1> DEFINE j == job[r]
           k == [j EXCEPT !.during = @ \cup {"fail"}]
<1>1. /\ pc[r] = "access" /\ Stored
      /\ \E below \in {{}, Children(k.at)} : Refused(r, k, below)
  BY Zenon DEF folder_or_descendant_accessible
<1>2. PICK below \in {{}, Children(k.at)} : Refused(r, k, below)
  BY <1>1
<1>3. j \in Work
  BY <1>1, OnTheWalk
<1>4. "fail" \in {"put", "delete", "fail"}
  OBVIOUS
<1>5. /\ k \in Work /\ k.op = j.op /\ k.who = j.who /\ k.folder = j.folder
      /\ k.lent = j.lent /\ k.snap = j.snap /\ k.during = j.during \cup {"fail"}
      /\ k.open = j.open /\ k.at = j.at /\ k.i = j.i /\ k.todo = j.todo
  BY <1>3, <1>4, SetDuring
<1> HIDE DEF k
<1>6. SameRequest(j, k)
  BY <1>5 DEF SameRequest
<1>7. below \in SUBSET Folder
  BY DEF Children
<1> QED BY <1>1, <1>2, <1>5, <1>6, <1>7, RefusedStep

-----------------------------------------------------------------------------
(* What a folder lends *)

LEMMA OnLending ==
    ASSUME FolderInv, NEW r \in Req, pc[r] \in {"entry", "lend", "climb"}
    PROVE  /\ job[r] \in Work /\ job[r].op = "open" /\ job[r].at \in Folder
           /\ OnPath(pc[r], job[r]) /\ Follows(config, job[r])
           /\ Sound(pc[r], job[r]) /\ Complete(pc[r], job[r])
           /\ Here(job[r]) \in Folder /\ Here(job[r]) = Path[job[r].at][job[r].i]
           /\ pc[r] \in {"access", "entry", "lend", "climb"}
<1>1. /\ job[r] \in Work /\ Stage(pc[r], job[r]) /\ OnPath(pc[r], job[r])
      /\ job[r].op \in Reading =>
             Follows(config, job[r]) /\ Sound(pc[r], job[r]) /\ Complete(pc[r], job[r])
  BY AtWork
<1>2. job[r].op = "open" /\ job[r].op \in Reading
  BY <1>1 DEF Stage, Reading
<1>3. job[r].at \in Folder
  BY <1>1, Fields
<1>4. Here(job[r]) \in Folder
  BY <1>1, <1>3, PathFacts DEF Here, OnPath
<1> QED BY <1>1, <1>2, <1>3, <1>4 DEF Here

\* What was opened stays so while credentials are looked for.
LEMMA StillComplete ==
    ASSUME NEW p \in {"entry", "lend", "climb"}, NEW q \in {"lend", "climb", "done"},
           NEW j, NEW k, j.op = "open", SameRequest(j, k), k.at = j.at, k.open = j.open,
           k.during = {} => j.during = {}, Complete(p, j)
    PROVE  Complete(q, k) /\ Right(k) = Right(j)
<1>1. Right(k) = Right(j)
  BY Zenon DEF Right, SameRequest
<1>2. p # "access" /\ q # "access" /\ k.op = "open" /\ k.op # "visible" /\ k.op # "index"
  BY DEF SameRequest
<1>3. j.during = {} => j.at = j.folder /\ j.open = Right(j) \cap {j.folder}
  BY <1>2, Zenon DEF Complete
<1>4. k.folder = j.folder
  BY DEF SameRequest
<1>5. k.during = {} => k.at = k.folder /\ k.open = Right(k) \cap {k.folder}
  BY <1>1, <1>3, <1>4, Zenon
<1>6. Complete(q, k)
  BY <1>2, <1>5, Zenon DEF Complete
<1> QED BY <1>1, <1>6

LEMMA EntryStep ==
    ASSUME FolderInv, NEW r \in Req, lend_folder_defaults(r)
    PROVE  FolderInv'
<1> DEFINE j == job[r]
           k == [j EXCEPT !.i = 1]
<1>1. pc[r] = "entry" /\ Stored /\ (Then(r, "done", j) \/ Then(r, "lend", k))
  BY Zenon DEF lend_folder_defaults
<1>2. /\ j \in Work /\ j.op = "open" /\ j.at \in Folder /\ OnPath("entry", j)
      /\ Follows(config, j) /\ Sound("entry", j) /\ Complete("entry", j)
      /\ pc[r] \in {"access", "entry", "lend", "climb"}
  BY <1>1, OnLending
<1>3. /\ "done" \in {"access", "entry", "lend", "climb", "done"}
      /\ "lend" \in {"access", "entry", "lend", "climb", "done"}
      /\ "done" \notin {"entry", "lend", "climb"} /\ "entry" \in {"entry", "lend", "climb"}
      /\ "done" \in {"lend", "climb", "done"} /\ "lend" \in {"lend", "climb", "done"}
  OBVIOUS
<1>4. "put" \notin j.during => /\ j.open \subseteq Right(j) /\ j.at \in Right(j)
                               /\ j.lent # None => j.lent.from \in Right(j)
  BY <1>2, <1>3, Zenon DEF Sound
<1>5. CASE Then(r, "done", j)
  <2>1. SameRequest(j, j)
    BY DEF SameRequest
  <2>2. Sound("done", j)
    BY <1>4 DEF Sound
  <2>3. Complete("done", j)
    BY <1>2, <1>3, <2>1, StillComplete
  <2>4. OnPath("done", j)
    BY <1>2 DEF OnPath
  <2> QED BY <1>1, <1>2, <1>3, <1>5, <2>1, <2>2, <2>3, <2>4, ReaderMoves
<1>6. CASE Then(r, "lend", k)
  <2>1. k \in Work /\ Elsewhere(j, k) /\ k.i = 1 /\ k.at = j.at /\ k.todo = j.todo
    BY <1>2, SetI
  <2>2. Then(r, "lend", k)
    BY <1>6
  <2> HIDE DEF k
  <2>3. /\ SameRequest(j, k) /\ k.op = "open" /\ k.open = j.open /\ k.lent = j.lent
        /\ k.during = j.during /\ k.snap = j.snap
    BY <1>2, <2>1, Zenon DEF Elsewhere, SameRequest
  <2>4. Complete("lend", k) /\ Right(k) = Right(j)
    BY <1>2, <1>3, <2>1, <2>3, StillComplete
  <2>5. 1..(k.i - 1) = {}
    BY <2>1
  <2>6. Sound("lend", k)
    BY <1>4, <2>1, <2>3, <2>4, <2>5 DEF Sound
  <2>7. OnPath("lend", k)
    BY <1>2, <2>1, PathFacts DEF OnPath
  <2>8. Follows(config, k)
    BY <1>2, <2>3, Zenon DEF Follows
  <2> QED BY <1>1, <1>2, <1>3, <2>1, <2>2, <2>3, <2>4, <2>6, <2>7, <2>8, ReaderMoves
<1> QED BY <1>1, <1>5, <1>6

\* Whoever may open a folder that shares its parent's audience may open the
\* one above, so that what that one lends is for them.
LEMMA LendersAudience ==
    ASSUME NEW j \in Work, j.at \in Right(j), j.i \in 1..Len(Path[j.at]),
           \A k \in 1..(j.i - 1) :
               j.snap[Path[j.at][k]] # None /\ shares_parent_audience(j.snap[Path[j.at][k]])
    PROVE  Here(j) \in Right(j)
<1>1. j.at \in Folder /\ Reach(j.snap, j.who, j.at)
  BY Fields DEF Right
<1>2. ASSUME NEW c, shares_parent_audience(c) PROVE ~ grants(c, j.who)
  BY <1>2 DEF shares_parent_audience, grants
<1>3. \A k \in 1..(j.i - 1) : ~ grants(j.snap[Path[j.at][k]], j.who)
  BY <1>2
<1>4. Reach(j.snap, j.who, Path[j.at][j.i])
  BY <1>1, <1>3, SuffixReach
<1>5. Path[j.at][j.i] \in Folder
  BY <1>1, PathFacts
<1> QED BY <1>4, <1>5 DEF Right, Here

LEMMA LendStep ==
    ASSUME FolderInv, NEW r \in Req, folder_defaults(r)
    PROVE  FolderInv'
<1> DEFINE j == job[r]
           p == IF j.i = Len(Path[j.at]) THEN "done" ELSE "climb"
           x == IF j.lent = None /\ defaults[Here(j)] # {}
                THEN [from |-> Here(j), what |-> defaults[Here(j)]] ELSE j.lent
           k == [j EXCEPT !.lent = x]
<1>1. pc[r] = "lend" /\ Stored /\ Then(r, p, k)
  BY Zenon DEF folder_defaults
<1>2. /\ j \in Work /\ j.op = "open" /\ j.at \in Folder /\ OnPath("lend", j)
      /\ Follows(config, j) /\ Sound("lend", j) /\ Complete("lend", j)
      /\ Here(j) \in Folder /\ pc[r] \in {"access", "entry", "lend", "climb"}
  BY <1>1, OnLending
<1>3. j.i \in 1..Len(Path[j.at]) /\ Len(Path[j.at]) \in Nat
  BY <1>2, PathFacts DEF OnPath
<1>4. p \in {"climb", "done"} /\ (p = "climb" => j.i < Len(Path[j.at]))
  BY <1>3
<1>5. x \in [from : Folder, what : Credentials] \cup {None}
  <2>1. defaults[Here(j)] \in Credentials
    BY <1>2 DEF FolderInv, Types
  <2>2. j.lent \in [from : Folder, what : Credentials] \cup {None}
    BY <1>2, Fields
  <2> QED BY <1>2, <2>1, <2>2
<1>6. /\ k \in Work /\ k.op = j.op /\ k.who = j.who /\ k.folder = j.folder
      /\ k.lent = x /\ k.snap = j.snap /\ k.during = j.during
      /\ k.open = j.open /\ k.at = j.at /\ k.i = j.i /\ k.todo = j.todo
  <2> HIDE DEF x
  <2> QED BY <1>2, <1>5, SetLent
<1>7. x # None => x.from = Here(j) \/ (j.lent # None /\ x = j.lent)
  OBVIOUS
<1> HIDE DEF k, p, x
<1>8. SameRequest(j, k)
  BY <1>6 DEF SameRequest
<1>9. Complete(p, k) /\ Right(k) = Right(j)
  <2>1. "lend" \in {"entry", "lend", "climb"} /\ p \in {"lend", "climb", "done"}
    BY <1>4
  <2> QED BY <1>2, <1>6, <1>8, <2>1, StillComplete
<1>10. Sound(p, k)
  <2>1. SUFFICES ASSUME "put" \notin j.during
                 PROVE  /\ j.open \subseteq Right(j) /\ j.at \in Right(j)
                        /\ \A n \in 1..(j.i - 1) :
                               /\ j.snap[Path[j.at][n]] # None
                               /\ shares_parent_audience(j.snap[Path[j.at][n]])
                        /\ x # None => x.from \in Right(j)
    <3>1. p # "access"
      BY <1>4
    <3> QED BY <1>6, <1>9, <3>1, Zenon DEF Sound
  <2>2. "lend" \in {"entry", "lend", "climb"} /\ "lend" \in {"lend", "climb"}
    OBVIOUS
  <2>3. /\ j.open \subseteq Right(j) /\ j.at \in Right(j)
        /\ \A n \in 1..(j.i - 1) :
               /\ j.snap[Path[j.at][n]] # None
               /\ shares_parent_audience(j.snap[Path[j.at][n]])
        /\ j.lent # None => j.lent.from \in Right(j)
    BY <1>2, <2>1, <2>2, Zenon DEF Sound
  <2>4. Here(j) \in Right(j)
    BY <1>2, <1>3, <2>3, LendersAudience
  <2>5. x # None => x.from \in Right(j)
    BY <1>7, <2>3, <2>4
  <2> QED BY <2>3, <2>5
<1>11. OnPath(p, k)
  BY <1>3, <1>4, <1>6 DEF OnPath
<1>12. Follows(config, k)
  BY <1>2, <1>6, Zenon DEF Follows
<1>13. p \in {"access", "entry", "lend", "climb", "done"} /\ k.op = "open"
  BY <1>2, <1>4, <1>6
<1> QED BY <1>1, <1>2, <1>6, <1>8, <1>9, <1>10, <1>11, <1>12, <1>13, ReaderMoves

LEMMA ClimbStep ==
    ASSUME FolderInv, NEW r \in Req, takes_parent_defaults(r)
    PROVE  FolderInv'
<1> DEFINE j == job[r]
           c == config[Here(j)]
           n == j.i + 1
           k == [j EXCEPT !.i = n]
<1>1. /\ pc[r] = "climb" /\ Stored
      /\ \/ c # None /\ shares_parent_audience(c) /\ Then(r, "lend", k)
         \/ Then(r, "done", j)
  BY Zenon DEF takes_parent_defaults
<1>2. /\ j \in Work /\ j.op = "open" /\ j.at \in Folder /\ OnPath("climb", j)
      /\ Follows(config, j) /\ Sound("climb", j) /\ Complete("climb", j)
      /\ Here(j) \in Folder /\ Here(j) = Path[j.at][j.i]
      /\ pc[r] \in {"access", "entry", "lend", "climb"}
  BY <1>1, OnLending
<1>3. /\ "done" \in {"access", "entry", "lend", "climb", "done"}
      /\ "lend" \in {"access", "entry", "lend", "climb", "done"}
      /\ "done" \notin {"entry", "lend", "climb"} /\ "climb" \in {"entry", "lend", "climb"}
      /\ "climb" \in {"lend", "climb"}
      /\ "done" \in {"lend", "climb", "done"} /\ "lend" \in {"lend", "climb", "done"}
  OBVIOUS
<1>4. "put" \notin j.during =>
          /\ j.open \subseteq Right(j) /\ j.at \in Right(j)
          /\ \A m \in 1..(j.i - 1) :
                 j.snap[Path[j.at][m]] # None /\ shares_parent_audience(j.snap[Path[j.at][m]])
          /\ j.lent # None => j.lent.from \in Right(j)
  BY <1>2, <1>3, Zenon DEF Sound
<1>5. CASE Then(r, "done", j)
  <2>1. SameRequest(j, j)
    BY DEF SameRequest
  <2>2. Sound("done", j)
    BY <1>4 DEF Sound
  <2>3. Complete("done", j)
    BY <1>2, <1>3, <2>1, StillComplete
  <2>4. OnPath("done", j)
    BY <1>2 DEF OnPath
  <2> QED BY <1>1, <1>2, <1>3, <1>5, <2>1, <2>2, <2>3, <2>4, ReaderMoves
<1>6. CASE c # None /\ shares_parent_audience(c) /\ Then(r, "lend", k)
  <2>1. n \in Nat /\ n \in 1..Len(Path[j.at]) /\ j.i \in 1..Len(Path[j.at])
    BY <1>2, PathFacts DEF OnPath
  <2>2. \A m \in 1..(n - 1) : m \in 1..(j.i - 1) \/ m = j.i
    BY <2>1
  <2> HIDE DEF n
  <2>3. k \in Work /\ Elsewhere(j, k) /\ k.i = n /\ k.at = j.at /\ k.todo = j.todo
    BY <1>2, <2>1, SetI
  <2>4. Then(r, "lend", k)
    BY <1>6
  <2> HIDE DEF k
  <2>5. /\ SameRequest(j, k) /\ k.op = "open" /\ k.open = j.open /\ k.lent = j.lent
        /\ k.during = j.during /\ k.snap = j.snap /\ k.at = j.at
    BY <1>2, <2>3, Zenon DEF Elsewhere, SameRequest
  <2>6. Complete("lend", k) /\ Right(k) = Right(j)
    <3>1. Complete("climb", j) /\ j.op = "open"
      BY <1>2, Zenon
    <3> QED BY <1>3, <2>5, <3>1, StillComplete
  <2>7. ASSUME "put" \notin j.during
        PROVE  \A m \in 1..(n - 1) :
                   j.snap[Path[j.at][m]] # None /\ shares_parent_audience(j.snap[Path[j.at][m]])
    <3>1. Here(j) \in Folder /\ Here(j) = Path[j.at][j.i] /\ Follows(config, j)
      BY <1>2
    <3>2. /\ j.snap[Path[j.at][j.i]] # None
          /\ shares_parent_audience(j.snap[Path[j.at][j.i]])
      <4>1. j.snap[Here(j)] = c
        BY <1>6, <2>7, <3>1, FollowsAt, Zenon
      <4> QED BY <1>6, <3>1, <4>1, Zenon
    <3>3. \A m \in 1..(j.i - 1) :
              j.snap[Path[j.at][m]] # None /\ shares_parent_audience(j.snap[Path[j.at][m]])
      BY <1>4, <2>7, Zenon
    <3> QED BY <2>2, <3>2, <3>3, Zenon
  <2>8. Sound("lend", k)
    <3>1. "lend" # "access"
      OBVIOUS
    <3> QED BY <1>4, <2>3, <2>5, <2>6, <2>7, <3>1, Zenon DEF Sound
  <2>9. OnPath("lend", k)
    BY <2>1, <2>3 DEF OnPath
  <2>10. Follows(config, k)
    BY <1>2, <2>5, Zenon DEF Follows
  <2> QED BY <1>1, <1>2, <1>3, <2>3, <2>4, <2>5, <2>6, <2>8, <2>9, <2>10, ReaderMoves
<1> QED BY <1>1, <1>5, <1>6

LEMMA LendingFailsStep ==
    ASSUME FolderInv, NEW r \in Req, LendingFails(r)
    PROVE  FolderInv'
<1> DEFINE j == job[r]
           k == [j EXCEPT !.lent = None, !.during = @ \cup {"fail"}]
<1>1. pc[r] \in {"entry", "lend", "climb"} /\ Stored /\ Then(r, "done", k)
  BY Zenon DEF LendingFails
<1>2. /\ j \in Work /\ j.op = "open" /\ j.at \in Folder /\ OnPath(pc[r], j)
      /\ Follows(config, j) /\ Sound(pc[r], j) /\ Complete(pc[r], j)
      /\ pc[r] \in {"access", "entry", "lend", "climb"}
  BY <1>1, OnLending
<1>3. /\ k \in Work /\ k.op = j.op /\ k.who = j.who /\ k.folder = j.folder
      /\ k.lent = None /\ k.snap = j.snap /\ k.during = j.during \cup {"fail"}
      /\ k.open = j.open /\ k.at = j.at /\ k.i = j.i /\ k.todo = j.todo
  BY <1>2, SetFailed
<1> HIDE DEF k
<1>4. k.during # {} /\ ("put" \notin k.during => "put" \notin j.during)
  BY <1>3
<1>5. SameRequest(j, k) /\ Right(k) = Right(j)
  BY <1>3, Zenon DEF SameRequest, Right
<1>6. Complete("done", k)
  BY <1>4, Zenon DEF Complete
<1>7. "put" \notin k.during => k.open \subseteq Right(k)
  BY <1>2, <1>3, <1>4, <1>5, Zenon DEF Sound
<1>8. Sound("done", k)
  BY <1>3, <1>7 DEF Sound
<1>9. Follows(config, k)
  BY <1>2, <1>3, <1>4, Zenon DEF Follows
<1>10. OnPath("done", k)
  BY <1>2, <1>3 DEF OnPath
<1>11. /\ "done" \in {"access", "entry", "lend", "climb", "done"}
       /\ "done" \notin {"entry", "lend", "climb"}
  OBVIOUS
<1> QED BY <1>1, <1>2, <1>3, <1>5, <1>6, <1>8, <1>9, <1>10, <1>11, ReaderMoves

-----------------------------------------------------------------------------
(* The specification *)

LEMMA InitHolds == Init => FolderInv
<1> SUFFICES ASSUME Init PROVE FolderInv
  OBVIOUS
<1>1. /\ config \in [Folder -> Given \cup {None}] /\ defaults \in [Folder -> Credentials]
      /\ \A f \in Folder : config[f] = None => defaults[f] = {}
      /\ pc = [r \in Req |-> "idle"] /\ job = [r \in Req |-> NoJob] /\ made = 0 /\ past = {}
  BY Zenon DEF Init
<1>2. \A r \in Req : pc[r] = "idle" /\ job[r] = NoJob
  BY <1>1
<1>3. config \in [Folder -> Config \cup {None}]
  BY <1>1, GivenAssumption
<1>4. pc \in [Req -> Call] /\ job \in [Req -> JobType]
  <2> HIDE DEF NoJob
  <2> QED BY <1>1, WorkOrNone DEF Call
<1>5. Types
  BY <1>1, <1>3, <1>4, BoundsAssumption DEF Types
<1>6. Handlers
  BY <1>2, Idle, Zenon DEF Handlers
<1>7. Lending
  <2>1. \A x : ~ Clash(NoJob, x)
    BY Zenon DEF Clash
  <2>2. Lends(config, "idle", NoJob)
    BY Zenon DEF Lends
  <2> QED BY <1>2, <2>1, <2>2, Zenon DEF Lending
<1>8. DefaultsHaveAFolder
  BY <1>1 DEF DefaultsHaveAFolder
<1> QED BY <1>5, <1>6, <1>7, <1>8 DEF FolderInv

\* A user's request starts, or an admin's.
LEMMA UsersStart ==
    ASSUME FolderInv, NEW r \in Req,
           \/ ab_connect_entry(r) \/ ab_list_entries(r) \/ ab_list_folders(r)
           \/ ab_list_subfolders(r) \/ ab_list_all(r)
    PROVE  FolderInv'
<1>1. Top \subseteq Folder
  BY DEF Top
<1>2. ASSUME NEW F \in SUBSET Folder, Open(r, F) PROVE FolderInv'
  <2>1. PICK u \in User, f \in F : Begin(r, Job("open", u, f, None), "access")
    BY <1>2, Zenon DEF Open
  <2>2. f \in Folder /\ "open" \in {"open", "visible"}
    OBVIOUS
  <2> QED BY <2>1, <2>2, ReaderStep
<1>3. ASSUME NEW F \in SUBSET Folder, Show(r, F) PROVE FolderInv'
  <2>1. PICK u \in User, f \in F : Begin(r, Job("visible", u, f, None), "access")
    BY <1>3, Zenon DEF Show
  <2>2. f \in Folder /\ "visible" \in {"open", "visible"}
    OBVIOUS
  <2> QED BY <2>1, <2>2, ReaderStep
<1>4. Open(r, Folder) \/ Open(r, Top) \/ Show(r, Folder) \/ Show(r, Top)
  BY Zenon DEF ab_connect_entry, ab_list_entries, ab_list_folders, ab_list_subfolders, ab_list_all
<1> QED BY <1>1, <1>2, <1>3, <1>4

LEMMA AdminsStart ==
    ASSUME FolderInv, NEW r \in Req,
           \/ ab_create_folder(r) \/ ab_update_folder(r) \/ ab_put_folder_defaults(r)
           \/ ab_delete_folder_defaults(r) \/ ab_delete_folder(r)
    PROVE  FolderInv'
<1>1. CASE ab_create_folder(r) \/ ab_update_folder(r)
  <2>1. \E f \in Folder, c \in Given :
            \/ Begin(r, Job("config", None, f, c), "put")
            \/ Begin(r, Job("config", None, f, c), "read")
    BY <1>1, Zenon DEF ab_create_folder, ab_update_folder
  <2>2. PICK f \in Folder, c \in Given :
            \/ Begin(r, Job("config", None, f, c), "put")
            \/ Begin(r, Job("config", None, f, c), "read")
    BY <2>1
  <2>3. "put" \in {"put", "read"} /\ "read" \in {"put", "read"}
    OBVIOUS
  <2> QED BY <2>2, <2>3, ConfigBegins
<1>2. CASE ab_put_folder_defaults(r)
  BY <1>2, PatchBegins
<1>3. CASE ab_delete_folder_defaults(r)
  <2>1. PICK f \in Folder : Begin(r, Job("put_defaults", None, f, None), "lends")
    BY <1>3, Zenon DEF ab_delete_folder_defaults
  <2>2. "put_defaults" \in {"put_defaults", "delete_folder"}
    OBVIOUS
  <2> QED BY <2>1, <2>2, ClearBegins
<1>4. CASE ab_delete_folder(r)
  <2>1. PICK f \in Folder : Begin(r, Job("delete_folder", None, f, None), "collect")
    BY <1>4, Zenon DEF ab_delete_folder
  <2>2. "delete_folder" \in {"put_defaults", "delete_folder"}
    OBVIOUS
  <2> QED BY <2>1, <2>2, ClearBegins
<1> QED BY <1>1, <1>2, <1>3, <1>4

LEMMA StepKeeps == FolderInv /\ [Next]_vars => FolderInv'
<1> SUFFICES ASSUME FolderInv, [Next]_vars PROVE FolderInv'
  OBVIOUS
<1>1. CASE UNCHANGED vars
  <2>1. /\ config' = config /\ defaults' = defaults /\ pc' = pc /\ job' = job
        /\ made' = made /\ past' = past
    BY <1>1 DEF vars
  <2>2. Types'
    BY <2>1, Zenon DEF FolderInv, Types
  <2>3. Handlers'
    BY <2>1, Zenon DEF FolderInv, Handlers
  <2>4. Lending'
    BY <2>1, Zenon DEF FolderInv, Lending
  <2>5. DefaultsHaveAFolder'
    BY <2>1, Zenon DEF FolderInv, DefaultsHaveAFolder
  <2> QED BY <2>2, <2>3, <2>4, <2>5 DEF FolderInv
<1>2. ASSUME NEW r \in Req,
             \/ ab_connect_entry(r) \/ ab_list_entries(r) \/ ab_search_index(r)
             \/ ab_list_folders(r) \/ ab_list_subfolders(r) \/ ab_list_all(r)
      PROVE  FolderInv'
  BY <1>2, UsersStart, SearchStep
<1>3. ASSUME NEW r \in Req,
             \/ ab_create_folder(r) \/ ab_update_folder(r) \/ ab_put_folder_defaults(r)
             \/ ab_delete_folder_defaults(r) \/ ab_delete_folder(r)
      PROVE  FolderInv'
  BY <1>3, AdminsStart
<1>4. ASSUME NEW r \in Req,
             \/ resolve_folder_access(r) \/ folder_or_descendant_accessible(r)
             \/ lend_folder_defaults(r) \/ folder_defaults(r) \/ takes_parent_defaults(r)
             \/ LendingFails(r) \/ Answer(r)
      PROVE  FolderInv'
  BY <1>4, ResolveStep, FailedStep, EntryStep, LendStep, ClimbStep, LendingFailsStep, AnswerStep
<1>5. ASSUME NEW r \in Req,
             \/ ReadExisting(r) \/ PutConfig(r)
             \/ FolderExists(r) \/ ReadDefaults(r) \/ PutDefaults(r)
             \/ Collect(r) \/ WipeConfig(r) \/ WipeDefaults(r) \/ Cut(r)
      PROVE  FolderInv'
  BY <1>5, ReadExistingStep, PutConfigStep, FolderExistsStep, ReadDefaultsStep, PutDefaultsStep,
     CollectStep, WipeConfigStep, WipeDefaultsStep, CutStep
<1> QED BY <1>1, <1>2, <1>3, <1>4, <1>5, Zenon DEF Next

\* What handlers and Vault keep stays as FolderInv says, whoever asks for
\* what, and wherever a request is cut.
THEOREM FolderInvariant == Spec => []FolderInv
BY InitHolds, StepKeeps, PTL DEF Spec

\* Every walk up the tree stays on its path, and handlers only ever hold what
\* they may (resolve_folder_access, resolve_effective_defaults).
THEOREM FolderTypeCorrect == Spec => []TypeOK
<1>1. FolderInv => TypeOK
  <2> SUFFICES ASSUME FolderInv PROVE TypeOK
    OBVIOUS
  <2>1. Types
    BY DEF FolderInv
  <2>2. ASSUME NEW r \in Req, job[r] # NoJob PROVE job[r].i \in 1..Len(Path[job[r].at])
    <3>1. Good(config, pc[r], job[r])
      BY DEF FolderInv, Handlers
    <3>2. OnPath(pc[r], job[r])
      BY <2>2, <3>1, Zenon DEF Good
    <3> QED BY <3>2 DEF OnPath
  <2> QED BY <2>1, <2>2, Zenon DEF Types, TypeOK
<1> QED BY <1>1, FolderInvariant, PTL

\* A request that is done.
LEMMA AtTheEnd ==
    ASSUME FolderInv, NEW r \in Req, pc[r] = "done"
    PROVE  job[r].op \in Reading /\ Sound("done", job[r]) /\ Complete("done", job[r])
<1>1. /\ Stage("done", job[r])
      /\ job[r].op \in Reading => Sound("done", job[r]) /\ Complete("done", job[r])
  BY AtWork
<1>2. job[r].op \in Reading
  BY <1>1 DEF Stage
<1> QED BY <1>1, <1>2

\* Unless a .config was written meanwhile nothing is opened that the user
\* could not open when the request began; and if none changed and no call
\* failed, everything that should be open is (resolve_folder_access,
\* folder_or_descendant_accessible, ab_search_index).
THEOREM RightFoldersOpen == Spec => []OpensTheRightFolders
<1>1. FolderInv => OpensTheRightFolders
  <2> SUFFICES ASSUME FolderInv PROVE OpensTheRightFolders
    OBVIOUS
  <2>1. SUFFICES ASSUME NEW r \in Req, pc[r] = "done"
        PROVE  /\ "put" \notin job[r].during => job[r].open \subseteq Right(job[r])
               /\ job[r].during \cap {"put", "delete", "fail"} = {} =>
                      CASE job[r].op = "open" -> job[r].open = Right(job[r]) \cap {job[r].folder}
                        [] job[r].op = "visible" ->
                               job[r].open = {} => Right(job[r]) \cap Subtree(job[r].folder) = {}
                        [] job[r].op = "index" -> job[r].open = Right(job[r])
    BY Zenon DEF OpensTheRightFolders, Right
  <2> DEFINE j == job[r]
  <2>2. j.op \in Reading /\ Sound("done", j) /\ Complete("done", j)
    BY <2>1, AtTheEnd
  <2>3. "put" \notin j.during => j.open \subseteq Right(j)
    BY <2>2, Zenon DEF Sound
  <2>4. ASSUME j.during \cap {"put", "delete", "fail"} = {}
        PROVE  /\ j.op = "open" => j.open = Right(j) \cap {j.folder}
               /\ j.op = "visible" => (j.open = {} => Right(j) \cap Subtree(j.folder) = {})
               /\ j.op = "index" => j.open = Right(j)
    <3>1. j \in Work
      BY <2>1, AtWork
    <3>2. j.during = {}
      BY <2>4, <3>1, Fields
    <3>3. Ahead("done", j) = {} /\ "done" # "access"
      BY DEF Ahead
    <3>4. /\ j.op = "open" => j.open = Right(j) \cap {j.folder}
          /\ j.op = "visible" /\ j.open = {} => Right(j) \cap Subtree(j.folder) \subseteq {}
          /\ j.op = "index" => Right(j) \subseteq j.open \cup {}
      BY <2>2, <3>2, <3>3, Zenon DEF Complete
    <3> QED BY <2>3, <3>2, <3>4
  <2>5. j.op = "open" \/ j.op = "visible" \/ j.op = "index"
    BY <2>2 DEF Reading
  <2> QED BY <2>3, <2>4, <2>5
<1> QED BY <1>1, FolderInvariant, PTL

\* A secret set on a folder reaches only people who could already open that
\* folder (resolve_effective_defaults, shares_parent_audience).
THEOREM SecretsStayWithin == Spec => []LentWithinAudience
<1>1. FolderInv => LentWithinAudience
  <2> SUFFICES ASSUME FolderInv, NEW r \in Req, pc[r] = "done", job[r].lent # None,
                      "put" \notin job[r].during
               PROVE  Reach(job[r].snap, job[r].who, job[r].lent.from)
    BY Zenon DEF LentWithinAudience
  <2>1. Sound("done", job[r])
    BY AtTheEnd
  <2>2. job[r].lent.from \in Right(job[r])
    BY <2>1, Zenon DEF Sound
  <2> QED BY <2>2 DEF Right
<1> QED BY <1>1, FolderInvariant, PTL

\* A folder without a .config holds no credentials for the next folder of
\* its name to lend, unless its deletion was disturbed (delete_folder,
\* ab_put_folder_defaults).
THEOREM NoDefaultsLeftBehind == Spec => []DefaultsHaveAFolder
<1>1. FolderInv => DefaultsHaveAFolder
  BY DEF FolderInv
<1> QED BY <1>1, FolderInvariant, PTL
=============================================================================
