--------------------------- MODULE AddressBookProofs ---------------------------
(***************************************************************************)
(* Proofs about AddressBook, for every set of folders, scopes, names, ids, *)
(* secrets and handlers, and any number of requests.                       *)
(***************************************************************************)
EXTENDS AddressBook, FiniteSetTheorems, TLAPS

\* The places besides its own that a sync searches.
Elsewhere(j) == InScope(j.src[1]) \ {j.src}

\* What a handler that waits for the call c has in its job j.
Upserts(c, j) ==
    /\ j.src \in Place /\ j.data \in Entry
    /\ j.op = "create" => c = "put"
    /\ j.op = "update" => c \in {"read", "put"}
    /\ j.op = "sync" =>
           /\ c \in {"locate", "scan", "get", "put_if_absent", "delete", "read", "put"}
           /\ j.data.ext \in ExtId
           /\ c = "scan" => j.places \subseteq Elsewhere(j) /\ j.tries \in Seq(Elsewhere(j))
           /\ c = "locate" => j.tries = <<>>
           /\ c \in {"get", "put_if_absent", "delete"} =>
                  Len(j.tries) = 1 /\ j.tries[1] \in Elsewhere(j)
           /\ c \in {"put_if_absent", "delete"} => j.full \in Entry
    /\ j.op # "create" /\ c = "put" => j.full \in Entry

Copies(c, j) ==
    /\ j.src \in Place /\ c \in {"get", "put_if_absent", "delete"}
    /\ Len(j.tries) > 0
    /\ j.op = "copy" => c # "delete"
    /\ j.op = "move" => \A i \in 1..Len(j.tries) : j.tries[i] # j.src
    /\ c # "get" => j.full \in Entry

Wipes(c, j) ==
    /\ j.src \in Folder /\ c \in {"collect", "list", "wipe"}
    /\ j.folders \subseteq Subtree[j.src]
    /\ \A p \in j.places : p[1] \in Subtree[j.src]

Shape(c, j) ==
    \/ c = "idle" /\ j = NoJob
    \/ j \in JobRecord /\ j.op \in {"create", "update", "sync"} /\ Upserts(c, j)
    \/ j \in JobRecord /\ j.op \in {"move", "copy"} /\ Copies(c, j)
    \/ j \in JobRecord /\ j.op = "delete" /\ j.src \in Place /\ c \in {"look", "delete"}
    \/ j \in JobRecord /\ j.op = "folder" /\ Wipes(c, j)

Shapes == \A r \in Req : Shape(pc[r], job[r])

\* Handlers that were not seen to overlap are apart.
Separate ==
    "race" \notin past => \A r, q \in Req : r # q => ~ Clash(job[r], job[q])

\* What a handler has read is still there: what it is about to write back, and
\* what it moves, which has two copies before it has one.
Current(st, c, j) ==
    /\ j.op \in {"update", "sync"} /\ c = "put" =>
           j.full = IF st[j.src] = None THEN j.data ELSE merge_entry_update(j.data, st[j.src])
    /\ j.op \in {"move", "sync"} /\ c \in {"put_if_absent", "delete"} =>
           j.full # None /\ st[Source(j)] = j.full
    /\ j.op \in {"move", "sync"} /\ c = "delete" => st[Target(j)] = j.full

StillCurrent == "race" \notin past => \A r \in Req : Current(store, pc[r], job[r])

Bears(st, p, id) == st[p] # None /\ st[p].ext = id

\* Where a sync knows the id to be: it has seen the rest of the scope.  No
\* other request carries one.
Searched(st, c, j) ==
    /\ ~ Gives(j)
    /\ j.op = "sync" =>
        /\ c = "scan" => \A p \in Elsewhere(j) \ j.places :
               Bears(st, p, j.data.ext) => \E i \in 1..Len(j.tries) : j.tries[i] = p
        /\ c \in {"get", "put_if_absent", "delete"} =>
               \A p \in Elsewhere(j) : Bears(st, p, j.data.ext) => p = j.tries[1]
        /\ c \in {"read", "put"} => \A p \in Elsewhere(j) : ~ Bears(st, p, j.data.ext)

\* The handler r moves an entry between p and q, where both are.
Moving(r, p, q) ==
    pc[r] = "delete" /\ job[r].op \in {"move", "sync"} /\ {Source(job[r]), Target(job[r])} = {p, q}

OnePerScope ==
    \A id \in ExtId : \A p \in Place : \A q \in InScope(p[1]) :
        p # q /\ Bears(store, p, id) /\ Bears(store, q, id) => \E r \in Req : Moving(r, p, q)

OnOne ==
    past = {} => (\A r \in Req : Searched(store, pc[r], job[r])) /\ OnePerScope

\* A secret that nobody gave up is stored.
Stored(st, s) == \E p \in Place : s \in SecretsOf(st[p])
OwedStored == \A s \in owed : Stored(store, s)
Kept == "race" \notin past => OwedStored

BookInv ==
    /\ TypeOK
    /\ Shapes
    /\ Separate /\ StillCurrent /\ Kept /\ OnOne

-----------------------------------------------------------------------------
(* Jobs *)

JobOf(o, s, t, d, f, fs, ps) ==
    [op |-> o, src |-> s, tries |-> t, data |-> d, full |-> f, folders |-> fs, places |-> ps]

LEMMA JobFields ==
    ASSUME NEW o, NEW s, NEW t, NEW d, NEW f, NEW fs, NEW ps
    PROVE  /\ JobOf(o, s, t, d, f, fs, ps).op = o
           /\ JobOf(o, s, t, d, f, fs, ps).src = s
           /\ JobOf(o, s, t, d, f, fs, ps).tries = t
           /\ JobOf(o, s, t, d, f, fs, ps).data = d
           /\ JobOf(o, s, t, d, f, fs, ps).full = f
           /\ JobOf(o, s, t, d, f, fs, ps).folders = fs
           /\ JobOf(o, s, t, d, f, fs, ps).places = ps
BY DEF JobOf

LEMMA JobTyped ==
    ASSUME NEW o \in Op, NEW s \in Place \cup Folder, NEW t \in Seq(Place),
           NEW d \in Entry \cup {None}, NEW f \in Entry \cup {None},
           NEW fs \in SUBSET Folder, NEW ps \in SUBSET Place
    PROVE  JobOf(o, s, t, d, f, fs, ps) \in JobRecord
BY DEF JobOf, JobRecord

LEMMA FieldTypes ==
    ASSUME NEW j \in JobRecord
    PROVE  /\ j.op \in Op /\ j.src \in Place \cup Folder /\ j.tries \in Seq(Place)
           /\ j.data \in Entry \cup {None} /\ j.full \in Entry \cup {None}
           /\ j.folders \in SUBSET Folder /\ j.places \in SUBSET Place
BY DEF JobRecord

LEMMA WithFull ==
    ASSUME NEW j \in JobRecord, NEW f
    PROVE  [j EXCEPT !.full = f] = JobOf(j.op, j.src, j.tries, j.data, f, j.folders, j.places)
BY DEF JobRecord, JobOf

LEMMA WithTries ==
    ASSUME NEW j \in JobRecord, NEW t
    PROVE  [j EXCEPT !.tries = t] = JobOf(j.op, j.src, t, j.data, j.full, j.folders, j.places)
BY DEF JobRecord, JobOf

LEMMA WithPlaces ==
    ASSUME NEW j \in JobRecord, NEW ps
    PROVE  [j EXCEPT !.places = ps] = JobOf(j.op, j.src, j.tries, j.data, j.full, j.folders, ps)
BY DEF JobRecord, JobOf

LEMMA WithFolders ==
    ASSUME NEW j \in JobRecord, NEW fs
    PROVE  [j EXCEPT !.folders = fs] = JobOf(j.op, j.src, j.tries, j.data, j.full, fs, j.places)
BY DEF JobRecord, JobOf

LEMMA WithFullPlaces ==
    ASSUME NEW j \in JobRecord, NEW f, NEW ps
    PROVE  [j EXCEPT !.full = f, !.places = ps]
           = JobOf(j.op, j.src, j.tries, j.data, f, j.folders, ps)
<1>1. [JobOf(j.op, j.src, j.tries, j.data, f, j.folders, j.places) EXCEPT !.places = ps]
      = JobOf(j.op, j.src, j.tries, j.data, f, j.folders, ps)
  BY DEF JobOf
<1> QED BY <1>1, WithFull, Zenon

LEMMA WithFullTries ==
    ASSUME NEW j \in JobRecord, NEW f, NEW t
    PROVE  [j EXCEPT !.full = f, !.tries = t]
           = JobOf(j.op, j.src, t, j.data, f, j.folders, j.places)
<1>1. [JobOf(j.op, j.src, j.tries, j.data, f, j.folders, j.places) EXCEPT !.tries = t]
      = JobOf(j.op, j.src, t, j.data, f, j.folders, j.places)
  BY DEF JobOf
<1> QED BY <1>1, WithFull, Zenon

LEMMA WithFoldersPlaces ==
    ASSUME NEW j \in JobRecord, NEW fs, NEW ps
    PROVE  [j EXCEPT !.folders = fs, !.places = ps]
           = JobOf(j.op, j.src, j.tries, j.data, j.full, fs, ps)
<1>1. [JobOf(j.op, j.src, j.tries, j.data, j.full, fs, j.places) EXCEPT !.places = ps]
      = JobOf(j.op, j.src, j.tries, j.data, j.full, fs, ps)
  BY DEF JobOf
<1> QED BY <1>1, WithFolders, Zenon

LEMMA WithPlacesTries ==
    ASSUME NEW j \in JobRecord, NEW ps, NEW t
    PROVE  [j EXCEPT !.places = ps, !.tries = t]
           = JobOf(j.op, j.src, t, j.data, j.full, j.folders, ps)
<1>1. [JobOf(j.op, j.src, j.tries, j.data, j.full, j.folders, ps) EXCEPT !.tries = t]
      = JobOf(j.op, j.src, t, j.data, j.full, j.folders, ps)
  BY DEF JobOf
<1> QED BY <1>1, WithPlaces, Zenon

\* The places that a job may change or fill, by its operation.
LEMMA Footprints ==
    ASSUME NEW j
    PROVE  /\ j.op \in {"create", "update", "move", "delete"} => Changes(j) = {j.src}
           /\ j.op = "sync" => Changes(j) = InScope(j.src[1])
           /\ j.op = "folder" => Changes(j) = {p \in Place : p[1] \in Subtree[j.src]}
           /\ j.op \in {"copy", "none"} => Changes(j) = {}
           /\ j.op \in {"move", "copy"} => Fills(j) = {j.tries[i] : i \in DOMAIN j.tries}
           /\ j.op \notin {"move", "copy"} => Fills(j) = {}
<1>1. j.op \in {"create", "update", "move", "delete"} => Changes(j) = {j.src}
  BY DEF Changes
<1>2. j.op = "sync" => Changes(j) = InScope(j.src[1])
  BY DEF Changes
<1>3. j.op = "folder" => Changes(j) = {p \in Place : p[1] \in Subtree[j.src]}
  BY DEF Changes
<1>4. j.op \in {"copy", "none"} => Changes(j) = {}
  BY DEF Changes
<1>5. /\ j.op \in {"move", "copy"} => Fills(j) = {j.tries[i] : i \in DOMAIN j.tries}
      /\ j.op \notin {"move", "copy"} => Fills(j) = {}
  BY DEF Fills
<1> QED BY <1>1, <1>2, <1>3, <1>4, <1>5, Zenon

LEMMA NoJobIs == NoJob = JobOf("none", None, <<>>, None, None, {}, {}) /\ NoJob.op = "none"
<1>1. NoJob = JobOf("none", None, <<>>, None, None, {}, {})
  BY Zenon DEF NoJob, Job, JobOf
<1> QED BY <1>1, JobFields

LEMMA NoJobFootprint == Changes(NoJob) = {} /\ Fills(NoJob) = {}
<1>1. NoJob.op \in {"copy", "none"} /\ NoJob.op \notin {"move", "copy"}
  BY NoJobIs
<1> QED BY <1>1, Footprints, Zenon

LEMMA OwnScope ==
    ASSUME NEW p \in Place
    PROVE  p \in InScope(p[1])
BY DEF InScope

LEMMA SameFootprint ==
    ASSUME NEW j, NEW k, k.op = j.op, k.src = j.src
    PROVE  Changes(k) = Changes(j) /\ (k.tries = j.tries => Fills(k) = Fills(j))
BY Zenon DEF Changes, Fills

\* Which operation waits for which call.
LEMMA AtCopy ==
    ASSUME NEW c \in {"get", "put_if_absent"}, NEW j, Shape(c, j)
    PROVE  /\ j \in JobRecord /\ j.src \in Place /\ j.op \in {"move", "copy", "sync"}
           /\ j.op = "sync" => Upserts(c, j)
           /\ j.op # "sync" => Copies(c, j)
BY DEF Shape, Upserts, Copies, Wipes

LEMMA AtDelete ==
    ASSUME NEW j, Shape("delete", j)
    PROVE  /\ j \in JobRecord /\ j.src \in Place /\ j.op \in {"move", "delete", "sync"}
           /\ j.op = "sync" => Upserts("delete", j)
           /\ j.op = "move" => Copies("delete", j)
BY DEF Shape, Upserts, Copies, Wipes

LEMMA AtUpsert ==
    ASSUME NEW c \in {"locate", "scan", "read", "put"}, NEW j, Shape(c, j)
    PROVE  /\ j \in JobRecord /\ j.src \in Place /\ j.op \in {"create", "update", "sync"}
           /\ Upserts(c, j)
           /\ c \in {"locate", "scan"} => j.op = "sync"
           /\ c = "read" => j.op \in {"update", "sync"}
BY DEF Shape, Upserts, Copies, Wipes

LEMMA AtLook ==
    ASSUME NEW j, Shape("look", j)
    PROVE  j \in JobRecord /\ j.src \in Place /\ j.op = "delete"
BY DEF Shape, Upserts, Copies, Wipes

LEMMA AtFolder ==
    ASSUME NEW c \in {"collect", "list", "wipe"}, NEW j, Shape(c, j)
    PROVE  j \in JobRecord /\ j.op = "folder" /\ Wipes(c, j)
BY DEF Shape, Upserts, Copies, Wipes

LEMMA OfSync ==
    ASSUME NEW c, NEW j, Shape(c, j), j.op = "sync"
    PROVE  j \in JobRecord /\ Upserts(c, j)
BY NoJobIs DEF Shape, Upserts, Copies, Wipes

LEMMA OfMove ==
    ASSUME NEW c, NEW j, Shape(c, j), j.op = "move"
    PROVE  j \in JobRecord /\ Copies(c, j)
BY NoJobIs DEF Shape, Upserts, Copies, Wipes

LEMMA OfUpdate ==
    ASSUME NEW c, NEW j, Shape(c, j), j.op = "update"
    PROVE  j \in JobRecord /\ Upserts(c, j)
BY NoJobIs DEF Shape, Upserts, Copies, Wipes

LEMMA ShapeTyped ==
    ASSUME NEW c, NEW j, Shape(c, j)
    PROVE  j \in JobType /\ c \in Call
BY DEF Shape, Upserts, Copies, Wipes, JobType, JobRecord, Call

\* A job changes the place it moves from, and changes or fills the one it
\* moves to; they differ.
LEMMA Ends ==
    ASSUME NEW c \in {"get", "put_if_absent", "delete"}, NEW j, Shape(c, j),
           j.op \in {"move", "sync"}
    PROVE  /\ Source(j) \in Place /\ Target(j) \in Place /\ Source(j) # Target(j)
           /\ Source(j) \in Changes(j) /\ Target(j) \in Changes(j) \cup Fills(j)
           /\ j.op = "sync" => Target(j) \in Changes(j)
           /\ j.op = "move" => Target(j) \in Fills(j)
<1>1. CASE j.op = "sync"
  <2>1. Upserts(c, j) /\ j.src \in Place /\ Len(j.tries) = 1 /\ j.tries[1] \in Elsewhere(j)
    BY <1>1, OfSync DEF Upserts
  <2>2. Source(j) = j.tries[1] /\ Target(j) = j.src
    BY <1>1 DEF Source, Target
  <2>3. Changes(j) = InScope(j.src[1])
    BY <1>1, Footprints, Zenon
  <2> QED BY <1>1, <2>1, <2>2, <2>3, OwnScope DEF Elsewhere, InScope
<1>2. CASE j.op = "move"
  <2>1. j \in JobRecord /\ j.src \in Place /\ Len(j.tries) > 0 /\ \A i \in 1..Len(j.tries) : j.tries[i] # j.src
    BY <1>2, OfMove DEF Copies
  <2>2. Source(j) = j.src /\ Target(j) = j.tries[1]
    BY <1>2 DEF Source, Target
  <2>3. Changes(j) = {j.src} /\ Fills(j) = {j.tries[i] : i \in DOMAIN j.tries}
    BY <1>2, Footprints
  <2>4. j.tries \in Seq(Place) /\ 1 \in DOMAIN j.tries
    BY <2>1, FieldTypes
  <2> QED BY <1>2, <2>1, <2>2, <2>3, <2>4
<1> QED BY <1>1, <1>2

-----------------------------------------------------------------------------
(* Handlers that are apart *)

\* A step of the job j changes only what j may change, and fills only what
\* is free.
Within(st, st1, j) ==
    \A w \in Place : st1[w] # st[w] => w \in Changes(j) \/ (w \in Fills(j) /\ st[w] = None)

LEMMA ClashSymmetric ==
    ASSUME NEW j, NEW k, ~ Clash(j, k)
    PROVE  ~ Clash(k, j)
BY Zenon DEF Clash

LEMMA ApartShrinks ==
    ASSUME NEW j, NEW k, NEW i, ~ Clash(j, k), Changes(i) \subseteq Changes(j), Fills(i) \subseteq Fills(j)
    PROVE  ~ Clash(i, k)
BY DEF Clash

LEMMA Spared ==
    ASSUME NEW j, NEW k, ~ Clash(j, k), NEW st, NEW st1, Within(st, st1, j), NEW w \in Place,
           w \in Changes(k) \/ (w \in Fills(k) /\ st[w] # None)
    PROVE  st1[w] = st[w]
BY DEF Within, Clash

LEMMA CurrentStays ==
    ASSUME NEW j, NEW k, ~ Clash(j, k), NEW st, NEW st1, Within(st, st1, j),
           NEW c, Shape(c, k), Current(st, c, k)
    PROVE  Current(st1, c, k)
<1>1. ASSUME k.op \in {"update", "sync"} /\ c = "put"
      PROVE  k.full = IF st1[k.src] = None THEN k.data ELSE merge_entry_update(k.data, st1[k.src])
  <2>1. k.src \in Place
    BY <1>1, OfSync, OfUpdate DEF Upserts
  <2>2. k.src \in Changes(k)
    BY <1>1, <2>1, Footprints, OwnScope
  <2>3. st1[k.src] = st[k.src]
    BY <2>1, <2>2, Spared
  <2>4. k.full = IF st[k.src] = None THEN k.data ELSE merge_entry_update(k.data, st[k.src])
    BY <1>1, Zenon DEF Current
  <2> QED BY <2>3, <2>4
<1>2. ASSUME k.op \in {"move", "sync"} /\ c \in {"put_if_absent", "delete"}
      PROVE  k.full # None /\ st1[Source(k)] = k.full
  <2>1. Source(k) \in Place /\ Source(k) \in Changes(k)
    BY <1>2, Ends
  <2>2. st1[Source(k)] = st[Source(k)]
    BY <2>1, Spared
  <2>3. k.full # None /\ st[Source(k)] = k.full
    BY <1>2, Zenon DEF Current
  <2> QED BY <2>2, <2>3
<1>3. ASSUME k.op \in {"move", "sync"} /\ c = "delete"
      PROVE  st1[Target(k)] = k.full
  <2>1. Target(k) \in Place /\ Target(k) \in Changes(k) \cup Fills(k)
    BY <1>3, Ends
  <2>2. st[Target(k)] = k.full /\ k.full # None
    BY <1>3 DEF Current
  <2>3. st1[Target(k)] = st[Target(k)]
    BY <2>1, <2>2, Spared
  <2> QED BY <2>2, <2>3
<1> QED BY <1>1, <1>2, <1>3, Zenon DEF Current

LEMMA BearsSame ==
    ASSUME NEW st, NEW st1, NEW p, st1[p] = st[p], NEW id
    PROVE  Bears(st1, p, id) <=> Bears(st, p, id)
BY Zenon DEF Bears

LEMMA SearchedSame ==
    ASSUME NEW c, NEW k, NEW st, NEW st1, \A p \in Elsewhere(k) : st1[p] = st[p], Searched(st, c, k)
    PROVE  Searched(st1, c, k)
<1>1. \A p \in Elsewhere(k) : Bears(st1, p, k.data.ext) <=> Bears(st, p, k.data.ext)
  BY BearsSame, Zenon
<1> QED BY <1>1, Zenon DEF Searched, Gives

LEMMA SearchedStays ==
    ASSUME NEW j, NEW k, ~ Clash(j, k), NEW st, NEW st1, Within(st, st1, j),
           NEW c, Shape(c, k), Searched(st, c, k)
    PROVE  Searched(st1, c, k)
<1>1. CASE k.op = "sync"
  <2>1. Changes(k) = InScope(k.src[1])
    BY <1>1, Footprints, Zenon
  <2>2. \A p \in Elsewhere(k) : p \in Place /\ p \in Changes(k)
    BY <2>1 DEF Elsewhere, InScope
  <2>3. \A p \in Elsewhere(k) : st1[p] = st[p]
    BY <2>2, Spared
  <2> QED BY <2>3, SearchedSame
<1>2. CASE k.op # "sync"
  BY <1>2 DEF Searched, Gives
<1> QED BY <1>1, <1>2

-----------------------------------------------------------------------------
(* A step of one handler *)

LEMMA AfterThen ==
    ASSUME TypeOK, NEW r \in Req, NEW c, NEW j, Then(r, c, j)
    PROVE  /\ pc'[r] = c /\ job'[r] = j
           /\ \A q \in Req : q # r => pc'[q] = pc[q] /\ job'[q] = job[q]
BY DEF Then, TypeOK

\* What the step of a handler r to the call c with the job j has to show.
LEMMA StepKeeps ==
    ASSUME BookInv, NEW r \in Req, NEW c, NEW j, Then(r, c, j), Shape(c, j),
           Changes(j) \subseteq Changes(job[r]), Fills(j) \subseteq Fills(job[r]),
           store' \in [Place -> Entry \cup {None}], made' = made, owed' \subseteq Secret,
           past \subseteq past', past' \subseteq {"race", "cut", "clone", "cross", "given"},
           Within(store, store', job[r]),
           "race" \notin past => Current(store', c, j),
           "race" \notin past => OwedStored',
           past' = {} => Searched(store', c, j) /\ OnePerScope'
    PROVE  BookInv'
<1>0. TypeOK /\ Shapes /\ Separate /\ StillCurrent /\ Kept /\ OnOne
  BY Zenon DEF BookInv
<1>1. /\ pc'[r] = c /\ job'[r] = j
      /\ \A q \in Req : q # r => pc'[q] = pc[q] /\ job'[q] = job[q]
  BY <1>0, AfterThen
<1>2. TypeOK'
  <2>1. pc' = [pc EXCEPT ![r] = c] /\ job' = [job EXCEPT ![r] = j]
    BY Zenon DEF Then
  <2>2. j \in JobType /\ c \in Call
    BY ShapeTyped
  <2> QED BY <1>0, <2>1, <2>2 DEF TypeOK
<1>3. Shapes'
  <2> SUFFICES ASSUME NEW x \in Req PROVE Shape(pc'[x], job'[x])
    BY Zenon DEF Shapes
  <2>1. CASE x = r  BY <1>1, <2>1
  <2>2. CASE x # r  BY <1>0, <1>1, <2>2 DEF Shapes
  <2> QED BY <2>1, <2>2
<1>4. Separate'
  <2> SUFFICES ASSUME "race" \notin past', NEW x \in Req, NEW q \in Req, x # q
               PROVE  ~ Clash(job'[x], job'[q])
    BY Zenon DEF Separate
  <2>1. \A y, z \in Req : y # z => ~ Clash(job[y], job[z])
    BY <1>0 DEF Separate
  <2>2. CASE x = r
    <3>1. ~ Clash(job[r], job[q])  BY <2>1, <2>2
    <3>2. ~ Clash(j, job[q])  BY <3>1, ApartShrinks
    <3> QED BY <1>1, <2>2, <3>2
  <2>3. CASE q = r
    <3>1. ~ Clash(job[r], job[x])  BY <2>1, <2>3
    <3>2. ~ Clash(j, job[x])  BY <3>1, ApartShrinks
    <3>3. ~ Clash(job[x], j)  BY <3>2, ClashSymmetric
    <3> QED BY <1>1, <2>3, <3>3
  <2>4. CASE x # r /\ q # r
    BY <1>1, <2>1, <2>4
  <2> QED BY <2>2, <2>3, <2>4
<1>5. StillCurrent'
  <2> SUFFICES ASSUME "race" \notin past', NEW x \in Req
               PROVE  Current(store', pc'[x], job'[x])
    BY Zenon DEF StillCurrent
  <2>1. CASE x = r  BY <1>1, <2>1
  <2>2. CASE x # r
    <3>1. ~ Clash(job[r], job[x]) /\ Current(store, pc[x], job[x]) /\ Shape(pc[x], job[x])
      BY <1>0, <2>2 DEF Separate, StillCurrent, Shapes
    <3>2. Current(store', pc[x], job[x])
      BY <3>1, CurrentStays
    <3> QED BY <1>1, <2>2, <3>2
  <2> QED BY <2>1, <2>2
<1>6. Kept'
  <2>1. "race" \notin past' => "race" \notin past
    OBVIOUS
  <2> QED BY <2>1, Zenon DEF Kept
<1>7. OnOne'
  <2> SUFFICES ASSUME past' = {}
               PROVE  (\A x \in Req : Searched(store', pc'[x], job'[x])) /\ OnePerScope'
    BY Zenon DEF OnOne
  <2>1. past = {} /\ "race" \notin past
    OBVIOUS
  <2>2. ASSUME NEW x \in Req PROVE Searched(store', pc'[x], job'[x])
    <3>1. CASE x = r  BY <1>1, <3>1
    <3>2. CASE x # r
      <4>1. ~ Clash(job[r], job[x]) /\ Searched(store, pc[x], job[x]) /\ Shape(pc[x], job[x])
        BY <1>0, <2>1, <3>2 DEF Separate, OnOne, Shapes
      <4>2. Searched(store', pc[x], job[x])
        BY <4>1, SearchedStays
      <4> QED BY <1>1, <3>2, <4>2
    <3> QED BY <3>1, <3>2
  <2> QED BY <2>2
<1> QED BY <1>2, <1>3, <1>4, <1>5, <1>6, <1>7, Zenon DEF BookInv

\* A step that puts an id nowhere new, and that ends no move whose entry is
\* still in both places.
LEMMA OnePerScopeStays ==
    ASSUME TypeOK, OnePerScope, NEW r \in Req, NEW c, NEW j, Then(r, c, j),
           \A p \in Place : \A id \in ExtId : Bears(store', p, id) => Bears(store, p, id),
           pc[r] = "delete" /\ job[r].op \in {"move", "sync"} => store'[Source(job[r])] = None
    PROVE  OnePerScope'
<1> SUFFICES ASSUME NEW id \in ExtId, NEW p \in Place, NEW q \in InScope(p[1]), p # q,
                    Bears(store', p, id), Bears(store', q, id)
             PROVE  \E x \in Req : Moving(x, p, q)'
  BY Zenon DEF OnePerScope
<1>1. q \in Place
  BY DEF InScope
<1>2. Bears(store, p, id) /\ Bears(store, q, id)
  BY <1>1
<1>3. PICK x \in Req : Moving(x, p, q)
  BY <1>2 DEF OnePerScope
<1>4. x # r
  <2> SUFFICES ASSUME x = r PROVE FALSE
    OBVIOUS
  <2>1. pc[r] = "delete" /\ job[r].op \in {"move", "sync"} /\ {Source(job[r]), Target(job[r])} = {p, q}
    BY <1>3, Zenon DEF Moving
  <2>2. store'[Source(job[r])] = None /\ Source(job[r]) \in {p, q}
    BY <2>1
  <2> QED BY <2>2 DEF Bears
<1>5. pc'[x] = pc[x] /\ job'[x] = job[x]
  BY <1>4, AfterThen
<1>6. Moving(x, p, q)'
  BY <1>3, <1>5, Zenon DEF Moving
<1> QED BY <1>6

LEMMA NoJobHolds ==
    ASSUME NEW st
    PROVE  Shape("idle", NoJob) /\ Current(st, "idle", NoJob) /\ Searched(st, "idle", NoJob)
BY NoJobIs DEF Shape, Current, Searched, Gives

LEMMA WithinSame ==
    ASSUME NEW st, NEW j
    PROVE  Within(st, st, j)
BY DEF Within

\* A handler that reads.
LEMMA ReadKeeps ==
    ASSUME BookInv, Read, NEW r \in Req, NEW c, NEW j, Then(r, c, j), Shape(c, j),
           pc[r] # "delete",
           Changes(j) \subseteq Changes(job[r]), Fills(j) \subseteq Fills(job[r]),
           "race" \notin past => Current(store, c, j),
           past = {} => Searched(store, c, j)
    PROVE  BookInv'
<1>0. TypeOK /\ Kept /\ OnOne
  BY Zenon DEF BookInv
<1>1. store' = store /\ owed' = owed /\ made' = made /\ past' = past
  BY Zenon DEF Read
<1>2. store' \in [Place -> Entry \cup {None}] /\ owed' \subseteq Secret
      /\ past' \subseteq {"race", "cut", "clone", "cross", "given"}
  BY <1>0, <1>1, Zenon DEF TypeOK
<1>3. Within(store, store', job[r])
  BY <1>1, WithinSame
<1>4. "race" \notin past => OwedStored'
  BY <1>0, <1>1, Zenon DEF Kept, OwedStored
<1>5. past' = {} => OnePerScope'
  <2> SUFFICES ASSUME past = {} PROVE OnePerScope'
    BY <1>1
  <2>1. OnePerScope
    BY <1>0, Zenon DEF OnOne
  <2> QED BY <1>0, <1>1, <2>1, OnePerScopeStays, Zenon
<1> QED BY <1>1, <1>2, <1>3, <1>4, <1>5, StepKeeps

LEMMA ReplyThen ==
    ASSUME NEW r, Reply(r)
    PROVE  Then(r, "idle", NoJob)
BY DEF Reply, Then

LEMMA ReadReplies ==
    ASSUME BookInv, Read, NEW r \in Req, Reply(r), pc[r] # "delete"
    PROVE  BookInv'
<1>1. Then(r, "idle", NoJob)
  BY ReplyThen
<1>2. Changes(NoJob) \subseteq Changes(job[r]) /\ Fills(NoJob) \subseteq Fills(job[r])
  BY NoJobFootprint
<1> QED BY <1>1, <1>2, NoJobHolds, ReadKeeps

-----------------------------------------------------------------------------
(* The steps that read *)

LEMMA UpsertShape ==
    ASSUME NEW c, NEW k \in JobRecord, k.op \in {"create", "update", "sync"}, Upserts(c, k)
    PROVE  Shape(c, k)
BY DEF Shape

LEMMA CopyShape ==
    ASSUME NEW c, NEW k \in JobRecord, k.op \in {"move", "copy"}, Copies(c, k)
    PROVE  Shape(c, k)
BY DEF Shape

LEMMA FolderShape ==
    ASSUME NEW c, NEW k \in JobRecord, k.op = "folder", Wipes(c, k)
    PROVE  Shape(c, k)
BY DEF Shape

LEMMA SameElsewhere ==
    ASSUME NEW j, NEW k, k.src = j.src
    PROVE  Elsewhere(k) = Elsewhere(j)
BY DEF Elsewhere

\* Nobody moves an entry that a job of another handler may change.
LEMMA NotMoved ==
    ASSUME Shapes, Separate, "race" \notin past, NEW r \in Req, NEW x \in Req, x # r,
           NEW p, NEW q, Moving(x, p, q), p \in Changes(job[r])
    PROVE  FALSE
<1>1. pc[x] = "delete" /\ job[x].op \in {"move", "sync"} /\ {Source(job[x]), Target(job[x])} = {p, q}
  BY Zenon DEF Moving
<1>2. Shape(pc[x], job[x])
  BY DEF Shapes
<1>3. Source(job[x]) \in Changes(job[x]) /\ Target(job[x]) \in Changes(job[x]) \cup Fills(job[x])
  BY <1>1, <1>2, Ends
<1>4. ~ Clash(job[r], job[x])
  BY DEF Separate
<1>5. p \in Changes(job[x]) \cup Fills(job[x])
  BY <1>1, <1>3
<1> QED BY <1>4, <1>5 DEF Clash

LEMMA SyncFootprint ==
    ASSUME NEW j, j.op = "sync", j.src \in Place
    PROVE  /\ Changes(j) = Elsewhere(j) \cup {j.src}
           /\ \A p \in Elsewhere(j) : p \in Place /\ p \in InScope(j.src[1]) /\ p # j.src
<1>1. Changes(j) = InScope(j.src[1])
  BY Footprints, Zenon
<1> QED BY <1>1, OwnScope DEF Elsewhere, InScope

LEMMA LocateKeeps ==
    ASSUME BookInv, NEW r \in Req, Locate(r)
    PROVE  BookInv'
<1>0. TypeOK /\ Shapes /\ Separate /\ OnOne
  BY Zenon DEF BookInv
<1> DEFINE j == job[r]
           there == store[j.src]
<1>1. pc[r] = "locate" /\ Read
  BY Zenon DEF Locate
<1>2. Shape("locate", j)
  BY <1>0, <1>1 DEF Shapes
<1>3. j \in JobRecord /\ j.src \in Place /\ j.op = "sync" /\ Upserts("locate", j)
  BY <1>2, AtUpsert
<1>4. j.data \in Entry /\ j.data.ext \in ExtId /\ j.tries = <<>>
  BY <1>3 DEF Upserts
<1>5. \/ there # None /\ there.ext = j.data.ext /\ Then(r, "read", j)
      \/ Reply(r)
      \/ Then(r, "scan", [j EXCEPT !.full = there, !.places = InScope(j.src[1]) \ {j.src}])
  BY Zenon DEF Locate, get_entry
<1>6. there \in Entry \cup {None}
  BY <1>0, <1>3 DEF TypeOK
<1> HIDE DEF there
<1>7. CASE Reply(r)
  BY <1>1, <1>7, ReadReplies
<1>8. CASE there # None /\ there.ext = j.data.ext /\ Then(r, "read", j)
  <2> HIDE DEF j
  <2>1. Upserts("read", j)
    BY <1>3, <1>4 DEF Upserts
  <2>2. Shape("read", j)
    BY <1>3, <2>1, UpsertShape
  <2>3. Current(store, "read", j)
    BY DEF Current
  <2>4. ASSUME past = {}, NEW p \in Elsewhere(j), Bears(store, p, j.data.ext) PROVE FALSE
    <3>1. p \in Place /\ p \in InScope(j.src[1]) /\ p # j.src /\ j.src \in Changes(j)
      BY <1>3, SyncFootprint
    <3>2. Bears(store, j.src, j.data.ext)
      BY <1>8 DEF Bears, there
    <3>3. OnePerScope /\ "race" \notin past
      BY <1>0, <2>4 DEF OnOne
    <3>4. PICK x \in Req : Moving(x, j.src, p)
      BY <1>3, <1>4, <2>4, <3>1, <3>2, <3>3 DEF OnePerScope
    <3>5. x # r
      BY <1>1, <3>4 DEF Moving
    <3> QED BY <1>0, <3>1, <3>3, <3>4, <3>5, NotMoved DEF j
  <2>5. past = {} => Searched(store, "read", j)
    BY <1>3, <2>4 DEF Searched, Gives
  <2> QED BY <1>1, <1>8, <2>2, <2>3, <2>5, ReadKeeps DEF j
<1>9. CASE Then(r, "scan", [j EXCEPT !.full = there, !.places = InScope(j.src[1]) \ {j.src}])
  <2> DEFINE k == JobOf(j.op, j.src, j.tries, j.data, there, j.folders, InScope(j.src[1]) \ {j.src})
  <2>1. Then(r, "scan", k)
    BY <1>3, <1>9, WithFullPlaces, Zenon
  <2>2. /\ k.op = "sync" /\ k.src = j.src /\ k.tries = <<>> /\ k.data = j.data
        /\ k.places = Elsewhere(j)
    BY <1>3, <1>4, JobFields DEF Elsewhere
  <2>3. k \in JobRecord
    <3>1. Elsewhere(j) \in SUBSET Place
      BY DEF Elsewhere, InScope
    <3> HIDE DEF j
    <3> QED BY <1>3, <1>6, <3>1, FieldTypes, JobTyped DEF Elsewhere
  <2> HIDE DEF k, j
  <2>4. Elsewhere(k) = Elsewhere(j) /\ Changes(k) = Changes(j) /\ Fills(k) = Fills(j)
    BY <1>3, <1>4, <2>2, SameElsewhere, SameFootprint
  <2>5. Upserts("scan", k)
    BY <1>3, <1>4, <2>2, <2>4 DEF Upserts
  <2>6. Shape("scan", k)
    BY <2>2, <2>3, <2>5, UpsertShape
  <2>7. Current(store, "scan", k) /\ Searched(store, "scan", k)
    BY <2>2, <2>4 DEF Current, Searched, Gives
  <2> QED BY <1>1, <2>1, <2>4, <2>6, <2>7, ReadKeeps DEF j
<1> QED BY <1>5, <1>7, <1>8, <1>9

LEMMA ScanKeeps ==
    ASSUME BookInv, NEW r \in Req, Scan(r)
    PROVE  BookInv'
<1>0. TypeOK /\ Shapes /\ Separate /\ OnOne
  BY Zenon DEF BookInv
<1> DEFINE j == job[r]
<1>1. pc[r] = "scan" /\ Read /\ pc' = pc
  BY Zenon DEF Scan
<1>2. Shape("scan", j)
  BY <1>0, <1>1 DEF Shapes
<1>3. j \in JobRecord /\ j.src \in Place /\ j.op = "sync" /\ Upserts("scan", j)
  BY <1>2, AtUpsert
<1>4. /\ j.data \in Entry /\ j.data.ext \in ExtId
      /\ j.places \subseteq Elsewhere(j) /\ j.tries \in Seq(Elsewhere(j))
  BY <1>3 DEF Upserts
<1>5. PICK p \in j.places :
          job' = [job EXCEPT ![r].places = @ \ {p},
                             ![r].tries = IF Carries(p, job[r].data.ext) THEN Append(@, p) ELSE @]
  BY Zenon DEF Scan
<1> DEFINE t == IF Carries(p, j.data.ext) THEN Append(j.tries, p) ELSE j.tries
           k == JobOf(j.op, j.src, t, j.data, j.full, j.folders, j.places \ {p})
<1>6. job' = [job EXCEPT ![r] = k]
  <2>1. job \in [Req -> JobType]
    BY <1>0 DEF TypeOK
  <2>2. DOMAIN job' = Req /\ \A q \in Req : q # r => job'[q] = job[q]
    BY <1>5, <2>1
  <2>3. job'[r] = [j EXCEPT !.places = j.places \ {p}, !.tries = t]
    BY <1>3, <1>5, <2>1 DEF JobRecord
  <2>4. job'[r] = k
    BY <1>3, <2>3, WithPlacesTries
  <2> HIDE DEF k
  <2> QED BY <1>5, <2>1, <2>2, <2>4
<1>7. Then(r, "scan", k)
  <2>1. pc \in [Req -> Call]
    BY <1>0 DEF TypeOK
  <2>2. pc' = [pc EXCEPT ![r] = "scan"]
    BY <1>1, <2>1
  <2> HIDE DEF k
  <2> QED BY <1>6, <2>2 DEF Then
<1>8. p \in Elsewhere(j) /\ p \in Place /\ j.places \in SUBSET Place
  BY <1>4, SyncFootprint, <1>3, FieldTypes
<1>9. t \in Seq(Elsewhere(j)) /\ t \in Seq(Place)
  <2>1. j.tries \in Seq(Place)
    BY <1>3, FieldTypes
  <2> HIDE DEF j
  <2>2. Append(j.tries, p) \in Seq(Elsewhere(j)) /\ Append(j.tries, p) \in Seq(Place)
    BY <2>1, <1>4, <1>8
  <2> QED BY <2>1, <2>2, <1>4
<1>10. ASSUME NEW q, q \in Elsewhere(j) \ (j.places \ {p}), Bears(store, q, j.data.ext),
              \A x \in Elsewhere(j) \ j.places :
                  Bears(store, x, j.data.ext) => \E i \in 1..Len(j.tries) : j.tries[i] = x
       PROVE  \E i \in 1..Len(t) : t[i] = q
  <2> HIDE DEF j
  <2>1. CASE q = p
    <3>1. Carries(p, j.data.ext)
      BY <1>10, <2>1 DEF Carries, Bears
    <3>2. t = Append(j.tries, p)
      BY <3>1
    <3>3. Len(t) = Len(j.tries) + 1 /\ t[Len(j.tries) + 1] = p /\ Len(j.tries) \in Nat
      BY <3>2, <1>4, <1>8
    <3> QED BY <2>1, <3>3
  <2>2. CASE q # p
    <3>1. PICK i \in 1..Len(j.tries) : j.tries[i] = q
      BY <1>10, <2>2
    <3>2. i \in 1..Len(t) /\ t[i] = j.tries[i]
      BY <3>1, <1>4, <1>8
    <3> QED BY <3>1, <3>2
  <2> QED BY <2>1, <2>2
<1> HIDE DEF t
<1>11. /\ k.op = "sync" /\ k.src = j.src /\ k.tries = t /\ k.data = j.data
       /\ k.places = j.places \ {p}
  BY <1>3, JobFields
<1>12. k \in JobRecord
  <2> HIDE DEF j
  <2> QED BY <1>3, <1>8, <1>9, FieldTypes, JobTyped
<1> HIDE DEF k, j
<1>13. Elsewhere(k) = Elsewhere(j) /\ Changes(k) = Changes(j) /\ Fills(k) = {} /\ Fills(j) = {}
  <2>1. Elsewhere(k) = Elsewhere(j) /\ Changes(k) = Changes(j)
    BY <1>3, <1>11, SameElsewhere, SameFootprint
  <2> QED BY <1>3, <1>11, <2>1, Footprints
<1>14. Upserts("scan", k)
  BY <1>3, <1>4, <1>9, <1>11, <1>13 DEF Upserts
<1>15. Shape("scan", k)
  BY <1>11, <1>12, <1>14, UpsertShape
<1>16. Current(store, "scan", k)
  BY DEF Current
<1>17. ASSUME past = {} PROVE Searched(store, "scan", k)
  <2>1. Searched(store, "scan", j)
    BY <1>0, <1>1, <1>17 DEF OnOne, j
  <2>2. \A x \in Elsewhere(j) \ j.places :
            Bears(store, x, j.data.ext) => \E i \in 1..Len(j.tries) : j.tries[i] = x
    BY <1>3, <2>1 DEF Searched, Gives
  <2>3. \A q \in Elsewhere(j) \ (j.places \ {p}) :
            Bears(store, q, j.data.ext) => \E i \in 1..Len(t) : t[i] = q
    BY <1>10, <2>2, Zenon
  <2> QED BY <1>11, <1>13, <2>3 DEF Searched, Gives
<1> QED BY <1>1, <1>7, <1>13, <1>15, <1>16, <1>17, ReadKeeps DEF j

LEMMA FoundKeeps ==
    ASSUME BookInv, NEW r \in Req, Found(r)
    PROVE  BookInv'
<1>0. TypeOK /\ Shapes /\ Separate /\ OnOne
  BY Zenon DEF BookInv
<1> DEFINE j == job[r]
<1>1. pc[r] = "scan" /\ Read /\ j.places = {}
  BY Zenon DEF Found
<1>2. Shape("scan", j)
  BY <1>0, <1>1 DEF Shapes
<1>3. j \in JobRecord /\ j.src \in Place /\ j.op = "sync" /\ Upserts("scan", j)
  BY <1>2, AtUpsert
<1>4. j.data \in Entry /\ j.data.ext \in ExtId /\ j.tries \in Seq(Elsewhere(j))
  BY <1>3 DEF Upserts
<1>5. \/ Len(j.tries) = 0 /\ Then(r, "read", [j EXCEPT !.full = None])
      \/ Len(j.tries) = 1 /\ Then(r, "get", j)
      \/ Reply(r)
  BY Zenon DEF Found
<1>6. ASSUME past = {}
      PROVE  \A p \in Elsewhere(j) :
                 Bears(store, p, j.data.ext) => \E i \in 1..Len(j.tries) : j.tries[i] = p
  <2>1. Searched(store, "scan", j)
    BY <1>0, <1>1, <1>6 DEF OnOne
  <2> HIDE DEF j
  <2> QED BY <1>1, <1>3, <2>1 DEF Searched, Gives
<1>7. CASE Reply(r)
  BY <1>1, <1>7, ReadReplies
<1>8. CASE Len(j.tries) = 0 /\ Then(r, "read", [j EXCEPT !.full = None])
  <2> DEFINE k == JobOf(j.op, j.src, j.tries, j.data, None, j.folders, j.places)
  <2>1. Then(r, "read", k)
    BY <1>3, <1>8, WithFull, Zenon
  <2>2. k.op = "sync" /\ k.src = j.src /\ k.tries = j.tries /\ k.data = j.data
    BY <1>3, JobFields
  <2>3. k \in JobRecord
    <3> HIDE DEF j
    <3> QED BY <1>3, FieldTypes, JobTyped
  <2> HIDE DEF k, j
  <2>4. Elsewhere(k) = Elsewhere(j) /\ Changes(k) = Changes(j) /\ Fills(k) = Fills(j)
    BY <1>3, <2>2, SameElsewhere, SameFootprint
  <2>5. Upserts("read", k)
    BY <1>3, <1>4, <2>2 DEF Upserts
  <2>6. Shape("read", k)
    BY <2>2, <2>3, <2>5, UpsertShape
  <2>7. Current(store, "read", k)
    BY DEF Current
  <2>8. past = {} => Searched(store, "read", k)
    BY <1>6, <1>8, <2>2, <2>4 DEF Searched, Gives
  <2> QED BY <1>1, <2>1, <2>4, <2>6, <2>7, <2>8, ReadKeeps DEF j
<1>9. CASE Len(j.tries) = 1 /\ Then(r, "get", j)
  <2> HIDE DEF j
  <2>1. j.tries[1] \in Elsewhere(j)
    BY <1>4, <1>9
  <2>2. Upserts("get", j)
    BY <1>3, <1>4, <1>9, <2>1 DEF Upserts
  <2>3. Shape("get", j)
    BY <1>3, <2>2, UpsertShape
  <2>4. Current(store, "get", j)
    BY DEF Current
  <2>5. past = {} => Searched(store, "get", j)
    BY <1>3, <1>6, <1>9 DEF Searched, Gives
  <2> QED BY <1>1, <1>9, <2>3, <2>4, <2>5, ReadKeeps DEF j
<1> QED BY <1>5, <1>7, <1>8, <1>9

LEMMA SameEnds ==
    ASSUME NEW j, NEW k, k.op = j.op, k.src = j.src, k.tries = j.tries
    PROVE  Source(k) = Source(j) /\ Target(k) = Target(j)
BY Zenon DEF Source, Target

LEMMA CopyEnds ==
    ASSUME NEW c \in {"get", "put_if_absent"}, NEW j, Shape(c, j)
    PROVE  Source(j) \in Place /\ Target(j) \in Place
<1>1. j \in JobRecord /\ j.src \in Place /\ j.op \in {"move", "copy", "sync"}
  BY AtCopy
<1>2. CASE j.op \in {"move", "sync"}
  BY <1>2, Ends
<1>3. CASE j.op = "copy"
  <2>1. Len(j.tries) > 0 /\ j.tries \in Seq(Place)
    BY <1>1, <1>3, AtCopy, FieldTypes DEF Copies
  <2> QED BY <1>1, <1>3, <2>1 DEF Source, Target
<1> QED BY <1>1, <1>2, <1>3

LEMMA CopyReadKeeps ==
    ASSUME BookInv, NEW r \in Req, CopyRead(r)
    PROVE  BookInv'
<1>0. TypeOK /\ Shapes /\ OnOne
  BY Zenon DEF BookInv
<1> DEFINE j == job[r]
           e == store[Source(j)]
<1>1. pc[r] = "get" /\ Read
  BY Zenon DEF CopyRead
<1>2. Shape("get", j)
  BY <1>0, <1>1 DEF Shapes
<1>3. /\ j \in JobRecord /\ j.src \in Place /\ j.op \in {"move", "copy", "sync"}
      /\ (j.op = "sync" => Upserts("get", j)) /\ (j.op # "sync" => Copies("get", j))
  BY <1>2, AtCopy
<1>4. Reply(r) \/ (e # None /\ Then(r, "put_if_absent", [j EXCEPT !.full = e]))
  BY Zenon DEF CopyRead, get_entry
<1>5. e \in Entry \cup {None}
  BY <1>0, <1>2, CopyEnds DEF TypeOK
<1>6. CASE Reply(r)
  BY <1>1, <1>6, ReadReplies
<1>7. CASE e # None /\ Then(r, "put_if_absent", [j EXCEPT !.full = e])
  <2> HIDE DEF e
  <2> DEFINE k == JobOf(j.op, j.src, j.tries, j.data, e, j.folders, j.places)
  <2>1. Then(r, "put_if_absent", k)
    BY <1>3, <1>7, WithFull, Zenon
  <2>2. k.op = j.op /\ k.src = j.src /\ k.tries = j.tries /\ k.data = j.data /\ k.full = e
    BY JobFields
  <2>3. k \in JobRecord
    <3> HIDE DEF j
    <3> QED BY <1>3, <1>5, FieldTypes, JobTyped
  <2> HIDE DEF k, j
  <2>4. Elsewhere(k) = Elsewhere(j) /\ Changes(k) = Changes(j) /\ Fills(k) = Fills(j)
        /\ Source(k) = Source(j)
    BY <2>2, SameElsewhere, SameFootprint, SameEnds
  <2>5. e \in Entry /\ store[Source(k)] = e
    BY <1>5, <1>7, <2>4 DEF e
  <2>6. Shape("put_if_absent", k)
    <3>1. CASE j.op = "sync"
      <4>1. Upserts("put_if_absent", k)
        BY <1>3, <2>2, <2>4, <2>5, <3>1 DEF Upserts
      <4> QED BY <2>2, <2>3, <3>1, <4>1, UpsertShape
    <3>2. CASE j.op # "sync"
      <4>1. Copies("put_if_absent", k)
        BY <1>3, <2>2, <2>5, <3>2 DEF Copies
      <4> QED BY <1>3, <2>2, <2>3, <3>2, <4>1, CopyShape
    <3> QED BY <3>1, <3>2
  <2>7. Current(store, "put_if_absent", k)
    BY <1>7, <2>2, <2>5 DEF Current
  <2>8. ASSUME past = {} PROVE Searched(store, "put_if_absent", k)
    <3>1. Searched(store, "get", j)
      BY <1>0, <1>1, <2>8 DEF OnOne, j
    <3> QED BY <2>2, <2>4, <3>1 DEF Searched, Gives
  <2> QED BY <1>1, <2>1, <2>4, <2>6, <2>7, <2>8, ReadKeeps DEF j
<1> QED BY <1>4, <1>6, <1>7

LEMMA TailShorter ==
    ASSUME NEW t \in Seq(Place), Len(t) > 1
    PROVE  /\ Tail(t) \in Seq(Place) /\ Len(Tail(t)) > 0
           /\ \A i \in 1..Len(Tail(t)) : i + 1 \in 1..Len(t) /\ Tail(t)[i] = t[i + 1]
OBVIOUS

LEMMA CopyTakenKeeps ==
    ASSUME BookInv, NEW r \in Req, CopyTaken(r)
    PROVE  BookInv'
<1>0. TypeOK /\ Shapes /\ StillCurrent
  BY Zenon DEF BookInv
<1> DEFINE j == job[r]
<1>1. pc[r] = "put_if_absent" /\ Read
  BY Zenon DEF CopyTaken
<1>2. Shape("put_if_absent", j)
  BY <1>0, <1>1 DEF Shapes
<1>3. /\ j \in JobRecord /\ j.src \in Place /\ j.op \in {"move", "copy", "sync"}
      /\ (j.op # "sync" => Copies("put_if_absent", j))
  BY <1>2, AtCopy
<1>4. \/ Reply(r)
      \/ j.op # "sync" /\ Len(j.tries) > 1 /\ job' = [job EXCEPT ![r].tries = Tail(@)] /\ pc' = pc
  BY Zenon DEF CopyTaken
<1>5. CASE Reply(r)
  BY <1>1, <1>5, ReadReplies
<1>6. CASE j.op # "sync" /\ Len(j.tries) > 1 /\ job' = [job EXCEPT ![r].tries = Tail(@)] /\ pc' = pc
  <2> DEFINE t == Tail(j.tries)
             k == JobOf(j.op, j.src, t, j.data, j.full, j.folders, j.places)
  <2>1. Then(r, "put_if_absent", k)
    <3>1. job' = [job EXCEPT ![r] = [j EXCEPT !.tries = t]]
      BY <1>6, Zenon
    <3>2. pc' = [pc EXCEPT ![r] = "put_if_absent"]
      BY <1>0, <1>1, <1>6 DEF TypeOK
    <3> QED BY <1>3, <3>1, <3>2, WithTries, Zenon DEF Then
  <2>2. j.tries \in Seq(Place)
    BY <1>3, FieldTypes
  <2>3. /\ t \in Seq(Place) /\ Len(t) > 0
        /\ \A i \in 1..Len(t) : i + 1 \in 1..Len(j.tries) /\ t[i] = j.tries[i + 1]
    BY <1>6, <2>2, TailShorter
  <2> HIDE DEF t
  <2>4. k.op = j.op /\ k.src = j.src /\ k.tries = t /\ k.data = j.data /\ k.full = j.full
    BY JobFields
  <2>5. k \in JobRecord
    <3> HIDE DEF j
    <3> QED BY <1>3, <2>3, FieldTypes, JobTyped
  <2> HIDE DEF k, j
  <2>6. Changes(k) = Changes(j)
    BY <2>4, SameFootprint
  <2>7. Fills(k) \subseteq Fills(j)
    <3>1. Fills(k) = {t[i] : i \in DOMAIN t} /\ Fills(j) = {j.tries[i] : i \in DOMAIN j.tries}
      BY <1>3, <1>6, <2>4, Footprints
    <3>2. DOMAIN t = 1..Len(t) /\ DOMAIN j.tries = 1..Len(j.tries)
      BY <2>2, <2>3
    <3> QED BY <2>3, <3>1, <3>2
  <2>8. Shape("put_if_absent", k)
    <3>1. Copies("put_if_absent", k)
      BY <1>3, <1>6, <2>3, <2>4 DEF Copies
    <3> QED BY <1>3, <1>6, <2>4, <2>5, <3>1, CopyShape
  <2>9. ASSUME "race" \notin past PROVE Current(store, "put_if_absent", k)
    <3>1. Current(store, "put_if_absent", j)
      BY <1>0, <1>1, <2>9 DEF StillCurrent, j
    <3> QED BY <1>6, <2>4, <3>1 DEF Current, Source
  <2>10. Searched(store, "put_if_absent", k)
    BY <1>3, <1>6, <2>4 DEF Searched, Gives
  <2> QED BY <1>1, <2>1, <2>6, <2>7, <2>8, <2>9, <2>10, ReadKeeps DEF j
<1> QED BY <1>4, <1>5, <1>6

LEMMA LookKeeps ==
    ASSUME BookInv, NEW r \in Req, Look(r)
    PROVE  BookInv'
<1>0. TypeOK /\ Shapes
  BY Zenon DEF BookInv
<1> DEFINE j == job[r]
<1>1. pc[r] = "look" /\ Read /\ (Reply(r) \/ Then(r, "delete", j))
  BY Zenon DEF Look
<1>2. Shape("look", j)
  BY <1>0, <1>1 DEF Shapes
<1>3. j \in JobRecord /\ j.src \in Place /\ j.op = "delete"
  BY <1>2, AtLook
<1>4. CASE Reply(r)
  BY <1>1, <1>4, ReadReplies
<1>5. CASE Then(r, "delete", j)
  <2> HIDE DEF j
  <2>1. Shape("delete", j) /\ Current(store, "delete", j) /\ Searched(store, "delete", j)
    BY <1>3 DEF Shape, Current, Searched, Gives
  <2> QED BY <1>1, <1>5, <2>1, ReadKeeps DEF j
<1> QED BY <1>1, <1>4, <1>5

LEMMA EntryTyped ==
    ASSUME NEW x \in ExtId \cup {None}, NEW s \in Secret \cup {None}, NEW h \in Secret \cup {None, Bare}
    PROVE  /\ [ext |-> x, secret |-> s, hops |-> h] \in Entry
           /\ [ext |-> x, secret |-> s, hops |-> h].ext = x
           /\ [ext |-> x, secret |-> s, hops |-> h].secret = s
           /\ [ext |-> x, secret |-> s, hops |-> h].hops = h
BY DEF Entry

LEMMA EntryFields ==
    ASSUME NEW e \in Entry
    PROVE  /\ e.ext \in ExtId \cup {None} /\ e.secret \in Secret \cup {None}
           /\ e.hops \in Secret \cup {None, Bare}
BY DEF Entry

LEMMA Merged ==
    ASSUME NEW d \in Entry, NEW e \in Entry
    PROVE  /\ merge_entry_update(d, e) \in Entry
           /\ merge_entry_update(d, e).ext = IF d.ext # None THEN d.ext ELSE e.ext
           /\ merge_entry_update(d, e).secret = IF d.secret # None THEN d.secret ELSE e.secret
           /\ merge_entry_update(d, e).hops = IF d.hops = Bare /\ e.hops # None THEN e.hops ELSE d.hops
<1> DEFINE x == IF d.ext # None THEN d.ext ELSE e.ext
           s == IF d.secret # None THEN d.secret ELSE e.secret
           h == IF d.hops = Bare /\ e.hops # None THEN e.hops ELSE d.hops
<1>1. merge_entry_update(d, e) = [ext |-> x, secret |-> s, hops |-> h]
  BY Zenon DEF merge_entry_update
<1>2. x \in ExtId \cup {None} /\ s \in Secret \cup {None} /\ h \in Secret \cup {None, Bare}
  BY EntryFields
<1> HIDE DEF x, s, h
<1>3. /\ merge_entry_update(d, e) \in Entry /\ merge_entry_update(d, e).ext = x
      /\ merge_entry_update(d, e).secret = s /\ merge_entry_update(d, e).hops = h
  BY <1>1, <1>2, EntryTyped
<1> QED BY <1>3 DEF x, s, h

LEMMA UpsertReadKeeps ==
    ASSUME BookInv, NEW r \in Req, UpsertRead(r)
    PROVE  BookInv'
<1>0. TypeOK /\ Shapes /\ OnOne
  BY Zenon DEF BookInv
<1> DEFINE j == job[r]
           e == IF store[j.src] = None THEN j.data ELSE merge_entry_update(j.data, store[j.src])
<1>1. pc[r] = "read" /\ Read /\ Then(r, "put", [j EXCEPT !.full = e])
  BY Zenon DEF UpsertRead, get_entry
<1>2. Shape("read", j)
  BY <1>0, <1>1 DEF Shapes
<1>3. /\ j \in JobRecord /\ j.src \in Place /\ j.op \in {"update", "sync"}
      /\ Upserts("read", j) /\ j.data \in Entry
  BY <1>2, AtUpsert DEF Upserts
<1>4. e \in Entry
  <2>1. store[j.src] \in Entry \cup {None}
    BY <1>0, <1>3 DEF TypeOK
  <2> HIDE DEF j
  <2> QED BY <1>3, <2>1, Merged
<1> DEFINE k == JobOf(j.op, j.src, j.tries, j.data, e, j.folders, j.places)
<1>5. Then(r, "put", k)
  BY <1>1, <1>3, WithFull, Zenon
<1>6. k.op = j.op /\ k.src = j.src /\ k.tries = j.tries /\ k.data = j.data /\ k.full = e
  <2> HIDE DEF e, j
  <2> QED BY JobFields
<1>7. k \in JobRecord
  <2> HIDE DEF e, j
  <2> QED BY <1>3, <1>4, FieldTypes, JobTyped
<1> HIDE DEF e, k, j
<1>8. Current(store, "put", k)
  <2>1. k.full = IF store[k.src] = None THEN k.data ELSE merge_entry_update(k.data, store[k.src])
    BY <1>6, Zenon DEF e
  <2> QED BY <2>1, Zenon DEF Current
<1>9. Elsewhere(k) = Elsewhere(j) /\ Changes(k) = Changes(j) /\ Fills(k) = Fills(j)
  BY <1>6, SameElsewhere, SameFootprint
<1>10. Shape("put", k)
  <2>1. Upserts("put", k)
    BY <1>3, <1>4, <1>6 DEF Upserts
  <2> QED BY <1>3, <1>6, <1>7, <2>1, UpsertShape
<1>11. ASSUME past = {} PROVE Searched(store, "put", k)
  <2>1. Searched(store, "read", j)
    BY <1>0, <1>1, <1>11 DEF OnOne, j
  <2> QED BY <1>6, <1>9, <2>1 DEF Searched, Gives
<1> QED BY <1>1, <1>5, <1>8, <1>9, <1>10, <1>11, ReadKeeps DEF j

LEMMA CollectKeeps ==
    ASSUME BookInv, NEW r \in Req, Collect(r)
    PROVE  BookInv'
<1>0. TypeOK /\ Shapes
  BY Zenon DEF BookInv
<1> DEFINE j == job[r]
<1>1. pc[r] = "collect" /\ Read
  BY Zenon DEF Collect
<1>2. PICK T \in SUBSET Subtree[j.src] : Then(r, "list", [j EXCEPT !.folders = T])
  BY Zenon DEF Collect
<1>3. Shape("collect", j)
  BY <1>0, <1>1 DEF Shapes
<1>4. j \in JobRecord /\ j.op = "folder" /\ Wipes("collect", j)
  BY <1>3, AtFolder
<1> DEFINE k == JobOf(j.op, j.src, j.tries, j.data, j.full, T, j.places)
<1>5. Then(r, "list", k)
  BY <1>2, <1>4, WithFolders, Zenon
<1>6. k.op = j.op /\ k.src = j.src /\ k.tries = j.tries /\ k.folders = T /\ k.places = j.places
  BY JobFields
<1>7. k \in JobRecord
  <2>1. T \in SUBSET Folder
    BY <1>4, FolderAssumption DEF Wipes
  <2> HIDE DEF j
  <2> QED BY <1>4, <2>1, FieldTypes, JobTyped
<1> HIDE DEF k, j
<1>8. Changes(k) = Changes(j) /\ Fills(k) = Fills(j)
  BY <1>6, SameFootprint
<1>9. Wipes("list", k)
  BY <1>4, <1>6 DEF Wipes
<1>10. Shape("list", k) /\ Current(store, "list", k) /\ Searched(store, "list", k)
  BY <1>4, <1>6, <1>7, <1>9, FolderShape DEF Current, Searched, Gives
<1> QED BY <1>1, <1>5, <1>8, <1>10, ReadKeeps DEF j

LEMMA ListKeeps ==
    ASSUME BookInv, NEW r \in Req, List(r)
    PROVE  BookInv'
<1>0. TypeOK /\ Shapes
  BY Zenon DEF BookInv
<1> DEFINE j == job[r]
<1>1. pc[r] = "list" /\ Read
  BY Zenon DEF List
<1>2. PICK f \in j.folders : \E P \in {{}, list_entries(f)} :
          Then(r, "wipe", [j EXCEPT !.folders = j.folders \ {f}, !.places = P])
  BY Zenon DEF List
<1>2a. PICK P \in {{}, list_entries(f)} :
          Then(r, "wipe", [j EXCEPT !.folders = j.folders \ {f}, !.places = P])
  BY <1>2
<1>3. Shape("list", j)
  BY <1>0, <1>1 DEF Shapes
<1>4. j \in JobRecord /\ j.op = "folder" /\ Wipes("list", j)
  BY <1>3, AtFolder
<1>5. P \in SUBSET Place /\ \A p \in P : p[1] \in Subtree[j.src]
  <2> HIDE DEF j
  <2> QED BY <1>2a, <1>4 DEF list_entries, Wipes
<1> DEFINE k == JobOf(j.op, j.src, j.tries, j.data, j.full, j.folders \ {f}, P)
<1>6. Then(r, "wipe", k)
  BY <1>2a, <1>4, WithFoldersPlaces, Zenon
<1>7. /\ k.op = j.op /\ k.src = j.src /\ k.tries = j.tries /\ k.folders = j.folders \ {f}
      /\ k.places = P
  BY JobFields
<1>8. k \in JobRecord
  <2> HIDE DEF j
  <2> QED BY <1>4, <1>5, FieldTypes, JobTyped
<1> HIDE DEF k, j
<1>9. Changes(k) = Changes(j) /\ Fills(k) = Fills(j)
  BY <1>7, SameFootprint
<1>10. Wipes("wipe", k)
  BY <1>4, <1>5, <1>7 DEF Wipes
<1>11. Shape("wipe", k) /\ Current(store, "wipe", k) /\ Searched(store, "wipe", k)
  BY <1>4, <1>7, <1>8, <1>10, FolderShape DEF Current, Searched, Gives
<1> QED BY <1>1, <1>6, <1>9, <1>11, ReadKeeps DEF j

LEMMA WipedKeeps ==
    ASSUME BookInv, NEW r \in Req, Wiped(r)
    PROVE  BookInv'
<1>0. TypeOK /\ Shapes
  BY Zenon DEF BookInv
<1> DEFINE j == job[r]
<1>1. pc[r] = "wipe" /\ Read /\ (Reply(r) \/ Then(r, "list", j))
  BY Zenon DEF Wiped
<1>2. Shape("wipe", j)
  BY <1>0, <1>1 DEF Shapes
<1>3. j \in JobRecord /\ j.op = "folder" /\ Wipes("wipe", j)
  BY <1>2, AtFolder
<1>4. CASE Reply(r)
  BY <1>1, <1>4, ReadReplies
<1>5. CASE Then(r, "list", j)
  <2> HIDE DEF j
  <2>1. Wipes("list", j)
    BY <1>3 DEF Wipes
  <2>2. Shape("list", j) /\ Current(store, "list", j) /\ Searched(store, "list", j)
    BY <1>3, <2>1, FolderShape DEF Current, Searched, Gives
  <2> QED BY <1>1, <1>5, <2>2, ReadKeeps DEF j
<1> QED BY <1>1, <1>4, <1>5

-----------------------------------------------------------------------------
(* The steps that write *)

LEMMA Written ==
    ASSUME TypeOK, NEW w \in Place, NEW e \in Entry \cup {None}, store' = [store EXCEPT ![w] = e]
    PROVE  /\ store' \in [Place -> Entry \cup {None}]
           /\ store'[w] = e
           /\ \A p \in Place : p # w => store'[p] = store[p]
           /\ store[w] \in Entry \cup {None}
BY DEF TypeOK

LEMMA WrittenWithin ==
    ASSUME TypeOK, NEW w \in Place, NEW e \in Entry \cup {None}, store' = [store EXCEPT ![w] = e],
           NEW j, w \in Changes(j) \/ (w \in Fills(j) /\ store[w] = None)
    PROVE  Within(store, store', j)
BY Written DEF Within

LEMMA SecretsTyped ==
    ASSUME NEW e \in Entry \cup {None}
    PROVE  SecretsOf(e) \subseteq Secret
BY EntryFields DEF SecretsOf

\* What is written over was given up, is written again, or is elsewhere.
Spare(w, e, G) ==
    \A s \in SecretsOf(store[w]) :
        s \in G \cup SecretsOf(e) \/ \E p \in Place : p # w /\ s \in SecretsOf(store[p])

LEMMA WrittenKept ==
    ASSUME TypeOK, NEW w \in Place, NEW e \in Entry \cup {None}, store' = [store EXCEPT ![w] = e],
           NEW G, owed' = (owed \ G) \cup SecretsOf(e),
           OwedStored, Spare(w, e, G)
    PROVE  OwedStored'
<1> SUFFICES ASSUME NEW s \in owed' PROVE \E p \in Place : s \in SecretsOf(store'[p])
  BY DEF OwedStored, Stored
<1>1. store'[w] = e /\ \A p \in Place : p # w => store'[p] = store[p]
  BY Written
<1>2. CASE s \in SecretsOf(e)
  BY <1>1, <1>2
<1>3. CASE s \notin SecretsOf(e)
  <2>1. s \in owed /\ s \notin G
    BY <1>3
  <2>2. PICK p \in Place : s \in SecretsOf(store[p])
    BY <2>1 DEF OwedStored, Stored
  <2>3. CASE p # w
    BY <1>1, <2>2, <2>3
  <2>4. CASE p = w
    <3>1. PICK q \in Place : q # w /\ s \in SecretsOf(store[q])
      BY <1>3, <2>1, <2>2, <2>4 DEF Spare
    <3> QED BY <1>1, <3>1
  <2> QED BY <2>3, <2>4
<1> QED BY <1>2, <1>3

\* A write that ends the request.
LEMMA WriteReplies ==
    ASSUME BookInv, NEW r \in Req, Reply(r), made' = made,
           NEW w \in Place, NEW e \in Entry \cup {None}, store' = [store EXCEPT ![w] = e],
           w \in Changes(job[r]) \/ (w \in Fills(job[r]) /\ store[w] = None),
           owed' \subseteq Secret, past \subseteq past', past' \subseteq {"race", "cut", "clone", "cross", "given"},
           "race" \notin past => OwedStored',
           past' = {} => OnePerScope'
    PROVE  BookInv'
<1>1. TypeOK
  BY Zenon DEF BookInv
<1>2. Then(r, "idle", NoJob)
  BY ReplyThen
<1>3. Changes(NoJob) \subseteq Changes(job[r]) /\ Fills(NoJob) \subseteq Fills(job[r])
  BY NoJobFootprint
<1>4. Within(store, store', job[r]) /\ store' \in [Place -> Entry \cup {None}]
  BY <1>1, Written, WrittenWithin
<1> QED BY <1>2, <1>3, <1>4, NoJobHolds, StepKeeps

\* What the end of a delete or a move writes, lets go of and changes.
LEMMA Deleted ==
    ASSUME BookInv, NEW r \in Req, pc[r] = "delete", NEW j, j = job[r], NEW w, w = Source(j),
           delete_entry(w, j.op = "delete")
    PROVE  /\ Shape("delete", j) /\ j \in JobRecord /\ j.op \in {"move", "delete", "sync"}
           /\ w \in Place /\ w \in Changes(j)
           /\ store' = [store EXCEPT ![w] = None]
           /\ owed' \subseteq Secret
           /\ "race" \notin past => OwedStored'
<1>0. TypeOK /\ Shapes /\ Kept /\ StillCurrent
  BY Zenon DEF BookInv
<1>1. Shape("delete", j)
  BY <1>0 DEF Shapes
<1>2. j \in JobRecord /\ j.src \in Place /\ j.op \in {"move", "delete", "sync"}
  BY <1>1, AtDelete
<1>3. w \in Place /\ w \in Changes(j)
  <2>1. CASE j.op = "delete"
    BY <1>2, <2>1, Footprints DEF Source
  <2>2. CASE j.op \in {"move", "sync"}
    BY <1>1, <2>2, Ends
  <2> QED BY <1>2, <2>1, <2>2
<1> DEFINE G == IF j.op = "delete" THEN SecretsOf(store[w]) ELSE {}
<1>4. store' = [store EXCEPT ![w] = None] /\ owed' = owed \ G
  BY Zenon DEF delete_entry
<1>5. owed' \subseteq Secret
  BY <1>0, <1>4 DEF TypeOK
<1>6. ASSUME "race" \notin past PROVE OwedStored'
  <2>1. owed' = (owed \ G) \cup SecretsOf(None)
    BY <1>4 DEF SecretsOf
  <2>2. OwedStored
    BY <1>0, <1>6 DEF Kept
  <2>3. ASSUME NEW s \in SecretsOf(store[w])
        PROVE  s \in G \cup SecretsOf(None) \/ \E p \in Place : p # w /\ s \in SecretsOf(store[p])
    <3>1. CASE j.op = "delete"
      BY <3>1
    <3>2. CASE j.op \in {"move", "sync"}
      <4>1. Current(store, "delete", j)
        BY <1>0, <1>6 DEF StillCurrent
      <4>2. store[Target(j)] = store[w]
        BY <3>2, <4>1 DEF Current
      <4>3. Target(j) \in Place /\ Target(j) # w
        BY <1>1, <3>2, Ends
      <4> QED BY <4>2, <4>3
    <3> QED BY <1>2, <3>1, <3>2
  <2> HIDE DEF G
  <2>4. None \in Entry \cup {None}
    OBVIOUS
  <2>5. Spare(w, None, G)
    BY <2>3, Zenon DEF Spare
  <2> QED BY <1>0, <1>3, <1>4, <2>1, <2>2, <2>4, <2>5, WrittenKept
<1> QED BY <1>1, <1>2, <1>3, <1>4, <1>5, <1>6

LEMMA DeleteKeeps ==
    ASSUME BookInv, NEW r \in Req, Delete(r)
    PROVE  BookInv'
<1>0. TypeOK /\ OnOne
  BY Zenon DEF BookInv
<1> DEFINE j == job[r]
           w == Source(j)
<1>1. /\ pc[r] = "delete" /\ delete_entry(w, j.op = "delete") /\ made' = made /\ past' = past
      /\ \/ j.op = "sync" /\ Then(r, "read", [j EXCEPT !.full = None, !.tries = <<>>])
         \/ j.op # "sync" /\ Reply(r)
  BY Zenon DEF Delete
<1>2. /\ Shape("delete", j) /\ j \in JobRecord /\ j.op \in {"move", "delete", "sync"}
      /\ w \in Place /\ w \in Changes(j)
      /\ store' = [store EXCEPT ![w] = None]
      /\ owed' \subseteq Secret
      /\ "race" \notin past => OwedStored'
  BY <1>1, Deleted, Zenon
<1>3. store'[w] = None /\ store' \in [Place -> Entry \cup {None}] /\ \A p \in Place : p # w => store'[p] = store[p]
  BY <1>0, <1>2, Written
<1>4. \A p \in Place : \A id : Bears(store', p, id) => Bears(store, p, id)
  BY <1>3 DEF Bears
<1>5. past' \subseteq {"race", "cut", "clone", "cross", "given"}
  BY <1>0, <1>1 DEF TypeOK
<1>6. ASSUME NEW c, NEW k, Then(r, c, k), past' = {} PROVE OnePerScope'
  <2>1. OnePerScope
    BY <1>0, <1>1, <1>6, Zenon DEF OnOne
  <2> QED BY <1>0, <1>1, <1>3, <1>4, <1>6, <2>1, OnePerScopeStays
<1>7. CASE Reply(r)
  <2>1. past' = {} => OnePerScope'
    BY <1>6, <1>7, ReplyThen
  <2> HIDE DEF w
  <2> QED BY <1>1, <1>2, <1>5, <1>7, <2>1, WriteReplies
<1>8. CASE j.op = "sync" /\ Then(r, "read", [j EXCEPT !.full = None, !.tries = <<>>])
  <2> DEFINE k == JobOf(j.op, j.src, <<>>, j.data, None, j.folders, j.places)
  <2>1. Then(r, "read", k)
    BY <1>2, <1>8, WithFullTries, Zenon
  <2>2. k.op = "sync" /\ k.src = j.src /\ k.data = j.data
    BY <1>8, JobFields
  <2>3. k \in JobRecord
    <3>1. << >> \in Seq(Place)
      OBVIOUS
    <3> HIDE DEF j
    <3> QED BY <1>2, <3>1, FieldTypes, JobTyped
  <2>4. Upserts("delete", j)
    BY <1>2, <1>8, OfSync
  <2> HIDE DEF k, w, j
  <2>5. Elsewhere(k) = Elsewhere(j) /\ Changes(k) = Changes(j) /\ Fills(k) = {}
    BY <1>8, <2>2, SameElsewhere, SameFootprint, Footprints
  <2>6. Upserts("read", k)
    BY <1>8, <2>2, <2>4 DEF Upserts
  <2>7. Shape("read", k)
    BY <2>2, <2>3, <2>6, UpsertShape
  <2>8. Current(store', "read", k)
    BY DEF Current
  <2>9. ASSUME past' = {} PROVE Searched(store', "read", k)
    <3>1. Searched(store, "delete", j)
      BY <1>0, <1>1, <2>9 DEF OnOne, j
    <3>2. \A p \in Elsewhere(j) : Bears(store, p, j.data.ext) => p = w
      BY <1>8, <3>1 DEF Searched, Gives, w, Source
    <3>3. \A p \in Elsewhere(j) : p \in Place
      BY DEF Elsewhere, InScope
    <3>4. \A p \in Elsewhere(j) : ~ Bears(store', p, j.data.ext)
      BY <1>3, <1>4, <3>2, <3>3 DEF Bears
    <3> QED BY <2>2, <2>5, <3>4 DEF Searched, Gives
  <2>10. Within(store, store', j)
    BY <1>0, <1>2, WrittenWithin
  <2>11. past' = {} => OnePerScope'
    BY <1>6, <2>1
  <2> QED BY <1>1, <1>2, <1>3, <1>5, <2>1, <2>5, <2>7, <2>8, <2>9, <2>10, <2>11, StepKeeps DEF j
<1> QED BY <1>1, <1>7, <1>8

LEMMA WipeKeeps ==
    ASSUME BookInv, NEW r \in Req, Wipe(r)
    PROVE  BookInv'
<1>0. TypeOK /\ Shapes /\ Kept /\ OnOne
  BY Zenon DEF BookInv
<1> DEFINE j == job[r]
<1>1. pc[r] = "wipe" /\ pc' = pc /\ made' = made /\ past' = past
  BY Zenon DEF Wipe
<1>2. PICK p \in j.places :
          /\ delete_entry(p, TRUE) \/ UNCHANGED <<store, owed>>
          /\ job' = [job EXCEPT ![r].places = @ \ {p}]
  BY Zenon DEF Wipe
<1>3. Shape("wipe", j)
  BY <1>0, <1>1 DEF Shapes
<1>4. j \in JobRecord /\ j.op = "folder" /\ Wipes("wipe", j)
  BY <1>3, AtFolder
<1> DEFINE k == JobOf(j.op, j.src, j.tries, j.data, j.full, j.folders, j.places \ {p})
<1>5. Then(r, "wipe", k)
  <2>1. job' = [job EXCEPT ![r] = [j EXCEPT !.places = j.places \ {p}]]
    BY <1>2, Zenon
  <2>2. pc' = [pc EXCEPT ![r] = "wipe"]
    BY <1>0, <1>1 DEF TypeOK
  <2> QED BY <1>4, <2>1, <2>2, WithPlaces, Zenon DEF Then
<1>6. k.op = j.op /\ k.src = j.src /\ k.tries = j.tries /\ k.folders = j.folders /\ k.places = j.places \ {p}
  BY JobFields
<1>7. k \in JobRecord
  <2> HIDE DEF j
  <2> QED BY <1>4, FieldTypes, JobTyped
<1>8. p \in Place /\ p[1] \in Subtree[j.src]
  BY <1>2, <1>4, FieldTypes DEF Wipes
<1> HIDE DEF k, j
<1>9. Changes(k) = Changes(j) /\ Fills(k) = Fills(j) /\ p \in Changes(j)
  BY <1>4, <1>6, <1>8, SameFootprint, Footprints
<1>10. Wipes("wipe", k)
  BY <1>4, <1>6 DEF Wipes
<1>11. Shape("wipe", k)
  BY <1>4, <1>6, <1>7, <1>10, FolderShape
<1>12. Current(store', "wipe", k) /\ Searched(store', "wipe", k)
  BY <1>4, <1>6 DEF Current, Searched, Gives
<1>13. CASE UNCHANGED <<store, owed>>
  <2>1. Read
    BY <1>1, <1>13, Zenon DEF Read
  <2>2. store' = store
    BY <1>13
  <2>3. Current(store, "wipe", k) /\ Searched(store, "wipe", k)
    BY <1>12, <2>2
  <2> QED BY <1>1, <1>5, <1>9, <1>11, <2>1, <2>3, ReadKeeps DEF j
<1>14. CASE delete_entry(p, TRUE)
  <2>1. store' = [store EXCEPT ![p] = None] /\ owed' = owed \ SecretsOf(store[p])
    BY <1>14 DEF delete_entry
  <2>2. None \in Entry \cup {None}
    OBVIOUS
  <2>3. /\ store'[p] = None /\ store' \in [Place -> Entry \cup {None}]
        /\ \A q \in Place : q # p => store'[q] = store[q]
    BY <1>0, <1>8, <2>1, <2>2, Written
  <2>4. owed' \subseteq Secret /\ past' \subseteq {"race", "cut", "clone", "cross", "given"}
    BY <1>0, <1>1, <2>1 DEF TypeOK
  <2>5. Within(store, store', j)
    BY <1>0, <1>8, <1>9, <2>1, <2>2, WrittenWithin
  <2>6. ASSUME "race" \notin past PROVE OwedStored'
    <3>1. owed' = (owed \ SecretsOf(store[p])) \cup SecretsOf(None)
      BY <2>1 DEF SecretsOf
    <3>2. OwedStored
      BY <1>0, <2>6 DEF Kept
    <3>3. Spare(p, None, SecretsOf(store[p]))
      BY DEF Spare
    <3> QED BY <1>0, <1>8, <2>1, <2>2, <3>1, <3>2, <3>3, WrittenKept
  <2>7. ASSUME past' = {} PROVE OnePerScope'
    <3>1. \A q \in Place : \A id : Bears(store', q, id) => Bears(store, q, id)
      BY <2>3 DEF Bears
    <3>2. OnePerScope
      BY <1>0, <1>1, <2>7 DEF OnOne
    <3> QED BY <1>0, <1>1, <1>5, <3>1, <3>2, OnePerScopeStays
  <2> QED BY <1>1, <1>5, <1>9, <1>11, <1>12, <2>3, <2>4, <2>5, <2>6, <2>7, StepKeeps DEF j
<1> QED BY <1>2, <1>13, <1>14

\* What an upsert writes: a create what it was given, another what it read
\* with the fields of the request.
LEMMA Upserted ==
    ASSUME BookInv, NEW r \in Req, pc[r] = "put", NEW j, j = job[r],
           NEW e, e = (IF j.op = "create" THEN j.data ELSE j.full), put_entry(j)
    PROVE  /\ j \in JobRecord /\ j.op \in {"create", "update", "sync"} /\ Upserts("put", j)
           /\ j.src \in Place /\ j.src \in Changes(j) /\ e \in Entry
           /\ store' = [store EXCEPT ![j.src] = e]
           /\ owed' \subseteq Secret
           /\ "race" \notin past => OwedStored'
<1>0. TypeOK /\ Shapes /\ Kept /\ StillCurrent
  BY Zenon DEF BookInv
<1>1. Shape("put", j)
  BY <1>0 DEF Shapes
<1>2. /\ j \in JobRecord /\ j.src \in Place /\ j.op \in {"create", "update", "sync"}
      /\ Upserts("put", j) /\ j.data \in Entry
  BY <1>1, AtUpsert DEF Upserts
<1>3. e \in Entry
  BY <1>2 DEF Upserts
<1>4. j.src \in Changes(j)
  BY <1>2, Footprints, OwnScope
<1> DEFINE w == j.src
           G == GivenUp(j, store[w])
<1>5. store' = [store EXCEPT ![w] = e] /\ owed' = (owed \ G) \cup SecretsOf(e)
  BY Zenon DEF put_entry, write_entry
<1>6. owed' \subseteq Secret
  BY <1>0, <1>3, <1>5, SecretsTyped DEF TypeOK
<1>7. ASSUME "race" \notin past PROVE OwedStored'
  <2>1. OwedStored
    BY <1>0, <1>7 DEF Kept
  <2>2. Spare(w, e, G)
    <3>1. CASE j.op = "create"
      BY <3>1 DEF Spare, GivenUp
    <3>2. CASE j.op # "create"
      <4>1. Current(store, "put", j)
        BY <1>0, <1>7 DEF StillCurrent
      <4>2. e = IF store[w] = None THEN j.data ELSE merge_entry_update(j.data, store[w])
        BY <1>2, <3>2, <4>1, Zenon DEF Current
      <4>3. CASE store[w] = None
        BY <4>3 DEF Spare, SecretsOf
      <4>4. CASE store[w] # None
        <5>1. store[w] \in Entry
          BY <1>0, <1>2, <4>4 DEF TypeOK
        <5> DEFINE o == store[w]
                   d == j.data
        <5>2. /\ e.secret = IF d.secret # None THEN d.secret ELSE o.secret
              /\ e.hops = IF d.hops = Bare /\ o.hops # None THEN o.hops ELSE d.hops
          BY <1>2, <4>2, <4>4, <5>1, Merged
        <5>3. e # None /\ o # None
          BY <1>3, <4>4, NoneAssumption
        <5>4. G = {s \in SecretsOf(o) : \/ d.secret # None /\ s = o.secret
                                        \/ d.hops # Bare /\ s = o.hops}
          BY <3>2, Zenon DEF GivenUp
        <5> HIDE DEF G, w, o, d
        <5>5. ASSUME NEW s \in SecretsOf(o) PROVE s \in G \cup SecretsOf(e)
          BY <5>2, <5>3, <5>4 DEF SecretsOf
        <5> QED BY <5>5 DEF Spare, o
      <4> QED BY <4>3, <4>4
    <3> QED BY <1>2, <3>1, <3>2
  <2> HIDE DEF G
  <2> QED BY <1>0, <1>2, <1>3, <1>5, <2>1, <2>2, WrittenKept
<1> QED BY <1>2, <1>3, <1>4, <1>5, <1>6, <1>7

LEMMA PutKeeps ==
    ASSUME BookInv, NEW r \in Req, Put(r)
    PROVE  BookInv'
<1>0. TypeOK /\ StillCurrent /\ OnOne
  BY Zenon DEF BookInv
<1> DEFINE j == job[r]
           e == IF j.op = "create" THEN j.data ELSE j.full
           w == j.src
<1>1. /\ pc[r] = "put" /\ Reply(r) /\ made' = made /\ past' = past
      /\ put_entry(j)
  BY Zenon DEF Put
<1>2. /\ j \in JobRecord /\ j.op \in {"create", "update", "sync"} /\ Upserts("put", j)
      /\ w \in Place /\ w \in Changes(j) /\ e \in Entry
      /\ store' = [store EXCEPT ![w] = e]
      /\ owed' \subseteq Secret
      /\ "race" \notin past => OwedStored'
  BY <1>1, Upserted, Zenon
<1>3. Then(r, "idle", NoJob)
  BY <1>1, ReplyThen
<1>4. /\ store'[w] = e /\ store[w] \in Entry \cup {None}
      /\ \A p \in Place : p # w => store'[p] = store[p]
  BY <1>0, <1>2, Written
<1>5. past' \subseteq {"race", "cut", "clone", "cross", "given"}
  BY <1>0, <1>1 DEF TypeOK
<1>6. (j.op = "create" => e = j.data) /\ (j.op # "create" => e = j.full)
  OBVIOUS
<1> HIDE DEF e
<1>7. ASSUME past' = {} PROVE OnePerScope'
  <2>1. OnePerScope /\ Current(store, "put", j) /\ Searched(store, "put", j) /\ "race" \notin past
    BY <1>0, <1>1, <1>7 DEF OnOne, StillCurrent
  <2>2. CASE j.op \in {"create", "update"}
    <3>1. j.data \in Entry /\ j.data.ext = None
      BY <1>2, <2>1, <2>2 DEF Upserts, Searched, Gives
    <3>2. ASSUME NEW id \in ExtId, Bears(store', w, id) PROVE Bears(store, w, id)
      <4>1. e.ext = id
        BY <1>4, <3>2 DEF Bears
      <4>2. id # None
        BY NoneAssumption
      <4>3. j.op = "update" /\ e # j.data
        BY <1>6, <2>2, <3>1, <4>1, <4>2
      <4>4. e = IF store[w] = None THEN j.data ELSE merge_entry_update(j.data, store[w])
        BY <1>6, <2>1, <4>3, Zenon DEF Current
      <4>5. store[w] # None /\ store[w] \in Entry /\ e = merge_entry_update(j.data, store[w])
        BY <1>4, <4>3, <4>4
      <4>6. e.ext = store[w].ext
        BY <3>1, <4>5, Merged
      <4> QED BY <4>1, <4>5, <4>6 DEF Bears
    <3>3. \A p \in Place : \A id \in ExtId : Bears(store', p, id) => Bears(store, p, id)
      BY <1>4, <3>2 DEF Bears
    <3> QED BY <1>0, <1>1, <1>3, <2>1, <3>3, OnePerScopeStays
  <2>3. CASE j.op = "sync"
    <3>1. j.data \in Entry /\ j.data.ext \in ExtId /\ e = j.full
      BY <1>2, <1>6, <2>3 DEF Upserts
    <3>2. e = IF store[w] = None THEN j.data ELSE merge_entry_update(j.data, store[w])
      BY <2>1, <2>3, <3>1, Zenon DEF Current
    <3>3. e.ext = j.data.ext
      <4>1. CASE store[w] = None
        BY <3>2, <4>1
      <4>2. CASE store[w] # None
        BY <1>4, <3>1, <3>2, <4>2, Merged, NoneAssumption
      <4> QED BY <4>1, <4>2
    <3>4. \A p \in Elsewhere(j) : ~ Bears(store, p, j.data.ext)
      BY <2>1, <2>3 DEF Searched, Gives
    <3> SUFFICES ASSUME NEW id \in ExtId, NEW p \in Place, NEW q \in InScope(p[1]), p # q,
                        Bears(store', p, id), Bears(store', q, id)
                 PROVE  \E x \in Req : Moving(x, p, q)'
      BY Zenon DEF OnePerScope
    <3>5. q \in Place
      BY DEF InScope
    <3>6. p # w
      <4> SUFFICES ASSUME p = w PROVE FALSE
        OBVIOUS
      <4>1. id = j.data.ext /\ q \in Elsewhere(j) /\ Bears(store, q, id)
        BY <1>4, <3>3, <3>5 DEF Bears, Elsewhere
      <4> QED BY <3>4, <4>1
    <3>7. q # w
      <4> SUFFICES ASSUME q = w PROVE FALSE
        OBVIOUS
      <4>1. id = j.data.ext /\ Bears(store, p, id)
        BY <1>4, <3>3, <3>5 DEF Bears
      <4>2. p \in Elsewhere(j)
        BY DEF Elsewhere, InScope
      <4> QED BY <3>4, <4>1, <4>2
    <3>8. Bears(store, p, id) /\ Bears(store, q, id)
      BY <1>4, <3>5, <3>6, <3>7 DEF Bears
    <3>9. PICK x \in Req : Moving(x, p, q)
      BY <2>1, <3>8 DEF OnePerScope
    <3>10. x # r
      BY <1>1, <3>9 DEF Moving
    <3>11. pc'[x] = pc[x] /\ job'[x] = job[x]
      BY <1>0, <1>3, <3>10, AfterThen
    <3>12. Moving(x, p, q)'
      BY <3>9, <3>11, Zenon DEF Moving
    <3> QED BY <3>12
  <2> QED BY <1>2, <2>2, <2>3
<1>8. e \in Entry \cup {None} /\ past \subseteq past'
  BY <1>1, <1>2
<1> HIDE DEF w
<1> QED BY <1>1, <1>2, <1>5, <1>7, <1>8, WriteReplies

\* What a copy writes, and where.
LEMMA Copied ==
    ASSUME BookInv, NEW r \in Req, pc[r] = "put_if_absent", NEW j, j = job[r],
           NEW w, w = Target(j), put_entry_if_absent(w, j.full)
    PROVE  /\ Shape("put_if_absent", j) /\ j.op \in {"move", "copy", "sync"} /\ j \in JobRecord
           /\ w \in Place /\ (w \in Changes(j) \/ (w \in Fills(j) /\ store[w] = None))
           /\ j.full \in Entry /\ store[w] = None
           /\ store' = [store EXCEPT ![w] = j.full]
           /\ owed' \subseteq Secret
           /\ "race" \notin past => OwedStored'
<1>0. TypeOK /\ Shapes /\ Kept
  BY Zenon DEF BookInv
<1>1. Shape("put_if_absent", j)
  BY <1>0 DEF Shapes
<1>2. /\ j \in JobRecord /\ j.src \in Place /\ j.op \in {"move", "copy", "sync"}
      /\ (j.op = "sync" => Upserts("put_if_absent", j))
      /\ (j.op # "sync" => Copies("put_if_absent", j))
  BY <1>1, AtCopy
<1>3. j.full \in Entry
  BY <1>2 DEF Upserts, Copies
<1>4. w \in Place
  BY <1>1, CopyEnds
<1>5. store[w] = None /\ store' = [store EXCEPT ![w] = j.full] /\ owed' = (owed \ {}) \cup SecretsOf(j.full)
  BY DEF put_entry_if_absent, write_entry
<1>6. w \in Changes(j) \cup Fills(j)
  <2>1. CASE j.op \in {"move", "sync"}
    BY <1>1, <2>1, Ends
  <2>2. CASE j.op = "copy"
    <3>1. Len(j.tries) > 0 /\ j.tries \in Seq(Place)
      BY <1>2, <2>2, FieldTypes DEF Copies
    <3>2. Fills(j) = {j.tries[i] : i \in DOMAIN j.tries} /\ w = j.tries[1]
      BY <2>2, Footprints DEF Target
    <3> QED BY <3>1, <3>2
  <2> QED BY <1>2, <2>1, <2>2
<1>7. owed' \subseteq Secret
  BY <1>0, <1>3, <1>5, SecretsTyped DEF TypeOK
<1>8. ASSUME "race" \notin past PROVE OwedStored'
  <2>1. OwedStored
    BY <1>0, <1>8 DEF Kept
  <2>2. Spare(w, j.full, {})
    BY <1>5 DEF Spare, SecretsOf
  <2> DEFINE e == j.full
             G == {}
  <2>3. /\ store' = [store EXCEPT ![w] = e] /\ owed' = (owed \ G) \cup SecretsOf(e)
        /\ Spare(w, e, G) /\ e \in Entry \cup {None}
    BY <1>3, <1>5, <2>2
  <2> HIDE DEF e, G
  <2> QED BY <1>0, <1>4, <2>1, <2>3, WrittenKept
<1> QED BY <1>1, <1>2, <1>3, <1>4, <1>5, <1>6, <1>7, <1>8

\* A move within a scope has its entry in two places, and nothing else
\* there has the id.
LEMMA MoveUnderWay ==
    ASSUME BookInv, past = {}, NEW r \in Req, pc[r] = "put_if_absent", NEW j, j = job[r],
           NEW w, w = Target(j), put_entry_if_absent(w, j.full),
           j.op \in {"move", "sync"}, Source(j) \in InScope(w[1]), Then(r, "delete", j)
    PROVE  OnePerScope'
<1>0. TypeOK /\ Shapes /\ Separate /\ StillCurrent /\ OnOne /\ "race" \notin past
  BY Zenon DEF BookInv
<1>1. /\ Shape("put_if_absent", j) /\ w \in Place /\ j.full \in Entry /\ store[w] = None
      /\ store' = [store EXCEPT ![w] = j.full]
  BY Copied
<1>2. store'[w] = j.full /\ \A p \in Place : p # w => store'[p] = store[p]
  BY <1>0, <1>1, Written
<1> DEFINE v == Source(j)
<1>3. v \in Place /\ v # w /\ v \in Changes(j)
  BY <1>1, Ends
<1>4. store[v] = j.full /\ j.full # None
  BY <1>0 DEF StillCurrent, Current
<1>5. /\ pc'[r] = "delete" /\ job'[r] = j
      /\ \A q \in Req : q # r => pc'[q] = pc[q] /\ job'[q] = job[q]
  BY <1>0, AfterThen
<1>6. ScopeOf[v[1]] = ScopeOf[w[1]]
  BY DEF InScope
<1>7. OnePerScope
  BY <1>0 DEF OnOne
<1>8. ASSUME NEW q \in Place, q # w, ScopeOf[q[1]] = ScopeOf[w[1]], NEW id \in ExtId,
             Bears(store', w, id), Bears(store', q, id)
      PROVE  q = v
  <2> SUFFICES ASSUME q # v PROVE FALSE
    OBVIOUS
  <2>1. Bears(store, v, id) /\ Bears(store, q, id)
    BY <1>2, <1>4, <1>8 DEF Bears
  <2>2. q \in InScope(v[1])
    BY <1>6, <1>8 DEF InScope
  <2>3. PICK x \in Req : Moving(x, v, q)
    BY <1>3, <1>7, <2>1, <2>2 DEF OnePerScope
  <2>4. x # r
    BY <2>3 DEF Moving
  <2> QED BY <1>0, <1>3, <2>3, <2>4, NotMoved
<1>9. \A p, q : {p, q} = {v, w} => Moving(r, p, q)'
  <2>1. {Source(job'[r]), Target(job'[r])} = {v, w}
    BY <1>5
  <2> QED BY <1>5, <2>1 DEF Moving
<1> SUFFICES ASSUME NEW id \in ExtId, NEW p \in Place, NEW q \in InScope(p[1]), p # q,
                    Bears(store', p, id), Bears(store', q, id)
             PROVE  \E x \in Req : Moving(x, p, q)'
  BY Zenon DEF OnePerScope
<1>10. q \in Place /\ ScopeOf[q[1]] = ScopeOf[p[1]]
  BY DEF InScope
<1>11. CASE p = w
  <2>1. q = v
    BY <1>8, <1>10, <1>11
  <2> QED BY <1>9, <1>11, <2>1
<1>12. CASE q = w
  <2>1. p = v
    BY <1>8, <1>10, <1>12
  <2> QED BY <1>9, <1>12, <2>1
<1>13. CASE p # w /\ q # w
  <2>1. Bears(store, p, id) /\ Bears(store, q, id)
    BY <1>2, <1>10, <1>13 DEF Bears
  <2>2. PICK x \in Req : Moving(x, p, q)
    BY <1>7, <2>1 DEF OnePerScope
  <2>3. x # r
    BY <2>2 DEF Moving
  <2>4. Moving(x, p, q)'
    BY <1>5, <2>2, <2>3, Zenon DEF Moving
  <2> QED BY <2>4
<1> QED BY <1>11, <1>12, <1>13

LEMMA CopyWriteKeeps ==
    ASSUME BookInv, NEW r \in Req, CopyWrite(r)
    PROVE  BookInv'
<1>0. TypeOK /\ StillCurrent /\ OnOne
  BY Zenon DEF BookInv
<1> DEFINE j == job[r]
           w == Target(j)
<1>1. /\ pc[r] = "put_if_absent" /\ put_entry_if_absent(w, j.full) /\ made' = made
      /\ j.op = "copy" => Reply(r)
      /\ j.op # "copy" => Then(r, "delete", j)
  BY Zenon DEF CopyWrite
<1>2. past' = past \cup (IF j.op = "copy" THEN {"clone"} ELSE {})
                   \cup (IF Source(j) \in InScope(w[1]) THEN {} ELSE {"cross"})
  BY Zenon DEF CopyWrite
<1>3. /\ Shape("put_if_absent", j) /\ j.op \in {"move", "copy", "sync"} /\ j \in JobRecord
      /\ w \in Place /\ (w \in Changes(j) \/ (w \in Fills(j) /\ store[w] = None))
      /\ j.full \in Entry /\ store[w] = None
      /\ store' = [store EXCEPT ![w] = j.full]
      /\ owed' \subseteq Secret
      /\ "race" \notin past => OwedStored'
  BY <1>1, Copied, Zenon
<1>4. past \subseteq past' /\ past' \subseteq {"race", "cut", "clone", "cross", "given"}
  BY <1>0, <1>2 DEF TypeOK
<1>5. CASE j.op = "copy"
  <2>1. past' # {}
    BY <1>2, <1>5
  <2>2. j.full \in Entry \cup {None}
    BY <1>3
  <2> DEFINE e == j.full
  <2>3. e \in Entry \cup {None} /\ store' = [store EXCEPT ![w] = e]
    BY <1>3, <2>2
  <2> HIDE DEF w, e
  <2> QED BY <1>1, <1>3, <1>4, <1>5, <2>1, <2>3, WriteReplies
<1>6. CASE j.op \in {"move", "sync"}
  <2>1. Then(r, "delete", j)
    BY <1>1, <1>6
  <2>2. Shape("delete", j)
    <3> HIDE DEF j
    <3>1. CASE j.op = "sync"
      <4>1. Upserts("put_if_absent", j)
        BY <1>3, <3>1, OfSync
      <4>2. Upserts("delete", j)
        BY <3>1, <4>1 DEF Upserts
      <4> QED BY <1>3, <3>1, <4>2, UpsertShape
    <3>2. CASE j.op = "move"
      <4>1. Copies("put_if_absent", j)
        BY <1>3, <3>2, OfMove
      <4>2. Copies("delete", j)
        BY <3>2, <4>1 DEF Copies
      <4> QED BY <1>3, <3>2, <4>2, CopyShape
    <3> QED BY <1>6, <3>1, <3>2
  <2>3. /\ store'[w] = j.full /\ store' \in [Place -> Entry \cup {None}]
        /\ \A p \in Place : p # w => store'[p] = store[p]
    BY <1>0, <1>3, Written
  <2>4. Source(j) \in Place /\ Source(j) # w
    BY <1>3, <1>6, Ends
  <2>5. ASSUME "race" \notin past PROVE Current(store', "delete", j)
    <3>1. Current(store, "put_if_absent", j)
      BY <1>0, <1>1, <2>5 DEF StillCurrent
    <3>2. j.full # None /\ store[Source(j)] = j.full
      BY <1>6, <3>1 DEF Current
    <3> QED BY <1>6, <2>3, <2>4, <3>2 DEF Current
  <2>6. ASSUME past' = {} PROVE Searched(store', "delete", j) /\ OnePerScope'
    <3>1. past = {} /\ Source(j) \in InScope(w[1])
      BY <1>2, <2>6
    <3>2. OnePerScope'
      BY <1>1, <1>6, <2>1, <3>1, MoveUnderWay, Zenon
    <3>3. Searched(store, "put_if_absent", j)
      BY <1>0, <1>1, <3>1 DEF OnOne
    <3>4. CASE j.op = "sync"
      <4>1. w = j.src
        BY <3>4 DEF Target
      <4>2. \A p \in Elsewhere(j) : store'[p] = store[p]
        BY <2>3, <4>1 DEF Elsewhere, InScope
      <4>3. Searched(store', "put_if_absent", j)
        BY <3>3, <4>2, SearchedSame
      <4> QED BY <3>2, <3>4, <4>3 DEF Searched, Gives
    <3>5. CASE j.op = "move"
      BY <3>2, <3>5 DEF Searched, Gives
    <3> QED BY <1>6, <3>4, <3>5
  <2>7. Within(store, store', j)
    <3> DEFINE e == j.full
    <3>1. e \in Entry \cup {None} /\ store' = [store EXCEPT ![w] = e]
      BY <1>3
    <3> HIDE DEF e, w
    <3> QED BY <1>0, <1>3, <3>1, WrittenWithin
  <2> HIDE DEF w
  <2> QED BY <1>1, <1>3, <1>4, <2>1, <2>2, <2>3, <2>5, <2>6, <2>7, StepKeeps
<1> QED BY <1>3, <1>5, <1>6

LEMMA CutKeeps ==
    ASSUME BookInv, NEW r \in Req, Cut(r)
    PROVE  BookInv'
<1>0. TypeOK /\ Kept
  BY Zenon DEF BookInv
<1>1. Reply(r) /\ past' = past \cup {"cut"} /\ store' = store /\ owed' = owed /\ made' = made
  BY DEF Cut
<1>2. Then(r, "idle", NoJob)
  BY <1>1, ReplyThen
<1>3. Changes(NoJob) \subseteq Changes(job[r]) /\ Fills(NoJob) \subseteq Fills(job[r])
  BY NoJobFootprint
<1>4. Within(store, store', job[r])
  BY <1>1, WithinSame
<1>5. "race" \notin past => OwedStored'
  BY <1>0, <1>1, Zenon DEF Kept, OwedStored
<1>6. /\ store' \in [Place -> Entry \cup {None}] /\ owed' \subseteq Secret
      /\ past \subseteq past' /\ past' \subseteq {"race", "cut", "clone", "cross", "given"} /\ past' # {}
  BY <1>0, <1>1 DEF TypeOK
<1> QED BY <1>1, <1>2, <1>3, <1>4, <1>5, <1>6, NoJobHolds, StepKeeps

LEMMA CutLateKeeps ==
    ASSUME BookInv, NEW r \in Req, CutLate(r)
    PROVE  BookInv'
<1>0. TypeOK
  BY Zenon DEF BookInv
<1> DEFINE j == job[r]
           e == IF j.op = "create" THEN j.data ELSE j.full
<1>1. Reply(r) /\ past' = past \cup {"cut"} /\ made' = made
  BY Zenon DEF CutLate
<1>2. \/ pc[r] = "put" /\ put_entry(j)
      \/ pc[r] = "put_if_absent" /\ put_entry_if_absent(Target(j), j.full)
      \/ pc[r] = "delete" /\ delete_entry(Source(j), j.op = "delete")
  BY Zenon DEF CutLate
<1>3. past \subseteq past' /\ past' \subseteq {"race", "cut", "clone", "cross", "given"} /\ past' # {}
  BY <1>0, <1>1 DEF TypeOK
<1> SUFFICES \E w \in Place, n \in Entry \cup {None} :
                 /\ store' = [store EXCEPT ![w] = n]
                 /\ w \in Changes(j) \/ (w \in Fills(j) /\ store[w] = None)
                 /\ owed' \subseteq Secret
                 /\ "race" \notin past => OwedStored'
  BY <1>1, <1>3, WriteReplies
<1>4. CASE pc[r] = "put" /\ put_entry(j)
  <2>1. /\ j.src \in Place /\ j.src \in Changes(j) /\ e \in Entry
        /\ store' = [store EXCEPT ![j.src] = e]
        /\ owed' \subseteq Secret
        /\ "race" \notin past => OwedStored'
    BY <1>4, Upserted, Zenon
  <2> HIDE DEF e
  <2> QED BY <2>1
<1>5. CASE pc[r] = "put_if_absent" /\ put_entry_if_absent(Target(j), j.full)
  <2>1. /\ Target(j) \in Place
        /\ (Target(j) \in Changes(j) \/ (Target(j) \in Fills(j) /\ store[Target(j)] = None))
        /\ j.full \in Entry
        /\ store' = [store EXCEPT ![Target(j)] = j.full]
        /\ owed' \subseteq Secret
        /\ "race" \notin past => OwedStored'
    BY <1>5, Copied, Zenon
  <2> QED BY <2>1
<1>6. CASE pc[r] = "delete" /\ delete_entry(Source(j), j.op = "delete")
  <2>1. /\ Source(j) \in Place /\ Source(j) \in Changes(j)
        /\ store' = [store EXCEPT ![Source(j)] = None]
        /\ owed' \subseteq Secret
        /\ "race" \notin past => OwedStored'
    BY <1>6, Deleted, Zenon
  <2> QED BY <2>1
<1> QED BY <1>2, <1>4, <1>5, <1>6

-----------------------------------------------------------------------------
(* Requests begin *)

LEMMA BeginKeeps ==
    ASSUME BookInv, NEW R \in SUBSET Req, NEW js, NEW at, Begin(R, js, at),
           \A r \in R : Shape(at, js[r]),
           \A r \in R : Current(store, at, js[r]),
           past' = {} => \A r \in R : Searched(store, at, js[r]),
           \A r, q \in R : r # q => ~ Clash(js[r], js[q])
    PROVE  BookInv'
<1>0. TypeOK /\ Shapes /\ Separate /\ StillCurrent /\ Kept /\ OnOne
  BY Zenon DEF BookInv
<1>1. /\ \A r \in R : pc[r] = "idle"
      /\ made + Cardinality(R) <= MaxRequests
      /\ made' = made + Cardinality(R)
      /\ pc' = [r \in Req |-> IF r \in R THEN at ELSE pc[r]]
      /\ job' = [r \in Req |-> IF r \in R THEN js[r] ELSE job[r]]
      /\ store' = store /\ owed' = owed
  BY Zenon DEF Begin
<1>2. past' = past \cup (IF \E r \in R, q \in Req \ R : Clash(js[r], job[q]) THEN {"race"} ELSE {})
                   \cup (IF \E r \in R : Gives(js[r]) THEN {"given"} ELSE {})
  BY Zenon DEF Begin
<1>3. /\ \A r \in R : pc'[r] = at /\ job'[r] = js[r]
      /\ \A r \in Req \ R : pc'[r] = pc[r] /\ job'[r] = job[r]
  BY <1>1
<1>4. past \subseteq past' /\ past' \subseteq {"race", "cut", "clone", "cross", "given"}
  BY <1>0, <1>2 DEF TypeOK
<1>5. "race" \notin past' => \A r \in R : \A q \in Req \ R : ~ Clash(js[r], job[q])
  BY <1>2
<1>6. TypeOK'
  <2>1. made' \in 0..MaxRequests
    <3>1. IsFiniteSet(R)
      BY RequestAssumption, FS_Subset
    <3>2. Cardinality(R) \in Nat
      BY <3>1, FS_CardinalityType
    <3> QED BY <1>0, <1>1, <3>2, RequestAssumption DEF TypeOK
  <2>2. pc' \in [Req -> Call]
    <3>1. \A r \in R : at \in Call
      BY ShapeTyped
    <3> QED BY <1>0, <1>1, <3>1 DEF TypeOK
  <2>3. job' \in [Req -> JobType]
    <3>1. \A r \in R : js[r] \in JobType
      BY ShapeTyped
    <3> QED BY <1>0, <1>1, <3>1 DEF TypeOK
  <2> QED BY <1>0, <1>1, <1>4, <2>1, <2>2, <2>3 DEF TypeOK
<1>7. Shapes'
  <2> SUFFICES ASSUME NEW x \in Req PROVE Shape(pc'[x], job'[x])
    BY Zenon DEF Shapes
  <2>1. CASE x \in R  BY <1>3, <2>1
  <2>2. CASE x \notin R  BY <1>0, <1>3, <2>2 DEF Shapes
  <2> QED BY <2>1, <2>2
<1>8. Separate'
  <2> SUFFICES ASSUME "race" \notin past', NEW x \in Req, NEW q \in Req, x # q
               PROVE  ~ Clash(job'[x], job'[q])
    BY Zenon DEF Separate
  <2>1. CASE x \in R /\ q \in R
    BY <1>3, <2>1
  <2>2. CASE x \in R /\ q \notin R
    BY <1>3, <1>5, <2>2
  <2>3. CASE x \notin R /\ q \in R
    <3>1. ~ Clash(js[q], job[x])
      BY <1>5, <2>3
    <3>2. ~ Clash(job[x], js[q])
      BY <3>1, ClashSymmetric
    <3> QED BY <1>3, <2>3, <3>2
  <2>4. CASE x \notin R /\ q \notin R
    BY <1>0, <1>3, <1>4, <2>4 DEF Separate
  <2> QED BY <2>1, <2>2, <2>3, <2>4
<1>9. StillCurrent'
  <2> SUFFICES ASSUME "race" \notin past', NEW x \in Req
               PROVE  Current(store', pc'[x], job'[x])
    BY Zenon DEF StillCurrent
  <2>1. CASE x \in R  BY <1>1, <1>3, <2>1
  <2>2. CASE x \notin R  BY <1>0, <1>1, <1>3, <1>4, <2>2 DEF StillCurrent
  <2> QED BY <2>1, <2>2
<1>10. Kept'
  <2>1. "race" \notin past' => "race" \notin past
    BY <1>4
  <2> QED BY <1>0, <1>1, <2>1, Zenon DEF Kept, OwedStored
<1>11. OnOne'
  <2> SUFFICES ASSUME past' = {}
               PROVE  (\A x \in Req : Searched(store', pc'[x], job'[x])) /\ OnePerScope'
    BY Zenon DEF OnOne
  <2>1. past = {}
    BY <1>4
  <2>2. ASSUME NEW x \in Req PROVE Searched(store', pc'[x], job'[x])
    <3>1. CASE x \in R  BY <1>1, <1>3, <3>1
    <3>2. CASE x \notin R  BY <1>0, <1>1, <1>3, <2>1, <3>2 DEF OnOne
    <3> QED BY <3>1, <3>2
  <2>3. OnePerScope'
    <3> SUFFICES ASSUME NEW id \in ExtId, NEW p \in Place, NEW q \in InScope(p[1]), p # q,
                        Bears(store', p, id), Bears(store', q, id)
                 PROVE  \E x \in Req : Moving(x, p, q)'
      BY Zenon DEF OnePerScope
    <3>1. PICK x \in Req : Moving(x, p, q)
      BY <1>0, <1>1, <2>1 DEF OnOne, OnePerScope
    <3>2. x \notin R
      BY <1>1, <3>1 DEF Moving
    <3>3. Moving(x, p, q)'
      BY <1>3, <3>1, <3>2, Zenon DEF Moving
    <3> QED BY <3>3
  <2> QED BY <2>2, <2>3
<1> QED BY <1>6, <1>7, <1>8, <1>9, <1>10, <1>11, Zenon DEF BookInv

LEMMA BeginOneKeeps ==
    ASSUME BookInv, NEW r \in Req, NEW j, NEW at, BeginOne(r, j, at), Shape(at, j),
           Current(store, at, j), ~ Gives(j) => Searched(store, at, j)
    PROVE  BookInv'
<1> DEFINE R == {r}
           js == [q \in {r} |-> j]
<1>1. Begin(R, js, at) /\ R \in SUBSET Req /\ \A x \in R : js[x] = j
  BY DEF BeginOne
<1>2. \A x \in R : Shape(at, js[x])
  BY <1>1
<1>3. \A x \in R : Current(store, at, js[x])
  BY <1>1
<1>5. ASSUME past' = {} PROVE \A x \in R : Searched(store, at, js[x])
  <2>1. past' = past \cup (IF \E x \in R, q \in Req \ R : Clash(js[x], job[q]) THEN {"race"} ELSE {})
                    \cup (IF \E x \in R : Gives(js[x]) THEN {"given"} ELSE {})
    BY <1>1, Zenon DEF Begin
  <2>2. ~ Gives(j)
    BY <1>1, <1>5, <2>1
  <2> QED BY <1>1, <2>2
<1>4. \A x, q \in R : x # q => ~ Clash(js[x], js[q])
  OBVIOUS
<1> HIDE DEF R, js
<1> QED BY <1>1, <1>2, <1>3, <1>4, <1>5, BeginKeeps

LEMMA FreshJob ==
    ASSUME NEW op \in Op, NEW src \in Place \cup Folder, NEW tries \in Seq(Place),
           NEW data \in Entry \cup {None}
    PROVE  /\ Job(op, src, tries, data) \in JobRecord
           /\ Job(op, src, tries, data).op = op /\ Job(op, src, tries, data).src = src
           /\ Job(op, src, tries, data).tries = tries /\ Job(op, src, tries, data).data = data
           /\ Job(op, src, tries, data).folders = {} /\ Job(op, src, tries, data).places = {}
<1>1. Job(op, src, tries, data) = JobOf(op, src, tries, data, None, {}, {})
  BY Zenon DEF Job, JobOf
<1>2. None \in Entry \cup {None} /\ {} \in SUBSET Folder /\ {} \in SUBSET Place
  OBVIOUS
<1>3. Job(op, src, tries, data) \in JobRecord
  <2> DEFINE f == None
             fs == {}
             ps == {}
  <2>1. f \in Entry \cup {None} /\ fs \in SUBSET Folder /\ ps \in SUBSET Place
    BY <1>2
  <2>2. Job(op, src, tries, data) = JobOf(op, src, tries, data, f, fs, ps)
    BY <1>1
  <2> HIDE DEF f, fs, ps
  <2> QED BY <2>1, <2>2, JobTyped
<1> QED BY <1>1, <1>3, JobFields

LEMMA PlainJob ==
    ASSUME NEW op \in Op, NEW src \in Place, NEW data \in Entry
    PROVE  /\ Job(op, src, <<>>, data) \in JobRecord
           /\ Job(op, src, <<>>, data).op = op /\ Job(op, src, <<>>, data).src = src
           /\ Job(op, src, <<>>, data).tries = <<>> /\ Job(op, src, <<>>, data).data = data
<1>1. << >> \in Seq(Place) /\ src \in Place \cup Folder /\ data \in Entry \cup {None}
  OBVIOUS
<1> DEFINE t == << >>
<1>2. t \in Seq(Place)
  BY <1>1
<1> HIDE DEF t
<1>3. /\ Job(op, src, t, data) \in JobRecord
      /\ Job(op, src, t, data).op = op /\ Job(op, src, t, data).src = src
      /\ Job(op, src, t, data).tries = t /\ Job(op, src, t, data).data = data
  BY <1>1, <1>2, FreshJob
<1> QED BY <1>3 DEF t

LEMMA CreateKeeps ==
    ASSUME BookInv, NEW r \in Req, ab_create_entry(r)
    PROVE  BookInv'
<1>1. PICK p \in Place, d \in Body : BeginOne(r, Job("create", p, <<>>, d), "put")
  BY DEF ab_create_entry
<1> DEFINE j == Job("create", p, <<>>, d)
<1>2. d \in Entry
  BY BodyAssumption
<1>3. j \in JobRecord /\ j.op = "create" /\ j.src = p /\ j.data = d
  BY <1>2, PlainJob DEF Op
<1>4. BeginOne(r, j, "put")
  BY <1>1
<1> HIDE DEF j
<1>5. Upserts("put", j)
  BY <1>2, <1>3 DEF Upserts
<1>6. Shape("put", j) /\ Current(store, "put", j) /\ (~ Gives(j) => Searched(store, "put", j))
  BY <1>3, <1>5, UpsertShape DEF Current, Searched
<1> QED BY <1>4, <1>6, BeginOneKeeps

LEMMA UpdateKeeps ==
    ASSUME BookInv, NEW r \in Req, ab_update_entry(r)
    PROVE  BookInv'
<1>1. PICK p \in Place, d \in Body :
          \/ BeginOne(r, Job("update", p, <<>>, d), "read")
          \/ d.ext # None /\ BeginOne(r, Job("sync", p, <<>>, d), "locate")
  BY DEF ab_update_entry
<1>2. CASE BeginOne(r, Job("update", p, <<>>, d), "read")
  <2> DEFINE j == Job("update", p, <<>>, d)
  <2>1. d \in Entry
    BY BodyAssumption
  <2>2. j \in JobRecord /\ j.op = "update" /\ j.src = p /\ j.data = d
    BY <2>1, PlainJob DEF Op
  <2>3. BeginOne(r, j, "read")
    BY <1>2
  <2> HIDE DEF j
  <2>4. Upserts("read", j)
    BY <2>1, <2>2 DEF Upserts
  <2>5. Shape("read", j) /\ Current(store, "read", j) /\ (~ Gives(j) => Searched(store, "read", j))
    BY <2>2, <2>4, UpsertShape DEF Current, Searched
  <2> QED BY <2>3, <2>5, BeginOneKeeps
<1>3. CASE d.ext # None /\ BeginOne(r, Job("sync", p, <<>>, d), "locate")
  <2> DEFINE j == Job("sync", p, <<>>, d)
  <2>1. d \in Entry /\ d.ext \in ExtId
    BY <1>3, BodyAssumption, EntryFields
  <2>2. j \in JobRecord /\ j.op = "sync" /\ j.src = p /\ j.data = d /\ j.tries = <<>>
    BY <2>1, PlainJob DEF Op
  <2>3. BeginOne(r, j, "locate")
    BY <1>3
  <2> HIDE DEF j
  <2>4. Upserts("locate", j)
    BY <2>1, <2>2 DEF Upserts
  <2>5. Shape("locate", j) /\ Current(store, "locate", j) /\ Searched(store, "locate", j)
    BY <2>2, <2>4, UpsertShape DEF Current, Searched, Gives
  <2> QED BY <2>3, <2>5, BeginOneKeeps
<1> QED BY <1>1, <1>2, <1>3

AwayFrom(t, p) == \A i \in 1..Len(t) : t[i] # p

\* The first call of a move or copy, and of a delete.
LEMMA CopyBegins ==
    ASSUME NEW op \in {"move", "copy"}, NEW p \in Place, NEW t \in Seq(Place), Len(t) > 0,
           op = "move" => AwayFrom(t, p),
           NEW j, j = Job(op, p, t, None), NEW st
    PROVE  /\ Shape("get", j) /\ Current(st, "get", j) /\ Searched(st, "get", j)
           /\ j.op = op /\ j.src = p /\ j.tries = t
<1>1. None \in Entry \cup {None} /\ op \in Op /\ p \in Place \cup Folder
  BY DEF Op
<1>2. j \in JobRecord /\ j.op = op /\ j.src = p /\ j.tries = t
  BY <1>1, FreshJob
<1>3. Copies("get", j)
  BY <1>2 DEF Copies, AwayFrom
<1>4. Shape("get", j)
  BY <1>2, <1>3, CopyShape
<1>5. Current(st, "get", j) /\ Searched(st, "get", j)
  BY <1>2 DEF Current, Searched, Gives
<1> QED BY <1>2, <1>4, <1>5

LEMMA DeleteBegins ==
    ASSUME NEW p \in Place, NEW j, j = Job("delete", p, <<>>, None), NEW st
    PROVE  /\ Shape("look", j) /\ Current(st, "look", j) /\ Searched(st, "look", j)
           /\ j.op = "delete" /\ j.src = p
<1> DEFINE t == << >>
<1>1. None \in Entry \cup {None} /\ "delete" \in Op /\ p \in Place \cup Folder /\ t \in Seq(Place)
  BY DEF Op
<1>2. j = Job("delete", p, t, None)
  OBVIOUS
<1> HIDE DEF t
<1>3. j \in JobRecord /\ j.op = "delete" /\ j.src = p
  BY <1>1, <1>2, FreshJob
<1> QED BY <1>3 DEF Shape, Current, Searched, Gives

LEMMA MoveKeeps ==
    ASSUME BookInv, NEW r \in Req, ab_move_entry(r)
    PROVE  BookInv'
<1>1. PICK p \in Place : \E g \in Folder \ {p[1]} :
          BeginOne(r, Job("move", p, <<<<g, p[2]>>>>, None), "get")
  BY DEF ab_move_entry
<1>2. PICK g \in Folder \ {p[1]} : BeginOne(r, Job("move", p, <<<<g, p[2]>>>>, None), "get")
  BY <1>1
<1> DEFINE t == <<<<g, p[2]>>>>
           j == Job("move", p, t, None)
<1>3. <<g, p[2]>> \in Place /\ <<g, p[2]>> # p
  BY DEF Place
<1>4. t \in Seq(Place) /\ Len(t) = 1 /\ t[1] = <<g, p[2]>>
  BY <1>3
<1>5. BeginOne(r, j, "get")
  BY <1>2
<1> HIDE DEF t
<1>6. AwayFrom(t, p)
  BY <1>3, <1>4 DEF AwayFrom
<1>7. Shape("get", j) /\ Current(store, "get", j) /\ Searched(store, "get", j)
  BY <1>4, <1>6, CopyBegins
<1> HIDE DEF j
<1> QED BY <1>5, <1>7, BeginOneKeeps

LEMMA CopyKeeps ==
    ASSUME BookInv, NEW r \in Req, ab_copy_entry(r)
    PROVE  BookInv'
<1>1. PICK p \in Place, q \in Place : BeginOne(r, Job("copy", p, <<q>>, None), "get")
  BY DEF ab_copy_entry
<1> DEFINE t == <<q>>
           op == "copy"
           j == Job(op, p, t, None)
<1>2. /\ t \in Seq(Place) /\ Len(t) > 0 /\ op \in {"move", "copy"}
      /\ op = "move" => AwayFrom(t, p)
  OBVIOUS
<1>3. BeginOne(r, j, "get")
  BY <1>1
<1> HIDE DEF t, op
<1>4. Shape("get", j) /\ Current(store, "get", j) /\ Searched(store, "get", j)
  BY <1>2, CopyBegins
<1> HIDE DEF j
<1> QED BY <1>3, <1>4, BeginOneKeeps

LEMMA DeleteEntryKeeps ==
    ASSUME BookInv, NEW r \in Req, ab_delete_entry(r)
    PROVE  BookInv'
<1>1. PICK p \in Place : BeginOne(r, Job("delete", p, <<>>, None), "look")
  BY DEF ab_delete_entry
<1> DEFINE j == Job("delete", p, <<>>, None)
<1>2. Shape("look", j) /\ Current(store, "look", j) /\ Searched(store, "look", j)
  BY DeleteBegins
<1>3. BeginOne(r, j, "look")
  BY <1>1
<1> HIDE DEF j
<1> QED BY <1>2, <1>3, BeginOneKeeps

LEMMA DeleteFolderKeeps ==
    ASSUME BookInv, NEW r \in Req, ab_delete_folder(r)
    PROVE  BookInv'
<1>1. PICK f \in Folder : BeginOne(r, Job("folder", f, <<>>, None), "collect")
  BY DEF ab_delete_folder
<1> DEFINE t == << >>
           j == Job("folder", f, t, None)
<1>2. None \in Entry \cup {None} /\ "folder" \in Op /\ f \in Place \cup Folder /\ t \in Seq(Place)
  BY DEF Op
<1>3. BeginOne(r, j, "collect")
  BY <1>1
<1> HIDE DEF t
<1>4. j \in JobRecord /\ j.op = "folder" /\ j.src = f /\ j.folders = {} /\ j.places = {}
  BY <1>2, FreshJob
<1> HIDE DEF j
<1>5. Wipes("collect", j)
  BY <1>4 DEF Wipes
<1>6. Shape("collect", j) /\ Current(store, "collect", j) /\ Searched(store, "collect", j)
  BY <1>4, <1>5, FolderShape DEF Current, Searched, Gives
<1> QED BY <1>3, <1>6, BeginOneKeeps

LEMMA Candidates ==
    ASSUME NEW g \in Folder, NEW n \in Name, NEW rename \in BOOLEAN
    PROVE  /\ rename_candidates(g, n, rename) \in Seq(Place)
           /\ Len(rename_candidates(g, n, rename)) > 0
           /\ \A i \in 1..Len(rename_candidates(g, n, rename)) :
                  rename_candidates(g, n, rename)[i][1] = g
<1> DEFINE N == IF rename THEN Len(Renames[n]) + 1 ELSE 1
           At(i) == <<g, IF i = 1 THEN n ELSE Renames[n][i - 1]>>
<1>1. Renames[n] \in Seq(Name)
  BY NameAssumption
<1>2. N \in Nat /\ N > 0 /\ (N > 1 => N = Len(Renames[n]) + 1)
  BY <1>1
<1>3. ASSUME NEW i \in 1..N PROVE At(i) \in Place /\ At(i)[1] = g
  <2>1. i = 1 \/ Renames[n][i - 1] \in Name
    <3>1. i = 1 \/ i - 1 \in 1..Len(Renames[n])
      BY <1>1, <1>2
    <3> QED BY <1>1, <3>1
  <2> QED BY <2>1 DEF Place
<1>4. rename_candidates(g, n, rename) = [i \in 1..N |-> At(i)]
  BY Zenon DEF rename_candidates
<1> HIDE DEF N, At
<1>5. [i \in 1..N |-> At(i)] \in Seq(Place) /\ Len([i \in 1..N |-> At(i)]) = N
      /\ \A k \in 1..N : [i \in 1..N |-> At(i)][k] = At(k)
  BY <1>2, <1>3
<1> QED BY <1>2, <1>3, <1>4, <1>5

\* The entries of a bulk request differ, and none is in the folder the
\* others go to: its handlers are apart.
LEMMA BulkKeeps ==
    ASSUME BookInv, ab_bulk
    PROVE  BookInv'
<1>1. PICK R \in SUBSET Req \ {{}}, g \in Folder, rename \in BOOLEAN, op \in {"move", "copy", "delete"} :
          \E item \in Injection(R, Place) :
            /\ op = "move" => \A r \in R : item[r][1] # g
            /\ Begin(R,
                     [r \in R |-> Job(op, item[r],
                                      IF op = "delete" THEN <<>> ELSE rename_candidates(g, item[r][2], rename),
                                      None)],
                     IF op = "delete" THEN "look" ELSE "get")
  BY Zenon DEF ab_bulk
<1> DEFINE tries(p) == IF op = "delete" THEN <<>> ELSE rename_candidates(g, p[2], rename)
<1>2. PICK item \in Injection(R, Place) :
            /\ op = "move" => \A r \in R : item[r][1] # g
            /\ Begin(R, [r \in R |-> Job(op, item[r], tries(item[r]), None)],
                     IF op = "delete" THEN "look" ELSE "get")
  BY <1>1, Zenon
<1> DEFINE js == [r \in R |-> Job(op, item[r], tries(item[r]), None)]
           at == IF op = "delete" THEN "look" ELSE "get"
<1>3. /\ \A r \in R : item[r] \in Place
      /\ \A r, q \in R : item[r] = item[q] => r = q
  BY DEF Injection, IsInjective
<1>4. \A r \in R : js[r] = Job(op, item[r], tries(item[r]), None)
  OBVIOUS
<1>5. Begin(R, js, at) /\ R \in SUBSET Req
  BY <1>2
<1>6. (op = "delete" => at = "look") /\ (op # "delete" => at = "get")
  OBVIOUS
<1>7. \A p : (op = "delete" => tries(p) = <<>>) /\ (op # "delete" => tries(p) = rename_candidates(g, p[2], rename))
  OBVIOUS
<1> HIDE DEF js, at, tries
<1>8. CASE op = "delete"
  <2>1. ASSUME NEW r \in R
        PROVE  /\ Shape(at, js[r]) /\ Current(store, at, js[r]) /\ Searched(store, at, js[r])
               /\ js[r].op = "delete" /\ js[r].src = item[r]
    <3>1. js[r] = Job("delete", item[r], <<>>, None) /\ at = "look" /\ item[r] \in Place
      BY <1>3, <1>4, <1>6, <1>7, <1>8
    <3> QED BY <3>1, DeleteBegins
  <2>2. ASSUME NEW r \in R, NEW q \in R, r # q PROVE ~ Clash(js[r], js[q])
    <3>1. /\ Changes(js[r]) = {item[r]} /\ Changes(js[q]) = {item[q]}
          /\ Fills(js[r]) = {} /\ Fills(js[q]) = {}
      BY <2>1, Footprints
    <3>2. item[r] # item[q]
      BY <1>3, <2>2
    <3> QED BY <3>1, <3>2 DEF Clash
  <2> QED BY <1>5, <2>1, <2>2, BeginKeeps
<1>9. CASE op # "delete"
  <2>0. op \in {"move", "copy"} /\ at = "get"
    BY <1>6, <1>9
  <2>1. ASSUME NEW r \in R
        PROVE  /\ Shape(at, js[r]) /\ Current(store, at, js[r]) /\ Searched(store, at, js[r])
               /\ js[r].op = op /\ js[r].src = item[r]
               /\ \A p \in Fills(js[r]) : p[1] = g
    <3> DEFINE n == item[r][2]
               t == rename_candidates(g, n, rename)
    <3>1. n \in Name /\ item[r] \in Place
      BY <1>3 DEF Place
    <3>2. t \in Seq(Place) /\ Len(t) > 0 /\ \A i \in 1..Len(t) : t[i][1] = g
      <4> HIDE DEF n
      <4> QED BY <3>1, Candidates
    <3>3. js[r] = Job(op, item[r], t, None)
      BY <1>4, <1>7, <1>9
    <3> HIDE DEF n, t
    <3>4. op = "move" => AwayFrom(t, item[r])
      BY <1>2, <3>2 DEF AwayFrom
    <3>5. /\ Shape(at, js[r]) /\ Current(store, at, js[r]) /\ Searched(store, at, js[r])
          /\ js[r].op = op /\ js[r].src = item[r] /\ js[r].tries = t
      <4> DEFINE j == js[r]
                 p == item[r]
      <4>1. j = Job(op, p, t, None) /\ p \in Place /\ (op = "move" => AwayFrom(t, p))
        BY <3>1, <3>3, <3>4
      <4> HIDE DEF j, p
      <4>2. /\ Shape("get", j) /\ Current(store, "get", j) /\ Searched(store, "get", j)
            /\ j.op = op /\ j.src = p /\ j.tries = t
        BY <2>0, <3>2, <4>1, CopyBegins
      <4> QED BY <2>0, <4>2 DEF j, p
    <3>6. Fills(js[r]) = {t[i] : i \in DOMAIN t}
      BY <2>0, <3>5, Footprints
    <3>7. \A p \in Fills(js[r]) : p[1] = g
      BY <3>2, <3>6
    <3> QED BY <3>5, <3>7
  <2>2. ASSUME NEW r \in R, NEW q \in R, r # q PROVE ~ Clash(js[r], js[q])
    <3>1. CASE op = "copy"
      <4>1. Changes(js[r]) = {} /\ Changes(js[q]) = {}
        BY <2>1, <3>1, Footprints
      <4> QED BY <4>1 DEF Clash
    <3>2. CASE op = "move"
      <4>1. Changes(js[r]) = {item[r]} /\ Changes(js[q]) = {item[q]}
        BY <2>1, <3>2, Footprints
      <4>2. item[r] # item[q] /\ item[r][1] # g /\ item[q][1] # g
        BY <1>2, <1>3, <2>2, <3>2
      <4>3. item[r] \notin Fills(js[q]) /\ item[q] \notin Fills(js[r])
        BY <2>1, <4>2
      <4> QED BY <4>1, <4>2, <4>3 DEF Clash
    <3> QED BY <2>0, <3>1, <3>2
  <2> QED BY <1>5, <2>1, <2>2, BeginKeeps
<1> QED BY <1>8, <1>9

-----------------------------------------------------------------------------
(* The invariant *)

LEMMA BookInit ==
    ASSUME Init
    PROVE  BookInv
<1>1. /\ store = [p \in Place |-> None] /\ pc = [r \in Req |-> "idle"] /\ job = [r \in Req |-> NoJob]
      /\ made = 0 /\ owed = {} /\ past = {}
  BY Zenon DEF Init
<1>2. \A r \in Req : pc[r] = "idle" /\ job[r] = NoJob
  BY <1>1
<1>3. TypeOK
  BY <1>1, RequestAssumption DEF TypeOK, Call, JobType
<1>4. Shapes /\ StillCurrent
  BY <1>2, NoJobHolds DEF Shapes, StillCurrent
<1>5. Separate
  BY <1>2, NoJobFootprint DEF Separate, Clash
<1>6. Kept
  BY <1>1 DEF Kept, OwedStored
<1>7. OnOne
  <2>1. OnePerScope
    BY <1>1 DEF OnePerScope, Bears, InScope
  <2> QED BY <1>2, <2>1, NoJobHolds DEF OnOne
<1> QED BY <1>3, <1>4, <1>5, <1>6, <1>7 DEF BookInv

LEMMA BookUnchanged ==
    ASSUME BookInv, UNCHANGED vars
    PROVE  BookInv'
<1>1. store' = store /\ pc' = pc /\ job' = job /\ made' = made /\ owed' = owed /\ past' = past
  BY Zenon DEF vars
<1>2. TypeOK /\ Shapes /\ Separate /\ StillCurrent /\ Kept /\ OnOne
  BY Zenon DEF BookInv
<1>3. TypeOK'
  BY <1>1, <1>2 DEF TypeOK
<1>4. Shapes'
  BY <1>1, <1>2, Zenon DEF Shapes
<1>5. Separate'
  BY <1>1, <1>2, Zenon DEF Separate
<1>6. StillCurrent'
  BY <1>1, <1>2, Zenon DEF StillCurrent
<1>7. Kept'
  BY <1>1, <1>2, Zenon DEF Kept, OwedStored
<1>8. OnOne'
  <2>1. OnePerScope => OnePerScope'
    BY <1>1 DEF OnePerScope, Moving
  <2> QED BY <1>1, <1>2, <2>1, Zenon DEF OnOne
<1> QED BY <1>3, <1>4, <1>5, <1>6, <1>7, <1>8, Zenon DEF BookInv

LEMMA BookNext ==
    ASSUME BookInv, [Next]_vars
    PROVE  BookInv'
<1>1. CASE ab_bulk  BY <1>1, BulkKeeps
<1>2. CASE UNCHANGED vars  BY <1>2, BookUnchanged
<1>3. ASSUME NEW r \in Req,
             \/ ab_create_entry(r) \/ ab_update_entry(r) \/ ab_move_entry(r)
             \/ ab_copy_entry(r) \/ ab_delete_entry(r) \/ ab_delete_folder(r)
      PROVE  BookInv'
  BY <1>3, CreateKeeps, UpdateKeeps, MoveKeeps, CopyKeeps, DeleteEntryKeeps, DeleteFolderKeeps
<1>4. ASSUME NEW r \in Req,
             \/ Locate(r) \/ Scan(r) \/ Found(r)
             \/ CopyRead(r) \/ CopyWrite(r) \/ CopyTaken(r)
             \/ Look(r) \/ Delete(r) \/ UpsertRead(r) \/ Put(r)
      PROVE  BookInv'
  BY <1>4, LocateKeeps, ScanKeeps, FoundKeeps, CopyReadKeeps, CopyWriteKeeps, CopyTakenKeeps,
     LookKeeps, DeleteKeeps, UpsertReadKeeps, PutKeeps
<1>5. ASSUME NEW r \in Req,
             Collect(r) \/ List(r) \/ Wipe(r) \/ Wiped(r) \/ Cut(r) \/ CutLate(r)
      PROVE  BookInv'
  BY <1>5, CollectKeeps, ListKeeps, WipeKeeps, WipedKeeps, CutKeeps, CutLateKeeps
<1> QED BY <1>1, <1>2, <1>3, <1>4, <1>5, Zenon DEF Next

\* However the handlers of the address book interleave, fail and are dropped,
\* what they have read of an entry stays what is stored there until they
\* write, unless two requests for an entry overlapped.
THEOREM BookInvariant == Spec => []BookInv
<1>1. Init => BookInv
  BY BookInit
<1>2. BookInv /\ [Next]_vars => BookInv'
  BY BookNext
<1> QED BY <1>1, <1>2, PTL DEF Spec

\* The stored entries and the jobs of the handlers have the types that the
\* handlers of api.rs count on.
THEOREM BookTypeCorrect == Spec => []TypeOK
<1>1. BookInv => TypeOK
  BY DEF BookInv
<1> QED BY <1>1, BookInvariant, PTL

\* A secret that no request gave up, as one without jump_hosts gives up those
\* of the stored jump hosts, is stored, whatever calls fail, as long as no two
\* requests for an entry overlapped (upsert_entry, merge_entry_update,
\* move_stored_entry, copy_entry_into).
THEOREM SecretsAreKept == Spec => []SecretsKept
<1>1. BookInv => SecretsKept
  <2> SUFFICES ASSUME BookInv, "race" \notin past, NEW s \in owed
               PROVE  \E p \in Place : s \in SecretsOf(store[p])
    BY Zenon DEF SecretsKept
  <2> QED BY DEF BookInv, Kept, OwedStored, Stored
<1> QED BY <1>1, BookInvariant, PTL

\* An external_id is on one entry of a scope, or on two while one of them is
\* being moved (relocate_by_external_id).
THEOREM IdsStayOnOne == Spec => []IdOnOneEntry
<1>1. BookInv => IdOnOneEntry
  <2> SUFFICES ASSUME BookInv, past = {}, NEW id \in ExtId, NEW p \in Place, NEW q \in InScope(p[1]),
                      p # q, Carries(p, id), Carries(q, id)
               PROVE  \E r \in Req : /\ pc[r] = "delete" /\ job[r].op # "delete"
                                     /\ Source(job[r]) \in {p, q}
    BY Zenon DEF IdOnOneEntry
  <2>1. Bears(store, p, id) /\ Bears(store, q, id)
    BY Zenon DEF Bears, Carries
  <2>2. PICK r \in Req : Moving(r, p, q)
    BY <2>1 DEF BookInv, OnOne, OnePerScope
  <2> QED BY <2>2 DEF Moving
<1> QED BY <1>1, BookInvariant, PTL

-----------------------------------------------------------------------------
(* What is overwritten *)

\* The steps that leave the store alone.
LEMMA StoreStays ==
    ASSUME NEW r \in Req,
           \/ ab_bulk \/ ab_create_entry(r) \/ ab_update_entry(r) \/ ab_move_entry(r)
           \/ ab_copy_entry(r) \/ ab_delete_entry(r) \/ ab_delete_folder(r)
           \/ Locate(r) \/ Scan(r) \/ Found(r) \/ CopyRead(r) \/ CopyTaken(r) \/ Look(r)
           \/ UpsertRead(r) \/ Collect(r) \/ List(r) \/ Wiped(r) \/ Cut(r)
    PROVE  store' = store
<1>1. CASE \/ Locate(r) \/ Scan(r) \/ Found(r) \/ CopyRead(r) \/ CopyTaken(r) \/ Look(r)
           \/ UpsertRead(r) \/ Collect(r) \/ List(r) \/ Wiped(r)
  <2>1. Read
    BY <1>1, Zenon DEF Locate, Scan, Found, CopyRead, CopyTaken, Look, UpsertRead, Collect, List, Wiped
  <2> QED BY <2>1 DEF Read
<1>2. CASE Cut(r)
  BY <1>2 DEF Cut
<1>3. CASE \/ ab_bulk \/ ab_create_entry(r) \/ ab_update_entry(r) \/ ab_move_entry(r)
           \/ ab_copy_entry(r) \/ ab_delete_entry(r) \/ ab_delete_folder(r)
  <2>1. \E R, js, at : Begin(R, js, at)
    BY <1>3, Zenon DEF ab_bulk, ab_create_entry, ab_update_entry, ab_move_entry, ab_copy_entry,
                       ab_delete_entry, ab_delete_folder, BeginOne
  <2> QED BY <2>1, Zenon DEF Begin
<1> QED BY <1>1, <1>2, <1>3

Replaced(p) == store[p] # None /\ store'[p] \notin {None, store[p]}

LEMMA DeleteReplacesNothing ==
    ASSUME TypeOK, NEW w, NEW a, delete_entry(w, a), NEW p \in Place
    PROVE  ~ Replaced(p)
<1>1. store' = [store EXCEPT ![w] = None]
  BY Zenon DEF delete_entry
<1> QED BY <1>1 DEF TypeOK, Replaced

LEMMA CopyReplacesNothing ==
    ASSUME TypeOK, NEW w, NEW e, put_entry_if_absent(w, e), NEW p \in Place
    PROVE  ~ Replaced(p)
<1>1. store[w] = None /\ store' = [store EXCEPT ![w] = e]
  BY Zenon DEF put_entry_if_absent, write_entry
<1> QED BY <1>1 DEF TypeOK, Replaced

LEMMA WriteReplaces ==
    ASSUME TypeOK, NEW w, NEW e, NEW a, write_entry(w, e, a), NEW p \in Place, Replaced(p)
    PROVE  p = w
<1>1. store' = [store EXCEPT ![w] = e]
  BY Zenon DEF write_entry
<1> QED BY <1>1 DEF TypeOK, Replaced

LEMMA ReplacedByPut ==
    ASSUME TypeOK, NEW r \in Req, NEW p \in Place, Replaced(p),
           CopyWrite(r) \/ Delete(r) \/ Put(r) \/ Wipe(r) \/ CutLate(r)
    PROVE  pc[r] = "put" /\ job[r].src = p
<1>1. CASE CopyWrite(r)
  <2>1. put_entry_if_absent(Target(job[r]), job[r].full)
    BY <1>1, Zenon DEF CopyWrite
  <2> QED BY <2>1, CopyReplacesNothing
<1>2. CASE Delete(r)
  <2>1. delete_entry(Source(job[r]), job[r].op = "delete")
    BY <1>2, Zenon DEF Delete
  <2> QED BY <2>1, DeleteReplacesNothing, Zenon
<1>3. CASE Wipe(r)
  <2>1. (\E w : delete_entry(w, TRUE)) \/ store' = store
    BY <1>3 DEF Wipe
  <2> QED BY <2>1, DeleteReplacesNothing DEF Replaced
<1>4. CASE pc[r] = "put" /\ put_entry(job[r])
  BY <1>4, WriteReplaces, Zenon DEF put_entry
<1>5. CASE Put(r)
  <2>1. pc[r] = "put" /\ put_entry(job[r])
    BY <1>5, Zenon DEF Put
  <2> QED BY <1>4, <2>1
<1>6. CASE CutLate(r)
  <2>1. \/ pc[r] = "put" /\ put_entry(job[r])
        \/ put_entry_if_absent(Target(job[r]), job[r].full)
        \/ delete_entry(Source(job[r]), job[r].op = "delete")
    BY <1>6, Zenon DEF CutLate
  <2>2. CASE put_entry_if_absent(Target(job[r]), job[r].full)
    BY <2>2, CopyReplacesNothing
  <2>3. CASE delete_entry(Source(job[r]), job[r].op = "delete")
    BY <2>3, DeleteReplacesNothing, Zenon
  <2> QED BY <1>4, <2>1, <2>2, <2>3
<1> QED BY <1>1, <1>2, <1>3, <1>5, <1>6

\* However requests overlap, fail and are dropped, what is stored is
\* replaced only by a request that names the place to write it: the copy
\* behind move, copy, bulk and ?move=true never overwrites an entry
\* (put_entry_if_absent).
THEOREM NothingOverwritten == Spec => NeverOverwritten
<1> DEFINE Named == \A p \in Place :
                        store[p] # None /\ store'[p] \notin {None, store[p]}
                        => \E r \in Req : pc[r] = "put" /\ job[r].src = p
<1>1. ASSUME BookInv, [Next]_vars PROVE [Named]_vars
  <2> SUFFICES ASSUME NEW p \in Place, Replaced(p)
               PROVE  \E r \in Req : pc[r] = "put" /\ job[r].src = p
    BY Zenon DEF Replaced
  <2>1. TypeOK
    BY <1>1 DEF BookInv
  <2>2. store' # store
    BY DEF Replaced
  <2>3. PICK r \in Req : CopyWrite(r) \/ Delete(r) \/ Put(r) \/ Wipe(r) \/ CutLate(r)
    <3>1. ~ UNCHANGED vars
      BY <2>2 DEF vars
    <3>2. CASE ab_bulk
      <4>1. \E R, js, at : Begin(R, js, at)
        BY <3>2, Zenon DEF ab_bulk
      <4>2. store' = store
        BY <4>1, Zenon DEF Begin
      <4> QED BY <2>2, <4>2
    <3>3. CASE ~ ab_bulk
      BY <1>1, <2>2, <3>1, <3>3, StoreStays, Zenon DEF Next
    <3> QED BY <3>2, <3>3
  <2> QED BY <2>1, <2>3, ReplacedByPut
<1>2. Spec => [][Named]_vars
  BY <1>1, BookInvariant, PTL DEF Spec
<1> QED BY <1>2 DEF NeverOverwritten
=============================================================================
