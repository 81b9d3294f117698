------------------------------ MODULE AddressBook ------------------------------
(***************************************************************************)
(* The entries of the address book: the admin handlers of api.rs that      *)
(* create, update, sync, move, copy and delete entries and folders, each   *)
(* a sequence of calls to Vault with an await between any two.  Of an      *)
(* entry the model keeps the id it is synced under, the secret stored in   *)
(* it, and its jump host with the credentials of that.                     *)
(*                                                                         *)
(* Any call may fail, a failed write may have landed, and a client that    *)
(* goes away drops its handler at the call it is waiting for.              *)
(***************************************************************************)
EXTENDS Naturals, Sequences, FiniteSets, Functions

CONSTANTS
    Folder,
    ScopeOf,     \* the scope of a folder: "shared" or "instance"
    Subtree,     \* the folders in and below a folder
    Name,
    Renames,     \* the names a bulk request tries after a name
    ExtId,       \* external_id of synced entries
    Secret,      \* passwords and keys
    None,
    Bare,        \* jump_hosts is given, without credentials
    Body,        \* the fields that requests carry
    Req,         \* handlers that may run at a time
    MaxRequests  \* bound: requests made

Place == Folder \X Name
Entry == [ext : ExtId \cup {None}, secret : Secret \cup {None}, hops : Secret \cup {None, Bare}]

ASSUME FolderAssumption ==
    /\ ScopeOf \in [Folder -> {"shared", "instance"}]
    /\ Subtree \in [Folder -> SUBSET Folder]
    /\ \A f \in Folder : f \in Subtree[f]
ASSUME NameAssumption == Renames \in [Name -> Seq(Name)]
ASSUME NoneAssumption == None \notin ExtId \cup Secret \cup Entry
ASSUME BodyAssumption == Bare \notin Secret \cup {None} /\ Body \subseteq Entry
ASSUME RequestAssumption == IsFiniteSet(Req) /\ MaxRequests \in Nat

VARIABLES
    store,   \* what Vault holds at each place, or None
    pc,      \* the call each handler waits for
    job,     \* what it was asked to do, and what it has read
    made,    \* requests made so far
    owed,    \* secrets that were stored and that nobody asked to remove
    past     \* "race": two requests for an entry overlapped; "cut": one
             \* ended in the middle; "clone": an entry was copied; "cross":
             \* one was moved to another scope; "given": a plain POST or PUT
             \* carried an external_id, which nobody looks for elsewhere

vars == <<store, pc, job, made, owed, past>>

InScope(f) == {p \in Place : ScopeOf[p[1]] = ScopeOf[f]}

(* A job: the operation, the entry or folder it is about, the places it    *)
(* tries to put the entry, in order, the fields of the request, the stored *)
(* entry as read, and the folders and entries it has yet to visit.         *)
Job(op, src, tries, data) ==
    [op |-> op, src |-> src, tries |-> tries, data |-> data,
     full |-> None, folders |-> {}, places |-> {}]

NoJob == Job("none", None, <<>>, None)
Op == {"create", "update", "sync", "move", "copy", "delete", "folder"}
Call == {"idle", "locate", "scan", "get", "put_if_absent", "look", "delete",
         "read", "put", "collect", "list", "wipe"}

SecretsOf(e) == IF e = None THEN {} ELSE {e.secret, e.hops} \ {None, Bare}
Carries(p, id) == store[p] # None /\ store[p].ext = id

Init ==
    /\ store = [p \in Place |-> None]
    /\ pc = [r \in Req |-> "idle"]
    /\ job = [r \in Req |-> NoJob]
    /\ made = 0
    /\ owed = {}
    /\ past = {}

-----------------------------------------------------------------------------
(* Vault *)

get_entry(p) == store[p]

list_entries(f) == {p \in Place : p[1] = f /\ store[p] # None}

\* The entry at p becomes e; the secrets G are given up by the request.
write_entry(p, e, G) ==
    /\ store' = [store EXCEPT ![p] = e]
    /\ owed' = (owed \ G) \cup SecretsOf(e)

\* Mutant: written without check-and-set.
put_entry_anyway(p, e) == write_entry(p, e, {})

put_entry_if_absent(p, e) ==
    /\ store[p] = None
    /\ write_entry(p, e, {})

\* Vault reports success for a place that holds nothing.
delete_entry(p, asked) ==
    /\ store' = [store EXCEPT ![p] = None]
    /\ owed' = owed \ (IF asked THEN SecretsOf(store[p]) ELSE {})

-----------------------------------------------------------------------------
(* Handlers start *)

\* The entries a job may overwrite or remove, and the places it may fill if
\* they are free.  A sync may move any entry of its scope.
Changes(j) ==
    CASE j.op \in {"create", "update"} -> {j.src}
      [] j.op = "sync" -> InScope(j.src[1])
      [] j.op \in {"move", "delete"} -> {j.src}
      [] j.op = "folder" -> {p \in Place : p[1] \in Subtree[j.src]}
      [] OTHER -> {}

Fills(j) == IF j.op \in {"move", "copy"} THEN {j.tries[i] : i \in DOMAIN j.tries} ELSE {}

Clash(j, k) ==
    \/ Changes(j) \cap (Changes(k) \cup Fills(k)) # {}
    \/ Changes(k) \cap (Changes(j) \cup Fills(j)) # {}

\* A request that writes an external_id without a search for it.
Gives(j) == j.op \in {"create", "update"} /\ j.data.ext # None

\* Handlers R begin the jobs js with the call at.
Begin(R, js, at) ==
    /\ \A r \in R : pc[r] = "idle"
    /\ made + Cardinality(R) <= MaxRequests
    /\ made' = made + Cardinality(R)
    /\ pc' = [r \in Req |-> IF r \in R THEN at ELSE pc[r]]
    /\ job' = [r \in Req |-> IF r \in R THEN js[r] ELSE job[r]]
    /\ past' = past \cup (IF \E r \in R, q \in Req \ R : Clash(js[r], job[q]) THEN {"race"} ELSE {})
                    \cup (IF \E r \in R : Gives(js[r]) THEN {"given"} ELSE {})
    /\ UNCHANGED <<store, owed>>

BeginOne(r, j, at) == Begin({r}, [q \in {r} |-> j], at)

\* POST .../entries replaces whatever is stored under the name.
ab_create_entry(r) ==
    \E p \in Place, d \in Body : BeginOne(r, Job("create", p, <<>>, d), "put")

\* PUT .../entries/:entry; with ?move=true, as a sync source sends it, only
\* with the external_id of the device.
ab_update_entry(r) ==
    \E p \in Place, d \in Body :
        \/ BeginOne(r, Job("update", p, <<>>, d), "read")
        \/ d.ext # None /\ BeginOne(r, Job("sync", p, <<>>, d), "locate")

ab_move_entry(r) ==
    \E p \in Place : \E g \in Folder \ {p[1]} :
        BeginOne(r, Job("move", p, <<<<g, p[2]>>>>, None), "get")

ab_copy_entry(r) ==
    \E p, q \in Place :
        /\ q # p
        /\ BeginOne(r, Job("copy", p, <<q>>, None), "get")

ab_delete_entry(r) ==
    \E p \in Place : BeginOne(r, Job("delete", p, <<>>, None), "look")

ab_delete_folder(r) ==
    \E f \in Folder : BeginOne(r, Job("folder", f, <<>>, None), "collect")

\* The places a bulk request tries for a name: more than one to rename
\* around a clash.
rename_candidates(g, n, rename) ==
    [i \in 1..(IF rename THEN Len(Renames[n]) + 1 ELSE 1) |->
        <<g, IF i = 1 THEN n ELSE Renames[n][i - 1]>>]

\* Each distinct entry of the request is handled on its own; one that is to
\* move to its own folder is skipped.
ab_bulk ==
    \E R \in SUBSET Req \ {{}}, g \in Folder, rename \in BOOLEAN, op \in {"move", "copy", "delete"} :
        \E item \in Injection(R, Place) :
            /\ op = "move" => \A r \in R : item[r][1] # g
            /\ Begin(R,
                     [r \in R |-> Job(op, item[r],
                                      IF op = "delete" THEN <<>> ELSE rename_candidates(g, item[r][2], rename),
                                      None)],
                     IF op = "delete" THEN "look" ELSE "get")

-----------------------------------------------------------------------------
(* Handlers call Vault *)

Reply(r) ==
    /\ pc' = [pc EXCEPT ![r] = "idle"]
    /\ job' = [job EXCEPT ![r] = NoJob]

Then(r, call, j) ==
    /\ pc' = [pc EXCEPT ![r] = call]
    /\ job' = [job EXCEPT ![r] = j]

Read == UNCHANGED <<store, owed, made, past>>

\* relocate_by_external_id: what is stored at the target decides whether the
\* scope is searched.  Another device's entry is left alone.
Locate(r) ==
    LET j == job[r]
        there == get_entry(j.src) IN
    /\ pc[r] = "locate"
    /\ CASE there # None /\ there.ext = j.data.ext -> Then(r, "read", j)
         [] there # None /\ there.ext \notin {None, j.data.ext} -> Reply(r)
         [] OTHER -> Then(r, "scan", [j EXCEPT !.full = there, !.places = InScope(j.src[1]) \ {j.src}])
    /\ Read

\* The search reads the scope entry by entry, in no order the handler
\* chooses, and collects in tries where it found the id.
Scan(r) ==
    /\ pc[r] = "scan"
    /\ \E p \in job[r].places :
           job' = [job EXCEPT ![r].places = @ \ {p},
                              ![r].tries = IF Carries(p, job[r].data.ext) THEN Append(@, p) ELSE @]
    /\ UNCHANGED pc
    /\ Read

\* Mutant: an entry made by hand adopts the id without a look elsewhere.
FoundAdopts(r) ==
    LET j == job[r] IN
    /\ pc[r] = "scan"
    /\ j.places = {}
    /\ CASE Len(j.tries) = 0 \/ j.full # None -> Then(r, "read", [j EXCEPT !.full = None, !.tries = <<>>])
         [] Len(j.tries) = 1 /\ j.full = None -> Then(r, "get", j)
         [] OTHER -> Reply(r)
    /\ Read

\* None found: create or adopt.  One found, and the target free: move it
\* there.  Otherwise the id would end up on two entries: refuse.
Found(r) ==
    LET j == job[r] IN
    /\ pc[r] = "scan"
    /\ j.places = {}
    /\ CASE Len(j.tries) = 0 -> Then(r, "read", [j EXCEPT !.full = None])
         [] Len(j.tries) = 1 /\ j.full = None -> Then(r, "get", j)
         [] OTHER -> Reply(r)
    /\ Read

\* Where a job takes the entry from that it moves or copies, and where it
\* puts it: a sync brings the entry it found to its own place.
Source(j) == IF j.op = "sync" THEN j.tries[1] ELSE j.src
Target(j) == IF j.op = "sync" THEN j.src ELSE j.tries[1]

\* copy_stored_entry and copy_entry_into read the entry, secrets included.
CopyRead(r) ==
    /\ pc[r] = "get"
    /\ IF get_entry(Source(job[r])) = None
       THEN Reply(r)
       ELSE Then(r, "put_if_absent", [job[r] EXCEPT !.full = get_entry(Source(job[r]))])
    /\ Read

\* ... and write it to the target, which a move then completes.
CopyWrite(r) ==
    /\ pc[r] = "put_if_absent"
    /\ put_entry_if_absent(Target(job[r]), job[r].full)
    /\ IF job[r].op = "copy" THEN Reply(r) ELSE Then(r, "delete", job[r])
    /\ past' = past \cup (IF job[r].op = "copy" THEN {"clone"} ELSE {})
                    \cup (IF Source(job[r]) \in InScope(Target(job[r])[1]) THEN {} ELSE {"cross"})
    /\ UNCHANGED made

\* The target is taken: the next name, if there is one.
CopyTaken(r) ==
    /\ pc[r] = "put_if_absent"
    /\ store[Target(job[r])] # None
    /\ IF job[r].op # "sync" /\ Len(job[r].tries) > 1
       THEN job' = [job EXCEPT ![r].tries = Tail(@)] /\ UNCHANGED pc
       ELSE Reply(r)
    /\ Read

\* The delete handlers look first, to tell a missing entry.
Look(r) ==
    /\ pc[r] = "look"
    /\ IF get_entry(job[r].src) = None THEN Reply(r) ELSE Then(r, "delete", job[r])
    /\ Read

\* The end of a delete, of a move, or of the move in a sync.
Delete(r) ==
    LET j == job[r] IN
    /\ pc[r] = "delete"
    /\ delete_entry(Source(j), j.op = "delete")
    /\ IF j.op = "sync" THEN Then(r, "read", [j EXCEPT !.full = None, !.tries = <<>>]) ELSE Reply(r)
    /\ UNCHANGED <<made, past>>

\* Mutant: the request replaces the entry.
merge_nothing(data, existing) == [data EXCEPT !.ext = IF @ # None THEN @ ELSE existing.ext]

\* Anything the request carries wins, and what it omits is kept: the
\* credentials of a jump host only if the request lists the host.
merge_entry_update(data, existing) ==
    [ext |-> IF data.ext # None THEN data.ext ELSE existing.ext,
     secret |-> IF data.secret # None THEN data.secret ELSE existing.secret,
     hops |-> IF data.hops = Bare /\ existing.hops # None THEN existing.hops ELSE data.hops]

\* upsert_entry reads the entry ...
UpsertRead(r) ==
    LET j == job[r] IN
    /\ pc[r] = "read"
    /\ Then(r, "put", [j EXCEPT !.full = IF get_entry(j.src) = None THEN j.data
                                         ELSE merge_entry_update(j.data, get_entry(j.src))])
    /\ Read

\* The secrets of e that a request gives up: all of them if it replaces the
\* entry, a password if it carries one, and those of the jump host unless it
\* lists the host without any.
GivenUp(j, e) ==
    IF j.op = "create" THEN SecretsOf(e)
    ELSE {s \in SecretsOf(e) : \/ j.data.secret # None /\ s = e.secret
                               \/ j.data.hops # Bare /\ s = e.hops}

\* ... and writes it back merged; a create writes what it was given.
put_entry(j) ==
    write_entry(j.src, IF j.op = "create" THEN j.data ELSE j.full, GivenUp(j, store[j.src]))

Put(r) ==
    /\ pc[r] = "put"
    /\ put_entry(job[r])
    /\ Reply(r)
    /\ UNCHANGED <<made, past>>

\* delete_folder collects the folders; one whose listing fails hides those
\* below it.
Collect(r) ==
    LET all == Subtree[job[r].src] IN
    /\ pc[r] = "collect"
    /\ \E T \in SUBSET all :
           /\ T # {}
           /\ \A f \in T, g \in all : f \in Subtree[g] => g \in T
           /\ Then(r, "list", [job[r] EXCEPT !.folders = T])
    /\ Read

\* It lists a folder's entries; an error counts as none.
List(r) ==
    LET j == job[r] IN
    /\ pc[r] = "list"
    /\ \E f \in j.folders :
           \E P \in {{}, list_entries(f)} :
               Then(r, "wipe", [j EXCEPT !.folders = @ \ {f}, !.places = P])
    /\ Read

\* It deletes them one by one, and goes on if that fails.
Wipe(r) ==
    /\ pc[r] = "wipe"
    /\ \E p \in job[r].places :
           /\ delete_entry(p, TRUE) \/ UNCHANGED <<store, owed>>
           /\ job' = [job EXCEPT ![r].places = @ \ {p}]
    /\ UNCHANGED <<pc, made, past>>

Wiped(r) ==
    /\ pc[r] = "wipe"
    /\ job[r].places = {}
    /\ IF job[r].folders = {} THEN Reply(r) ELSE Then(r, "list", job[r])
    /\ Read

\* A call fails, a second time if Vault refused the token and a new login
\* was tried, or the client goes away: the handler ends where it is.
Cut(r) ==
    /\ pc[r] # "idle"
    /\ Reply(r)
    /\ past' = past \cup {"cut"}
    /\ UNCHANGED <<store, owed, made>>

\* The same, after the write has landed.
CutLate(r) ==
    LET j == job[r] IN
    /\ \/ pc[r] = "put" /\ put_entry(j)
       \/ pc[r] = "put_if_absent" /\ put_entry_if_absent(Target(j), j.full)
       \/ pc[r] = "delete" /\ delete_entry(Source(j), j.op = "delete")
    /\ Reply(r)
    /\ past' = past \cup {"cut"}
    /\ UNCHANGED made

-----------------------------------------------------------------------------

Next ==
    \/ ab_bulk
    \/ \E r \in Req :
           \/ ab_create_entry(r) \/ ab_update_entry(r) \/ ab_move_entry(r)
           \/ ab_copy_entry(r) \/ ab_delete_entry(r) \/ ab_delete_folder(r)
           \/ Locate(r) \/ Scan(r) \/ Found(r)
           \/ CopyRead(r) \/ CopyWrite(r) \/ CopyTaken(r)
           \/ Look(r) \/ Delete(r) \/ UpsertRead(r) \/ Put(r)
           \/ Collect(r) \/ List(r) \/ Wipe(r) \/ Wiped(r)
           \/ Cut(r) \/ CutLate(r)

Spec == Init /\ [][Next]_vars

-----------------------------------------------------------------------------
(* Properties *)

JobRecord ==
    [op : Op, src : Place \cup Folder, tries : Seq(Place), data : Entry \cup {None},
     full : Entry \cup {None}, folders : SUBSET Folder, places : SUBSET Place]
JobType == JobRecord \cup {NoJob}

\* The stored entries, and what the handlers of api.rs keep of a request
\* between two calls to Vault.
TypeOK ==
    /\ store \in [Place -> Entry \cup {None}]
    /\ pc \in [Req -> Call]
    /\ job \in [Req -> JobType]
    /\ made \in 0..MaxRequests
    /\ owed \subseteq Secret
    /\ past \subseteq {"race", "cut", "clone", "cross", "given"}

\* An update keeps every secret it does not carry, except that one without
\* jump_hosts drops the stored ones with their credentials; and a move copies
\* before it removes.  So, as long as no two requests for an entry overlapped,
\* a secret that no request gave up is stored somewhere, whatever failed
\* (upsert_entry, merge_entry_update, move_stored_entry, copy_entry_into).
SecretsKept ==
    "race" \notin past => \A s \in owed : \E p \in Place : s \in SecretsOf(store[p])

\* However requests overlap, what is stored at a place is replaced only by
\* a request that names the place to write it: the copy behind move, copy,
\* bulk and ?move=true never overwrites an entry.
NeverOverwritten ==
    [][\A p \in Place :
           store[p] # None /\ store'[p] \notin {None, store[p]}
           => \E r \in Req : pc[r] = "put" /\ job[r].src = p]_vars

\* An external_id is on one entry of a scope, or on two while one of them
\* is being moved: a sync adopts an entry, or creates one, only if no other
\* carries the id (relocate_by_external_id).  Plain requests that carry an id,
\* copies and moves across scopes write it without a look.
IdOnOneEntry ==
    past = {} =>
        \A id \in ExtId : \A p \in Place : \A q \in InScope(p[1]) :
            p # q /\ Carries(p, id) /\ Carries(q, id)
            => \E r \in Req : pc[r] = "delete" /\ job[r].op # "delete" /\ Source(job[r]) \in {p, q}
=============================================================================
