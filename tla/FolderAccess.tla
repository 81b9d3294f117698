------------------------------ MODULE FolderAccess ------------------------------
(***************************************************************************)
(* Who may open a folder of the address book, and which credentials a      *)
(* folder lends: the .config and .defaults that Vault keeps beside a       *)
(* folder's entries, the walks up the tree that read them, and the admin   *)
(* handlers that write them.  A walk reads one folder at a time, so that   *)
(* any other request may come between two of its reads.                    *)
(*                                                                         *)
(* The model follows one session type: of a folder's .defaults it keeps    *)
(* which parts of the credentials they hold for it.                        *)
(***************************************************************************)
EXTENDS Naturals, Sequences, FiniteSets

CONSTANTS
    Folder,
    Path,        \* a folder and those above it, up to the top
    User,
    Group,
    GroupsOf,    \* the OIDC groups of a user
    Part,        \* of credentials: a name, a secret
    Given,       \* the configurations that requests write
    None,
    Req,         \* handlers that may run at a time
    MaxRequests, \* bound: requests made
    MaxLending   \* bound: folders that lend at first

Config == [groups : SUBSET Group, users : SUBSET User, inherit : BOOLEAN]
Credentials == SUBSET Part

ASSUME PathAssumption ==
    /\ Path \in [Folder -> Seq(Folder)]
    /\ \A f \in Folder : Len(Path[f]) > 0 /\ Path[f][1] = f
    /\ \A f \in Folder : \A i \in 1..Len(Path[f]) :
           /\ Len(Path[Path[f][i]]) = Len(Path[f]) - i + 1
           /\ \A j \in i..Len(Path[f]) : Path[Path[f][i]][j - i + 1] = Path[f][j]
ASSUME GroupsOfAssumption == GroupsOf \in [User -> SUBSET Group]
ASSUME GivenAssumption == Given \subseteq Config
ASSUME NoneAssumption == None \notin Config \cup Folder \cup User
ASSUME BoundsAssumption == MaxRequests \in Nat /\ MaxLending \in Nat

VARIABLES
    config,    \* the .config of each folder, or None
    defaults,  \* what its .defaults hold
    pc,        \* the call each handler waits for
    job,       \* what it was asked to do, and what it has read
    made,      \* requests made so far
    past       \* what has happened to a deletion: "cut" short, or "race"

vars == <<config, defaults, pc, job, made, past>>

Top == {f \in Folder : Len(Path[f]) = 1}
Children(f) == {g \in Folder : Len(Path[g]) > 1 /\ Path[g][2] = f}
Subtree(f) == {g \in Folder : \E i \in 1..Len(Path[g]) : Path[g][i] = f}

(* A job: the operation, the user who asked, the folder, the place of its  *)
(* walk (a folder and how far above it), the folders yet to visit, those   *)
(* it found open, what it will write, and the folder whose defaults it     *)
(* has taken.  snap is the configuration when a user's request began, and  *)
(* during what happened since: the code keeps neither.                     *)
Job(op, who, f, data) ==
    [op |-> op, who |-> who, folder |-> f, at |-> f, i |-> 1, todo |-> {}, open |-> {},
     data |-> data, gives |-> {}, keeps |-> {}, lent |-> None,
     snap |-> IF who = None THEN None ELSE config, during |-> {}]

NoJob == [op |-> "none"]
Call == {"idle", "access", "entry", "lend", "climb", "done",
         "read", "config", "defaults", "put", "lends", "collect", "wipe_config", "wipe_defaults"}

\* What an admin stored before the model begins.
Init ==
    /\ config \in [Folder -> Given \cup {None}]
    /\ defaults \in [Folder -> Credentials]
    /\ \A f \in Folder : config[f] = None => defaults[f] = {}
    /\ Cardinality({f \in Folder : defaults[f] # {}}) <= MaxLending
    /\ pc = [r \in Req |-> "idle"]
    /\ job = [r \in Req |-> NoJob]
    /\ made = 0
    /\ past = {}

-----------------------------------------------------------------------------
(* FolderConfig *)

grants(c, u) == c.groups \cap GroupsOf[u] # {} \/ u \in c.users

\* Mutant: a folder that inherits and admits others too takes part.
shares_inherited(c) == c.inherit

shares_parent_audience(c) == c.inherit /\ c.groups = {} /\ c.users = {}

-----------------------------------------------------------------------------
(* Vault *)

\* The jobs, with what happened to the users' requests in flight.
Tell(jobs, what) ==
    [q \in Req |-> IF jobs[q] = NoJob \/ jobs[q].who = None THEN jobs[q]
                   ELSE [jobs[q] EXCEPT !.during = @ \cup {what}]]

Then(r, call, j) ==
    /\ pc' = [pc EXCEPT ![r] = call]
    /\ job' = [job EXCEPT ![r] = j]

Reply(r) == Then(r, "idle", NoJob)

Stored == UNCHANGED <<config, defaults, made, past>>

\* r writes a .config, and ends.
put_folder_config(r, f, c) ==
    /\ config' = [config EXCEPT ![f] = c]
    /\ pc' = [pc EXCEPT ![r] = "idle"]
    /\ job' = Tell([job EXCEPT ![r] = NoJob], "put")
    /\ UNCHANGED <<defaults, made, past>>

\* With nothing left to lend the key is removed.
put_folder_defaults(r, f, d) ==
    /\ defaults' = [defaults EXCEPT ![f] = d]
    /\ Reply(r)
    /\ UNCHANGED <<config, made, past>>

-----------------------------------------------------------------------------
(* Handlers start *)

\* Deleting a folder and lending from one of the same tree overlap.
Clash(j, k) ==
    /\ j # NoJob /\ k # NoJob
    /\ j.op = "delete_folder" /\ k.op = "put_defaults" /\ k.folder \in Subtree(j.folder)

\* Bound: one user's request at a time.  They only read, so that two do
\* not disturb each other.
OneReader(j) == j.who # None => \A q \in Req : job[q] # NoJob => job[q].who = None

Begin(r, j, at) ==
    /\ pc[r] = "idle"
    /\ made < MaxRequests /\ OneReader(j)
    /\ made' = made + 1
    /\ Then(r, at, j)
    /\ past' = past \cup (IF \E q \in Req : Clash(j, job[q]) \/ Clash(job[q], j) THEN {"race"} ELSE {})
    /\ UNCHANGED <<config, defaults>>

\* A folder is opened, with what it lends to its entries ...
Open(r, F) == \E u \in User, f \in F : Begin(r, Job("open", u, f, None), "access")

\* ... or looked for: one the user may open, or one above such a folder.
Show(r, F) == \E u \in User, f \in F : Begin(r, Job("visible", u, f, None), "access")

\* The connect endpoint; a link opens an entry in the same way.
ab_connect_entry(r) == Open(r, Folder)

\* The listings handle folder after folder, each of them in this way.
ab_list_entries(r) == Open(r, Folder)
ab_list_folders(r) == Show(r, Top)
ab_list_subfolders(r) == Show(r, Folder)
ab_list_all(r) == Open(r, Top) \/ Show(r, Top)

\* The folders whose entries the search index lists, from the top; those
\* whose credential variables are gathered are found in the same way.
ab_search_index(r) ==
    \E u \in User, f \in Top :
        Begin(r, [Job("index", u, f, None) EXCEPT !.todo = Top \ {f}], "access")

ab_create_folder(r) ==
    \E f \in Folder, c \in Given : Begin(r, Job("config", None, f, c), "put")

\* A request may leave the users out, which keeps the stored ones.
ab_update_folder(r) ==
    \E f \in Folder, c \in Given :
        \/ Begin(r, Job("config", None, f, c), "put")
        \/ Begin(r, Job("config", None, f, c), "read")

\* A patch sets, clears or keeps each part; null, which removes the type,
\* clears both.
ab_put_folder_defaults(r) ==
    \E f \in Folder, gives \in Credentials : \E keeps \in SUBSET (Part \ gives) :
        Begin(r, [Job("put_defaults", None, f, None) EXCEPT !.gives = gives, !.keeps = keeps], "config")

ab_delete_folder_defaults(r) ==
    \E f \in Folder : Begin(r, Job("put_defaults", None, f, None), "lends")

ab_delete_folder(r) ==
    \E f \in Folder : Begin(r, Job("delete_folder", None, f, None), "collect")

-----------------------------------------------------------------------------
(* Who may open a folder *)

\* The folder at the job's place of its walk.
Here(j) == Path[j.at][j.i]

\* A listing goes on to the folders below and to those left.
GoOn(r, j, below) ==
    LET todo == j.todo \cup below IN
    IF todo = {} THEN Then(r, "done", j)
    ELSE \E g \in todo : Then(r, "access", [j EXCEPT !.at = g, !.i = 1, !.todo = todo \ {g}])

\* check_folder_access lets the user in.
Granted(r) ==
    LET j == [job[r] EXCEPT !.open = @ \cup {job[r].at}] IN
    CASE j.op = "open" -> Then(r, "entry", j)
      [] j.op = "visible" -> Then(r, "done", j)
      [] j.op = "index" -> GoOn(r, j, Children(j.at))

\* ... or not, which ends an opening.
Refused(r, j, below) ==
    IF j.op = "open" THEN Then(r, "done", j) ELSE GoOn(r, j, below)

\* Mutant: a folder without a .config is open to its parent's audience.
resolve_folder_missing(r) ==
    LET j == job[r]
        c == config[Here(j)] IN
    /\ pc[r] = "access"
    /\ \/ c # None /\ grants(c, j.who) /\ Granted(r)
       \/ /\ c # None => ~grants(c, j.who) /\ c.inherit
          /\ j.i < Len(Path[j.at])
          /\ Then(r, "access", [j EXCEPT !.i = @ + 1])
       \/ /\ c # None => ~grants(c, j.who) /\ (c.inherit => j.i = Len(Path[j.at]))
          /\ c = None => j.i = Len(Path[j.at])
          /\ Refused(r, j, Children(j.at))
    /\ Stored

\* One step of the walk up.  A missing .config denies.
resolve_folder_access(r) ==
    LET j == job[r]
        c == config[Here(j)] IN
    /\ pc[r] = "access"
    /\ \/ c # None /\ grants(c, j.who) /\ Granted(r)
       \/ /\ c # None /\ ~grants(c, j.who) /\ c.inherit /\ j.i < Len(Path[j.at])
          /\ Then(r, "access", [j EXCEPT !.i = @ + 1])
       \/ /\ c # None => ~grants(c, j.who) /\ (c.inherit => j.i = Len(Path[j.at]))
          /\ Refused(r, j, Children(j.at))
    /\ Stored

\* A read of the walk fails, or the listing of the folders below does: a
\* folder that cannot be read is not open.
folder_or_descendant_accessible(r) ==
    LET j == [job[r] EXCEPT !.during = @ \cup {"fail"}] IN
    /\ pc[r] = "access"
    /\ \E below \in {{}, Children(j.at)} : Refused(r, j, below)
    /\ Stored

-----------------------------------------------------------------------------
(* What a folder lends *)

\* An entry is read.  One with a secret of its own, or set to prompt,
\* takes nothing, and a missing one ends the request.
lend_folder_defaults(r) ==
    /\ pc[r] = "entry"
    /\ \/ Then(r, "done", job[r])
       \/ Then(r, "lend", [job[r] EXCEPT !.i = 1])
    /\ Stored

\* The walk reads a folder's .defaults; the nearest that has any wins, even
\* if it only names a user.
folder_defaults(r) ==
    LET j == job[r] IN
    /\ pc[r] = "lend"
    /\ Then(r, IF j.i = Len(Path[j.at]) THEN "done" ELSE "climb",
            [j EXCEPT !.lent = IF @ = None /\ defaults[Here(j)] # {}
                               THEN [from |-> Here(j), what |-> defaults[Here(j)]] ELSE @])
    /\ Stored

\* ... and its .config, for whether what lies above reaches into it.
takes_parent_defaults(r) ==
    LET j == job[r]
        c == config[Here(j)] IN
    /\ pc[r] = "climb"
    /\ IF c # None /\ shares_parent_audience(c)
       THEN Then(r, "lend", [j EXCEPT !.i = @ + 1])
       ELSE Then(r, "done", j)
    /\ Stored

\* A read fails: the entry is left as it was, and the user is asked.
LendingFails(r) ==
    /\ pc[r] \in {"entry", "lend", "climb"}
    /\ Then(r, "done", [job[r] EXCEPT !.lent = None, !.during = @ \cup {"fail"}])
    /\ Stored

\* The answer goes to the browser, or into a session.
Answer(r) ==
    /\ pc[r] = "done"
    /\ Reply(r)
    /\ Stored

-----------------------------------------------------------------------------
(* Admin handlers *)

\* ab_update_folder reads what the request leaves out.
ReadExisting(r) ==
    LET j == job[r] IN
    /\ pc[r] = "read"
    /\ Then(r, "put", [j EXCEPT !.data.users = IF config[j.folder] = None THEN {} ELSE config[j.folder].users])
    /\ Stored

PutConfig(r) ==
    /\ pc[r] = "put"
    /\ put_folder_config(r, job[r].folder, job[r].data)

\* Mutant: defaults are lent to a folder that nobody created.
FolderAnyway(r) ==
    /\ pc[r] = "config"
    /\ Then(r, "defaults", job[r])
    /\ Stored

\* Only a folder that exists may lend.
FolderExists(r) ==
    /\ pc[r] = "config"
    /\ IF config[job[r].folder] = None THEN Reply(r) ELSE Then(r, "defaults", job[r])
    /\ Stored

\* An omitted part keeps what is stored.
ReadDefaults(r) ==
    LET j == job[r] IN
    /\ pc[r] = "defaults"
    /\ Then(r, "lends", [j EXCEPT !.gives = @ \cup (j.keeps \cap defaults[j.folder]), !.keeps = {}])
    /\ Stored

PutDefaults(r) ==
    /\ pc[r] = "lends"
    /\ put_folder_defaults(r, job[r].folder, job[r].gives)

\* delete_folder finds the folders below, except under one it cannot list.
Collect(r) ==
    LET j == job[r] IN
    /\ pc[r] = "collect"
    /\ \E T \in SUBSET Subtree(j.folder) :
           /\ j.folder \in T
           /\ \A g \in T \ {j.folder} : Path[g][2] \in T
           /\ Then(r, "wipe_config", [j EXCEPT !.todo = T])
    /\ Stored

\* The folder whose turn it is: those above go first.
Turn(r, f) ==
    f \in job[r].todo /\ \A g \in job[r].todo : Len(Path[f]) <= Len(Path[g])

\* Its entries are gone; its .config goes, unless the call fails, which
\* nobody notices ...
WipeConfig(r) ==
    /\ pc[r] = "wipe_config"
    /\ \E f \in Folder :
           /\ Turn(r, f)
           /\ pc' = [pc EXCEPT ![r] = "wipe_defaults"]
           /\ \/ /\ config' = [config EXCEPT ![f] = None]
                 /\ job' = Tell([job EXCEPT ![r].at = f], "delete")
                 /\ UNCHANGED past
              \/ /\ job' = [job EXCEPT ![r].at = f]
                 /\ past' = past \cup {"cut"}
                 /\ UNCHANGED config
    /\ UNCHANGED <<defaults, made>>

\* ... and so do its .defaults.
WipeDefaults(r) ==
    LET j == job[r]
        rest == j.todo \ {j.at} IN
    /\ pc[r] = "wipe_defaults"
    /\ pc' = [pc EXCEPT ![r] = IF rest = {} THEN "idle" ELSE "wipe_config"]
    /\ job' = [job EXCEPT ![r] = IF rest = {} THEN NoJob ELSE [j EXCEPT !.todo = rest]]
    /\ \/ defaults' = [defaults EXCEPT ![j.at] = {}] /\ UNCHANGED past
       \/ past' = past \cup {"cut"} /\ UNCHANGED defaults
    /\ UNCHANGED <<config, made>>

\* The client goes away, or a call that is not forgiven fails.
Cut(r) ==
    /\ pc[r] # "idle"
    /\ Reply(r)
    /\ past' = past \cup (IF job[r].op = "delete_folder" THEN {"cut"} ELSE {})
    /\ UNCHANGED <<config, defaults, made>>

-----------------------------------------------------------------------------

Next == \E r \in Req :
    \/ ab_connect_entry(r) \/ ab_list_entries(r) \/ ab_search_index(r)
    \/ ab_list_folders(r) \/ ab_list_subfolders(r) \/ ab_list_all(r)
    \/ ab_create_folder(r) \/ ab_update_folder(r)
    \/ ab_put_folder_defaults(r) \/ ab_delete_folder_defaults(r) \/ ab_delete_folder(r)
    \/ resolve_folder_access(r) \/ folder_or_descendant_accessible(r)
    \/ lend_folder_defaults(r) \/ folder_defaults(r) \/ takes_parent_defaults(r)
    \/ LendingFails(r) \/ Answer(r)
    \/ ReadExisting(r) \/ PutConfig(r)
    \/ FolderExists(r) \/ ReadDefaults(r) \/ PutDefaults(r)
    \/ Collect(r) \/ WipeConfig(r) \/ WipeDefaults(r) \/ Cut(r)

Spec == Init /\ [][Next]_vars

-----------------------------------------------------------------------------
(* Properties *)

JobType ==
    [op : {"open", "visible", "index", "config", "put_defaults", "delete_folder"},
     who : User \cup {None}, folder : Folder, at : Folder, i : Nat, todo : SUBSET Folder,
     open : SUBSET Folder,
     data : Config \cup {None}, gives : Credentials, keeps : Credentials,
     lent : [from : Folder, what : Credentials] \cup {None},
     snap : [Folder -> Config \cup {None}] \cup {None},
     during : SUBSET {"put", "delete", "fail"}] \cup {NoJob}

\* What Vault holds of a folder beside its entries, and what the handlers
\* keep between two calls.  A walk stays on its path, whose end it must
\* notice.
TypeOK ==
    /\ config \in [Folder -> Config \cup {None}]
    /\ defaults \in [Folder -> Credentials]
    /\ pc \in [Req -> Call]
    /\ job \in [Req -> JobType]
    /\ \A r \in Req : job[r] # NoJob => job[r].i \in 1..Len(Path[job[r].at])
    /\ made \in 0..MaxRequests
    /\ past \subseteq {"cut", "race"}

\* Those who may open a folder: it, or one above it that admits them, with
\* every folder from it up to there set to inherit.
Reach(cfg, u, f) ==
    \E i \in 1..Len(Path[f]) :
        /\ cfg[Path[f][i]] # None /\ grants(cfg[Path[f][i]], u)
        /\ \A k \in 1..(i - 1) : cfg[Path[f][k]] # None /\ cfg[Path[f][k]].inherit

\* Unless a .config was written meanwhile, a request opens no folder that
\* its user could not open when it began, even as folders are deleted; and
\* if no .config changed and no call failed it opens every one that it
\* should: the folder it names, some folder below the one a listing hides,
\* or all that the user can reach (resolve_folder_access,
\* folder_or_descendant_accessible, ab_search_index).
OpensTheRightFolders ==
    \A r \in Req : pc[r] = "done" =>
        LET j == job[r]
            Right == {f \in Folder : Reach(j.snap, j.who, f)} IN
        /\ "put" \notin j.during => j.open \subseteq Right
        /\ j.during \cap {"put", "delete", "fail"} = {} =>
               CASE j.op = "open" -> j.open = Right \cap {j.folder}
                 [] j.op = "visible" -> j.open = {} => Right \cap Subtree(j.folder) = {}
                 [] j.op = "index" -> j.open = Right

\* A secret set on a folder reaches only people who could already open that
\* folder, unless a .config was written while they connected
\* (resolve_effective_defaults, shares_parent_audience).
LentWithinAudience ==
    \A r \in Req : pc[r] = "done" /\ job[r].lent # None /\ "put" \notin job[r].during
        => Reach(job[r].snap, job[r].who, job[r].lent.from)

\* Credentials are never left behind on a folder without a .config, which
\* the next folder of that name would lend to other people: unless its
\* deletion was cut short, failed in part or met a change of its defaults
\* (ab_put_folder_defaults, delete_folder).
DefaultsHaveAFolder ==
    past = {} => \A f \in Folder : defaults[f] # {} /\ config[f] = None
        => \E r \in Req : pc[r] = "wipe_defaults" /\ job[r].at = f
=============================================================================
