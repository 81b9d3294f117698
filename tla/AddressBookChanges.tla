-------------------------- MODULE AddressBookChanges --------------------------
(***************************************************************************)
(* How a Connections page hears of changes to the address book: the        *)
(* requests that change it, the middleware that logs each one after its    *)
(* response (ab_change_track), the bounded change log, and a page that     *)
(* polls it (connections.html).  Pages do not interact: one is enough.     *)
(*                                                                         *)
(* Of the page the model follows its copy of one folder, Watched, which    *)
(* stands for each of them, and of its reads only when they are due: the   *)
(* copy is stale from when the folder is written until the page is told    *)
(* to forget it or to read it again.                                       *)
(***************************************************************************)
EXTENDS Integers, Sequences, FiniteSets

CONSTANTS
    Folder,
    NoFolder,
    Watched,     \* the folder whose copy is followed
    Above,       \* Watched and the folders it lies in
    Req,         \* requests that may be in flight at a time
    LogLen,      \* AB_CHANGE_LOG_LEN
    MaxChecked,  \* AB_VERSION_MAX_CHECKED_ROWS
    MaxVersion,  \* bound: changes logged by a process
    MaxEpoch     \* bound: restarts

ASSUME FolderAssumption ==
    NoFolder \notin Folder /\ Watched \in Above /\ Above \subseteq Folder
ASSUME BoundAssumption ==
    LogLen \in Nat \ {0} /\ MaxChecked \in Nat /\ MaxVersion \in Nat /\ MaxEpoch \in Nat

VARIABLES
    version, recent, oldest_complete,  \* AbChangeLog
    epoch,
    request,   \* the request each slot carries, or Idle
    wrote,     \* has it written Watched?
    open,      \* does Watched exist, and may the page's user open it?
    admin,     \* is the page's user an admin?
    poll,      \* "idle", "sent", "logged" (the log is read), "answered"
    answer,    \* version, epoch and rows on their way to the page
    checked,   \* rows of the answer that have been vetted for the user
    liveVersion, liveEpoch,
    loaded,    \* has the page read Watched?
    stale,     \* ... and was it written since, and the page not told?
    unlogged,  \* ... by a request that ended without a log entry
    early      \* ... and no request left to tell of it after the baseline

log == <<version, recent, oldest_complete, epoch>>
book == <<request, wrote, open, admin>>
polling == <<poll, answer, checked>>
page == <<liveVersion, liveEpoch, loaded, stale, unlogged, early>>
vars == <<log, book, polling, page>>

NoVersion == -1

-----------------------------------------------------------------------------
(* Rows and requests *)

Entries(f) == [kind |-> "entries", folder |-> f]
Tree(f) == [kind |-> "tree", folder |-> f]
TreeAnywhere == Tree(NoFolder)
All == [kind |-> "all", folder |-> NoFolder]
Row == [kind : {"entries", "tree"}, folder : Folder] \cup {TreeAnywhere, All}

\* Does a row tell of Watched, so that livePlan forgets the copy or has it
\* read again?
Tells(row) ==
    \/ row.folder \in {NoFolder, Watched}
    \/ row.kind = "tree" /\ row.folder \in Above

\* A request: the rows its path names, whether that is all of them, the rows
\* its handler reports (none: <<>>), and whether the handler writes Watched.
Request(path, complete, reported, writes) ==
    [path |-> path, complete |-> complete, reported |-> reported, writes |-> writes]

Idle == Request(<<>>, TRUE, <<>>, FALSE)

\* An entry is written or deleted.
EntryRequests == {Request(<<Entries(f)>>, TRUE, <<>>, f = Watched) : f \in Folder}

\* A folder is changed or deleted, with what is below it; created; given
\* default credentials, which the folders below it share.
FolderRequests ==
    {Request(<<Tree(f)>>, TRUE, <<>>, f \in Above) : f \in Folder}
    \cup {Request(<<>>, FALSE, <<Tree(f)>>, f = Watched) : f \in Folder}
    \cup {Request(<<>>, FALSE, <<>>, f \in Above) : f \in Folder}

\* POST .../move or .../copy names its target in the body; PUT ...?move=true
\* finds the entry in another folder.
Moves ==
    UNION {{Request(<<Entries(f)>>, FALSE, <<Entries(f), Entries(g)>>, Watched \in {f, g}) : g \in Folder}
           \cup {Request(<<Entries(f)>>, TRUE, <<Entries(g), Entries(f)>>, Watched \in {f, g}) : g \in Folder} :
           f \in Folder}

\* A bulk request reports the folder of each entry, and the target of a move.
Bulk ==
    UNION {{Request(<<>>, FALSE, <<Entries(f)>>, f = Watched)}
           \cup {Request(<<>>, FALSE, <<Entries(f), Entries(g)>>, Watched \in {f, g}) : g \in Folder \ {f}} :
           f \in Folder}

ab_changes_for_request == EntryRequests \cup FolderRequests \cup Moves \cup Bulk

\* What ab_change_track logs for a success.
Found(q) ==
    q.path \o q.reported
    \o (IF q.complete \/ q.reported # <<>> THEN <<>> ELSE <<All>>)

Rows(s) == {s[i] : i \in 1..Len(s)}
ChangesFolders(q) == \E row \in Rows(Found(q)) : row.kind = "tree"

Init ==
    /\ version = 0 /\ recent = <<>> /\ oldest_complete = 0 /\ epoch = 0
    /\ request = [r \in Req |-> Idle] /\ wrote = [r \in Req |-> FALSE]
    /\ open \in BOOLEAN /\ admin \in BOOLEAN
    /\ poll = "sent" /\ answer = [version |-> 0, epoch |-> 0, rows |-> {}] /\ checked = {}
    /\ liveVersion = NoVersion /\ liveEpoch = 0
    /\ loaded = FALSE /\ stale = FALSE /\ unlogged = FALSE /\ early = FALSE

-----------------------------------------------------------------------------
(* The log *)

Larger(m, n) == IF m > n THEN m ELSE n

\* record: one new version for the rows of a request; the rows that no longer
\* fit leave at the front, and what remains of their versions is incomplete.
Pushed(rows) == recent \o [i \in 1..Len(rows) |-> [v |-> version + 1, row |-> rows[i]]]
Evicted(rows) == Larger(0, Len(Pushed(rows)) - LogLen)

CompleteForgetsEviction(rows) == IF recent = <<>> THEN version + 1 ELSE oldest_complete \* mutant
Complete(rows) ==
    LET base == IF recent = <<>> THEN version + 1 ELSE oldest_complete
    IN  IF Evicted(rows) = 0 THEN base ELSE Larger(base, Pushed(rows)[Evicted(rows)].v + 1)

record(rows) ==
    /\ version' = version + 1
    /\ recent' = SubSeq(Pushed(rows), Evicted(rows) + 1, Len(Pushed(rows)))
    /\ oldest_complete' = Complete(rows)
    /\ UNCHANGED epoch

\* since: the rows after version n; All stands for "changes: null" too.
since(n) ==
    LET rows == {recent[i].row : i \in {j \in DOMAIN recent : recent[j].v > n}}
    IN  IF n = version THEN {}
        ELSE IF n > version \/ recent = <<>> \/ n + 1 < oldest_complete \/ All \in rows
        THEN {All}
        ELSE rows

-----------------------------------------------------------------------------
(* Requests *)

Begin(r) ==
    /\ request[r] = Idle
    /\ \E q \in ab_changes_for_request : request' = [request EXCEPT ![r] = q]
    /\ UNCHANGED <<log, wrote, open, admin, polling, page>>

\* The handler writes Watched; a folder request also decides whether it is
\* there and who may open it.
Write(r) ==
    /\ request[r].writes
    /\ wrote' = [wrote EXCEPT ![r] = TRUE]
    /\ stale' = loaded
    /\ open' \in IF ChangesFolders(request[r]) THEN BOOLEAN ELSE {open}
    /\ UNCHANGED <<log, request, admin, polling, liveVersion, liveEpoch, loaded, unlogged, early>>

Forget(r) ==
    /\ request' = [request EXCEPT ![r] = Idle]
    /\ wrote' = [wrote EXCEPT ![r] = FALSE]

Succeed(r) ==
    /\ request[r] # Idle
    /\ version < MaxVersion
    /\ record(Found(request[r]))
    /\ Forget(r)
    /\ UNCHANGED <<open, admin, polling, page>>

\* A move that could not remove the original fails and reports both folders.
FailIncomplete(r) ==
    /\ request[r] \in Moves
    /\ version < MaxVersion
    /\ record(request[r].reported)
    /\ Forget(r)
    /\ UNCHANGED <<open, admin, polling, page>>

\* A failure that reports nothing is not logged; nor is a request whose client
\* left, so that its future was dropped, whatever it had written.
Fail(r) ==
    /\ request[r] # Idle
    /\ unlogged' = (unlogged \/ (stale /\ wrote[r]))
    /\ Forget(r)
    /\ UNCHANGED <<log, open, admin, polling, liveVersion, liveEpoch, loaded, stale, early>>

\* A new process: an empty log of a new epoch.  Requests, and a poll that is
\* still at the server, die with the old one.
Restart ==
    /\ epoch < MaxEpoch
    /\ epoch' = epoch + 1
    /\ version' = 0 /\ recent' = <<>> /\ oldest_complete' = 0
    /\ request' = [r \in Req |-> Idle] /\ wrote' = [r \in Req |-> FALSE]
    /\ IF poll = "answered" THEN UNCHANGED polling
       ELSE poll' = "idle" /\ checked' = {} /\ UNCHANGED answer
    /\ UNCHANGED <<open, admin, page>>

-----------------------------------------------------------------------------
(* The page *)

NoAnswer == [version |-> 0, epoch |-> 0, rows |-> {}]

\* loadFolders: the first read of the book, issued after the first poll and
\* served at any time relative to it.
Load ==
    /\ ~loaded
    /\ loaded' = TRUE
    /\ UNCHANGED <<log, book, polling, liveVersion, liveEpoch, stale, unlogged, early>>

Poll ==
    /\ poll = "idle"
    /\ poll' = "sent"
    /\ UNCHANGED <<log, book, answer, checked, page>>

Pending == \E r \in Req : wrote[r]

\* A user who is not an admin is not told of too many rows one by one.
Bounded(rows) ==
    IF ~admin /\ All \notin rows /\ Cardinality(rows) > MaxChecked THEN {TreeAnywhere} ELSE rows

\* ab_version reads the log; without `since` it is only asked for its version.
ab_version ==
    /\ poll = "sent"
    /\ poll' = "logged" /\ checked' = {}
    /\ LET rows == IF liveVersion = NoVersion THEN {All} ELSE Bounded(since(liveVersion))
       IN  answer' = [version |-> version, epoch |-> epoch, rows |-> rows]
    /\ early' = IF liveVersion = NoVersion THEN stale /\ ~Pending ELSE early
    /\ UNCHANGED <<log, book, liveVersion, liveEpoch, loaded, stale, unlogged>>

\* ab_changes_visible_to asks Vault row by row: the entries of a folder that
\* the user can open are kept; of a folder change, or where access cannot be
\* found out, only that there was one.
CheckRow(row) ==
    /\ poll = "logged" /\ ~admin
    /\ row \in answer.rows /\ row.folder # NoFolder
    /\ answer' = [answer EXCEPT !.rows = @ \ {row}]
    /\ \/ row.kind = "entries" /\ (row.folder = Watched => open) /\ checked' = checked \cup {row}
       \/ row.kind = "entries" /\ (row.folder = Watched => ~open) /\ UNCHANGED checked
       \/ checked' = checked \cup {TreeAnywhere}
    /\ UNCHANGED <<log, book, poll, page>>

Respond ==
    /\ poll = "logged"
    /\ admin \/ \A row \in answer.rows : row.folder = NoFolder
    /\ poll' = "answered"
    /\ answer' = [answer EXCEPT !.rows = @ \cup checked]
    /\ checked' = {}
    /\ UNCHANGED <<log, book, page>>

PollFails ==
    /\ poll # "idle"
    /\ poll' = "idle" /\ answer' = NoAnswer /\ checked' = {}
    /\ UNCHANGED <<log, book, page>>

\* liveChanges: another epoch is another log, whatever its versions say.
liveChanges == IF answer.epoch # liveEpoch THEN {All} ELSE answer.rows

\* livePoll's answer: the first is the baseline; later ones tell livePlan
\* which copies to forget or read again.
Adopt ==
    /\ poll = "answered"
    /\ poll' = "idle" /\ answer' = NoAnswer
    /\ liveVersion' = answer.version /\ liveEpoch' = answer.epoch
    /\ LET told == liveVersion # NoVersion /\ \E row \in liveChanges : Tells(row)
       IN  /\ stale' = (stale /\ ~told)
           /\ unlogged' = (unlogged /\ ~told)
           /\ early' = (early /\ ~told)
    /\ UNCHANGED <<log, book, checked, loaded>>

-----------------------------------------------------------------------------
RequestNext(r) ==
    \/ Begin(r)
    \/ Write(r)
    \/ Succeed(r) \/ FailIncomplete(r) \/ Fail(r)

Next ==
    \/ \E r \in Req : RequestNext(r)
    \/ Restart
    \/ Load \/ Poll \/ ab_version \/ Respond \/ PollFails \/ Adopt
    \/ \E row \in Row : CheckRow(row)

Spec == Init /\ [][Next]_vars

-----------------------------------------------------------------------------
(* Properties *)

LogType ==
    /\ version \in 0..MaxVersion /\ oldest_complete \in 0..(MaxVersion + 1)
    /\ recent \in Seq([v : 1..MaxVersion, row : Row]) /\ Len(recent) <= LogLen
    /\ epoch \in 0..MaxEpoch
BookType ==
    /\ request \in [Req -> ab_changes_for_request \cup {Idle}]
    /\ wrote \in [Req -> BOOLEAN]
    /\ open \in BOOLEAN /\ admin \in BOOLEAN
PollType ==
    /\ poll \in {"idle", "sent", "logged", "answered"}
    /\ answer \in [version : 0..MaxVersion, epoch : 0..MaxEpoch, rows : SUBSET Row]
    /\ checked \subseteq Row
PageType ==
    /\ liveVersion \in {NoVersion} \cup 0..MaxVersion /\ liveEpoch \in 0..MaxEpoch
    /\ loaded \in BOOLEAN /\ stale \in BOOLEAN /\ unlogged \in BOOLEAN /\ early \in BOOLEAN

\* The log keeps to AB_CHANGE_LOG_LEN, and it, the requests and the poll are
\* what record, ab_change_track and livePoll can make of them.
TypeOK == LogType /\ BookType /\ PollType /\ PageType

\* A page that has caught up with the log does not keep an old copy of a
\* folder its user may open (connections.html, "a change waits for the dialog
\* instead of being missed"): whatever was evicted from the log, withheld
\* because the folder was closed when the poll asked, or logged by another
\* process.  Excepted are changes that no log entry follows, and the load of
\* the page itself, which races its first poll.
CaughtUp == liveVersion = version /\ liveEpoch = epoch
NoChangeMissed == CaughtUp /\ stale /\ open /\ ~Pending => unlogged \/ early
=============================================================================
