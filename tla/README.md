# TLA+ models of rustguac

rustguac is a gateway between browsers and remote desktops: a browser opens a
WebSocket, the server connects it to a `guacd` daemon, and guacd speaks SSH,
RDP, VNC or SPICE to the target. Users come from an OIDC provider, what they may
connect to is an address book kept in Vault, and desktops may be containers the
server starts. This directory holds TLA+ models of the parts of the server where
concurrency, failures and timeouts meet, the TLC configurations that check them,
and TLAPS proofs of the main invariants.

## Inventory

| component | state | operations | hard parts | correct when |
|---|---|---|---|---|
| Session manager (`session.rs`) | map of sessions behind a `RwLock`, each session behind a `Mutex`: status, guacd stream or deferred parameters, `active_connections`, cancellation token, browser, tunnels, drive, shadow tokens | create, take, join, disconnect, complete, error, delete, mint, find a reusable one, two reapers, the pending timeout | create spans many awaits; reapers act on ids they collected earlier; a timeout races the owner | a session is opened once, handed over at most once, ended once, and gives everything back; it always leaves the map |
| WebSocket proxy (`websocket.rs`) | one task per connection | upgrade and owner check, take or join, record, pump, disconnect, complete or error, history, rotation | every step is a critical section of its own; guacd and browser end at any time | one owner, the creator; the connection count is exact; a terminated session's tasks end, unless guacd leaves them waiting |
| guacd client and stream (`guacd.rs`, `protocol.rs`, `binary_blob.rs`, `h264_*.rs`) | carry buffer, splitter, rewriter, dropper and its evidence | handshake, join, pump | reads end anywhere; the decision to drop is made from what was seen so far; stream indices are used again | no instruction is split, and a stream arrives whole or not at all, until a carry is full; no main view misses its reference |
| Recordings (`recording.rs`, `recording_mp4.rs`) | `.guac` files, their `.meta`, MP4 cache and job map | create, tee, rotate per entry, rotate globally, convert, purge | rotation and purge race live writers and conversions | what is offered as ready is complete, every job ends and tidies up; a full disk does not cost the recordings that are being written |
| History and audit (`db.rs`) | SQLite tables | insert, end, query | the end is written by connection tasks only | rows of sessions that are over are closed |
| Browser manager (`browser.rs`) | display and CDP-port ranges, child processes | spawn, kill, login script | partial failure of spawn, dropped futures | numbers are unique and all come back |
| VDI driver (`vdi/`, the reaper in `main.rs`) | containers, when each was last seen in use | start or reuse, stop, idle reaper | starts of one name race each other, logouts and the reaper; Docker survives a restart | a session gets the desktop it asked for; idle containers go; starts end |
| Accounts (`db.rs`, `auth.rs`, `oidc.rs`) | users, group mappings, login sessions, API tokens and keys, WebSocket tickets | log in, create, delete, disable, change role, bind and release a subject, issue, present and revoke credentials | a login is several transactions; accounts are made in three places and deleted under running requests | a credential stays with its account, an account with its person, a ticket opens one socket |
| Address book (`vault.rs`, handlers of `api.rs`) | entries with secrets and external ids, folder configurations and defaults | create, update, sync, move, copy, delete; grant, inherit, lend | each request is several Vault calls; any may fail, or be the last | no secret is lost, overwritten or lent beyond its audience; ids are unique |
| Opening a session (`api.rs`, `session.rs`) | a request on its way through entry, defaults, variables and policy; personal credentials in two stores | page, link, ad-hoc; save credentials | everything is read at a different moment and edited meanwhile | the session is the one that was asked for, within the site's policy |
| Address book change log (`api.rs`, `static/connections.html`) | bounded log of changed folders with a version and a per-process epoch; each page's version and cached folders | a request is logged after its response; a page polls, is told what its user may know, forgets or re-reads | eviction inside a version, restarts, access that changes between logging and filtering, half-failed requests | a page that has caught up was told of every change |
| Tunnels (`tunnel.rs`), drive (`drive.rs`) | SSH chains, directories | start, shut down, create, clean up | partial chains | released with their session |
| Import, migration, Proxmox broker, configuration, CLI, browser client, frame statistics | - | thin or run-once | - | not modelled, see below |

`PROJECT.json` lists every component with its status, the hazards of the code
with the line where each one bites, the runs, the mutants that show each
property can fail, the source lines of every definition, and the theorems.

## Modules

* `SessionLifecycle` - what the session manager promises for each session,
  independent of how it is done: absent, pending, active, over; the connection
  handed over at most once; resources given back when the session ends, and
  none gained afterwards.
* `SessionManager` - the registry. One action is one critical section of one
  method. `create_session` is a chain of actions (`CreateAdmit`,
  `CreatePrepare`, `CreateSpawn`, `CreateConnect`, `CreateInsert`,
  `CreateRecord`) because it awaits between them; each may fail, and the whole
  may be dropped (`CreateAbandon`) when its HTTP client goes away. There is no
  await between the insertion and the spawn of the timeout task, so an inserted
  session is never abandoned. Each reaper is a find and an act, since it
  releases the lock in between. Session objects are named in advance by `Sid`;
  `stage` says how far the creation of each is.
* `SessionProxy` - the connection tasks on top of `SessionManager`: `pc` is the
  position of each handler, a step is what it does between two awaits that
  release the session. It adds the history rows and the recording directory.
  guacd and the browsers are external: joins and deferred connections may fail
  or stay without an answer, connections may end at any time, early (within
  5 s, which marks the session as Error) or late. A deferred connection is made
  with the registry's read lock and the session's lock held (`"connecting"`,
  `Locked`), and whoever needs either waits.
* `ViewStream` - the pump from guacd to the browser, on a stream of AVC444
  pictures: reads that end inside an instruction, the carry, its forced flush
  when it is full, the ping echo on the same socket, the evidence a `SliceProbe`
  gathers, the verdict, the drop of auxiliary views per stream index, the SPS
  rewrite and the binary frames. An instruction is a few units of which the first
  has the length at its head. The pump's scan finds the boundaries by those
  lengths from where its buffer begins; the browser's parser counts for itself
  what is due of an instruction, whatever message it comes in.
  Encoder and decoder are external and modelled as far as the code reasons about
  them: references, marking, `frame_num` gaps and the frames inferred for them.
* `BrowserPool` - the browsers of web sessions: the two number ranges, every
  error path of `spawn`, `kill`, the login script, processes that die, profile
  directories that cannot be removed (`stuck`), and HTTP handlers whose future is
  dropped in the middle. `SessionManager` sees all of
  this as the one resource `"browser"` (`"script"` with a running login script).
* `VdiPool` - the containers of VDI sessions: `do_start_or_reuse` call by call,
  with an image that changed, a stopped container, a name taken meanwhile, host
  ports that collide, removals that fail and are ignored, the wait for the
  desktop, which is over when anyone answers at the port, the stop at the end of
  `handle_ws`, the idle reaper, and restarts of the server, which Docker
  survives and `last_active` does not. Starting, setting the password and asking
  for the port go by the container's name; the port is on the host and may be
  another container's by the time guacd connects.
* `Accounts` - users, logins and credentials. A login or a request is several
  calls of `db.rs`. Within the server a call holds the connection's lock; the
  command line is another process with a connection of its own, so the look and
  the insertion of `create_user` and `upsert_user` are separate steps, with the
  commands (`cmd`) between the server's and the server between the commands'. The
  table may begin with accounts whose emails differ in case only. WebSocket
  tickets are issued, age, and are presented any number of times.
* `AddressBook` - the entries: every admin request is a sequence of Vault calls,
  each of which may fail, may have landed although it failed, or be the last
  before the handler is dropped. An entry is the id it is synced under, its
  secret and its jump host (`hops`), with a secret of its own or without one. A
  request's body may leave out each of the three, and a plain POST or PUT may
  carry an id as a sync does.
* `FolderAccess` - who may open a folder and what it lends: the walks up the
  tree that read one `.config` or `.defaults` at a time, and the admin requests
  that write, create and delete them between two reads.
* `Connect` - the ways to open a session: the entry, the lent default, the
  user's variables and the typed password are read one after the other while
  they are edited; then the policy, the look for a session that still waits, and
  the checks of `create_session`, for each kind of session the allowlists that
  its arm consults, the jump host and the SPICE proxy. Saving personal
  credentials is modelled with its two stores.
* `Mp4Converter` - MP4 copies of recordings: the job map, the task of each job
  from its slot to its report, the work directories, whose removal may fail, and
  the cache, `purge` on its own thread, recordings that a connection decides to
  make, creates later, writes and closes, and that are deleted meanwhile, and
  restarts of the server, which keep the files and forget the jobs.
* `RecordingRotation` - a pass of the global rotation: the snapshot of the live
  sessions, the purge of copies, the cull by count from one listing, and the loop
  that reads the usage, lists, unlinks and reads the usage again, step by step,
  while sessions begin, write, leave the map and are deleted. Each reading of the
  usage may fail, whatever the one before it did. An unlinked file keeps its
  blocks until its writer closes it.
* `AddressBookChanges` - how a Connections page hears of changes: requests that
  write and are logged afterwards, or never; the bounded log; the poll with the
  access checks of its answer; the page's version and epoch; restarts.
* `SessionProxyProofs` (of `SessionManager`, `SessionProxy` and `ViewStream`),
  `PoolProofs` (`BrowserPool` and `VdiPool`), `RecordingProofs` (`Mp4Converter`
  and `RecordingRotation`), `AddressBookProofs`, `AddressBookChangesProofs`,
  `AccountsProofs`, `ConnectProofs`, `FolderAccessProofs` - the theorems.
* `MC...` - the modules TLC runs; they give the structured constants (paths,
  claims, hosts) and, where it is sound, the symmetry sets.

`SessionProxy` composes with `SessionManager`, and is shown to implement it.
The other modules meet at what they hand each other: `Connect` ends where
`SessionManager` begins (a finished request), `FolderAccess` decides what
`Connect` takes as lent, `BrowserPool` and `VdiPool` are what `SessionManager`
sees as a resource and as a preparation that may fail, and a change made in
`AddressBook` or `FolderAccess` is a logged request of `AddressBookChanges`.

### Correspondence

`SessionManager`: `registry` is the key set of `sessions`; `status`, `creator`,
`stream`, `deferred`, `nconn`, `shadow` are fields of `Session`; `age` is the
time since `created_at`; `cancelled` are the sessions whose token is cancelled;
`res` is what exists outside the process memory for a session (tunnels, browser,
drive directory, login script); `timer` are the sleeping timeout tasks;
`toDelete` and `toRemove` are the local lists of the reapers. A DELETE whose HTTP
client goes away while Chromium is being killed is `DeleteAbandon`: the session
has been ended and its browser taken out of the session, so nobody kills it any
more. `res` then holds `"orphan"`, which no session owns; `OverIsReleased` says
that this is the only way anything remains.

`SessionProxy`: `sid`, `user`, `token`, `role`, `quick`, `saw` are a handler's
locals; `Locked` are the sessions some handler is connecting; `history` is the table; `files` are the recordings of one address-book
entry in order of modification time; `writers` are the handlers with the file
open.

`ViewStream`: `wire` is what guacd wrote and the pump has not read, `carry` the
buffer of that name, `probe` the counters of `SliceStats` that the verdict looks
at, `drop` the state of `AuxDropper`, `sps` that of the rewriter, `split` the
streams the `BlobSplitter` converts, `browser` what the client received and
its decoder made of it, and `parser` the units that are due of the instruction
its parser is in. Three history values go with them: whether an echo came inside
an instruction (`parser.spliced`), whether a full carry was flushed
(`parser.forced`), and whether the drop was armed before the headers had shown
both chains and a gap (`drop.blind`).

`BrowserPool`: `displays` and `ports` are the `in_use` sets of the two
allocators, `pc` is the position of a call of `spawn` and then of the session
that owns its result, and `display`, `port`, `xvnc`, `chromium`, `profile`,
`script` are what it obtained. `stuck` are the calls whose `remove_dir_all`
failed.

`VdiPool`: `box` is what Docker has of each container: its name and image, its
host port, whether it runs, and the session whose password it has (`pw`); `sess`
is the position of each session's start with the container it found or made and
the port this had then, `reaper` the local variables of a pass and
`last` the map `last_active`, counted in passes.

`Accounts`: `users`, `mapping`, `seen`, `session`, `tokens`, `apikey` are the
tables; `next` is the AUTOINCREMENT counter, which is why an id is never used
again; `login`, `req` and `cmd` hold the locals of a login, of a request and of a
command between two calls; `tickets` is the `WsTicketStore`. `disputed` is a
history variable: the emails that two accounts had from the start, or that the
server and a command were both adding.

`AddressBook`, `FolderAccess`: `store`, `config`, `defaults` are what Vault
holds; `pc` is the call a handler waits for and `job` what it has read. `owed`,
`past` and the fields `snap` and `during` of a job are history variables: which
secrets nobody asked to remove; and whether requests overlapped, one was cut
short, an entry was copied with its id, one moved across scopes, or a plain
request carried an id (`"given"`).

`Connect`: `entry`, `lent`, `creds` are what Vault holds; `req` is a request
with its `CreateSessionRequest` so far, `save` a save of variables, `sess` the
sessions that wait. `on`, `seen` and `recs` of a request are history variables:
the entry that was asked for, and the passwords and settings that were stored
since it began; `owner` is the owner of the session it was answered with.

`Mp4Converter`: `job` is the map of the same name without the reason of a
failure, `task` the position of the spawned task, `slots` the semaphore, `work`
the `.work-*` directories of running tasks and `leftover` whether there are others,
of an earlier process or such as could not be removed, `cached` the finished MP4s,
and `purging` the local `running` of a purge. `asked` are the recordings that a
connection has been told to make and has not created.

`RecordingRotation`: `files` is the directory in the order of
`list_recordings_by_age`, `active`, `todo`, `over` and `before` are the locals
of the pass, `open` and `size` what the file system knows. `lost`, `unread` and
`freed` record what `NoRunaway` speaks of: the open files the pass unlinked, those
of them after which the usage could not be read, and whether others freed space.
Usage is counted in blocks.

`AddressBookChanges`: `version`, `recent`, `oldest_complete` and `epoch` are
the fields of the log, `request` and `wrote` a request in flight, `poll`,
`answer` and `checked` the poll on its way through `ab_version`, and
`liveVersion` and `liveEpoch` the page's variables of that name. The page's
copies are followed for one folder, `Watched`, which stands for each of them:
`stale` says that it was written since the page read it or was told of it.
`unlogged` and `early` say why the log will not tell of it (below).

### Abstractions

The kinds of session are reduced to what they acquire and whether guacd is
connected at once or at the take; in `Connect`, where the kind decides which
addresses are checked, all of them are kept. Tokens, passwords and tickets are
model values, so guessing one is not modelled. Recording is on for every session
of `SessionProxy`. A call that returns without effect is a stuttering step. Of a
name that an allowlist has admitted the address is taken to stay the same:
`session.rs:700` says that a name which is resolved again may give another one.

Of an MP4 the model keeps whether it shows all that the recording holds now and
whether its time is at least the recording's; guacenc reads at one moment and
finishes at a later one, which is where the two part. The hourly purge and the
one for a full disk are taken one after the other. A recording whose session
left the map while a connection was still writing it, or had decided to and not
created it yet, is marked `"cut"`: nothing protects it, and `ReadyShowsAll` does
not speak of it. A second connection that truncates the file of the first is in
`SessionProxy` and not in `RecordingRotation`.

`NoChangeMissed` has two exceptions, both real: a request that wrote something
and ends without a log entry (its client left, or a folder was deleted half-way)
leaves a stale page, and so does a change that is logged after the server has
read the folder for the page's first load and before it reads the version for
the page's first poll. The page issues the poll first "so nothing in between is
missed" (`connections.html:1967`), but the two requests run concurrently. Without
the second exception TLC finds that sequence in seven steps.

`SecretsKept` does not speak of two requests for one entry that overlap: updates
are read-modify-write without check-and-set, so the later of two overlapping
updates wins, with what it read. Nor does it speak of the credentials of jump
hosts that an update leaves out, which the code drops (below). `IdOnOneEntry`
excepts requests that write an id without looking for it elsewhere: copies, moves
across scopes, and a plain POST or PUT that carries one. An entry has one jump
host. `OpensTheRightFolders` and `LentWithinAudience`
compare with the configuration at the beginning of the request and do not speak
of a `.config` that is rewritten during the walk, which may be read in part old
and in part new. `DefaultsHaveAFolder` does not speak of a deletion that was cut
short, failed in part, or met a change of the folder's defaults.
`ClicksDoNotPileUp` allows one waiting session per request in flight, because
looking for a session and creating one are not atomic. In `Accounts` one command
runs at a time; of the calls that both processes may make, those that look and
insert are parted, and `reset_oidc_subject`, the server's `delete_user` and the two
statements of `map_group` are one step each.

In `ViewStream` a picture is one access unit in one blob, one stream is open at
a time, and only a clipboard is longer than `MAX_GUACD_CARRY`. A forced flush that
parts a UTF-8 character ends the pump and is left out. A slice whose parameter
sets were not seen (`h264_refs.rs:439`) is counted as such and teaches nothing
else. The hosts are those the source describes, the ones that lose main views
included; hosts whose main views name a long-term picture beside auxiliary views
that are short-term are taken to have a frame for them (`Described`).

## Runs

| run | question | result |
|---|---|---|
| `session_registry` | two sessions, three kinds, limits of 1, two creations in flight | the registry invariants and the refinement hold |
| `proxy` | two handlers, authenticated as the creator or not, with the read-only link of one deferred session, with a guacd that may never answer, under fairness of the server's own tasks | one owner, exact counts, nothing stranded; every session leaves the registry and termination reaches every handler, unless guacd never answers a deferred connection, or the join of that handler |
| `browser_pool` | three calls of `spawn` for two displays and two ports, with every failure | numbers are accounted for and never shared, also with a login script that its task still waits for; a finished call leaves no process, and a profile only if its removal failed |
| `mp4_converter` | two recordings, one slot, failures at every step, purges and restarts | every permit and Running mark has its task, as has every work directory but those whose removal failed; what is offered as ready is complete, unless its session left the map while somebody recorded or was about to; no failure hides it; every conversion ends |
| `rotation` | passes by count and by usage over two recordings of two sessions that come and go, with deletions and readings of the usage that fail | per pass a full disk costs at most one recording that is being written, and one more for each reading that fails after a deletion; every pass ends, unless such readings fail for ever |
| `change_log` | one page and one request at a time, a folder in another one, a log of two rows, changing access, failures and a restart | a page that has caught up was told of every logged change |
| `address_book` | two handlers, three requests, a folder in another, two names, bodies with and without passwords, jump hosts and ids, every call failing or being the last | no secret that no request gave up is lost without an overlap, nothing is overwritten, an id stays on one entry unless it was written without a look |
| `folder_access` | two handlers on three nested folders, of which one lends, in every initial configuration | a walk opens what it should and nothing else; secrets are lent within their audience; defaults do not outlive their folder |
| `accounts` | two logins of two people who claim one address, which has three spellings, beside a command of another process, three changes by admins or the command line, two tickets, a table that is empty or has two spellings already | accounts stay distinct but for those and for a command that adds while the server does, credentials and bindings stay with their account, a ticket opens one socket |
| `vdi_pool` | two sessions that ask for one user's container with one or two images, or for those of two users, on two host ports, failing Docker calls, a restart, under fairness | who answers at a session's port is the desktop it asked for while that runs, and no other user's takes its password; idle containers go; starts end unless removals fail for ever |
| `connect` | two requests of any route and kind, of two page users and an API key, one entry, one tab saving credentials, one edit, hosts on some allowlists and on none | the session is the user's own and never an outdated one, clicks do not pile up, ad-hoc sessions stay within the policy, but for the SPICE proxy |
| `stream` | five pictures of each of the eight hosts the source describes, one other stream or a clipboard longer than the carry, reads that end anywhere | a ping lands inside an instruction, and streams are parted, only after a forced flush; main views keep their references, but for the two kinds of host the property names |

Every property has a mutant in `PROJECT.json`: the definition a plausible bug
would change, and the form under which the run finds the property violated.

### Bounds

Ages are counted up to `AgeCap`, one above the largest threshold, and a
threshold of 0 already gives every order of timeout, maximum duration and
cleanup, as all three race each other. `MaxInFlight` bounds the concurrent
creations; two are the smallest number that can race a limit. How far such
races overshoot the limits is left to the theorems (`OvershootBounded`,
`UserOvershootBounded`): an instance with enough sessions to exceed the bound
is out of reach with all kinds of session. One user is enough, as no user's
count looks at another's. Two handlers
suffice for every pairwise race (owner and joiner, two joiners, two claimants);
one session suffices for the handlers because handlers of different sessions
share only the recording directory. The run uses one token, the read-only link,
with which a handler can come before the owner and must not get control; minted
tokens come and go without being presented. The theorems hold for every token.
Three calls of `spawn` are one more than there are displays and ports, so the
ranges run out and a number is reused while its last user is still ending.
Two recordings and one slot make conversions wait for each other and let a
purge meet one job that ends and another that starts.
Two files that are open and not in the snapshot are the smallest number a
runaway could take; they may also be two files of one session, the second begun
after the first was unlinked. Two blocks let a file grow between the two
readings of the usage.
A log of two rows is shorter than what one move pushes, so versions lose some
of their rows or all; two versions and one restart let the page be behind, level
with and ahead of the log it is answered from. A second request in flight adds
nothing that the order of write and log entry of one does not have already.

Three address-book requests are what it takes to store an entry and let two
others race for it; two names are a target that is taken and one to evade to. The
four bodies are what the form sends with all secrets, without any, and without jump
hosts, and what a sync source sends. One entry is opened in `Connect`, as the key
that a waiting session is looked up by includes the entry; it does not include the
user, so two click on it. Variables and prompts are one user's (`Keeper`) and
links an API key's (`ByLink`); `NoStaleSession` is about any number of either.
Three nested folders are the shortest chain in which a folder inherits through
one that inherits itself, and two requests a walk and whatever comes between its
reads. Two people with one address, two account ids and three changes allow an
account to be deleted and made again between two steps of a login; the third
spelling is nobody's claim. Two sessions
and two containers allow one start to replace what another waits for; two names on
two host ports, with one hash, let one user's start take the port that another's
container has left. One edit
suffices for a request to be outdated in one thing it has read, and three
sessions are one more than two requests may leave waiting. Five pictures are an
IDR, one inter picture of each view, which is what an eager gate decides on, and
one of each after it; `MinMain` and `MinAux` are the eager thresholds. The
non-eager ones (10 and 3) ask the same questions of more evidence. A carry of two
units (`MaxCarry`) holds every instruction but one clipboard, which has two more
than that, so that its end may begin another carry; guacd is one unit ahead
(`WireCap`), and a read takes any part of what there is. `MaxFrameNum`
is 16, the smallest H.264 allows, and is not wrapped within five pictures.

The proofs remove these bounds for the safety properties of the modules they are
about, except those on counters (`MaxVersion`, `MaxEpoch`), which are arbitrary
numbers in them.

Deadlock is checked for `Mp4Converter`, `RecordingRotation` and
`AddressBookChanges`, whose instances never stop. It is not for the others: a finished instance really stops, every
session gone and every handler done, or its bound on requests reached.

### Fairness

`ProxyFairness`: weak fairness of time, of the spawned tasks
(`CreateRecord`, `pending_timeout`), of the reapers, which run in endless
interval loops of `main.rs`, and of the handlers' own steps: the runtime polls
every ready task, and an interval keeps firing. What needs the registry is assumed
to go on only while no deferred connection holds it. Nothing is assumed of users, of
browsers or of guacd: a connection may run for ever unless it is cancelled, a
creation may hang, and a join or a deferred connection may never be answered
(`guacd.rs` times the TCP connection only); `EventuallyForgotten` and
`TerminationReachesHandlers` say what that costs. `Mp4Converter` assumes weak fairness of each task's
steps, since guacenc is killed after `mp4_timeout_secs`, and strong fairness of
`AcquireSlot`, since a tokio semaphore serves its waiters in order; nothing is
assumed of purges, restarts or requests. `RecordingRotation` assumes that the
blocking thread of a pass runs, and nothing of sessions, deletions or readings of
the usage. `VdiPool` assumes weak fairness of each session's start up to where
guacd is to answer, as its Docker calls return and its wait for the desktop has a
deadline (`wait_for_ready`), and of the reaper's pass, whose interval keeps firing;
and strong fairness of the reaper's listing and of its removals, which are a minute
apart: Docker does not refuse for ever. Of the removals that a start makes it
assumes nothing: they follow each other without a delay, and `StartsEnd` states the
exception. Nothing is assumed of users or of guacd.

## What the models showed

These follow from the models or were met while writing them. None of them is
listed as a run, as the properties above are those the code keeps.

* Per-entry rotation (`recording.rs:248`) does not look at live sessions: when
  one session of an entry ends, it may unlink the file another one is writing.
  `session.rs:2685` says of those files "so rotation must never delete" them,
  which the global rotation honours, up to sessions that start after its
  snapshot (`main.rs:1286`) or leave the map with a connection still writing;
  `NoRunaway` bounds what that costs.
* `reap_expired_sessions` looks at Active and Pending sessions only, and
  `error_session` and `complete_session` cancel nobody: a connection that
  outlives its session's status is not ended at the maximum duration
  (`config.rs:508`).
* A deferred connection is made with the registry's read lock and the session's
  lock held (`session.rs:2338`), and neither the handshake nor a join has a time
  limit or watches the cancellation token. A guacd that accepts the connection
  and stays silent stops every creation, timeout and reaper for as long.
* Only connection tasks close history rows, so a session that expires or is
  deleted before its owner attached stays "Active Now" in the reports
  (`db.rs:1435`, `docs/reports.md:12`).
* A login script's process outlives its timeout and its session
  (`browser.rs:592`, spawned without `kill_on_drop`), and the CDP port it was
  given goes to the next web session, whose browser it may then drive;
  `docs/web-sessions.md:419` says it is killed. `NumbersNotShared` speaks of
  scripts that are still waited for.
* `purge` asks once whether a job is running and then walks the cache; a job that
  starts in between loses its work directory and fails (`recording_mp4.rs:269`).
* A connection asks whether its session is recorded, awaits, and creates the file
  (`websocket.rs:277`); if the session ends in between, a recording begins whose
  session is over, and an MP4 may be made of it while it is written.
* The guard against a runaway is skipped when the usage cannot be read after a
  deletion (`recording.rs:229`), and the pass goes on: each such reading may cost
  one more recording that is being written.
* A container that a new session is about to reuse may be stopped by the idle
  reaper during the whole of the start, as the session is not in the registry
  yet; a reuse changes the desktop's password under an earlier session; a logout
  stops a container that other sessions share; and the idle time counts from the
  last pass that saw a session (`docs/vdi.md:45`).
* `do_start_or_reuse` ignores that a container could not be removed and calls
  itself, without a limit or a delay (`vdi/docker.rs:377`): as long as Docker finds
  the container and fails to remove it, the start does not end.
* The wait for a desktop ends when anything answers at the host port
  (`vdi/docker.rs:206`). If the session's container has ended by then, that may be
  another user's container, which took the port; guacd then presents the session's
  user and password to it, which it does not accept.
* `put_my_credentials` that moves a variable from the local to the shared store
  writes the local store first; if the shared write fails the value is in
  neither, although a blank value is to keep the existing one (`api.rs:6768`).
* An update that leaves out `jump_hosts` drops the stored jump hosts with their
  passwords and keys (`api.rs:5275`), although the comment above says that "every
  secret it omits is kept" (`api.rs:5241`) and `docs/netbox.md:164` that a sync keeps
  "any password or key someone has since stored". The form leaves them out to
  remove them (`connections.html:5054`); a webhook that never sends any removes them
  too.
* A plain POST or PUT may carry an `external_id` (`docs/api.md:618`, `:668`), and
  only `relocate_by_external_id` looks whether another entry has it: such a request
  puts one id on two entries.
* The proxy that a SPICE request names goes to guacd unchecked (`session.rs:1471`);
  the policy says that "every target" of an ad-hoc session of anyone but an admin is
  checked against the allowlists (`session.rs:330`).
* `create_user` and `upsert_user` look and then insert without a transaction
  (`db.rs:705`, `db.rs:644`). A command and the server that are both in between leave
  two accounts whose emails differ in case only, such as older versions could make
  (the test at `db.rs:2249` has two).
* Links (`/api/connect`) skip the look for a waiting session, and two clicks at
  once make two sessions.
* A token whose expiry is a bare date works to the end of that day
  (`parse_expires_at`), but the cleanup compares texts and deletes it when the
  day begins (`db.rs:1209`). A role from a group mapping is written by the
  email's spelling in the claim (`db.rs:864`), so an account stored in another
  spelling keeps its old role, although the log says it was set.
* The eager gate (`h264_refs.rs:919`) counts the long-term indices that were
  *named* so far. The first auxiliary slice after an IDR names index 0 while it
  takes index 1, so after one slice of each view a stream with
  `max_num_ref_frames` 2 seems to have a frame to spare; the drop is armed and
  the next main view needs an inferred frame for which there is no room, which
  is the freeze the comment above the function describes. `MainViewsIntact`
  excepts such a host (`NoRoom`) if the drop began before the headers had shown
  both chains and a gap; once they have, the gate holds.
* Main slices that take the default list with one active entry, beside auxiliary
  views that are long-term references, are declared droppable because that entry
  "is therefore always the previous main view" (`h264_refs.rs:858`). The frame
  that is inferred for a dropped picture is short-term and has the highest
  `PicNum`, so it takes the entry, and the next main view is predicted from a
  frame that does not exist. `MainViewsIntact` excepts these hosts
  (`InferredFirst`); the attempt to prove it without is how this was met.
* A sync looks for its external id in the scope it was sent to, while a move may
  carry an entry with its id from one scope into another that has the id already.
  `IdOnOneEntry` then fails, and the attempt to prove it for several scopes is how
  this was met; later syncs of that id are refused with 409. The run has one
  scope, and the theorem says what it depends on (`"cross"`).
* When the drop is armed after the main view of a pair was delivered, the client
  holds that main view without its auxiliary one; when it stops, the auxiliary
  views that return are predicted from pictures that were never sent. Both
  affect chroma only. A mid-stream IDR of the main view looks like a gap in
  `frame_num`, so that a stream whose auxiliary views are no references is taken
  for contradictory and the drop stops.
* A carry above `MAX_GUACD_CARRY` that holds no complete instruction is flushed as
  it is (`websocket.rs:660`). The next carry then begins in the middle of one, where
  the scan finds no boundary, so everything is held back until the carry is full
  again, and so on until a flush happens to end where an instruction does. What is
  flushed passes by the dropper, the rewriter and the splitter, and the echo of a
  ping may land inside an instruction meanwhile.

## Proofs

All theorems hold for every finite set of sessions, every set of users and
connections, every limit and every threshold, under the named assumptions
`ConstantsAssumption`, `FiniteSid` (cardinalities) and `ProxyAssumption`
(`MaxConn`, a bound of the model, is at least the number of connections);
those about `BrowserPool` for every set of calls and all ranges of positive
numbers (`RangeAssumption`; 0 stands for no number); those about `Mp4Converter`
for every finite set of recordings and number of slots (`ConverterAssumption`);
those about `AddressBookChanges` for every set of folders and requests and every
length of the log but 0 (`FolderAssumption`, `BoundAssumption`). Those about
`Accounts` hold for every set of people, emails, groups and logins
(`AccountAssumption`: the mark for "no account" is not an account); those about
`Connect` for every set of users, entries, hosts, allowlists and passwords and
all settings of the site, with finitely many requests and sessions
(`FiniteAssumption`, for the cardinalities) and the session types of the code
(`KindAssumption`); those about `FolderAccess` for every tree of folders
(`PathAssumption`: the path of a folder above another is the rest of that one's
path), all groups and configurations, and any number of handlers; those about
`VdiPool` for every set of sessions, names and images, with or without a range of
ports, of any size but 0, and every timeout (`BoundsAssumption`,
`NoneAssumption`: the mark for "none" is no image, name or number). Those about
`AddressBook` hold for every tree of folders in two scopes (`FolderAssumption`: a
folder is in its own subtree), all names to evade to (`NameAssumption`), every
set of ids and secrets (`NoneAssumption`) and any finite number of handlers
(`RequestAssumption`); those about `RecordingRotation` for every finite set of
sessions, files and blocks and all limits (`RotationAssumption`); those about
`ViewStream` for every host whatsoever, all thresholds and any number of pictures
(`BoundsAssumption`), except that `MainViewsKept` asks for thresholds above 0, for
a `None` that is no record (`NoneApart`) and for described hosts (below).

* `RegistryInv` is the inductive invariant of the registry: the type, the four
  registry invariants and `Bookkeeping`. The latter is needed because, for
  example, `LiveIsRegistered` holds only as everything in the reaper's list is
  and stays terminal, and `OverIsReleased` only as deferred sessions are of a
  kind that holds nothing but tunnels. `RegistryStep` has one step per action.
  From it follow `TypeCorrect`, `TakeableWhilePending`, `ReleasedWhenOver`,
  `ReaperSparesLive`, `PendingIsTimed`.
* `OvershootBounded`, `UserOvershootBounded`: registered (live) sessions and
  creations in flight are counted together; an insertion moves an element from
  one set to the other, an admission adds one only while both are below their
  bounds, and `GrowthStep` shows that nothing else adds any.
* `RegistryImplementsLifecycle`: the refinement mapping takes each session to
  its phase and to what it holds; all four ways to end a session share
  `EndStep`.
* `ProxyImplementsManager`: the composed system implements `SessionManager`'s
  specification, so its theorems carry over.
* `HandlerInv` says what a handler may rely on between two critical sections
  (`Attribution`): its session was created, a created session keeps its creator
  and never becomes Pending again, and an Active one had an owner. It gives
  `OwnerComesFirst` (`SingleOwner` and `JoinersFollowOwner`). `CountIsExact`
  is a second induction on top, and `NeverStranded` a third, which uses the
  exact count: whoever saw a positive count was not the last.
* `PoolInv` is the invariant of `BrowserPool`: the type, `Places` (where in its
  life a call may still have a process, a script that is waited for, or a profile
  directory that is not `stuck`) and `Numbers`
  (the owners' numbers are in use, differ, and are all that is in use). The two
  need each other: a number is released by one owner, so it must be nobody
  else's, and an Xvnc process only runs where its call owns its display, which
  is why `NumbersNotShared` follows.
* `ConverterInv` is the invariant of `Mp4Converter`. `ReadyShowsAll` needs two
  strengthenings: while a task is at work nothing is ready that it could replace
  (`NothingReady`), and a recording whose session left the map in good order is
  not written any more and nobody is about to create it, so what was read of it
  stays the whole of it (`OutputsWhole`). The permits
  are counted by adding and removing one element of `Holders`.
* `ChangesInv` is the invariant of `AddressBookChanges`. `Due(n)` says that
  whoever asks for what came after version n is told of the folder: a row of the
  log tells, or the log says that it does not reach back to n. `RecordDue` shows
  that a later record never takes this away, for which the log must be in the
  order of its versions (`Ordered`). `LogTells` states it for the version the
  page has, `AnswerTells` for the answer on its way: it tells, or the log still
  will. A row may be withheld only while the folder is closed, and whoever opens
  it again is a request that will be logged.
* `AccountsInv` is the invariant of `Accounts`. That a session or a token is of
  the right account is not inductive: the id was looked up in an earlier call,
  and the account may be gone by now. What makes the id safe to keep is that ids
  are not given twice (`IdsGiven`), so that it names that account or none
  (`LoginsFollow`, `TokensOfOwners`). `LoginsOfOnePerson` says of logins, also of
  accounts that are deleted since, what `OneSubjectPerBinding` says of sessions.
  For `EmailsDistinct` an email that is about to be inserted must still be free
  (`AddsFree`); this holds since the server has one call between look and insertion
  at a time (`OneInCall`) and there is one command, so that only the two of them can
  be adding the same email, which is then `disputed`. `FoundFollow` says of the
  account that `upsert_user` has found what `LoginsFollow` says after it.
  `AccountsEvolve` is the action property behind all of them.
* `ConnectInv` is the invariant of `Connect`. `SourcesSeen` says of the next read
  of a request that whatever it may find was in force since the request began,
  and `ReadsSeen` the same of what has been read already; together they give
  `NeverAStaleSession`, with `OwnAnswers`: a request stays one for its entry, and a
  session is found for it only by its user. `PolicyApplied` says that an ad-hoc
  request becomes a session only after the policy and the checks of its kind. For
  `ClicksDoNotPileUp`, waiting sessions and the requests
  that found none and are about to make one are counted together (`Bounded`): a
  request that goes on to create has found none waiting.
* `FolderInv` is the invariant of `FolderAccess`. `Sound` says that a walk has
  come up through folders that inherit (or, when credentials are looked for,
  share their parent's audience), and `Complete` that no folder passed would have
  let the user in and that whatever is still to be opened lies ahead of a listing;
  `Denied`, `SuffixReach` and `ChildrenBelow` are the facts about trees that they
  need. `Follows` relates what Vault holds now to what it held when the request
  began, which is why a deletion during a walk closes folders but opens none. For
  `DefaultsHaveAFolder` one must know that no deletion is at work on a folder whose
  defaults are being set, and that who is about to set them has seen a `.config`
  that is still there (`Lending`).
* `VdiInv` is the invariant of `VdiPool`. The calls of a start name the container
  by its name, and the session keeps the number that it found or made, while
  others may replace what has the name. `SessionOK` says that this number is one
  that was made, and that as long as the session goes on with it (`Held`) the
  container of that number, if there is one, has the name and the image asked for
  and, with a range of ports, the port that the session was told.
  It is preserved because whatever a step does to the containers, those that were
  made keep their name, image and port of the range, and none comes back under an
  old number (`Keeps`), which every step of a session, the reaper, a death and a restart is
  shown to respect. `Trying` counts the ports: whoever may yet make a container
  has one left, so that `tries` never passes the range. `DesktopInv` adds that
  containers which run have different ports (`PortsApart`), so that whoever answers
  is the session's own while that runs, and that a container has the password of a
  session only if it is of the name this asked for (`PasswordsOwn`), for which names
  must be given once (`NamesApart`): the password is set by name.

* `RecordTypes` is the rest of `ProxyTypeOK`: a file that is written is removed
  from its place and appended, so the directory never names a session twice
  (`Directory`).
* `BookInv` is the invariant of `AddressBook`. `Shapes` says what each job has read
  at each call. `StillCurrent` says that, while requests do not overlap
  (`Separate`), what a handler has read is what Vault still holds, and that a move
  which is about to delete has its copy in place: this makes `Kept` inductive, since
  a put writes back the secrets it does not carry, except those of jump hosts it
  leaves out, which are not owed any more. `OnOne` says that a sync that
  searched its scope up to some place knows where the id may still be (`Searched`),
  and that two bearers of an id are the two ends of one move, as long as no plain
  request has carried an id.
* `RotationInv` is the invariant of `RecordingRotation`. `Guarded` says what a pass
  may have lost at each of its steps, but for what an unreadable usage accounts for
  (`Charged`): nothing wherever it may go on to unlink, and
  one recording at most where the next thing it does is to read the usage. That the
  usage has not fallen then is a fact about a sum over all files: unlinking a file
  that is open leaves its blocks (`BlocksHeld`), and every other step adds blocks or
  sets `freed`. The sum is compared file by file, by induction on the finite set.
* `StreamInv` is the invariant of `ViewStream`. `Place` are the positions in the
  stream that guacd writes (between streams, after the opening, after the blob), and
  the units that are not forwarded yet lead from one such place to the
  place between streams: each instruction has all its units in order, whatever part
  of them was read (`Flow`). The pump's scan and the browser's parser count the
  units independently, each by the lengths it reads, and are shown to agree until a
  full carry is flushed; after that only the history flag remains (`Undisturbed`).
  The browser is at the same place, or, of a stream
  that is dropped, outside of any (`Downstream`), and the splitter agrees with it
  (`Shown`). Each of the three filters is a fold over the chunk; a lemma about one
  instruction is lifted to chunks by induction over their length. The library's
  induction theorems take an operator as a parameter, so the induction is by a set
  instead (`NatAll`, `IntervalAll`: a set of numbers that has 0 and the successor of
  each of its members has all).
* `MainInv` is what `MainViewsKept` adds to it. What the browser decodes depends
  on pictures that are still on the wire or in the carry, so the invariant
  follows the host's encoder back through them: from some earlier place of the
  encoder, what is behind the pump leads to where the encoder is now (`Path`),
  and the decoder is in step with that earlier place (`Synced`): it holds the
  same pictures or, of a host whose main views are a chain apart, the same
  picture in that chain, and then it was told that `frame_num` has gaps, before
  the first one. The dropper's part is that it drops only where this does no
  harm (`Harmless`), and that rests on what the probe has seen: every slice
  counted in `probe` was one of this host (`Evidence`), so a host whose views
  are entangled has shown it by the time there are as many slices as the gate
  asks for (`GateHolds`). Every host that is `Described` is of one of these kinds
  (`HostsAre`): main views that name their own long-term picture, which no
  auxiliary view takes, with a frame to spare (`ChainApart`); auxiliary views that
  are no references (`Unreferenced`); views of which the gate learns that they
  predict from each other (`Entangled`); chains that take up all the frames
  (`NoRoom`), for which the gate stays shut once the headers have shown it (`Seen`);
  and `InferredFirst`. `Lossy` are the cases that `MainViewsIntact` excepts, in
  which nothing is claimed. TLC checks that the hosts of the run `stream` are
  described (`HostsAssumption`).

TLC was used on the instances of the runs to find these invariants before they
were proved, for `MainInv` with the encoder's earlier place as an added variable.

Only model-checked: the six liveness properties (fairness and ENABLED are beyond
the prover used). `MainViewsKept` is about described hosts; they are all those of
the run, with any thresholds and frames.

## Plan

What the plan had is modelled. Extensions that would ask new questions: several
streams open at a time in `ViewStream` (`MAX_DROPPED_STREAMS`), names that are
resolved again in `Connect`, and several hops per entry in `AddressBook`.

## Not modelled

* The exchange with the OIDC provider and Vault token renewal: retries around a
  library or a service, with no state that another component reads.
* The bit syntax of H.264, the character syntax of instructions, hashing,
  parsing of requests and of the configuration: sequential, and covered by the
  repository's unit tests.
* Import and migration (run once), the Proxmox broker (stateless requests),
  reports and audit log (queries and appends), frame statistics (counters
  nobody reads), file transfer and the LUKS mount of drives (external commands).
* The browser client, except for how the Connections page polls and adopts
  versions; the order in which its reads of one folder are answered.
* The `.meta` files beside recordings.
