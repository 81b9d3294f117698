----------------------------- MODULE Mp4Converter -----------------------------
(***************************************************************************)
(* MP4 copies of recordings (recording_mp4.rs): the job map, the slots,    *)
(* the work directories, the cache and its purge, against recordings that  *)
(* are written, closed and deleted meanwhile, and against a restart of the *)
(* server.                                                                 *)
(*                                                                         *)
(* A step of a job is what it does between two awaits.  guacenc is         *)
(* external: it reads the recording at some moment and finishes its output *)
(* at a later one, or fails at any time.  Of an output the model keeps     *)
(* whether it shows all that the recording holds now, and whether its      *)
(* modification time is at least the recording's.                          *)
(***************************************************************************)
EXTENDS Integers, FiniteSets

CONSTANTS
    Rec,     \* recordings, one per session id
    MaxJobs  \* mp4_max_jobs

ASSUME ConverterAssumption == IsFiniteSet(Rec) /\ MaxJobs \in Nat \ {0}

VARIABLES
    sess,        \* the session of each recording; "cut": it left the map when
                 \* its recording was open, or about to be
    guac,        \* the recording's file
    asked,       \* recordings a connection has found it is to begin
    job,         \* jobs: the map of Mp4Converter
    task,        \* where the task spawned by start is
    result,      \* recordings whose task has succeeded so far
    slots,       \* free permits of the semaphore
    work,        \* recordings whose task has a work directory
    leftover,    \* work directories of an earlier process exist, or such as
                 \* could not be removed
    outWhole,    \* task output that shows the whole recording
    outFresh,    \* task output at least as new as the recording
    cached,      \* <stem>.mp4 exists
    cacheWhole, cacheFresh,
    purging      \* "idle", or what a running purge saw: "busy", "quiet"

recording == <<sess, guac, asked>>
jobs == <<job, task, result, slots>>
output == <<outWhole, outFresh>>
cache == <<cached, cacheWhole, cacheFresh>>
vars == <<recording, jobs, work, leftover, output, cache, purging>>

Task == {"none", "queued", "slot", "work", "linked", "encoding", "encoded", "tidy", "report"}
HasSlot == Task \ {"none", "queued", "report"}
Holders == {r \in Rec : task[r] \in HasSlot}

Init ==
    /\ sess = [r \in Rec |-> "new"]
    /\ guac = [r \in Rec |-> "none"] /\ asked = {}
    /\ job = [r \in Rec |-> "none"]
    /\ task = [r \in Rec |-> "none"]
    /\ result = {} /\ slots = MaxJobs
    /\ work = {} /\ leftover = FALSE
    /\ outWhole = {} /\ outFresh = {}
    /\ cached = {} /\ cacheWhole = {} /\ cacheFresh = {}
    /\ purging = "idle"

-----------------------------------------------------------------------------
(* The recordings *)

SetSession(r, from, to) == sess[r] \in from /\ sess' = [sess EXCEPT ![r] = to]

\* The recording grows or is begun again: whatever was made of it is neither
\* whole nor fresh any more.
Outdate(r) ==
    /\ outWhole' = outWhole \ {r} /\ outFresh' = outFresh \ {r}
    /\ cacheWhole' = cacheWhole \ {r} /\ cacheFresh' = cacheFresh \ {r}
    /\ UNCHANGED cached

\* create_session puts the session into the map.
Register(r) ==
    /\ SetSession(r, {"new"}, "live")
    /\ UNCHANGED <<guac, asked, jobs, work, leftover, output, cache, purging>>

\* A connection of a session in the map finds that it is recorded
\* (is_recording_enabled), and no file.
AskToRecord(r) ==
    /\ sess[r] = "live"
    /\ guac[r] = "none"
    /\ asked' = asked \cup {r}
    /\ UNCHANGED <<sess, guac, jobs, work, leftover, output, cache, purging>>

\* It creates the file, whatever became of the session; one that appeared in
\* between is truncated.  The creation may fail, and other connections may
\* have asked as well.
Record(r) ==
    /\ r \in asked
    /\ asked' \in {asked, asked \ {r}}
    /\ \/ guac' = [guac EXCEPT ![r] = "open"] /\ Outdate(r)
       \/ UNCHANGED <<guac, output, cache>>
    /\ UNCHANGED <<sess, jobs, work, leftover, purging>>

Write(r) ==
    /\ guac[r] = "open"
    /\ Outdate(r)
    /\ UNCHANGED <<recording, jobs, work, leftover, purging>>

Close(r) ==
    /\ guac[r] = "open"
    /\ guac' = [guac EXCEPT ![r] = "closed"]
    /\ UNCHANGED <<sess, asked, jobs, work, leftover, output, cache, purging>>

\* The cleanup of ended sessions, which does not wait for connections.
LeaveMap(r) ==
    /\ SetSession(r, {"live"}, IF guac[r] = "open" \/ r \in asked THEN "cut" ELSE "over")
    /\ UNCHANGED <<guac, asked, jobs, work, leftover, output, cache, purging>>

\* A rotation or the API deletes the file; a connection that has it open
\* writes on into the void.
DeleteRecording(r) ==
    /\ guac[r] # "none"
    /\ guac' = [guac EXCEPT ![r] = "none"]
    /\ UNCHANGED <<sess, asked, jobs, work, leftover, output, cache, purging>>

-----------------------------------------------------------------------------
(* start and its task *)

\* ready_size: the cached MP4, if it is at least as new as its recording.
ReadySize(r) == r \in cached /\ guac[r] # "none" /\ r \in cacheFresh

\* Mutants: no look at the live sessions, at the cache.
startLive(r) ==
    /\ guac[r] # "none"
    /\ job[r] # "running" /\ ~ReadySize(r)
    /\ job' = [job EXCEPT ![r] = "running"] /\ task' = [task EXCEPT ![r] = "queued"]
    /\ UNCHANGED <<recording, result, slots, work, leftover, output, cache, purging>>
startAgain(r) ==
    /\ guac[r] # "none"
    /\ sess[r] # "live"
    /\ job[r] # "running"
    /\ job' = [job EXCEPT ![r] = "running"] /\ task' = [task EXCEPT ![r] = "queued"]
    /\ UNCHANGED <<recording, result, slots, work, leftover, output, cache, purging>>

\* A recording that is missing, live or being converted is refused; one that
\* is ready loses the memory of an earlier failure; any other gets a job.
\* (The caller looks at the session map first; a session that has left it does
\* not come back.)
start(r) ==
    /\ guac[r] # "none"
    /\ sess[r] # "live"
    /\ job[r] # "running"
    /\ \/ /\ ReadySize(r)
          /\ job' = [job EXCEPT ![r] = "none"]
          /\ UNCHANGED task
       \/ /\ ~ReadySize(r)
          /\ job' = [job EXCEPT ![r] = "running"]
          /\ task' = [task EXCEPT ![r] = "queued"]
    /\ UNCHANGED <<recording, result, slots, work, leftover, output, cache, purging>>

Goto(r, from, to) == task[r] = from /\ task' = [task EXCEPT ![r] = to]

AcquireSlot(r) ==
    /\ Goto(r, "queued", "slot")
    /\ slots > 0
    /\ slots' = slots - 1
    /\ UNCHANGED <<recording, job, result, work, leftover, output, cache, purging>>

MakeWorkDir(r) ==
    /\ Goto(r, "slot", "work")
    /\ work' = work \cup {r}
    /\ UNCHANGED <<recording, job, result, slots, leftover, output, cache, purging>>

\* The recording must still be there, and the directory it is linked into.
Link(r) ==
    /\ Goto(r, "work", "linked")
    /\ guac[r] # "none" /\ r \in work
    /\ UNCHANGED <<recording, job, result, slots, work, leftover, output, cache, purging>>

\* guacenc is started and comes to the end of the recording.
Encode(r) ==
    /\ Goto(r, "linked", "encoding")
    /\ guac[r] # "none"
    /\ outWhole' = outWhole \cup {r}
    /\ UNCHANGED <<recording, job, result, slots, work, leftover, outFresh, cache, purging>>

\* guacenc finishes its output, which is found not to be empty.
Encoded(r) ==
    /\ Goto(r, "encoding", "encoded")
    /\ r \in work
    /\ outFresh' = outFresh \cup {r}
    /\ UNCHANGED <<recording, job, result, slots, work, leftover, outWhole, cache, purging>>

\* The output is renamed to its place in the cache.
Store(r) ==
    /\ Goto(r, "encoded", "tidy")
    /\ r \in work
    /\ result' = result \cup {r}
    /\ cached' = cached \cup {r}
    /\ cacheWhole' = IF r \in outWhole THEN cacheWhole \cup {r} ELSE cacheWhole \ {r}
    /\ cacheFresh' = IF r \in outFresh THEN cacheFresh \cup {r} ELSE cacheFresh \ {r}
    /\ UNCHANGED <<recording, job, slots, work, leftover, output, purging>>

\* Every step of convert_in may fail: no directory, no recording, guacenc
\* cannot be started, takes too long and is killed, or leaves no output.
Fail(r) ==
    /\ task[r] \in {"slot", "work", "linked", "encoding", "encoded"}
    /\ task' = [task EXCEPT ![r] = "tidy"]
    /\ UNCHANGED <<recording, job, result, slots, work, leftover, output, cache, purging>>

DropOutput(r) == outWhole' = outWhole \ {r} /\ outFresh' = outFresh \ {r}

\* Mutants: the directory stays, or the permit, if the conversion failed.
TidyLeaves(r) ==
    /\ Goto(r, "tidy", "report")
    /\ work' = IF r \in result THEN work \ {r} ELSE work
    /\ slots' = slots + 1
    /\ DropOutput(r)
    /\ UNCHANGED <<recording, job, result, leftover, cache, purging>>
TidyKeepsSlot(r) ==
    /\ Goto(r, "tidy", "report")
    /\ work' = work \ {r}
    /\ slots' = IF r \in result THEN slots + 1 ELSE slots
    /\ DropOutput(r)
    /\ UNCHANGED <<recording, job, result, leftover, cache, purging>>

\* The end of convert: the work directory goes and the permit is dropped.  A
\* directory that cannot be removed stays, and nobody hears of it.
Tidy(r) ==
    /\ Goto(r, "tidy", "report")
    /\ work' = work \ {r}
    /\ leftover' \in {leftover, leftover \/ r \in work}
    /\ slots' = slots + 1
    /\ DropOutput(r)
    /\ UNCHANGED <<recording, job, result, cache, purging>>

Report(r) ==
    /\ Goto(r, "report", "none")
    /\ job' = [job EXCEPT ![r] = IF r \in result THEN "none" ELSE "failed"]
    /\ result' = result \ {r}
    /\ UNCHANGED <<recording, slots, work, leftover, output, cache, purging>>

TaskNext(r) ==
    \/ MakeWorkDir(r) \/ Link(r) \/ Encode(r) \/ Encoded(r) \/ Store(r) \/ Fail(r)
    \/ Tidy(r) \/ Report(r)

-----------------------------------------------------------------------------
(* purge, which runs on a thread of its own, hourly and when the disk is     *)
(* full; the two callers are taken one after the other.                      *)

\* Are there running jobs?  Asked once, before the entries are looked at.
PurgeBegin ==
    /\ purging = "idle"
    /\ purging' = IF \E r \in Rec : job[r] = "running" THEN "busy" ELSE "quiet"
    /\ UNCHANGED <<recording, jobs, work, leftover, output, cache>>

\* A cached MP4 goes when its time is up, its recording is gone, or all go.
PurgeMp4(r) ==
    /\ purging # "idle"
    /\ r \in cached
    /\ cached' = cached \ {r}
    /\ cacheWhole' = cacheWhole \ {r} /\ cacheFresh' = cacheFresh \ {r}
    /\ UNCHANGED <<recording, jobs, work, leftover, output, purging>>

\* A directory made after PurgeBegin may be among the entries, too.
PurgeWork ==
    /\ purging = "quiet"
    /\ \/ \E r \in work : work' = work \ {r} /\ UNCHANGED leftover
       \/ leftover /\ leftover' = FALSE /\ UNCHANGED work
    /\ UNCHANGED <<recording, jobs, output, cache, purging>>

PurgeEnd ==
    /\ purging # "idle"
    /\ purging' = "idle"
    /\ UNCHANGED <<recording, jobs, work, leftover, output, cache>>

\* The server stops and starts again: its files stay, its memory goes.
Restart ==
    /\ sess' = [r \in Rec |-> IF sess[r] = "live" THEN "over" ELSE sess[r]]
    /\ guac' = [r \in Rec |-> IF guac[r] = "open" THEN "closed" ELSE guac[r]]
    /\ asked' = {}
    /\ job' = [r \in Rec |-> "none"]
    /\ task' = [r \in Rec |-> "none"]
    /\ slots' = MaxJobs
    /\ leftover' = (leftover \/ work # {})
    /\ work' = {}
    /\ purging' = "idle"
    /\ result' = {} /\ outWhole' = {} /\ outFresh' = {}
    /\ UNCHANGED cache

RecordingNext(r) ==
    \/ Register(r) \/ AskToRecord(r) \/ Record(r) \/ Write(r) \/ Close(r)
    \/ LeaveMap(r) \/ DeleteRecording(r)

Next ==
    \/ \E r \in Rec : RecordingNext(r) \/ start(r) \/ AcquireSlot(r) \/ TaskNext(r) \/ PurgeMp4(r)
    \/ PurgeBegin \/ PurgeWork \/ PurgeEnd \/ Restart

Spec == Init /\ [][Next]_vars

\* Tasks are polled, guacenc is killed after mp4_timeout_secs, and the
\* semaphore serves those who wait in order.
Fairness == \A r \in Rec : WF_vars(TaskNext(r)) /\ SF_vars(AcquireSlot(r))

FairSpec == Spec /\ Fairness

-----------------------------------------------------------------------------
(* Properties *)

TypeOK ==
    /\ sess \in [Rec -> {"new", "live", "over", "cut"}]
    /\ guac \in [Rec -> {"none", "open", "closed"}]
    /\ job \in [Rec -> {"none", "running", "failed"}]
    /\ task \in [Rec -> Task]
    /\ slots \in 0..MaxJobs /\ asked \subseteq Rec
    /\ leftover \in BOOLEAN
    /\ result \subseteq Rec /\ work \subseteq Rec
    /\ outWhole \subseteq Rec /\ outFresh \subseteq Rec
    /\ cached \subseteq Rec /\ cacheWhole \subseteq Rec /\ cacheFresh \subseteq Rec
    /\ purging \in {"idle", "busy", "quiet"}

\* A job is marked Running exactly while its one task runs, and every permit
\* is free or held by one: no request is refused for ever as AlreadyRunning,
\* and no conversion takes a permit away for good.
JobsAccounted ==
    /\ \A r \in Rec : job[r] = "running" <=> task[r] # "none"
    /\ slots + Cardinality(Holders) = MaxJobs

\* "Only ever a complete file" (mp4_path): an MP4 offered as ready shows all
\* of its recording, provided that nobody wrote the recording, and no connection
\* was about to begin it, when its session left the map.  (start refuses the
\* recordings of sessions in the map only; the check for a recording and its
\* creation are two steps of a connection.)
ReadyShowsAll ==
    \A r \in Rec : ReadySize(r) /\ sess[r] # "cut" => r \in cacheWhole /\ guac[r] = "closed"

\* state() looks at the job map before the cache, so a failure there must not
\* hide an MP4 that is ready.
FailureHidesNothing == \A r \in Rec : job[r] = "failed" => ~ReadySize(r)

\* "a failed or abandoned job leaves only its work directory, which is
\* removed": while the process lives, a directory without a task is one that
\* could not be removed.
WorkDirsOwned == \A r \in work : task[r] \in HasSlot \ {"slot"}

\* Every conversion that was started comes to an end, so that its slot is free
\* for the next and a failed one can be retried.
JobsEnd == \A r \in Rec : job[r] = "running" ~> job[r] # "running"
=============================================================================
