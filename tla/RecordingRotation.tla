-------------------------- MODULE RecordingRotation --------------------------
(***************************************************************************)
(* The global rotation of recordings (recording.rs: rotate; main.rs): a    *)
(* pass over the recordings directory on a thread of its own, while        *)
(* sessions begin and end, their connections write, and others delete.     *)
(*                                                                         *)
(* The thread lists the directory, reads the disk's usage and unlinks in   *)
(* steps of their own; anything may happen between two of them.  A file is *)
(* a session and a number: a connection that finds no recording of its     *)
(* session begins another one, while the one that was unlinked is written  *)
(* on and keeps its blocks until it is closed.                             *)
(***************************************************************************)
EXTENDS Integers, FiniteSets, SequencesExt

CONSTANTS
    Session,
    CountLimit,  \* max_recordings, 0: no limit
    DiskLimit,   \* max_disk_percent in blocks, 0: no limit
    MaxFiles,    \* bound: recordings begun
    MaxSize      \* bound: blocks of a recording

ASSUME RotationAssumption ==
    /\ IsFiniteSet(Session)
    /\ CountLimit \in Nat /\ DiskLimit \in Nat
    /\ MaxFiles \in Nat \ {0} /\ MaxSize \in Nat

File == Session \X (1..MaxFiles)

VARIABLES
    session,   \* "new", in the manager's map ("live"), or "over"
    files,     \* the directory, oldest modification first
    open,      \* files a connection is writing
    made,      \* how many files have been created
    size,      \* their blocks
    copies,    \* sessions with an MP4 in the cache, of one block each
    pc, active, todo, over, before,  \* the pass: its place and its locals
    lost,      \* files this pass has unlinked for space while they were written
    unread,    \* those of them after which the usage could not be read
    freed      \* others have freed space since this pass first read the usage

disk == <<files, open, made, size>>
locals == <<active, todo, over, before>>
notes == <<lost, unread, freed>>
rotationVars == <<session, disk, copies, pc, locals, notes>>

RotationInit ==
    /\ session = [s \in Session |-> "new"]
    /\ files = <<>> /\ open = {} /\ made = 0
    /\ size = [f \in File |-> 0]
    /\ copies = {}
    /\ pc = "idle" /\ active = {} /\ todo = <<>> /\ over = 0 /\ before = 0
    /\ lost = {} /\ unread = {} /\ freed = FALSE

\* disk_usage_percent: an unlinked file that is open keeps its blocks.
Blocks == {b \in File \X (1..MaxSize) : b[2] <= size[b[1]]}
DiskUsed == Cardinality(Blocks) + Cardinality(copies)

\* The file a path leads to: none, or the one of its session in the directory.
At(s) == {f \in ToSet(files) : f[1] = s}

\* The blocks of a file that is neither linked nor open any more are free.
ReleaseBlocks == size' = [f \in File |-> IF f \in ToSet(files') \cup open' THEN size[f] ELSE 0]

\* Others free space while the loop of enforce_disk_limit runs.
NoteFreed == freed' = (freed \/ (pc \in {"list", "delete", "check", "usage"} /\ size' # size))

\* The end of a pass drops its locals.
EndPass ==
    /\ pc' = "idle"
    /\ active' = {} /\ todo' = <<>> /\ over' = 0 /\ before' = 0
    /\ lost' = {} /\ unread' = {} /\ freed' = FALSE

-----------------------------------------------------------------------------
(* Sessions, their connections and the others that delete *)

RegisterSession(s) ==
    /\ session[s] = "new"
    /\ session' = [session EXCEPT ![s] = "live"]
    /\ UNCHANGED <<disk, copies, pc, locals, notes>>

\* The cleanup of ended sessions does not wait for their connections.
SessionLeaves(s) ==
    /\ session[s] = "live"
    /\ session' = [session EXCEPT ![s] = "over"]
    /\ UNCHANGED <<disk, copies, pc, locals, notes>>

\* A connection creates the recording if its session has none; the session was
\* in the map when the connection asked whether to record, it may have left.
BeginRecording(s) ==
    /\ session[s] # "new" /\ At(s) = {}
    /\ made < MaxFiles
    /\ made' = made + 1
    /\ open' = open \cup {<<s, made'>>}
    /\ files' = Append(files, <<s, made'>>)
    /\ UNCHANGED <<session, size, copies, pc, locals, notes>>

\* The tee: a file that is written is the newest.
WriteBlock(f) ==
    /\ f \in open
    /\ size[f] < MaxSize
    /\ size' = [size EXCEPT ![f] = @ + 1]
    /\ \/ \E i \in DOMAIN files : files[i] = f /\ files' = Append(RemoveAt(files, i), f)
       \/ f \notin ToSet(files) /\ UNCHANGED files
    /\ UNCHANGED <<session, open, made, copies, pc, locals, notes>>

CloseFile(f) ==
    /\ f \in open
    /\ open' = open \ {f}
    /\ UNCHANGED files
    /\ ReleaseBlocks /\ NoteFreed
    /\ UNCHANGED <<session, made, copies, pc, locals, lost, unread>>

\* The API or a per-entry rotation.
DeletedByOthers(f) ==
    /\ \E i \in DOMAIN files : files[i] = f /\ files' = RemoveAt(files, i)
    /\ UNCHANGED open
    /\ ReleaseBlocks /\ NoteFreed
    /\ UNCHANGED <<session, made, copies, pc, locals, lost, unread>>

\* An MP4 is put into the cache.  (What a conversion does: Mp4Converter.)
Convert(s) ==
    /\ session[s] = "over" /\ At(s) # {}
    /\ s \notin copies
    /\ copies' = copies \cup {s}
    /\ UNCHANGED <<session, disk, pc, locals, notes>>

RestartServer ==
    /\ session' = [s \in Session |-> IF session[s] = "live" THEN "over" ELSE session[s]]
    /\ open' = {}
    /\ UNCHANGED files
    /\ ReleaseBlocks
    /\ EndPass
    /\ UNCHANGED <<made, copies>>

-----------------------------------------------------------------------------
(* The pass *)

PassTo(from, to) == pc = from /\ pc' = to

\* oldest_rotatable and the loop of enforce_count_limit: the paths of the
\* directory, oldest first, that belong to no session of the snapshot.
Rotatable == SelectSeq([i \in DOMAIN files |-> files[i][1]], LAMBDA s : s \notin active)

\* The timer of the task, which is spawned if there is a limit, fires.
active_recording_paths ==
    /\ CountLimit > 0 \/ DiskLimit > 0
    /\ PassTo("idle", "purge")
    /\ active' = {s \in Session : session[s] = "live"}
    /\ UNCHANGED <<session, disk, copies, notes, todo, over, before>>

\* Too full: the MP4s go before any recording does.  (Here and below, a
\* reading of the usage may fail.)
PurgeCopies ==
    /\ PassTo("purge", "count")
    /\ \/ copies' = IF DiskLimit > 0 /\ DiskUsed > DiskLimit THEN {} ELSE copies
       \/ UNCHANGED copies
    /\ UNCHANGED <<session, disk, locals, notes>>

\* enforce_count_limit lists the directory once; live recordings count.
ListForCount ==
    /\ pc = "count"
    /\ \/ /\ CountLimit > 0 /\ Len(files) > CountLimit
          /\ over' = Len(files) - CountLimit
          /\ todo' = Rotatable
          /\ pc' = "cull"
       \/ /\ CountLimit = 0 \/ Len(files) <= CountLimit
          /\ pc' = "usage"
          /\ UNCHANGED <<over, todo>>
    /\ UNCHANGED <<session, disk, copies, active, before, notes>>

\* delete_recording unlinks what is at the path now.  There may be nothing,
\* or it may fail, which the callers do not hear of.
delete_recording(s) ==
    /\ \/ \E i \in DOMAIN files : files[i][1] = s /\ files' = RemoveAt(files, i)
       \/ UNCHANGED files
    /\ UNCHANGED open
    /\ ReleaseBlocks

\* The next file of the list; the deletion counts even if it fails.
Cull ==
    /\ pc = "cull"
    /\ \/ /\ over > 0 /\ todo # <<>>
          /\ delete_recording(Head(todo))
          /\ todo' = Tail(todo) /\ over' = over - 1
          /\ UNCHANGED pc
       \/ /\ over = 0 \/ todo = <<>>
          /\ todo' = <<>> /\ over' = 0
          /\ pc' = "usage"
          /\ UNCHANGED <<files, open, size>>
    /\ UNCHANGED <<session, made, copies, active, before, notes>>

\* The loop of enforce_disk_limit begins: how full is the disk?
ReadUsage ==
    /\ pc = "usage"
    /\ \/ /\ DiskLimit > 0 /\ DiskUsed > DiskLimit
          /\ before' = DiskUsed
          /\ pc' = "list"
          /\ UNCHANGED <<active, todo, over, notes>>
       \/ EndPass  \* no limit, below it, or no reading
    /\ UNCHANGED <<session, disk, copies>>

oldest_rotatable ==
    /\ pc = "list"
    /\ \/ /\ Rotatable # <<>>
          /\ todo' = <<Head(Rotatable)>>
          /\ pc' = "delete"
          /\ UNCHANGED <<active, over, before, notes>>
       \/ Rotatable = <<>> /\ EndPass
    /\ UNCHANGED <<session, disk, copies>>

DeleteOldest ==
    /\ PassTo("delete", "check")
    /\ delete_recording(Head(todo))
    /\ todo' = <<>>
    /\ lost' = lost \cup ((ToSet(files) \ ToSet(files')) \cap open)
    /\ UNCHANGED <<session, made, copies, active, over, before, unread, freed>>

\* Mutants: go on while the usage is what it was; go on in any case.
CheckProgressLate ==
    /\ pc = "check"
    /\ \/ DiskUsed > before /\ EndPass
       \/ DiskUsed <= before /\ pc' = "usage" /\ UNCHANGED <<locals, notes>>
    /\ UNCHANGED <<session, disk, copies>>
CheckNoProgress ==
    /\ PassTo("check", "usage")
    /\ UNCHANGED <<session, disk, copies, locals, notes>>

\* The progress guard: a deletion that freed nothing is the last.
CheckProgress ==
    /\ pc = "check"
    /\ \/ DiskUsed >= before /\ EndPass
       \/ DiskUsed < before /\ pc' = "usage" /\ UNCHANGED <<locals, notes>>
    /\ UNCHANGED <<session, disk, copies>>

\* No reading, no guard: the loop goes on.
CheckUnread ==
    /\ PassTo("check", "usage")
    /\ unread' = lost
    /\ UNCHANGED <<session, disk, copies, locals, lost, freed>>

rotate ==
    \/ PurgeCopies \/ ListForCount \/ Cull
    \/ ReadUsage \/ oldest_rotatable \/ DeleteOldest \/ CheckProgress \/ CheckUnread

RotationNext ==
    \/ \E s \in Session : RegisterSession(s) \/ SessionLeaves(s) \/ BeginRecording(s) \/ Convert(s)
    \/ \E f \in File : WriteBlock(f) \/ CloseFile(f) \/ DeletedByOthers(f)
    \/ RestartServer
    \/ active_recording_paths \/ rotate

RotationSpec == RotationInit /\ [][RotationNext]_rotationVars

\* The blocking thread of a pass runs.
FairRotationSpec == RotationSpec /\ WF_rotationVars(rotate)

-----------------------------------------------------------------------------
(* Properties *)

\* "Two rules prevent the runaway that once wiped an entire recordings
\* directory" (enforce_disk_limit): a session that began after the snapshot, or
\* left the map before its connections ended, is not protected by the first
\* rule, so a full disk may cost it the recording it is writing; but then the
\* usage does not fall and the pass takes no second one, unless others have
\* freed space meanwhile or the usage could not be read just then, which skips
\* the second rule: each such reading may cost one more.
NoRunaway == freed \/ Cardinality(lost \ unread) <= 1

\* A pass ends although deletions fail silently (the oldest file stays the
\* oldest) and although sessions go on writing: otherwise its thread would spin
\* and no later pass would ever run.  Only a usage that is readable before each
\* deletion and unreadable after it, again and again, keeps a pass going.
RotationEnds == (pc # "idle" ~> pc = "idle") \/ []<><<CheckUnread>>_rotationVars
=============================================================================
