--------------------------- MODULE RecordingProofs ---------------------------
(***************************************************************************)
(* Proofs about what happens to recordings on the disk: Mp4Converter, for  *)
(* every finite set of recordings and every number of slots, and           *)
(* RecordingRotation, for every finite set of sessions, all limits and all *)
(* of the bounds.                                                          *)
(***************************************************************************)
EXTENDS Mp4Converter, RecordingRotation, FiniteSetTheorems, SequenceTheorems, TLAPS

-----------------------------------------------------------------------------
(* Mp4Converter *)

\* All of TypeOK but the upper bound of slots, which Permits gives.
Types ==
    /\ sess \in [Rec -> {"new", "live", "over", "cut"}]
    /\ guac \in [Rec -> {"none", "open", "closed"}]
    /\ job \in [Rec -> {"none", "running", "failed"}]
    /\ task \in [Rec -> Task]
    /\ slots \in Nat /\ asked \subseteq Rec
    /\ leftover \in BOOLEAN
    /\ result \subseteq Rec /\ work \subseteq Rec
    /\ outWhole \subseteq Rec /\ outFresh \subseteq Rec
    /\ cached \subseteq Rec /\ cacheWhole \subseteq Rec /\ cacheFresh \subseteq Rec
    /\ purging \in {"idle", "busy", "quiet"}

\* A running job is the work of one task, and only a task at its end has a result.
Tasks ==
    \A r \in Rec :
        /\ job[r] = "running" <=> task[r] # "none"
        /\ r \in result => task[r] \in {"tidy", "report"}

\* Every permit is free or held.
Permits == slots + Cardinality(Holders) = MaxJobs

\* A conversion is under way, or failed, only where nothing is ready: start
\* looks first, and only the conversion itself can change it.
NothingReady ==
    \A r \in Rec :
        \/ task[r] \notin {"none", "tidy", "report"}
        \/ task[r] \in {"tidy", "report"} /\ r \notin result
        \/ job[r] = "failed"
        => ~ReadySize(r)

\* Nothing is made of the recording of a session that is still in the map; a
\* session that left it in good order is not recorded any more, so what was
\* read of its recording stays the whole of it.
OutputsWhole ==
    \A r \in Rec :
        /\ sess[r] \in {"new", "live"} => task[r] = "none" /\ r \notin cached
        /\ sess[r] = "new" => guac[r] = "none"
        /\ r \in asked => sess[r] \in {"live", "cut"}
        /\ sess[r] = "over" =>
              /\ guac[r] # "open"
              /\ r \in cached => r \in cacheWhole
              /\ task[r] \in {"encoding", "encoded"} => r \in outWhole

ConverterInv == Types /\ Tasks /\ WorkDirsOwned /\ Permits /\ NothingReady /\ OutputsWhole

LEMMA ConverterInit == Init => ConverterInv
<1> SUFFICES ASSUME Init PROVE ConverterInv
  OBVIOUS
<1>1. Types /\ Tasks /\ WorkDirsOwned /\ NothingReady /\ OutputsWhole
  BY ConverterAssumption
     DEF Init, Types, Task, Tasks, WorkDirsOwned, NothingReady, ReadySize, OutputsWhole
<1>2. Holders = {}
  BY DEF Init, Holders, HasSlot
<1>3. Permits
  BY <1>2, FS_EmptySet, ConverterAssumption DEF Permits, Init
<1> QED  BY <1>1, <1>3 DEF ConverterInv

\* The permits are accounted for as long as the same tasks hold them.
LEMMA HoldersFinite == IsFiniteSet(Holders) /\ Cardinality(Holders) \in Nat
BY ConverterAssumption, FS_Subset, FS_CardinalityType DEF Holders

LEMMA PermitsKept ==
    ASSUME Permits, Holders' = Holders, slots' = slots
    PROVE  Permits'
BY DEF Permits

\* The steps of the recordings and of purge leave the jobs alone.
LEMMA OutsideStep ==
    ASSUME ConverterInv, NEW r \in Rec,
           \/ RecordingNext(r) \/ PurgeMp4(r) \/ PurgeBegin \/ PurgeWork \/ PurgeEnd
    PROVE  ConverterInv'
<1> USE DEF ConverterInv, Types, Tasks, WorkDirsOwned, NothingReady, ReadySize, OutputsWhole,
            recording, jobs, output, cache
<1>0. ASSUME UNCHANGED jobs PROVE Permits'
  BY <1>0, PermitsKept DEF Holders
<1>1. CASE Register(r)
  BY <1>1, <1>0 DEF Register, SetSession
<1>2. CASE AskToRecord(r)
  BY <1>2, <1>0 DEF AskToRecord
<1>11. CASE Record(r)
  BY <1>11, <1>0 DEF Record, Outdate
<1>3. CASE Write(r)
  BY <1>3, <1>0 DEF Write, Outdate
<1>4. CASE Close(r)
  BY <1>4, <1>0 DEF Close
<1>5. CASE LeaveMap(r)
  BY <1>5, <1>0 DEF LeaveMap, SetSession
<1>6. CASE DeleteRecording(r)
  BY <1>6, <1>0 DEF DeleteRecording
<1>7. CASE PurgeMp4(r)
  BY <1>7, <1>0 DEF PurgeMp4
<1>8. CASE PurgeBegin
  BY <1>8, <1>0 DEF PurgeBegin
<1>9. CASE PurgeWork
  BY <1>9, <1>0 DEF PurgeWork
<1>10. CASE PurgeEnd
  BY <1>10, <1>0 DEF PurgeEnd
<1> QED  BY <1>1, <1>2, <1>3, <1>4, <1>5, <1>6, <1>7, <1>8, <1>9, <1>10, <1>11
     DEF RecordingNext

\* The steps of start and its task that neither take nor give a permit.
LEMMA TaskStep ==
    ASSUME ConverterInv, NEW r \in Rec,
           \/ start(r) \/ MakeWorkDir(r) \/ Link(r) \/ Encode(r) \/ Encoded(r) \/ Store(r)
           \/ Fail(r) \/ Report(r)
    PROVE  ConverterInv'
<1> USE DEF ConverterInv, Types, Task, Tasks, WorkDirsOwned, NothingReady, ReadySize, OutputsWhole,
            HasSlot, Goto, recording, jobs, output, cache
<1>0. ASSUME slots' = slots, \A q \in Rec : task'[q] \in HasSlot <=> task[q] \in HasSlot
      PROVE  Permits'
  BY <1>0, PermitsKept DEF Holders
<1>1. CASE start(r)
  BY <1>1, <1>0 DEF start
<1>2. CASE MakeWorkDir(r)
  BY <1>2, <1>0 DEF MakeWorkDir
<1>3. CASE Link(r)
  BY <1>3, <1>0 DEF Link
<1>4. CASE Encode(r)
  BY <1>4, <1>0 DEF Encode
<1>5. CASE Encoded(r)
  BY <1>5, <1>0 DEF Encoded
<1>6. CASE Store(r)
  BY <1>6, <1>0 DEF Store
<1>7. CASE Fail(r)
  BY <1>7, <1>0 DEF Fail
<1>8. CASE Report(r)
  BY <1>8, <1>0 DEF Report
<1> QED  BY <1>1, <1>2, <1>3, <1>4, <1>5, <1>6, <1>7, <1>8

\* A permit is taken and given back.
LEMMA SlotStep ==
    ASSUME ConverterInv, NEW r \in Rec, AcquireSlot(r) \/ Tidy(r)
    PROVE  ConverterInv'
<1> USE DEF ConverterInv, Types, Task, Tasks, WorkDirsOwned, NothingReady, ReadySize, OutputsWhole,
            HasSlot, Goto, recording, jobs, output, cache
<1>1. CASE AcquireSlot(r)
  <2>1. r \notin Holders /\ Holders' = Holders \cup {r}
    BY <1>1 DEF AcquireSlot, Holders
  <2>2. Cardinality(Holders') = Cardinality(Holders) + 1
    BY <2>1, HoldersFinite, FS_AddElement
  <2>3. Permits'
    BY <2>2, <1>1, HoldersFinite, ConverterAssumption DEF AcquireSlot, Permits
  <2> QED  BY <2>3, <1>1 DEF AcquireSlot
<1>2. CASE Tidy(r)
  <2>1. r \in Holders /\ Holders' = Holders \ {r}
    BY <1>2 DEF Tidy, Holders
  <2>2. Cardinality(Holders') = Cardinality(Holders) - 1
    BY <2>1, HoldersFinite, FS_RemoveElement
  <2>3. Permits'
    BY <2>2, <1>2, HoldersFinite, ConverterAssumption DEF Tidy, Permits
  <2>4. leftover' \in BOOLEAN
    BY <1>2 DEF Tidy
  <2>5. /\ task[r] = "tidy" /\ task' = [task EXCEPT ![r] = "report"]
        /\ work' = work \ {r} /\ slots' = slots + 1
        /\ outWhole' = outWhole \ {r} /\ outFresh' = outFresh \ {r}
        /\ UNCHANGED <<recording, job, result, cache, purging>>
    BY <1>2 DEF Tidy, DropOutput
  <2> QED  BY <2>3, <2>4, <2>5
<1> QED  BY <1>1, <1>2

LEMMA RestartStep == ConverterInv /\ Restart => ConverterInv'
<1> SUFFICES ASSUME ConverterInv, Restart PROVE ConverterInv'
  OBVIOUS
<1>1. (Types /\ Tasks /\ WorkDirsOwned /\ NothingReady /\ OutputsWhole)'
  BY ConverterAssumption
     DEF ConverterInv, Restart, Types, Task, Tasks, WorkDirsOwned, NothingReady, ReadySize,
         OutputsWhole, cache
<1>2. Holders' = {}
  BY DEF Restart, Holders, HasSlot
<1>3. Permits'
  BY <1>2, FS_EmptySet, ConverterAssumption DEF Permits, Restart
<1> QED  BY <1>1, <1>3 DEF ConverterInv

LEMMA ConverterStep == ConverterInv /\ [Next]_vars => ConverterInv'
<1> SUFFICES ASSUME ConverterInv, [Next]_vars PROVE ConverterInv'
  OBVIOUS
<1>1. CASE UNCHANGED vars
  BY <1>1, PermitsKept
     DEF vars, ConverterInv, Types, Tasks, WorkDirsOwned, NothingReady, ReadySize, OutputsWhole,
         Holders, recording, jobs, output, cache
<1>2. CASE Restart
  BY <1>2, RestartStep
<1>3. ASSUME NEW r \in Rec,
             RecordingNext(r) \/ start(r) \/ AcquireSlot(r) \/ TaskNext(r) \/ PurgeMp4(r)
      PROVE  ConverterInv'
  BY <1>3, OutsideStep, TaskStep, SlotStep DEF TaskNext
<1>4. CASE PurgeBegin \/ PurgeWork \/ PurgeEnd
  <2>1. CASE Rec = {}
    BY <2>1, <1>4, PermitsKept
       DEF PurgeBegin, PurgeWork, PurgeEnd, ConverterInv, Types, Tasks, WorkDirsOwned,
           NothingReady, OutputsWhole, Holders, recording, jobs, output, cache
  <2>2. CASE Rec # {}
    BY <2>2, <1>4, OutsideStep
  <2> QED  BY <2>1, <2>2
<1> QED  BY <1>1, <1>2, <1>3, <1>4 DEF Next

\* The inductive invariant of start, its tasks, the slots and purge holds in every
\* reachable state; the theorems below are its parts.
THEOREM ConverterInvariant == Spec => []ConverterInv
<1> QED  BY ConverterInit, ConverterStep, PTL DEF Spec

\* Type correctness of the converter.
THEOREM ConverterTypeCorrect == Spec => []TypeOK
<1>1. ConverterInv => TypeOK
  BY HoldersFinite, ConverterAssumption DEF ConverterInv, Types, Permits, TypeOK
<1> QED  BY <1>1, ConverterInvariant, PTL

\* Jobs and permits are accounted for: a job is Running exactly while its
\* task runs, and no permit is lost or granted twice (start, convert).
THEOREM JobsAreAccounted == Spec => []JobsAccounted
<1>1. ConverterInv => JobsAccounted
  BY DEF ConverterInv, Tasks, Permits, JobsAccounted
<1> QED  BY <1>1, ConverterInvariant, PTL

\* An MP4 that ready_size offers shows its whole recording, unless it was being
\* written, or about to be, when its session left the map.
THEOREM ReadyIsWhole == Spec => []ReadyShowsAll
<1>1. ConverterInv => ReadyShowsAll
  BY DEF ConverterInv, Types, OutputsWhole, ReadyShowsAll, ReadySize
<1> QED  BY <1>1, ConverterInvariant, PTL

\* A remembered failure never hides an MP4 that is ready (state).
THEOREM FailuresAreHonest == Spec => []FailureHidesNothing
<1>1. ConverterInv => FailureHidesNothing
  BY DEF ConverterInv, NothingReady, FailureHidesNothing
<1> QED  BY <1>1, ConverterInvariant, PTL

\* Only a work directory that cannot be removed outlives its task while the
\* process lives (convert).
THEOREM WorkDirsHaveTasks == Spec => []WorkDirsOwned
<1>1. ConverterInv => WorkDirsOwned
  BY DEF ConverterInv
<1> QED  BY <1>1, ConverterInvariant, PTL

-----------------------------------------------------------------------------
(* RecordingRotation *)

PassPlace == {"idle", "purge", "count", "cull", "usage", "list", "delete", "check"}

DiskTypeOK ==
    /\ files \in Seq(File) /\ open \subseteq File
    /\ size \in [File -> 0..MaxSize]
    /\ copies \subseteq Session
    /\ made \in 0..MaxFiles
    /\ pc \in PassPlace
    /\ before \in Nat
    /\ freed \in BOOLEAN

\* The directory d has one recording of a session at most.
OneAPath(d) == \A i, j \in DOMAIN d : d[i][1] = d[j][1] => i = j

\* A file that is neither linked nor open has no blocks.
BlocksHeld == \A f \in File : size[f] # 0 => f \in ToSet(files) \cup open

\* What was lost and is not put down to an unreadable usage.
Charged == lost \ unread
LostOne == Charged = {} \/ \E f : Charged = {f}

\* A pass that has unlinked a recording that is being written has not seen
\* the usage fall: it ends at the next check, if the usage can be read then.
Guarded ==
    /\ pc \in {"idle", "purge", "count", "cull", "usage"} => Charged = {}
    /\ pc \in {"list", "delete"} => Charged = {} /\ DiskUsed >= before
    /\ pc = "check" => Charged = {} \/ (LostOne /\ DiskUsed >= before)

RotationInv == DiskTypeOK /\ OneAPath(files) /\ BlocksHeld /\ (~freed => Guarded)

LEMMA RemoveAtIs ==
    ASSUME NEW S, NEW s \in Seq(S), NEW i \in 1..Len(s)
    PROVE  /\ RemoveAt(s, i) \in Seq(S) /\ Len(RemoveAt(s, i)) = Len(s) - 1
           /\ \A k \in 1..(Len(s) - 1) : RemoveAt(s, i)[k] = IF k < i THEN s[k] ELSE s[k + 1]
<1> DEFINE a == SubSeq(s, 1, i - 1)
           b == SubSeq(s, i + 1, Len(s))
<1>0. Len(s) \in Nat /\ \A k \in 1..Len(s) : s[k] \in S
  OBVIOUS
<1>1. a \in Seq(S) /\ Len(a) = i - 1 /\ \A k \in 1..(i - 1) : a[k] = s[k]
  <2> DEFINE m == 1
             n == i - 1
  <2>1. m \in Int /\ n \in Int /\ \A k \in m..n : s[k] \in S
    BY <1>0
  <2>2. /\ SubSeq(s, m, n) \in Seq(S) /\ Len(SubSeq(s, m, n)) = IF m <= n THEN n - m + 1 ELSE 0
        /\ \A k \in 1..(n - m + 1) : SubSeq(s, m, n)[k] = s[m + k - 1]
    <3> HIDE DEF m, n
    <3> QED BY <2>1, SubSeqProperties
  <2> QED BY <2>2
<1>2. b \in Seq(S) /\ Len(b) = Len(s) - i /\ \A k \in 1..(Len(s) - i) : b[k] = s[i + k]
  <2> DEFINE m == i + 1
             n == Len(s)
  <2>1. m \in Int /\ n \in Int /\ \A k \in m..n : s[k] \in S
    BY <1>0
  <2>2. /\ SubSeq(s, m, n) \in Seq(S) /\ Len(SubSeq(s, m, n)) = IF m <= n THEN n - m + 1 ELSE 0
        /\ \A k \in 1..(n - m + 1) : SubSeq(s, m, n)[k] = s[m + k - 1]
    <3> HIDE DEF m, n
    <3> QED BY <2>1, SubSeqProperties
  <2>3. /\ n - m + 1 = Len(s) - i /\ (IF m <= n THEN n - m + 1 ELSE 0) = Len(s) - i
        /\ \A k \in 1..(Len(s) - i) : m + k - 1 = i + k
    BY <1>0
  <2>4. b = SubSeq(s, m, n)
    OBVIOUS
  <2> HIDE DEF m, n, b
  <2>5. ASSUME NEW k \in 1..(Len(s) - i) PROVE b[k] = s[i + k]
    <3>1. b[k] = s[m + k - 1]
      BY <2>2, <2>3, <2>4
    <3>2. m + k - 1 = i + k
      BY <2>3
    <3> QED BY <3>1, <3>2
  <2> QED BY <2>2, <2>3, <2>4, <2>5
<1> HIDE DEF a, b
<1>3. /\ a \o b \in Seq(S) /\ Len(a \o b) = Len(a) + Len(b)
      /\ \A k \in 1..(Len(a) + Len(b)) : (a \o b)[k] = IF k <= Len(a) THEN a[k] ELSE b[k - Len(a)]
  BY <1>1, <1>2, ConcatProperties
<1>4. RemoveAt(s, i) = a \o b
  BY DEF RemoveAt, a, b
<1>5. ASSUME NEW k \in 1..(Len(s) - 1)
      PROVE  (a \o b)[k] = IF k < i THEN s[k] ELSE s[k + 1]
  <2>1. (a \o b)[k] = IF k <= i - 1 THEN a[k] ELSE b[k - (i - 1)]
    BY <1>0, <1>1, <1>2, <1>3
  <2>2. CASE k < i
    BY <1>1, <2>1, <2>2
  <2>3. CASE k >= i
    <3> DEFINE x == k - (i - 1)
    <3>1. x \in 1..(Len(s) - i) /\ i + x = k + 1 /\ ~ (k <= i - 1) /\ ~ (k < i)
      BY <1>0, <2>3
    <3>2. (a \o b)[k] = b[x]
      BY <2>1, <3>1
    <3> HIDE DEF x
    <3>3. b[x] = s[i + x]
      BY <1>2, <3>1
    <3>4. s[i + x] = s[k + 1]
      BY <3>1
    <3>5. (a \o b)[k] = s[k + 1]
      BY <3>2, <3>3, <3>4, Zenon
    <3>6. (IF k < i THEN s[k] ELSE s[k + 1]) = s[k + 1]
      BY <3>1
    <3> QED BY <3>5, <3>6
  <2>4. k < i \/ k >= i
    BY <1>0
  <2> QED BY <2>2, <2>3, <2>4, Zenon
<1>6. Len(a \o b) = Len(s) - 1
  BY <1>0, <1>1, <1>2, <1>3
<1>7. /\ a \o b \in Seq(S) /\ Len(a \o b) = Len(s) - 1
      /\ \A k \in 1..(Len(s) - 1) : (a \o b)[k] = IF k < i THEN s[k] ELSE s[k + 1]
  BY <1>3, <1>5, <1>6, Zenon
<1> QED BY <1>4, <1>7, Zenon

\* A file leaves the directory.
LEMMA Unlinked ==
    ASSUME NEW d \in Seq(File), OneAPath(d), NEW i \in DOMAIN d
    PROVE  /\ RemoveAt(d, i) \in Seq(File) /\ OneAPath(RemoveAt(d, i))
           /\ ToSet(RemoveAt(d, i)) = ToSet(d) \ {d[i]}
<1> DEFINE t == RemoveAt(d, i)
<1>0. i \in 1..Len(d) /\ Len(d) \in Nat /\ DOMAIN d = 1..Len(d)
  OBVIOUS
<1>1. /\ t \in Seq(File) /\ Len(t) = Len(d) - 1
      /\ \A k \in 1..(Len(d) - 1) : t[k] = IF k < i THEN d[k] ELSE d[k + 1]
  BY <1>0, RemoveAtIs
<1> HIDE DEF t
<1>2. DOMAIN t = 1..(Len(d) - 1)
  BY <1>1
<1>3. OneAPath(t)
  <2> SUFFICES ASSUME NEW k \in 1..(Len(d) - 1), NEW m \in 1..(Len(d) - 1), t[k][1] = t[m][1]
               PROVE  k = m
    BY <1>2 DEF OneAPath
  <2> DEFINE x == IF k < i THEN k ELSE k + 1
             y == IF m < i THEN m ELSE m + 1
  <2>1. x \in 1..Len(d) /\ y \in 1..Len(d) /\ t[k] = d[x] /\ t[m] = d[y]
    BY <1>0, <1>1
  <2>2. x = y
    BY <1>0, <2>1 DEF OneAPath
  <2> QED BY <1>0, <2>2
<1>4. ToSet(t) \subseteq ToSet(d) \ {d[i]}
  <2> SUFFICES ASSUME NEW k \in 1..(Len(d) - 1) PROVE t[k] \in ToSet(d) /\ t[k] # d[i]
    BY <1>2 DEF ToSet
  <2> DEFINE x == IF k < i THEN k ELSE k + 1
  <2>1. x \in 1..Len(d) /\ t[k] = d[x] /\ x # i
    BY <1>0, <1>1
  <2> QED BY <1>0, <2>1 DEF ToSet, OneAPath
<1>5. ToSet(d) \ {d[i]} \subseteq ToSet(t)
  <2> SUFFICES ASSUME NEW x \in 1..Len(d), d[x] # d[i] PROVE \E k \in 1..(Len(d) - 1) : t[k] = d[x]
    BY <1>0, <1>2 DEF ToSet
  <2>1. x # i
    OBVIOUS
  <2> DEFINE k == IF x < i THEN x ELSE x - 1
  <2>2. k \in 1..(Len(d) - 1) /\ t[k] = d[x]
    BY <1>0, <1>1, <2>1
  <2> QED BY <2>2
<1> QED BY <1>1, <1>3, <1>4, <1>5 DEF t

\* A file comes into the directory, the newest.
LEMMA Linked ==
    ASSUME NEW d \in Seq(File), OneAPath(d), NEW f \in File, \A g \in ToSet(d) : g[1] # f[1]
    PROVE  /\ Append(d, f) \in Seq(File) /\ OneAPath(Append(d, f))
           /\ ToSet(Append(d, f)) = ToSet(d) \cup {f}
<1> DEFINE t == Append(d, f)
<1>1. /\ t \in Seq(File) /\ DOMAIN t = 1..(Len(d) + 1) /\ DOMAIN d = 1..Len(d) /\ Len(d) \in Nat
      /\ t[Len(d) + 1] = f /\ \A i \in 1..Len(d) : t[i] = d[i]
  OBVIOUS
<1> HIDE DEF t
<1>2. \A i \in 1..Len(d) : d[i][1] # f[1]
  BY <1>1 DEF ToSet
<1>3. OneAPath(t)
  <2> SUFFICES ASSUME NEW k \in 1..(Len(d) + 1), NEW m \in 1..(Len(d) + 1), t[k][1] = t[m][1]
               PROVE  k = m
    BY <1>1 DEF OneAPath
  <2>1. CASE k \in 1..Len(d) /\ m \in 1..Len(d)
    BY <1>1, <2>1 DEF OneAPath
  <2>2. CASE k = Len(d) + 1 \/ m = Len(d) + 1
    BY <1>1, <1>2, <2>2
  <2> QED BY <1>1, <2>1, <2>2
<1>4. ToSet(t) = ToSet(d) \cup {f}
  BY <1>1 DEF ToSet
<1> QED BY <1>1, <1>3, <1>4 DEF t

LEMMA BlocksFinite ==
    ASSUME NEW sz
    PROVE  IsFiniteSet({b \in File \X (1..MaxSize) : b[2] <= sz[b[1]]})
<1> DEFINE A == 1..MaxFiles
           B == 1..MaxSize
<1>1. IsFiniteSet(A) /\ IsFiniteSet(B)
  BY RotationAssumption, FS_Interval
<1> HIDE DEF A, B
<1>2. IsFiniteSet(Session \X A)
  BY <1>1, RotationAssumption, FS_Product
<1> DEFINE F == Session \X A
<1>3. IsFiniteSet(F)
  BY <1>2
<1> HIDE DEF F
<1>4. IsFiniteSet(F \X B)
  BY <1>1, <1>3, FS_Product
<1>5. F = File
  BY DEF F, A, File
<1>6. IsFiniteSet(File \X (1..MaxSize))
  BY <1>4, <1>5 DEF B
<1> DEFINE U == File \X (1..MaxSize)
           T == {b \in File \X (1..MaxSize) : b[2] <= sz[b[1]]}
<1>7. T \in SUBSET U /\ IsFiniteSet(U)
  BY <1>6
<1> HIDE DEF T, U
<1>8. IsFiniteSet(T)
  BY <1>7, FS_Subset
<1> QED BY <1>8 DEF T

LEMMA UsedIsNat ==
    ASSUME DiskTypeOK
    PROVE  DiskUsed \in Nat
<1>1. IsFiniteSet(Blocks)
  BY BlocksFinite, Zenon DEF Blocks
<1>2. IsFiniteSet(copies)
  BY RotationAssumption, FS_Subset DEF DiskTypeOK
<1>3. Cardinality(Blocks) \in Nat /\ Cardinality(copies) \in Nat
  BY <1>1, <1>2, FS_CardinalityType
<1> QED BY <1>3 DEF DiskUsed

\* The usage falls only if a file or a copy loses blocks.
LEMMA UsedGrows ==
    ASSUME DiskTypeOK, DiskTypeOK', \A f \in File : size[f] <= size'[f], copies \subseteq copies'
    PROVE  DiskUsed' >= DiskUsed /\ DiskUsed \in Nat /\ DiskUsed' \in Nat
<1>1. IsFiniteSet(Blocks')
  BY BlocksFinite, Zenon DEF Blocks
<1>2. IsFiniteSet(copies')
  BY RotationAssumption, FS_Subset DEF DiskTypeOK
<1>3. Blocks \subseteq Blocks'
  <2> SUFFICES ASSUME NEW f \in File, NEW n \in 1..MaxSize, n <= size[f] PROVE n <= size'[f]
    BY DEF Blocks
  <2>1. size[f] \in 0..MaxSize /\ size'[f] \in 0..MaxSize /\ size[f] <= size'[f]
    BY DEF DiskTypeOK
  <2> QED BY <2>1, RotationAssumption
<1>4. Cardinality(Blocks) <= Cardinality(Blocks') /\ IsFiniteSet(Blocks)
  BY <1>1, <1>3, FS_Subset
<1>5. Cardinality(copies) <= Cardinality(copies') /\ IsFiniteSet(copies)
  BY <1>2, FS_Subset
<1>6. /\ Cardinality(Blocks) \in Nat /\ Cardinality(Blocks') \in Nat
      /\ Cardinality(copies) \in Nat /\ Cardinality(copies') \in Nat
  BY <1>1, <1>2, <1>4, <1>5, FS_CardinalityType
<1>7. DiskUsed = Cardinality(Blocks) + Cardinality(copies)
      /\ DiskUsed' = Cardinality(Blocks') + Cardinality(copies')
  BY DEF DiskUsed
<1> QED BY <1>4, <1>5, <1>6, <1>7

\* What is left of the blocks when links and descriptors go.
LEMMA Released ==
    ASSUME size \in [File -> 0..MaxSize], BlocksHeld, ReleaseBlocks
    PROVE  /\ size' \in [File -> 0..MaxSize] /\ BlocksHeld'
           /\ ToSet(files) \cup open \subseteq ToSet(files') \cup open' => size' = size
<1>0. size' = [f \in File |-> IF f \in ToSet(files') \cup open' THEN size[f] ELSE 0]
  BY DEF ReleaseBlocks
<1>1. size' \in [File -> 0..MaxSize]
  BY <1>0, RotationAssumption
<1>2. BlocksHeld'
  BY <1>0 DEF BlocksHeld
<1>3. ASSUME ToSet(files) \cup open \subseteq ToSet(files') \cup open' PROVE size' = size
  <2>1. \A f \in File : size'[f] = size[f]
    BY <1>0, <1>3 DEF BlocksHeld
  <2> QED BY <1>1, <2>1
<1> QED BY <1>1, <1>2, <1>3

LEMMA SizesSame ==
    ASSUME DiskTypeOK, size' = size
    PROVE  \A f \in File : size[f] <= size'[f]
BY RotationAssumption DEF DiskTypeOK

\* A step that leaves the pass where it is, and frees nothing.
LEMMA GuardedStays ==
    ASSUME DiskTypeOK, DiskTypeOK', Guarded, pc' = pc, lost' = lost, before' = before,
           unread' = unread, \A f \in File : size[f] <= size'[f], copies \subseteq copies'
    PROVE  Guarded'
<1>1. DiskUsed' >= DiskUsed /\ DiskUsed \in Nat /\ DiskUsed' \in Nat
  BY UsedGrows
<1>2. DiskUsed >= before => DiskUsed' >= before'
  BY <1>1 DEF DiskTypeOK
<1>3. Charged' = Charged
  BY DEF Charged
<1>4. LostOne => LostOne'
  BY <1>3 DEF LostOne
<1> QED BY <1>2, <1>3, <1>4, Zenon DEF Guarded

\* The sessions, their connections and the others that delete.
LEMMA OthersKeep ==
    ASSUME RotationInv,
           \/ \E s \in Session : RegisterSession(s) \/ SessionLeaves(s) \/ BeginRecording(s) \/ Convert(s)
           \/ \E f \in File : WriteBlock(f) \/ CloseFile(f) \/ DeletedByOthers(f)
           \/ RestartServer
    PROVE  RotationInv'
<1>0. DiskTypeOK /\ OneAPath(files) /\ BlocksHeld /\ (~freed => Guarded)
  BY Zenon DEF RotationInv
<1>1. ASSUME NEW s \in Session, RegisterSession(s) \/ SessionLeaves(s)
      PROVE  RotationInv'
  <2>1. /\ files' = files /\ open' = open /\ made' = made /\ size' = size /\ copies' = copies
        /\ unread' = unread /\ pc' = pc /\ before' = before /\ lost' = lost /\ freed' = freed
    BY <1>1 DEF RegisterSession, SessionLeaves, disk, locals, notes
  <2>2. DiskTypeOK' /\ OneAPath(files') /\ BlocksHeld'
    BY <1>0, <2>1 DEF DiskTypeOK, BlocksHeld
  <2>3. ~freed' => Guarded'
    BY <1>0, <2>1, <2>2, SizesSame, GuardedStays
  <2> QED BY <2>2, <2>3 DEF RotationInv
<1>2. ASSUME NEW s \in Session, BeginRecording(s)
      PROVE  RotationInv'
  <2> DEFINE f == <<s, made'>>
  <2>1. /\ At(s) = {} /\ made < MaxFiles /\ made' = made + 1
        /\ open' = open \cup {f} /\ files' = Append(files, f) /\ size' = size /\ copies' = copies
        /\ unread' = unread /\ pc' = pc /\ before' = before /\ lost' = lost /\ freed' = freed
    BY <1>2 DEF BeginRecording, locals, notes
  <2>2. f \in File /\ made' \in 0..MaxFiles
    BY <1>0, <2>1, RotationAssumption DEF DiskTypeOK, File
  <2>3. \A g \in ToSet(files) : g[1] # f[1]
    BY <2>1 DEF At
  <2> HIDE DEF f
  <2>4. files' \in Seq(File) /\ OneAPath(files') /\ ToSet(files') = ToSet(files) \cup {f}
    BY <1>0, <2>1, <2>2, <2>3, Linked DEF DiskTypeOK
  <2>5. DiskTypeOK' /\ BlocksHeld'
    BY <1>0, <2>1, <2>2, <2>4 DEF DiskTypeOK, BlocksHeld
  <2>6. ~freed' => Guarded'
    BY <1>0, <2>1, <2>5, SizesSame, GuardedStays
  <2> QED BY <2>4, <2>5, <2>6 DEF RotationInv
<1>3. ASSUME NEW s \in Session, Convert(s)
      PROVE  RotationInv'
  <2>1. /\ files' = files /\ open' = open /\ made' = made /\ size' = size
        /\ copies' = copies \cup {s}
        /\ unread' = unread /\ pc' = pc /\ before' = before /\ lost' = lost /\ freed' = freed
    BY <1>3 DEF Convert, disk, locals, notes
  <2>2. DiskTypeOK' /\ OneAPath(files') /\ BlocksHeld' /\ copies \subseteq copies'
    BY <1>0, <2>1 DEF DiskTypeOK, BlocksHeld
  <2>3. ~freed' => Guarded'
    BY <1>0, <2>1, <2>2, SizesSame, GuardedStays
  <2> QED BY <2>2, <2>3 DEF RotationInv
<1>4. ASSUME NEW f \in File, WriteBlock(f)
      PROVE  RotationInv'
  <2>1. /\ f \in open /\ size[f] < MaxSize /\ size' = [size EXCEPT ![f] = @ + 1]
        /\ open' = open /\ made' = made /\ copies' = copies
        /\ unread' = unread /\ pc' = pc /\ before' = before /\ lost' = lost /\ freed' = freed
    BY <1>4 DEF WriteBlock, locals, notes
  <2>2. files' \in Seq(File) /\ OneAPath(files') /\ ToSet(files') = ToSet(files)
    <3>1. CASE files' = files
      BY <1>0, <3>1 DEF DiskTypeOK
    <3>2. ASSUME NEW i \in DOMAIN files, files[i] = f, files' = Append(RemoveAt(files, i), f)
          PROVE  files' \in Seq(File) /\ OneAPath(files') /\ ToSet(files') = ToSet(files)
      <4> DEFINE t == RemoveAt(files, i)
      <4>1. files \in Seq(File)
        BY <1>0 DEF DiskTypeOK
      <4>2. t \in Seq(File) /\ OneAPath(t) /\ ToSet(t) = ToSet(files) \ {f}
        BY <1>0, <3>2, <4>1, Unlinked
      <4>3. files' = Append(t, f)
        BY <3>2
      <4> HIDE DEF t
      <4>4. \A g \in ToSet(t) : g[1] # f[1]
        BY <1>0, <3>2, <4>2 DEF ToSet, OneAPath
      <4>5. files' \in Seq(File) /\ OneAPath(files') /\ ToSet(files') = ToSet(t) \cup {f}
        BY <4>2, <4>3, <4>4, Linked
      <4>6. f \in ToSet(files)
        BY <3>2 DEF ToSet
      <4> QED BY <4>2, <4>5, <4>6
    <3> QED BY <1>4, <3>1, <3>2 DEF WriteBlock
  <2>3. size' \in [File -> 0..MaxSize] /\ \A g \in File : size[g] <= size'[g]
    BY <1>0, <2>1, RotationAssumption DEF DiskTypeOK
  <2>4. DiskTypeOK' /\ BlocksHeld'
    BY <1>0, <2>1, <2>2, <2>3 DEF DiskTypeOK, BlocksHeld
  <2>5. ~freed' => Guarded'
    BY <1>0, <2>1, <2>3, <2>4, GuardedStays
  <2> QED BY <2>2, <2>4, <2>5 DEF RotationInv
<1>5. ASSUME NEW f \in File, CloseFile(f) \/ DeletedByOthers(f)
      PROVE  RotationInv'
  <2>1. /\ ReleaseBlocks /\ NoteFreed
        /\ made' = made /\ copies' = copies /\ unread' = unread /\ pc' = pc
        /\ before' = before /\ lost' = lost
    BY <1>5 DEF CloseFile, DeletedByOthers, locals
  <2>2. files' \in Seq(File) /\ OneAPath(files') /\ open' \subseteq File
    <3>1. CASE CloseFile(f)
      BY <1>0, <3>1 DEF CloseFile, DiskTypeOK
    <3>2. CASE DeletedByOthers(f)
      <4>1. PICK i \in DOMAIN files : files' = RemoveAt(files, i)
        BY <3>2 DEF DeletedByOthers
      <4>2. open' = open
        BY <3>2 DEF DeletedByOthers
      <4> QED BY <1>0, <4>1, <4>2, Unlinked DEF DiskTypeOK
    <3> QED BY <1>5, <3>1, <3>2
  <2>3. size' \in [File -> 0..MaxSize] /\ BlocksHeld'
    BY <1>0, <2>1, Released DEF DiskTypeOK
  <2>4. freed' = (freed \/ (pc \in {"list", "delete", "check", "usage"} /\ size' # size))
    BY <2>1 DEF NoteFreed
  <2>5. DiskTypeOK'
    BY <1>0, <2>1, <2>2, <2>3, <2>4 DEF DiskTypeOK
  <2>6. ASSUME ~freed' PROVE Guarded'
    <3>1. Guarded /\ (pc \notin {"list", "delete", "check", "usage"} \/ size' = size)
      BY <1>0, <2>4, <2>6
    <3>2. CASE size' = size
      BY <1>0, <2>1, <2>5, <3>1, <3>2, SizesSame, GuardedStays
    <3>3. CASE pc \notin {"list", "delete", "check", "usage"}
      BY <2>1, <3>1, <3>3 DEF Guarded, Charged
    <3> QED BY <3>1, <3>2, <3>3
  <2> QED BY <2>2, <2>3, <2>5, <2>6 DEF RotationInv
<1>6. CASE RestartServer
  <2>1. /\ files' = files /\ open' = {} /\ made' = made /\ ReleaseBlocks /\ copies' = copies
        /\ unread' = {} /\ pc' = "idle" /\ before' = 0 /\ lost' = {} /\ freed' = FALSE
    BY <1>6 DEF RestartServer, EndPass
  <2>2. size' \in [File -> 0..MaxSize] /\ BlocksHeld'
    BY <1>0, <2>1, Released DEF DiskTypeOK
  <2>3. DiskTypeOK' /\ OneAPath(files')
    BY <1>0, <2>1, <2>2 DEF DiskTypeOK, PassPlace
  <2>4. Guarded'
    BY <2>1 DEF Guarded, Charged
  <2> QED BY <2>2, <2>3, <2>4 DEF RotationInv
<1> QED BY <1>1, <1>2, <1>3, <1>4, <1>5, <1>6

\* delete_recording takes one file from the directory, or none; one that is
\* open keeps its blocks.
LEMMA DeleteTakesOne ==
    ASSUME DiskTypeOK, OneAPath(files), BlocksHeld, NEW s, delete_recording(s)
    PROVE  /\ files' \in Seq(File) /\ OneAPath(files') /\ open' = open
           /\ size' \in [File -> 0..MaxSize] /\ BlocksHeld'
           /\ \/ (ToSet(files) \ ToSet(files')) \cap open = {}
              \/ /\ \E f : (ToSet(files) \ ToSet(files')) \cap open = {f}
                 /\ size' = size
<1>1. files \in Seq(File) /\ size \in [File -> 0..MaxSize]
  BY DEF DiskTypeOK
<1>2. open' = open /\ ReleaseBlocks
  BY DEF delete_recording
<1>3. /\ size' \in [File -> 0..MaxSize] /\ BlocksHeld'
      /\ ToSet(files) \cup open \subseteq ToSet(files') \cup open' => size' = size
  BY <1>1, <1>2, Released
<1>4. CASE files' = files
  BY <1>1, <1>2, <1>3, <1>4
<1>5. ASSUME NEW i \in DOMAIN files, files' = RemoveAt(files, i)
      PROVE  /\ files' \in Seq(File) /\ OneAPath(files')
             /\ \/ (ToSet(files) \ ToSet(files')) \cap open = {}
                \/ /\ \E f : (ToSet(files) \ ToSet(files')) \cap open = {f}
                   /\ size' = size
  <2> DEFINE f == files[i]
  <2>1. files' \in Seq(File) /\ OneAPath(files') /\ ToSet(files') = ToSet(files) \ {f}
    BY <1>1, <1>5, Unlinked
  <2>2. f \in ToSet(files)
    BY DEF ToSet
  <2> HIDE DEF f
  <2>3. CASE f \in open
    <3>1. ToSet(files) \cup open \subseteq ToSet(files') \cup open'
      BY <1>2, <2>1, <2>3
    <3>2. (ToSet(files) \ ToSet(files')) \cap open = {f}
      BY <2>1, <2>2, <2>3
    <3> QED BY <1>3, <2>1, <3>1, <3>2
  <2>4. CASE f \notin open
    <3>1. (ToSet(files) \ ToSet(files')) \cap open = {}
      BY <2>1, <2>4
    <3> QED BY <2>1, <3>1
  <2> QED BY <2>3, <2>4
<1>6. files' = files \/ \E i \in DOMAIN files : files' = RemoveAt(files, i)
  BY DEF delete_recording
<1> QED BY <1>2, <1>3, <1>4, <1>5, <1>6

\* The pass.
LEMMA PassKeeps ==
    ASSUME RotationInv, active_recording_paths \/ rotate
    PROVE  RotationInv'
<1>0. DiskTypeOK /\ OneAPath(files) /\ BlocksHeld /\ (~freed => Guarded)
  BY Zenon DEF RotationInv
<1>1. DiskUsed \in Nat /\ before \in Nat
  BY <1>0, UsedIsNat DEF DiskTypeOK
<1>2. ASSUME EndPass, UNCHANGED <<disk, copies>>
      PROVE  RotationInv'
  <2>1. /\ files' = files /\ open' = open /\ made' = made /\ size' = size /\ copies' = copies
        /\ unread' = {} /\ pc' = "idle" /\ before' = 0 /\ lost' = {} /\ freed' = FALSE
    BY <1>2 DEF EndPass, disk
  <2>2. DiskTypeOK' /\ OneAPath(files') /\ BlocksHeld'
    BY <1>0, <2>1 DEF DiskTypeOK, BlocksHeld, PassPlace
  <2>3. Guarded'
    BY <2>1 DEF Guarded, Charged
  <2> QED BY <2>2, <2>3 DEF RotationInv
<1>3. ASSUME \/ active_recording_paths \/ PurgeCopies \/ ListForCount
             \/ Cull /\ UNCHANGED files /\ UNCHANGED size
      PROVE  RotationInv'
  <2>1. /\ files' = files /\ open' = open /\ made' = made /\ size' = size /\ copies' \subseteq copies
        /\ unread' = unread /\ before' = before /\ lost' = lost /\ freed' = freed
        /\ pc \in {"idle", "purge", "count", "cull"} /\ pc' \in {"purge", "count", "cull", "usage"}
    BY <1>3 DEF active_recording_paths, PurgeCopies, ListForCount, Cull, delete_recording,
                PassTo, disk, locals, notes
  <2>2. DiskTypeOK' /\ OneAPath(files') /\ BlocksHeld'
    BY <1>0, <2>1 DEF DiskTypeOK, BlocksHeld, PassPlace
  <2>3. ~freed' => Guarded'
    BY <1>0, <2>1 DEF Guarded, Charged
  <2> QED BY <2>2, <2>3 DEF RotationInv
<1>4. ASSUME Cull, delete_recording(Head(todo)), UNCHANGED pc
      PROVE  RotationInv'
  <2>1. /\ files' \in Seq(File) /\ OneAPath(files') /\ open' = open
        /\ size' \in [File -> 0..MaxSize] /\ BlocksHeld'
    BY <1>0, <1>4, DeleteTakesOne
  <2>2. /\ pc = "cull" /\ pc' = "cull" /\ made' = made /\ copies' = copies
        /\ unread' = unread /\ before' = before /\ lost' = lost /\ freed' = freed
    BY <1>4 DEF Cull, notes
  <2>3. DiskTypeOK'
    BY <1>0, <2>1, <2>2 DEF DiskTypeOK
  <2>4. ~freed' => Guarded'
    BY <1>0, <2>2 DEF Guarded, Charged
  <2> QED BY <2>1, <2>3, <2>4 DEF RotationInv
<1>5. CASE Cull
  <2>1. \/ delete_recording(Head(todo)) /\ UNCHANGED pc
        \/ UNCHANGED files /\ UNCHANGED size
    BY <1>5 DEF Cull
  <2> QED BY <1>3, <1>4, <1>5, <2>1
<1>6. CASE ReadUsage
  <2>1. CASE EndPass
    BY <1>2, <1>6, <2>1 DEF ReadUsage, disk
  <2>2. CASE ~ EndPass
    <3>1. /\ pc = "usage" /\ before' = DiskUsed /\ pc' = "list"
          /\ unread' = unread /\ lost' = lost /\ freed' = freed
          /\ files' = files /\ open' = open /\ made' = made /\ size' = size /\ copies' = copies
      BY <1>6, <2>2 DEF ReadUsage, disk, notes
    <3>2. DiskTypeOK' /\ OneAPath(files') /\ BlocksHeld'
      BY <1>0, <1>1, <3>1 DEF DiskTypeOK, BlocksHeld, PassPlace
    <3>3. DiskUsed' >= DiskUsed /\ DiskUsed' \in Nat
      BY <1>0, <3>1, <3>2, SizesSame, UsedGrows
    <3>4. DiskUsed' >= before'
      BY <3>1, <3>3
    <3>5. ~freed' => Charged' = {}
      BY <1>0, <3>1 DEF Guarded, Charged
    <3>6. ~freed' => Guarded'
      BY <3>1, <3>4, <3>5, Zenon DEF Guarded
    <3> QED BY <3>2, <3>6 DEF RotationInv
  <2> QED BY <2>1, <2>2
<1>7. CASE oldest_rotatable
  <2>1. CASE EndPass
    BY <1>2, <1>7, <2>1 DEF oldest_rotatable, disk
  <2>2. CASE ~ EndPass
    <3>1. /\ pc = "list" /\ before' = before /\ pc' = "delete"
          /\ unread' = unread /\ lost' = lost /\ freed' = freed
          /\ files' = files /\ open' = open /\ made' = made /\ size' = size /\ copies' = copies
      BY <1>7, <2>2 DEF oldest_rotatable, disk, notes
    <3>2. DiskTypeOK' /\ OneAPath(files') /\ BlocksHeld'
      BY <1>0, <3>1 DEF DiskTypeOK, BlocksHeld, PassPlace
    <3>3. DiskUsed' >= DiskUsed /\ DiskUsed' \in Nat
      BY <1>0, <3>1, <3>2, SizesSame, UsedGrows
    <3>4. ~freed' => Charged' = {} /\ DiskUsed >= before
      BY <1>0, <3>1 DEF Guarded, Charged
    <3>5. ~freed' => DiskUsed' >= before'
      BY <1>1, <3>1, <3>3, <3>4
    <3>6. ~freed' => Guarded'
      BY <3>1, <3>4, <3>5, Zenon DEF Guarded
    <3> QED BY <3>2, <3>6 DEF RotationInv
  <2> QED BY <2>1, <2>2
<1>8. CASE DeleteOldest
  <2> DEFINE Taken == (ToSet(files) \ ToSet(files')) \cap open
  <2>1. /\ pc = "delete" /\ pc' = "check" /\ delete_recording(Head(todo))
        /\ lost' = lost \cup Taken /\ made' = made /\ copies' = copies
        /\ unread' = unread /\ before' = before /\ freed' = freed
    BY <1>8 DEF DeleteOldest, PassTo
  <2>2. /\ files' \in Seq(File) /\ OneAPath(files') /\ open' = open
        /\ size' \in [File -> 0..MaxSize] /\ BlocksHeld'
        /\ Taken = {} \/ ((\E f : Taken = {f}) /\ size' = size)
    BY <1>0, <2>1, DeleteTakesOne
  <2> HIDE DEF Taken
  <2>3. DiskTypeOK'
    BY <1>0, <2>1, <2>2 DEF DiskTypeOK, PassPlace
  <2>4. ASSUME ~freed' PROVE Guarded'
    <3>1. Charged = {} /\ DiskUsed >= before
      BY <1>0, <2>1, <2>4 DEF Guarded
    <3>2. Charged' \subseteq Taken
      BY <2>1, <3>1 DEF Charged
    <3>3. CASE Taken = {}
      BY <2>1, <3>2, <3>3 DEF Guarded
    <3>4. CASE (\E f : Taken = {f}) /\ size' = size
      <4>1. DiskUsed' >= DiskUsed /\ DiskUsed' \in Nat
        BY <1>0, <2>1, <2>3, <3>4, SizesSame, UsedGrows
      <4>2. DiskUsed' >= before'
        BY <1>1, <2>1, <3>1, <4>1
      <4>3. LostOne'
        BY <3>2, <3>4 DEF LostOne
      <4> HIDE DEF Charged
      <4> QED BY <2>1, <4>2, <4>3, Zenon DEF Guarded
    <3> QED BY <2>2, <3>3, <3>4
  <2> QED BY <2>2, <2>3, <2>4 DEF RotationInv
<1>9. CASE CheckProgress
  <2>1. CASE EndPass
    BY <1>2, <1>9, <2>1 DEF CheckProgress, disk
  <2>2. CASE ~ EndPass
    <3>1. /\ pc = "check" /\ DiskUsed < before /\ pc' = "usage"
          /\ unread' = unread /\ before' = before /\ lost' = lost /\ freed' = freed
          /\ files' = files /\ open' = open /\ made' = made /\ size' = size /\ copies' = copies
      BY <1>9, <2>2 DEF CheckProgress, disk, locals, notes
    <3>2. DiskTypeOK' /\ OneAPath(files') /\ BlocksHeld'
      BY <1>0, <3>1 DEF DiskTypeOK, BlocksHeld, PassPlace
    <3>3. DiskUsed < before => ~ (DiskUsed >= before)
      BY <1>1
    <3>4. ~freed => Charged = {}
      BY <1>0, <3>1, <3>3, Zenon DEF Guarded
    <3>5. Charged' = Charged
      BY <3>1 DEF Charged
    <3>6. ~freed' => Guarded'
      BY <3>1, <3>4, <3>5, Zenon DEF Guarded
    <3> QED BY <3>2, <3>6 DEF RotationInv
  <2> QED BY <2>1, <2>2
<1>10. CASE CheckUnread
  <2>1. /\ pc = "check" /\ pc' = "usage" /\ unread' = lost
        /\ before' = before /\ lost' = lost /\ freed' = freed
        /\ files' = files /\ open' = open /\ made' = made /\ size' = size /\ copies' = copies
    BY <1>10 DEF CheckUnread, PassTo, disk, locals
  <2>2. DiskTypeOK' /\ OneAPath(files') /\ BlocksHeld'
    BY <1>0, <2>1 DEF DiskTypeOK, BlocksHeld, PassPlace
  <2>3. Charged' = {}
    BY <2>1 DEF Charged
  <2>4. Guarded'
    BY <2>1, <2>3, Zenon DEF Guarded
  <2> QED BY <2>2, <2>4 DEF RotationInv
<1> QED BY <1>3, <1>5, <1>6, <1>7, <1>8, <1>9, <1>10 DEF rotate

LEMMA RotationStutters ==
    ASSUME RotationInv, UNCHANGED rotationVars
    PROVE  RotationInv'
<1>0. DiskTypeOK /\ OneAPath(files) /\ BlocksHeld /\ (~freed => Guarded)
  BY Zenon DEF RotationInv
<1>1. /\ files' = files /\ open' = open /\ made' = made /\ size' = size /\ copies' = copies
      /\ unread' = unread /\ pc' = pc /\ before' = before /\ lost' = lost /\ freed' = freed
  BY DEF rotationVars, disk, locals, notes
<1>2. DiskTypeOK' /\ OneAPath(files') /\ BlocksHeld'
  BY <1>0, <1>1 DEF DiskTypeOK, BlocksHeld
<1>3. ~freed' => Guarded'
  BY <1>0, <1>1, <1>2, SizesSame, GuardedStays
<1> QED BY <1>2, <1>3 DEF RotationInv

\* Every state of the rotation has the inductive invariant.
THEOREM RotationInvariant == RotationSpec => []RotationInv
<1>1. ASSUME RotationInit PROVE RotationInv
  <2>1. DiskTypeOK
    <3>1. 0 \in 0..MaxSize /\ 0 \in 0..MaxFiles /\ 0 \in Nat /\ "idle" \in PassPlace
      BY RotationAssumption DEF PassPlace
    <3>2. files \in Seq(File) /\ size \in [File -> 0..MaxSize]
      BY <1>1, <3>1 DEF RotationInit
    <3> QED BY <1>1, <3>1, <3>2 DEF RotationInit, DiskTypeOK
  <2>2. OneAPath(files)
    BY <1>1 DEF RotationInit, OneAPath
  <2>3. BlocksHeld
    BY <1>1 DEF RotationInit, BlocksHeld
  <2>4. Guarded
    BY <1>1 DEF RotationInit, Guarded, Charged
  <2> QED BY <2>1, <2>2, <2>3, <2>4 DEF RotationInv
<1>2. ASSUME RotationInv, [RotationNext]_rotationVars PROVE RotationInv'
  BY <1>2, OthersKeep, PassKeeps, RotationStutters, Zenon DEF RotationNext
<1> QED BY <1>1, <1>2, PTL DEF RotationSpec

\* The runaway is prevented on every disk and for every number of sessions: a
\* pass of enforce_disk_limit unlinks at most one recording that is being
\* written, and one more for each time the usage cannot be read after such a
\* deletion, unless others free space meanwhile.
THEOREM RunawayPrevented == RotationSpec => []NoRunaway
<1>1. ASSUME RotationInv PROVE NoRunaway
  <2>1. DiskTypeOK /\ (~freed => Guarded)
    BY <1>1, Zenon DEF RotationInv
  <2>2. CASE freed
    BY <2>2 DEF NoRunaway
  <2>3. CASE ~freed
    <3>1. pc \in PassPlace /\ Guarded
      BY <2>1, <2>3 DEF DiskTypeOK
    <3>2. LostOne
      BY <3>1 DEF Guarded, PassPlace, LostOne
    <3>3. CASE Charged = {}
      BY <3>3, FS_EmptySet DEF NoRunaway, Charged
    <3>4. ASSUME NEW f, Charged = {f} PROVE NoRunaway
      <4>1. Cardinality(Charged) = 1
        BY <3>4, FS_Singleton
      <4> QED BY <4>1 DEF NoRunaway, Charged
    <3> QED BY <3>2, <3>3, <3>4 DEF LostOne
  <2> QED BY <2>2, <2>3
<1> QED BY <1>1, RotationInvariant, PTL
=============================================================================
