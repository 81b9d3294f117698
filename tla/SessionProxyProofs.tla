------------------------- MODULE SessionProxyProofs -------------------------
(***************************************************************************)
(* Theorems about SessionManager, for every set of sessions, every limit   *)
(* and every timeout, and about SessionProxy, which composes it with the   *)
(* WebSocket handlers, for every set of users, browser connections and     *)
(* tokens.                                                                 *)
(*                                                                         *)
(* A handler reaches the registry in several critical sections, and what   *)
(* it learnt in one is used in a later one.  The invariant of SessionProxy *)
(* says what is still true then: a created session keeps its creator and   *)
(* is never Pending again, and a handler that got past the upgrade request *)
(* has a session that was created.                                         *)
(*                                                                         *)
(* The last part is about ViewStream, the pump of the same handlers from   *)
(* guacd to the browser, for any hosts and any bounds.  Its chunks go      *)
(* through folds, so what each stage does to a chunk is proved by          *)
(* induction over the chunk; the invariant says where in a stream the pump *)
(* is, and that all that is behind it comes in whole instructions.         *)
(*                                                                         *)
(* Which pictures the browser predicts its views from is about the data    *)
(* that passes: there the invariant follows the host's encoder through     *)
(* what is still behind the pump, and says that the decoder is in step     *)
(* with the place where that begins.                                       *)
(***************************************************************************)
EXTENDS SessionProxy, ViewStream, FiniteSetTheorems, SequenceTheorems, WellFoundedInduction, TLAPS

-----------------------------------------------------------------------------
(* The registry *)

\* The type invariant of the registry is inductive.
LEMMA TypeStep == TypeOK /\ [Next]_vars => TypeOK'
<1> SUFFICES ASSUME TypeOK, [Next]_vars PROVE TypeOK'
  OBVIOUS
<1> USE ConstantsAssumption DEF TypeOK, sessionVars, createVars, reaperVars, Status, Stage, Resource
<1>1. CASE UNCHANGED vars
  BY <1>1 DEF vars
<1>2. ASSUME NEW s \in Sid, NEW u \in User, NEW k \in Kind, CreateAdmit(s, u, k) PROVE TypeOK'
  BY <1>2 DEF CreateAdmit
<1>3. ASSUME NEW s \in Sid, CreatePrepare(s) \/ CreateSpawn(s) \/ CreateConnect(s)
               \/ CreateAbandon(s) PROVE TypeOK'
  <2>1. \A k \in AllKinds : Needs(k) \subseteq Resource
    BY DEF Needs, AllKinds
  <2>2. PICK held \in SUBSET Resource, next \in Stage : CreateStep(s, held, next)
    BY <1>3, <2>1 DEF CreatePrepare, CreateSpawn, CreateConnect, CreateAbandon
  <2> QED BY <2>2 DEF CreateStep
<1>4. ASSUME NEW s \in Sid, CreateInsert(s) PROVE TypeOK'
  BY <1>4 DEF CreateInsert
<1>5. ASSUME NEW s \in Sid, CreateRecord(s) PROVE TypeOK'
  BY <1>5 DEF CreateRecord
<1>6. ASSUME NEW s \in Sid, ScriptEnds(s) PROVE TypeOK'
  BY <1>6 DEF ScriptEnds
<1>7. ASSUME NEW s \in Sid, pending_timeout(s) PROVE TypeOK'
  BY <1>7 DEF pending_timeout, CleanupBrowser
<1>8. ASSUME NEW s \in Sid, complete_session(s) PROVE TypeOK'
  BY <1>8 DEF complete_session, CleanupBrowser
<1>9. ASSUME NEW s \in Sid, error_session(s) PROVE TypeOK'
  BY <1>9 DEF error_session, CleanupBrowser
<1>10. ASSUME NEW s \in Sid, delete_session(s) \/ DeleteAbandon(s) PROVE TypeOK'
  BY <1>10 DEF delete_session, DeleteAbandon, DeleteEffect, CleanupBrowser
<1>11. ASSUME NEW s \in Sid, take_guacd_stream(s) PROVE TypeOK'
  BY <1>11 DEF take_guacd_stream
<1>12. ASSUME NEW s \in Sid, take_guacd_stream_fails(s) PROVE TypeOK'
  BY <1>12 DEF take_guacd_stream_fails
<1>13. ASSUME NEW s \in Sid, join_session(s) PROVE TypeOK'
  BY <1>13 DEF join_session
<1>14. ASSUME NEW s \in Sid, disconnect_viewer(s) PROVE TypeOK'
  BY <1>14 DEF disconnect_viewer
<1>15. ASSUME NEW s \in Sid, NEW t \in ShadowKind, mint_shadow_token(s, t) PROVE TypeOK'
  BY <1>15 DEF mint_shadow_token
<1>16. ASSUME NEW s \in Sid, NEW t \in ShadowKind, ShadowExpires(s, t) PROVE TypeOK'
  BY <1>16 DEF ShadowExpires
<1>17. ASSUME NEW s \in Sid, ReapExpiredFind(s) \/ ReapCompletedFind(s) PROVE TypeOK'
  BY <1>17 DEF ReapExpiredFind, ReapCompletedFind
<1>18. ASSUME NEW s \in Sid, ReapExpiredDelete(s) PROVE TypeOK'
  BY <1>18 DEF ReapExpiredDelete, DeleteEffect, CleanupBrowser
<1>19. CASE ReapCompletedRemove
  BY <1>19 DEF ReapCompletedRemove
<1>20. CASE Tick
  BY <1>20 DEF Tick
<1> QED
  BY <1>1, <1>2, <1>3, <1>4, <1>5, <1>6, <1>7, <1>8, <1>9, <1>10, <1>11, <1>12, <1>13, <1>14,
     <1>15, <1>16, <1>17, <1>18, <1>19, <1>20
     DEF Next, BackgroundNext, HandlerNext, LockFree, SessionLocked, RegistryLocked

-----------------------------------------------------------------------------
(* The registry's safety invariants.  None of them is inductive alone: that *)
(* the completed-session reaper never drops a live session rests on what    *)
(* it may have collected, that a failed deferred connection leaves only     *)
(* tunnels behind rests on which kinds are deferred, and so on.             *)

\* What the stages of a creation, the reaper's list and the kinds tie together.
Bookkeeping ==
    \A s \in Sid :
        /\ s \in registry => stage[s] \in Created
        /\ stage[s] \in Created <=> status[s] # "none"
        /\ s \in stream \cup deferred => stage[s] \in Created
        /\ s \in toRemove => status[s] \in Terminal
        /\ s \in deferred => kind[s] = "keypair"
        /\ res[s] \subseteq Needs(kind[s]) \cup {"orphan"}
        /\ "orphan" \in res[s] => stage[s] \in Created
        /\ stage[s] = "idle" => res[s] = {}

RegistryInv ==
    /\ TypeOK
    /\ Bookkeeping
    /\ PendingIsTakeable
    /\ OverIsReleased
    /\ LiveIsRegistered
    /\ PendingHasTimer

\* The steps of create_session before the insertion: only what the session
\* needs is acquired, and the session stays uncreated.
LEMMA CreationStep ==
    ASSUME RegistryInv, NEW s \in Sid,
           CreatePrepare(s) \/ CreateSpawn(s) \/ CreateConnect(s) \/ CreateAbandon(s)
    PROVE  \E held \in SUBSET Needs(kind[s]), next \in Stage \ (Created \cup {"idle"}) :
                stage[s] \in InProgress /\ CreateStep(s, held, next)
<1>1. stage[s] \in InProgress
  BY DEF CreatePrepare, CreateSpawn, CreateConnect, CreateAbandon, InProgress
<1>2. res[s] \subseteq Needs(kind[s])
  BY <1>1 DEF RegistryInv, Bookkeeping, InProgress, Created
<1> QED
  BY <1>1, <1>2 DEF CreatePrepare, CreateSpawn, CreateConnect, CreateAbandon, Stage, Created

\* Every critical section of every method keeps the registry's invariant.
LEMMA RegistryStep == RegistryInv /\ [Next]_vars => RegistryInv'
<1> SUFFICES ASSUME RegistryInv, [Next]_vars PROVE RegistryInv'
  OBVIOUS
<1>t. TypeOK'
  BY TypeStep DEF RegistryInv
<1> USE <1>t DEF RegistryInv, TypeOK, Bookkeeping, PendingIsTakeable, OverIsReleased, HeldBy,
      LiveIsRegistered, PendingHasTimer, Created, Terminal, Live, sessionVars, createVars, reaperVars
<1>1. CASE UNCHANGED vars
  BY <1>1 DEF vars
<1>2. ASSUME NEW s \in Sid, NEW u \in User, NEW k \in Kind, CreateAdmit(s, u, k) PROVE RegistryInv'
  BY <1>2 DEF CreateAdmit, InProgress
<1>3. ASSUME NEW s \in Sid, CreatePrepare(s) \/ CreateSpawn(s) \/ CreateConnect(s)
               \/ CreateAbandon(s) PROVE RegistryInv'
  <2>1. PICK held \in SUBSET Needs(kind[s]), next \in Stage \ (Created \cup {"idle"}) :
            stage[s] \in InProgress /\ CreateStep(s, held, next)
    BY <1>3, CreationStep
  <2>2. "orphan" \notin Needs(kind[s])
    BY DEF Needs
  <2> QED BY <2>1, <2>2 DEF CreateStep, InProgress
<1>4. ASSUME NEW s \in Sid, CreateInsert(s) PROVE RegistryInv'
  BY <1>4 DEF CreateInsert
<1>5. ASSUME NEW s \in Sid, CreateRecord(s) PROVE RegistryInv'
  BY <1>5 DEF CreateRecord
<1>6. ASSUME NEW s \in Sid, ScriptEnds(s) PROVE RegistryInv'
  BY <1>6 DEF ScriptEnds
<1>7. ASSUME NEW s \in Sid, pending_timeout(s) PROVE RegistryInv'
  BY <1>7 DEF pending_timeout, CleanupBrowser
<1>8. ASSUME NEW s \in Sid, complete_session(s) PROVE RegistryInv'
  BY <1>8 DEF complete_session, CleanupBrowser
<1>9. ASSUME NEW s \in Sid, error_session(s) PROVE RegistryInv'
  BY <1>9 DEF error_session, CleanupBrowser
<1>10. ASSUME NEW s \in Sid, delete_session(s) \/ DeleteAbandon(s) PROVE RegistryInv'
  BY <1>10 DEF delete_session, DeleteAbandon, DeleteEffect, CleanupBrowser
<1>11. ASSUME NEW s \in Sid, take_guacd_stream(s) PROVE RegistryInv'
  BY <1>11 DEF take_guacd_stream
<1>12. ASSUME NEW s \in Sid, take_guacd_stream_fails(s) PROVE RegistryInv'
  <2>1. res[s] \subseteq {"tunnels"}
    BY <1>12 DEF take_guacd_stream_fails, Needs
  <2> QED BY <1>12, <2>1 DEF take_guacd_stream_fails
<1>13. ASSUME NEW s \in Sid, join_session(s) \/ disconnect_viewer(s) PROVE RegistryInv'
  BY <1>13 DEF join_session, disconnect_viewer
<1>14. ASSUME NEW s \in Sid, NEW t \in ShadowKind, mint_shadow_token(s, t) \/ ShadowExpires(s, t)
       PROVE RegistryInv'
  BY <1>14 DEF mint_shadow_token, ShadowExpires
<1>15. ASSUME NEW s \in Sid, ReapExpiredFind(s) PROVE RegistryInv'
  BY <1>15 DEF ReapExpiredFind
<1>16. ASSUME NEW s \in Sid, ReapCompletedFind(s) PROVE RegistryInv'
  BY <1>16 DEF ReapCompletedFind
<1>17. ASSUME NEW s \in Sid, ReapExpiredDelete(s) PROVE RegistryInv'
  BY <1>17 DEF ReapExpiredDelete, DeleteEffect, CleanupBrowser
<1>18. CASE ReapCompletedRemove
  BY <1>18 DEF ReapCompletedRemove
<1>19. CASE Tick
  BY <1>19 DEF Tick
<1> QED
  BY <1>1, <1>2, <1>3, <1>4, <1>5, <1>6, <1>7, <1>8, <1>9, <1>10, <1>11, <1>12, <1>13, <1>14,
     <1>15, <1>16, <1>17, <1>18, <1>19
     DEF Next, BackgroundNext, HandlerNext, LockFree, SessionLocked, RegistryLocked

\* The empty registry of SessionManager::new satisfies the invariant.
LEMMA RegistryInit == Init => RegistryInv
<1>1. Init => TypeOK
  BY ConstantsAssumption DEF Init, TypeOK, Status, Stage, Resource, AllKinds
<1> QED
  BY <1>1 DEF Init, RegistryInv, Bookkeeping, PendingIsTakeable, OverIsReleased, HeldBy,
      LiveIsRegistered, PendingHasTimer, Created, Terminal, Live

\* The registry's invariant holds in every reachable state.
LEMMA RegistryCorrect == Spec => []RegistryInv
BY RegistryInit, RegistryStep, PTL DEF Spec

\* Type correctness of the registry.
THEOREM TypeCorrect == Spec => []TypeOK
<1>1. RegistryInv => TypeOK
  BY DEF RegistryInv
<1> QED BY <1>1, RegistryCorrect, PTL

\* A Pending session can always be taken, and only a registered Pending
\* session has a parked guacd stream (take_guacd_stream, delete_session,
\* error_session, the pending timeout).
THEOREM TakeableWhilePending == Spec => []PendingIsTakeable
<1>1. RegistryInv => PendingIsTakeable
  BY DEF RegistryInv
<1> QED BY <1>1, RegistryCorrect, PTL

\* Every way a session may end gives its browser, drive directory, login
\* script and, at the latest with its registry entry, its tunnels back.
THEOREM ReleasedWhenOver == Spec => []OverIsReleased
<1>1. RegistryInv => OverIsReleased
  BY DEF RegistryInv
<1> QED BY <1>1, RegistryCorrect, PTL

\* The ids reap_completed_sessions collected in one critical section may be
\* removed in a later one: no live session is among them.
THEOREM ReaperSparesLive == Spec => []LiveIsRegistered
<1>1. RegistryInv => LiveIsRegistered
  BY DEF RegistryInv
<1> QED BY <1>1, RegistryCorrect, PTL

\* A session nobody has attached to has its timeout task.
THEOREM PendingIsTimed == Spec => []PendingHasTimer
<1>1. RegistryInv => PendingHasTimer
  BY DEF RegistryInv
<1> QED BY <1>1, RegistryCorrect, PTL

-----------------------------------------------------------------------------
(* The registry implements SessionLifecycle.                                *)

\* A step that leaves stage, status and resources of every created session
\* alone is invisible in the lifecycle.
LEMMA Invisible ==
    ASSUME \A s \in Sid : PhaseOf(s)' = PhaseOf(s) /\ HeldBy(s)' = HeldBy(s)
    PROVE  UNCHANGED Lifecycle!vars
BY DEF Lifecycle!vars

\* Ending session s and giving its resources back closes it in the lifecycle,
\* or, if it was over already, only releases what it still held: the common
\* part of pending_timeout, complete_session, error_session, delete_session,
\* finished or dropped half-way.
LEMMA EndStep ==
    ASSUME RegistryInv, TypeOK', NEW s \in registry, NEW st \in Terminal,
           status' = [status EXCEPT ![s] = st], stage' = stage,
           res' = [res EXCEPT ![s] = {}] \/ res' = [res EXCEPT ![s] = {"orphan"}]
    PROVE  Lifecycle!Next
<1> USE DEF RegistryInv, TypeOK, Bookkeeping, PhaseOf, HeldBy, Terminal, Created
<1>1. CASE status[s] \in Live
  <2>0. s \in Sid /\ stage[s] \in Created /\ res'[s] \ {"orphan"} = {}
    OBVIOUS
  <2>1. \A t \in Sid : /\ PhaseOf(t)' = IF t = s THEN "over" ELSE PhaseOf(t)
                       /\ HeldBy(t)' = IF t = s THEN {} ELSE HeldBy(t)
    BY <2>0
  <2>2. PhaseOf(s) \in {"pending", "active"}
    BY <1>1 DEF Live
  <2>3. Lifecycle!Close(s)
    BY ONLY <2>1, <2>2, s \in Sid DEF Lifecycle!Close
  <2> QED BY <2>3 DEF Lifecycle!Next
<1>2. CASE status[s] \in Terminal
  <2>1. Lifecycle!Release
    BY <1>2 DEF Lifecycle!Release
  <2> QED BY <2>1 DEF Lifecycle!Next
<1> QED BY <1>1, <1>2 DEF Status, Live

\* Every critical section is a lifecycle step or invisible.
LEMMA LifecycleStep ==
    RegistryInv /\ RegistryInv' /\ [Next]_vars => [Lifecycle!Next]_(Lifecycle!vars)
<1> SUFFICES ASSUME RegistryInv, RegistryInv', [Next]_vars
             PROVE  Lifecycle!Next \/ UNCHANGED Lifecycle!vars
  OBVIOUS
<1> USE DEF RegistryInv, TypeOK, PhaseOf, HeldBy, Created, sessionVars, createVars, reaperVars
<1>1. CASE UNCHANGED vars
  BY <1>1, Invisible DEF vars
<1>2. ASSUME NEW s \in Sid, NEW u \in User, NEW k \in Kind, CreateAdmit(s, u, k)
      PROVE  UNCHANGED Lifecycle!vars
  BY <1>2, Invisible DEF CreateAdmit
<1>3. ASSUME NEW s \in Sid, CreatePrepare(s) \/ CreateSpawn(s) \/ CreateConnect(s)
               \/ CreateAbandon(s)
      PROVE  UNCHANGED Lifecycle!vars
  <2>1. PICK held \in SUBSET Needs(kind[s]), next \in Stage \ Created :
            stage[s] \notin Created /\ CreateStep(s, held, next)
    BY <1>3 DEF CreatePrepare, CreateSpawn, CreateConnect, CreateAbandon, InProgress, Stage, Bookkeeping
  <2> QED BY <2>1, Invisible DEF CreateStep
<1>4. ASSUME NEW s \in Sid, CreateInsert(s) PROVE Lifecycle!Next
  <2>1. PhaseOf(s) = "absent" /\ res[s] \subseteq Resource /\ res[s] \ {"orphan"} = res[s]
    BY <1>4 DEF CreateInsert, Bookkeeping
  <2>2. \A t \in Sid : /\ PhaseOf(t)' = IF t = s THEN "pending" ELSE PhaseOf(t)
                       /\ HeldBy(t)' = IF t = s THEN res[s] ELSE HeldBy(t)
    BY <1>4, <2>1 DEF CreateInsert, Terminal
  <2>3. Lifecycle!Open(s)
    BY ONLY <2>1, <2>2, s \in Sid DEF Lifecycle!Open
  <2> QED BY <2>3 DEF Lifecycle!Next
<1>5. ASSUME NEW s \in Sid, CreateRecord(s) PROVE UNCHANGED Lifecycle!vars
  BY <1>5, Invisible DEF CreateRecord
<1>6. ASSUME NEW s \in Sid, ScriptEnds(s) PROVE Lifecycle!Next
  <2>1. Lifecycle!Release
    BY <1>6 DEF ScriptEnds, Lifecycle!Release
  <2> QED BY <2>1 DEF Lifecycle!Next
<1>7. ASSUME NEW s \in Sid, pending_timeout(s) PROVE Lifecycle!Next \/ UNCHANGED Lifecycle!vars
  <2>1. CASE s \in registry /\ status[s] = "pending"
    BY <1>7, <2>1, EndStep DEF pending_timeout, CleanupBrowser, Terminal
  <2>2. CASE ~ (s \in registry /\ status[s] = "pending")
    BY <1>7, <2>2, Invisible DEF pending_timeout
  <2> QED BY <2>1, <2>2
<1>8. ASSUME NEW s \in Sid, complete_session(s) \/ error_session(s) \/ delete_session(s)
               \/ DeleteAbandon(s)
      PROVE  Lifecycle!Next
  BY <1>8, EndStep DEF complete_session, error_session, delete_session, DeleteAbandon, DeleteEffect,
                       CleanupBrowser, Terminal
<1>9. ASSUME NEW s \in Sid, take_guacd_stream(s) PROVE Lifecycle!Next
  <2>1. PhaseOf(s) = "pending"
    BY <1>9 DEF take_guacd_stream, Bookkeeping, Terminal
  <2>2. \A t \in Sid : /\ PhaseOf(t)' = IF t = s THEN "active" ELSE PhaseOf(t)
                       /\ HeldBy(t)' = HeldBy(t)
    BY <1>9 DEF take_guacd_stream, Bookkeeping, Terminal
  <2>3. Lifecycle!Attach(s)
    BY ONLY <2>1, <2>2, s \in Sid DEF Lifecycle!Attach
  <2> QED BY <2>3 DEF Lifecycle!Next
<1>10. ASSUME NEW s \in Sid, take_guacd_stream_fails(s) PROVE Lifecycle!Next
  <2>1. res[s] \subseteq {"tunnels"}
    BY <1>10 DEF take_guacd_stream_fails, Bookkeeping, Needs, OverIsReleased
  <2>2. PhaseOf(s) = "pending" /\ HeldBy(s) \subseteq {"tunnels"}
    BY <1>10, <2>1 DEF take_guacd_stream_fails, Bookkeeping, Terminal
  <2>3. \A t \in Sid : /\ PhaseOf(t)' = IF t = s THEN "over" ELSE PhaseOf(t)
                       /\ HeldBy(t)' = HeldBy(t)
    BY <1>10 DEF take_guacd_stream_fails, Bookkeeping, Terminal
  <2>4. Lifecycle!FailDeferred(s)
    BY ONLY <2>2, <2>3, s \in Sid DEF Lifecycle!FailDeferred
  <2> QED BY <2>4 DEF Lifecycle!Next
<1>11. ASSUME NEW s \in Sid, join_session(s) \/ disconnect_viewer(s)
                \/ ReapExpiredFind(s) \/ ReapCompletedFind(s)
       PROVE  UNCHANGED Lifecycle!vars
  BY <1>11, Invisible DEF join_session, disconnect_viewer, ReapExpiredFind, ReapCompletedFind
<1>12. ASSUME NEW s \in Sid, NEW t \in ShadowKind, mint_shadow_token(s, t) \/ ShadowExpires(s, t)
       PROVE  UNCHANGED Lifecycle!vars
  BY <1>12, Invisible DEF mint_shadow_token, ShadowExpires
<1>13. ASSUME NEW s \in Sid, ReapExpiredDelete(s)
       PROVE  Lifecycle!Next \/ UNCHANGED Lifecycle!vars
  <2>1. CASE s \in registry
    BY <1>13, <2>1, EndStep DEF ReapExpiredDelete, DeleteEffect, CleanupBrowser, Terminal
  <2>2. CASE s \notin registry
    BY <1>13, <2>2, Invisible DEF ReapExpiredDelete
  <2> QED BY <2>1, <2>2
<1>14. CASE ReapCompletedRemove
  <2>1. Lifecycle!Release
    BY <1>14 DEF ReapCompletedRemove, Lifecycle!Release
  <2> QED BY <2>1 DEF Lifecycle!Next
<1>15. CASE Tick
  BY <1>15, Invisible DEF Tick
<1> QED
  BY <1>1, <1>2, <1>3, <1>4, <1>5, <1>6, <1>7, <1>8, <1>9, <1>10, <1>11, <1>12, <1>13, <1>14, <1>15
     DEF Next, BackgroundNext, HandlerNext, LockFree, SessionLocked, RegistryLocked

\* The session manager implements the lifecycle: each session is opened once,
\* handed over at most once, ended once, and gains no resource afterwards.
THEOREM RegistryImplementsLifecycle == Spec => ImplementsLifecycle
<1>1. Init => Lifecycle!Init
  BY DEF Init, Lifecycle!Init, PhaseOf, HeldBy, Created
<1> QED
  BY <1>1, LifecycleStep, RegistryCorrect, PTL DEF Spec, ImplementsLifecycle, Lifecycle!Spec

-----------------------------------------------------------------------------
(* How far the session limits can be overshot.  What stays bounded is the   *)
(* number of registered sessions and of creations in flight together: an    *)
(* insertion moves a session from one set to the other, an admission adds   *)
(* to the second only while both are below their bounds, and everything     *)
(* else shrinks them.                                                       *)

\* Moving an element from F to R, or losing elements, does not raise |R| + |F|.
LEMMA MoveBound ==
    ASSUME NEW R \in SUBSET Sid, NEW F \in SUBSET Sid, NEW R2 \in SUBSET Sid, NEW F2 \in SUBSET Sid,
           \/ R2 \subseteq R /\ F2 \subseteq F
           \/ \E s \in F : R2 \subseteq R \cup {s} /\ F2 \subseteq F \ {s}
    PROVE  Cardinality(R2) + Cardinality(F2) <= Cardinality(R) + Cardinality(F)
<1>1. IsFiniteSet(R) /\ IsFiniteSet(F) /\ IsFiniteSet(R2) /\ IsFiniteSet(F2)
  BY FiniteSid, FS_Subset
<1>2. /\ Cardinality(R) \in Nat /\ Cardinality(F) \in Nat
      /\ Cardinality(R2) \in Nat /\ Cardinality(F2) \in Nat
  BY <1>1, FS_CardinalityType
<1>3. CASE R2 \subseteq R /\ F2 \subseteq F
  <2>1. Cardinality(R2) <= Cardinality(R) /\ Cardinality(F2) <= Cardinality(F)
    BY <1>1, <1>3, FS_Subset
  <2> QED BY <1>2, <2>1
<1>4. ASSUME NEW s \in F, R2 \subseteq R \cup {s}, F2 \subseteq F \ {s}
      PROVE  Cardinality(R2) + Cardinality(F2) <= Cardinality(R) + Cardinality(F)
  <2>1. IsFiniteSet(R \cup {s}) /\ Cardinality(R \cup {s}) <= Cardinality(R) + 1
    <3>1. /\ IsFiniteSet(R \cup {s})
          /\ Cardinality(R \cup {s}) = IF s \in R THEN Cardinality(R) ELSE Cardinality(R) + 1
      BY <1>1, FS_AddElement
    <3> QED BY <1>2, <3>1
  <2>2. IsFiniteSet(F \ {s}) /\ Cardinality(F \ {s}) = Cardinality(F) - 1
    BY <1>1, FS_RemoveElement
  <2>3. Cardinality(R2) <= Cardinality(R \cup {s}) /\ Cardinality(F2) <= Cardinality(F \ {s})
    BY <1>4, <2>1, <2>2, FS_Subset
  <2>4. Cardinality(R \cup {s}) \in Nat
    BY <2>1, FS_CardinalityType
  <2> QED BY <1>2, <2>1, <2>2, <2>3, <2>4
<1> QED BY <1>3, <1>4

\* One more element in F when R and F are below their bounds.
LEMMA AddBound ==
    ASSUME NEW R \in SUBSET Sid, NEW F \in SUBSET Sid, NEW s \in Sid, NEW F2 \in SUBSET (F \cup {s}),
           NEW m \in Nat, NEW n \in Nat, Cardinality(R) < m, Cardinality(F) < n
    PROVE  Cardinality(R) + Cardinality(F2) <= m - 1 + n
<1>1. IsFiniteSet(R) /\ IsFiniteSet(F)
  BY FiniteSid, FS_Subset
<1>2. Cardinality(R) \in Nat /\ Cardinality(F) \in Nat
  BY <1>1, FS_CardinalityType
<1>3. IsFiniteSet(F \cup {s}) /\ Cardinality(F \cup {s}) <= Cardinality(F) + 1
  <2>1. /\ IsFiniteSet(F \cup {s})
        /\ Cardinality(F \cup {s}) = IF s \in F THEN Cardinality(F) ELSE Cardinality(F) + 1
    BY <1>1, FS_AddElement
  <2> QED BY <1>2, <2>1
<1>4. Cardinality(F2) <= Cardinality(F \cup {s}) /\ IsFiniteSet(F2)
  BY <1>3, FS_Subset
<1>5. Cardinality(F2) \in Nat /\ Cardinality(F \cup {s}) \in Nat
  BY <1>3, <1>4, FS_CardinalityType
<1> QED BY <1>2, <1>3, <1>4, <1>5

\* Neither the registry, the live sessions nor the creations in flight grow.
NoGrowth ==
    /\ registry' \subseteq registry
    /\ CreationsInFlight' \subseteq CreationsInFlight
    /\ creator' = creator
    /\ \A s \in registry' : status'[s] \in Live => status[s] \in Live

\* Only an admission and an insertion add to the counted sets.
LEMMA GrowthStep ==
    ASSUME RegistryInv, [Next]_vars
    PROVE  \/ NoGrowth
           \/ \E s \in Sid, u \in User, k \in Kind : CreateAdmit(s, u, k)
           \/ \E s \in Sid : CreateInsert(s)
<1> USE DEF RegistryInv, TypeOK, NoGrowth, CreationsInFlight, InProgress, Live,
            sessionVars, createVars, reaperVars
<1>1. CASE UNCHANGED vars
  BY <1>1 DEF vars
<1>2. ASSUME NEW s \in Sid, CreatePrepare(s) \/ CreateSpawn(s) \/ CreateConnect(s)
               \/ CreateAbandon(s) PROVE NoGrowth
  <2>1. PICK held \in SUBSET Needs(kind[s]), next \in Stage :
            stage[s] \in InProgress /\ CreateStep(s, held, next)
    BY <1>2, CreationStep
  <2> QED BY <2>1 DEF CreateStep
<1>3. ASSUME NEW s \in Sid, CreateRecord(s) \/ ScriptEnds(s) PROVE NoGrowth
  BY <1>3 DEF CreateRecord, ScriptEnds
<1>4. ASSUME NEW s \in Sid, pending_timeout(s) \/ complete_session(s) \/ error_session(s)
      PROVE  NoGrowth
  BY <1>4 DEF pending_timeout, complete_session, error_session
<1>5. ASSUME NEW s \in Sid, delete_session(s) \/ DeleteAbandon(s) \/ ReapExpiredDelete(s)
      PROVE  NoGrowth
  BY <1>5 DEF delete_session, DeleteAbandon, ReapExpiredDelete, DeleteEffect
<1>6. ASSUME NEW s \in Sid, take_guacd_stream(s) \/ take_guacd_stream_fails(s)
               \/ join_session(s) \/ disconnect_viewer(s) PROVE NoGrowth
  BY <1>6 DEF take_guacd_stream, take_guacd_stream_fails, join_session, disconnect_viewer
<1>7. ASSUME NEW s \in Sid, NEW t \in ShadowKind, mint_shadow_token(s, t) \/ ShadowExpires(s, t)
      PROVE  NoGrowth
  BY <1>7 DEF mint_shadow_token, ShadowExpires
<1>8. ASSUME NEW s \in Sid, ReapExpiredFind(s) \/ ReapCompletedFind(s) PROVE NoGrowth
  BY <1>8 DEF ReapExpiredFind, ReapCompletedFind
<1>9. CASE ReapCompletedRemove \/ Tick
  BY <1>9 DEF ReapCompletedRemove, Tick
<1> QED
  BY <1>1, <1>2, <1>3, <1>4, <1>5, <1>6, <1>7, <1>8, <1>9
     DEF Next, BackgroundNext, HandlerNext, LockFree, SessionLocked, RegistryLocked

\* A creation that passed the check counts, so the overshoot is bounded by the
\* calls in flight, in every step.
LEMMA OvershootStep == RegistryInv /\ OvershootBound /\ [Next]_vars => OvershootBound'
<1> SUFFICES ASSUME RegistryInv, OvershootBound, [Next]_vars, MaxSessions > 0
             PROVE  Cardinality(registry') + Cardinality(CreationsInFlight')
                        <= MaxSessions - 1 + MaxInFlight
  BY DEF OvershootBound
<1> DEFINE F == CreationsInFlight
<1> USE ConstantsAssumption DEF RegistryInv
<1>1. registry \in SUBSET Sid /\ F \in SUBSET Sid /\ F' \in SUBSET Sid
  BY DEF TypeOK, CreationsInFlight
<1>2. /\ Cardinality(registry) \in Nat /\ Cardinality(F) \in Nat
      /\ Cardinality(registry) + Cardinality(F) <= MaxSessions - 1 + MaxInFlight
  BY <1>1, FiniteSid, FS_Subset, FS_CardinalityType DEF OvershootBound
<1>3. ASSUME NEW s \in Sid, NEW u \in User, NEW k \in Kind, CreateAdmit(s, u, k)
      PROVE  Cardinality(registry') + Cardinality(F') <= MaxSessions - 1 + MaxInFlight
  <2>1. /\ registry' = registry /\ F' \in SUBSET (F \cup {s})
        /\ Cardinality(registry) < MaxSessions /\ Cardinality(F) < MaxInFlight
    BY <1>3 DEF CreateAdmit, UnderGlobalLimit, CreationsInFlight, TypeOK
  <2> HIDE DEF F
  <2> QED BY <1>1, <2>1, AddBound
<1>4. ASSUME registry' \in SUBSET Sid,
             \/ NoGrowth
             \/ \E s \in F : registry' = registry \cup {s} /\ F' = F \ {s}
      PROVE  Cardinality(registry') + Cardinality(F') <= MaxSessions - 1 + MaxInFlight
  <2>1. \/ registry' \subseteq registry /\ F' \subseteq F
        \/ \E s \in F : registry' \subseteq registry \cup {s} /\ F' \subseteq F \ {s}
    BY <1>4 DEF NoGrowth
  <2> HIDE DEF F
  <2>2. Cardinality(registry') + Cardinality(F') <= Cardinality(registry) + Cardinality(F)
    BY <1>1, <1>4, <2>1, MoveBound
  <2>3. Cardinality(registry') \in Nat /\ Cardinality(F') \in Nat
    BY <1>1, <1>4, FiniteSid, FS_Subset, FS_CardinalityType
  <2> QED BY <1>2, <2>2, <2>3
<1>5. ASSUME NEW s \in Sid, CreateInsert(s)
      PROVE  s \in F /\ registry' = registry \cup {s} /\ F' = F \ {s}
  BY <1>5 DEF CreateInsert, CreationsInFlight, InProgress, TypeOK
<1>6. registry' \in SUBSET Sid
  BY TypeStep DEF TypeOK
<1> QED
  BY <1>3, <1>4, <1>5, <1>6, GrowthStep

\* However many create_session calls race between the limit check and the
\* insertion, registered and incoming sessions exceed max_sessions by less
\* than the number of calls that may be in flight.
THEOREM OvershootBounded == Spec => []OvershootBound
<1>1. Init => OvershootBound
  <2>1. Init => registry = {} /\ CreationsInFlight = {}
    BY DEF Init, CreationsInFlight, InProgress
  <2> QED BY <2>1, FS_EmptySet, ConstantsAssumption DEF OvershootBound
<1> QED
  BY <1>1, OvershootStep, RegistryCorrect, PTL DEF Spec

\* The creations in flight of one user.
Incoming(u) == {s \in CreationsInFlight : creator[s] = u}

\* The same for the live sessions of one user.  The check of another user's
\* creation says nothing about this one: it leaves this user's sets alone.
LEMMA UserOvershootStep == RegistryInv /\ UserOvershootBound /\ [Next]_vars => UserOvershootBound'
<1> SUFFICES ASSUME RegistryInv, UserOvershootBound, [Next]_vars, MaxPerUser > 0, NEW u \in User
             PROVE  Cardinality(LiveOf(u)') + Cardinality(Incoming(u)')
                        <= MaxPerUser - 1 + MaxInFlight
  BY DEF UserOvershootBound, Incoming
<1> USE ConstantsAssumption DEF RegistryInv
<1>1. TypeOK'
  BY TypeStep
<1>2. /\ LiveOf(u) \in SUBSET Sid /\ Incoming(u) \in SUBSET Sid
      /\ LiveOf(u)' \in SUBSET Sid /\ Incoming(u)' \in SUBSET Sid
      /\ CreationsInFlight \in SUBSET Sid
  BY <1>1 DEF TypeOK, LiveOf, Incoming, CreationsInFlight
<1>3. /\ Cardinality(LiveOf(u)) \in Nat /\ Cardinality(Incoming(u)) \in Nat
      /\ Cardinality(LiveOf(u)') \in Nat /\ Cardinality(Incoming(u)') \in Nat
  BY <1>2, FiniteSid, FS_Subset, FS_CardinalityType
<1>4. Cardinality(LiveOf(u)) + Cardinality(Incoming(u)) <= MaxPerUser - 1 + MaxInFlight
  BY DEF UserOvershootBound, Incoming
<1>5. ASSUME \/ LiveOf(u)' \subseteq LiveOf(u) /\ Incoming(u)' \subseteq Incoming(u)
             \/ \E s \in Incoming(u) : /\ LiveOf(u)' \subseteq LiveOf(u) \cup {s}
                                       /\ Incoming(u)' \subseteq Incoming(u) \ {s}
      PROVE  Cardinality(LiveOf(u)') + Cardinality(Incoming(u)') <= MaxPerUser - 1 + MaxInFlight
  <2>1. Cardinality(LiveOf(u)') + Cardinality(Incoming(u)')
            <= Cardinality(LiveOf(u)) + Cardinality(Incoming(u))
    BY <1>2, <1>5, MoveBound
  <2> QED BY <1>3, <1>4, <2>1
<1>6. CASE NoGrowth
  <2>1. LiveOf(u)' \subseteq LiveOf(u) /\ Incoming(u)' \subseteq Incoming(u)
    BY <1>6 DEF NoGrowth, LiveOf, Incoming
  <2> QED BY <1>5, <2>1
<1>7. ASSUME NEW s \in Sid, CreateInsert(s)
      PROVE  Cardinality(LiveOf(u)') + Cardinality(Incoming(u)') <= MaxPerUser - 1 + MaxInFlight
  <2>1. LiveOf(u)' \subseteq LiveOf(u) \cup (Incoming(u) \cap {s})
    BY <1>7 DEF CreateInsert, LiveOf, Incoming, CreationsInFlight, InProgress, TypeOK
  <2>2. Incoming(u)' \subseteq Incoming(u) \ {s}
    BY <1>7 DEF CreateInsert, Incoming, CreationsInFlight, InProgress, TypeOK
  <2>3. CASE s \in Incoming(u)
    BY <1>5, <2>1, <2>2, <2>3
  <2>4. CASE s \notin Incoming(u)
    BY <1>5, <2>1, <2>2, <2>4
  <2> QED BY <2>3, <2>4
<1>8. ASSUME NEW s \in Sid, NEW v \in User, NEW k \in Kind, CreateAdmit(s, v, k)
      PROVE  Cardinality(LiveOf(u)') + Cardinality(Incoming(u)') <= MaxPerUser - 1 + MaxInFlight
  <2>1. s \notin registry /\ s \notin CreationsInFlight
    BY <1>8 DEF CreateAdmit, Bookkeeping, CreationsInFlight, InProgress, Created, TypeOK
  <2>2. LiveOf(u)' = LiveOf(u)
    BY <1>8, <2>1 DEF CreateAdmit, LiveOf, TypeOK
  <2>3. CASE v = u
    <3>1. Incoming(u)' \in SUBSET (CreationsInFlight \cup {s})
      BY <1>8 DEF CreateAdmit, Incoming, CreationsInFlight, TypeOK
    <3>2. Cardinality(LiveOf(u)) < MaxPerUser /\ Cardinality(CreationsInFlight) < MaxInFlight
      BY <1>8, <2>3 DEF CreateAdmit, UnderUserLimit
    <3> QED BY <1>2, <2>2, <3>1, <3>2, AddBound
  <2>4. CASE v # u
    <3>1. Incoming(u)' \subseteq Incoming(u)
      BY <1>8, <2>4 DEF CreateAdmit, Incoming, CreationsInFlight, InProgress, TypeOK
    <3> QED BY <1>5, <2>2, <3>1
  <2> QED BY <2>3, <2>4
<1> QED
  BY <1>6, <1>7, <1>8, GrowthStep

\* One user's live and incoming sessions exceed max_sessions_per_user by less
\* than the number of calls that may be in flight.
THEOREM UserOvershootBounded == Spec => []UserOvershootBound
<1>1. Init => UserOvershootBound
  <2>1. Init => \A u \in User : LiveOf(u) = {} /\ {s \in CreationsInFlight : creator[s] = u} = {}
    BY DEF Init, LiveOf, CreationsInFlight, InProgress
  <2> QED BY <2>1, FS_EmptySet, ConstantsAssumption DEF UserOvershootBound
<1> QED
  BY <1>1, UserOvershootStep, RegistryCorrect, PTL DEF Spec

-----------------------------------------------------------------------------
(* The handlers *)

\* The type of the handlers' variables, recordings and history aside.
HandlerType ==
    /\ pc \in [Conn -> PC]
    /\ sid \in [Conn -> Sid]
    /\ user \in [Conn -> User \cup {NoUser}]
    /\ token \in [Conn -> Token]
    /\ role \in [Conn -> Role]

\* Where a handler that was given the stream can be.
Connected == PC \ {"idle", "vet", "take", "connecting", "token", "join", "joining", "joined"}

\* What a handler may rely on between two critical sections.
Attribution ==
    /\ \A c \in Conn :
        /\ pc[c] # "idle" => stage[sid[c]] \in Created
        /\ pc[c] \in {"take", "connecting"} => user[c] = creator[sid[c]]
        /\ role[c] = "owner" => pc[c] \in Connected /\ status[sid[c]] # "pending"
    /\ \A s \in Sid : /\ status[s] = "active" => \E c \in Conn : role[c] = "owner" /\ sid[c] = s
                      /\ stage[s] \notin Created => nconn[s] = 0

HandlerInv ==
    /\ RegistryInv
    /\ HandlerType
    /\ Attribution
    /\ OneOwner
    /\ JoinerHasOwner

\* The handlers' locks only make background steps wait.
LEMMA BackgroundWaits == ASSUME Aside(Background) PROVE Aside(BackgroundNext)
BY DEF Aside, Background, BackgroundNext

\* A handler changes the registry only through the methods of SessionManager.
LEMMA ProxyStep == HandlerType /\ [ProxyNext]_allVars => [Next]_vars
<1> SUFFICES ASSUME HandlerType, [ProxyNext]_allVars PROVE Next \/ UNCHANGED vars
  OBVIOUS
<1>1. CASE UNCHANGED allVars
  BY <1>1 DEF allVars
<1>2. CASE Aside(BackgroundNext)
  BY <1>2 DEF Aside, Next
<1>3. ASSUME NEW c \in Conn, HandlerStep(c)
      PROVE  Next \/ UNCHANGED vars
  <2>1. sid[c] \in Sid
    BY DEF HandlerType
  <2> QED
    BY <1>3, <2>1 DEF HandlerStep, LockingStep, OwnStep, PeerStep, Next, HandlerNext, Upgrade,
        Vet, Take, TakeDeferred, ValidateToken, JoinCheck, JoinGuacd, JoinCount, RecordCheck, RecordCreate, RecordWrite, Cancelled,
        GuacdEnded, BrowserEnded, ProxyEnds, Disconnect, MarkError, CheckLast, Complete,
        EndHistory, RotatePerEntry, Move
<1> QED BY <1>1, <1>2, <1>3, BackgroundWaits DEF ProxyNext

\* What no background step does to a session: undo its creation, change its
\* creator, revive it, activate it or count connections.
LEMMA BackgroundStep ==
    ASSUME RegistryInv, BackgroundNext, NEW s \in Sid
    PROVE  /\ stage[s] \in Created => stage'[s] \in Created /\ creator'[s] = creator[s]
           /\ status'[s] = "active" => status[s] = "active"
           /\ stage[s] \in Created /\ status'[s] = "pending" => status[s] = "pending"
           /\ nconn' = nconn
           /\ s \in registry' => s \in registry \/ stage[s] \notin Created
           /\ stage'[s] \notin Created => stage[s] \notin Created
<1> USE DEF RegistryInv, TypeOK, Created, sessionVars, createVars, reaperVars
<1>1. ASSUME NEW t \in Sid, NEW u \in User, NEW k \in Kind, CreateAdmit(t, u, k)
      PROVE  /\ stage[s] \in Created => stage'[s] \in Created /\ creator'[s] = creator[s]
             /\ status' = status /\ nconn' = nconn /\ registry' = registry
             /\ stage'[s] \notin Created => stage[s] \notin Created
  BY <1>1 DEF CreateAdmit
<1>2. ASSUME NEW t \in Sid, CreatePrepare(t) \/ CreateSpawn(t) \/ CreateConnect(t)
               \/ CreateAbandon(t)
      PROVE  /\ stage[s] \in Created => stage'[s] \in Created
             /\ creator' = creator
             /\ status' = status /\ nconn' = nconn /\ registry' = registry
             /\ stage'[s] \notin Created => stage[s] \notin Created
  <2>1. PICK held \in SUBSET Needs(kind[t]), next \in Stage \ Created :
            stage[t] \notin Created /\ CreateStep(t, held, next)
    BY <1>2 DEF CreatePrepare, CreateSpawn, CreateConnect, CreateAbandon, InProgress, Stage, Bookkeeping
  <2> QED BY <2>1 DEF CreateStep
<1>3. ASSUME NEW t \in Sid, CreateInsert(t) \/ CreateRecord(t) \/ ScriptEnds(t)
      PROVE  /\ stage[s] \in Created => stage'[s] \in Created
             /\ creator' = creator /\ nconn' = nconn
             /\ status'[s] = "active" => status[s] = "active"
             /\ stage[s] \in Created => status'[s] = status[s]
             /\ s \in registry' => s \in registry \/ stage[s] \notin Created
             /\ stage'[s] \notin Created => stage[s] \notin Created
  BY <1>3 DEF CreateInsert, CreateRecord, ScriptEnds
<1>4. ASSUME NEW t \in Sid, pending_timeout(t) \/ delete_session(t) \/ DeleteAbandon(t)
               \/ ReapExpiredDelete(t)
      PROVE  /\ stage' = stage /\ creator' = creator /\ nconn' = nconn
             /\ status'[s] \in Live => status[s] = status'[s]
             /\ registry' \subseteq registry
  BY <1>4 DEF pending_timeout, delete_session, DeleteAbandon, ReapExpiredDelete, DeleteEffect, Live
<1>5. ASSUME NEW t \in Sid, \/ \E k \in ShadowKind : mint_shadow_token(t, k) \/ ShadowExpires(t, k)
                            \/ ReapExpiredFind(t) \/ ReapCompletedFind(t)
      PROVE  /\ stage' = stage /\ creator' = creator /\ nconn' = nconn
             /\ status' = status /\ registry' = registry
  BY <1>5 DEF mint_shadow_token, ShadowExpires, ReapExpiredFind, ReapCompletedFind
<1>6. CASE ReapCompletedRemove \/ Tick
  BY <1>6 DEF ReapCompletedRemove, Tick
<1> QED
  BY <1>1, <1>2, <1>3, <1>4, <1>5, <1>6 DEF BackgroundNext, LockFree, SessionLocked, RegistryLocked, Live

\* The invariant of the handlers is inductive.
LEMMA HandlerInvStep == HandlerInv /\ [ProxyNext]_allVars => HandlerInv'
<1> SUFFICES ASSUME HandlerInv, [ProxyNext]_allVars PROVE HandlerInv'
  OBVIOUS
<1>r. RegistryInv'
  BY ProxyStep, RegistryStep DEF HandlerInv
<1> USE ConstantsAssumption, ProxyAssumption
<1> USE DEF HandlerInv, HandlerType, Attribution, OneOwner, JoinerHasOwner,
            Connected, Counted, PC, Role
<1>1. CASE UNCHANGED allVars
  BY <1>r, <1>1 DEF allVars, proxyVars, handlerVars, vars, sessionVars, createVars
<1>2. CASE Aside(BackgroundNext)
  <2>1. UNCHANGED <<pc, sid, user, token, role>>
    BY <1>2 DEF Aside, handlerVars
  <2>2. \A s \in Sid :
           /\ stage[s] \in Created => stage'[s] \in Created /\ creator'[s] = creator[s]
           /\ status'[s] = "active" => status[s] = "active"
           /\ stage[s] \in Created /\ status'[s] = "pending" => status[s] = "pending"
           /\ nconn' = nconn
           /\ stage'[s] \notin Created => stage[s] \notin Created
    BY <1>2, BackgroundStep DEF Aside
  <2> QED BY <1>r, <2>1, <2>2
<1>3. ASSUME NEW c \in Conn,
             \/ Upgrade(c) \/ Vet(c) \/ JoinCheck(c) \/ JoinGuacd(c) \/ RecordCheck(c)
      PROVE  HandlerInv'
  <2>1. UNCHANGED <<sid, user, token, role, stage, creator, status, nconn>>
    BY <1>3 DEF Upgrade, Vet, JoinCheck, JoinGuacd, RecordCheck, Move, vars, sessionVars, createVars
  <2> QED BY <1>r, <1>3, <2>1 DEF Upgrade, Vet, JoinCheck, JoinGuacd, RecordCheck, Move, Goto,
        IsSessionOwner, Joinable
<1>4. ASSUME NEW c \in Conn, Take(c) \/ TakeDeferred(c) PROVE HandlerInv'
  <2>1. UNCHANGED <<sid, user, token, stage, creator>>
    BY <1>4 DEF Take, TakeDeferred, take_guacd_stream, take_guacd_stream_fails, vars, sessionVars, createVars
  <2>2. CASE pc'[c] = "setup"
    <3>1. /\ pc[c] \in {"take", "connecting"} /\ pc' = [pc EXCEPT ![c] = "setup"]
          /\ role' = [role EXCEPT ![c] = "owner"]
          /\ status[sid[c]] = "pending"
          /\ status' = [status EXCEPT ![sid[c]] = "active"]
          /\ \A s \in Sid : s # sid[c] => nconn'[s] = nconn[s]
      BY <1>4, <2>2 DEF Take, TakeDeferred, Goto, take_guacd_stream, RegistryInv, TypeOK
    <3>2. status \in [Sid -> Status]
      BY DEF RegistryInv, TypeOK
    <3> QED BY <1>r, <2>1, <3>1, <3>2
  <2>3. CASE pc'[c] # "setup"
    <3>1. /\ pc[c] \in {"take", "connecting"} /\ UNCHANGED <<role, nconn>>
          /\ \/ pc' = [pc EXCEPT ![c] = "token"]
             \/ pc' = [pc EXCEPT ![c] = "connecting"]
          /\ \A s \in Sid : status'[s] = status[s] \/ status'[s] = "error"
      BY <1>4, <2>3 DEF Take, TakeDeferred, Goto, take_guacd_stream_fails, vars, sessionVars, RegistryInv, TypeOK
    <3> QED BY <1>r, <2>1, <3>1
  <2> QED BY <2>2, <2>3
<1>5. ASSUME NEW c \in Conn, ValidateToken(c) PROVE HandlerInv'
  BY <1>r, <1>5 DEF ValidateToken, Goto, Validate, vars, sessionVars, createVars
<1>6. ASSUME NEW c \in Conn, JoinCount(c) PROVE HandlerInv'
  <2>1. /\ UNCHANGED <<sid, user, token, role, stage, creator, status>>
        /\ \A s \in Sid : s # sid[c] => nconn'[s] = nconn[s]
    BY <1>6 DEF JoinCount, join_session, vars, sessionVars, createVars, RegistryInv, TypeOK
  <2> QED BY <1>r, <1>6, <2>1 DEF JoinCount, Goto
<1>7. ASSUME NEW c \in Conn, \/ RecordCreate(c) \/ Cancelled(c) \/ CheckLast(c) \/ EndHistory(c)
               \/ RotatePerEntry(c) \/ RecordWrite(c) \/ GuacdEnded(c) \/ BrowserEnded(c) PROVE HandlerInv'
  BY <1>r, <1>7 DEF RecordCreate, Cancelled, CheckLast, EndHistory, RotatePerEntry,
        RecordWrite, GuacdEnded, BrowserEnded, ProxyEnds, Goto, vars, sessionVars, createVars, handlerVars
<1>8. ASSUME NEW c \in Conn, Disconnect(c) PROVE HandlerInv'
  <2>1. /\ UNCHANGED <<sid, user, token, role, stage, creator, status>>
        /\ \A s \in Sid : s # sid[c] => nconn'[s] = nconn[s]
    BY <1>8 DEF Disconnect, disconnect_viewer, vars, sessionVars, createVars, RegistryInv, TypeOK
  <2> QED BY <1>r, <1>8, <2>1 DEF Disconnect, Goto
<1>9. ASSUME NEW c \in Conn, MarkError(c) PROVE HandlerInv'
  <2>1. /\ UNCHANGED <<sid, user, token, role, stage, creator, nconn>>
        /\ \A s \in Sid : status'[s] = status[s] \/ status'[s] \in Terminal
    BY <1>9 DEF MarkError, error_session, vars, sessionVars, createVars, RegistryInv, TypeOK, Terminal
  <2> QED BY <1>r, <1>9, <2>1 DEF MarkError, Goto, Terminal
<1>10. ASSUME NEW c \in Conn, Complete(c) PROVE HandlerInv'
  <2>1. /\ UNCHANGED <<sid, user, token, role, stage, creator, nconn>>
        /\ \A s \in Sid : status'[s] = status[s] \/ status'[s] \in Terminal
    BY <1>10 DEF Complete, complete_session, vars, sessionVars, createVars, RegistryInv, TypeOK, Terminal
  <2> QED BY <1>r, <1>10, <2>1 DEF Complete, Goto, Terminal
<1> QED
  BY <1>1, <1>2, <1>3, <1>4, <1>5, <1>6, <1>7, <1>8, <1>9, <1>10, BackgroundWaits DEF ProxyNext, HandlerStep, LockingStep, OwnStep,
     PeerStep

\* The invariant of the handlers holds in every reachable state.
LEMMA HandlersCorrect == ProxySpec => []HandlerInv
<1>1. Init /\ ProxyInit => HandlerInv
  BY RegistryInit DEF Init, ProxyInit, HandlerInv, HandlerType, Attribution, OneOwner,
      JoinerHasOwner, PC, Role, Counted, Created
<1> QED
  BY <1>1, HandlerInvStep, PTL DEF ProxySpec

\* The guacd stream goes to at most one handler, which is the creator's.
THEOREM SingleOwner == ProxySpec => []OneOwner
<1>1. HandlerInv => OneOwner
  BY DEF HandlerInv
<1> QED BY <1>1, HandlersCorrect, PTL

\* Nobody joins a session that no owner has opened.
THEOREM JoinersFollowOwner == ProxySpec => []JoinerHasOwner
<1>1. HandlerInv => JoinerHasOwner
  BY DEF HandlerInv
<1> QED BY <1>1, HandlersCorrect, PTL

\* A session is opened by its creator, once, and only then joined.
THEOREM OwnerComesFirst == ProxySpec => []OwnerFirst
<1>1. OneOwner /\ JoinerHasOwner => OwnerFirst
  BY DEF OwnerFirst
<1> QED BY <1>1, SingleOwner, JoinersFollowOwner, PTL

\* The handlers use the registry as its specification allows, so everything
\* proved of SessionManager holds with the handlers in place.
THEOREM ProxyImplementsManager == ProxySpec => Spec
<1>1. HandlerInv /\ [ProxyNext]_allVars => [Next]_vars
  BY ProxyStep DEF HandlerInv
<1> QED
  BY <1>1, HandlersCorrect, PTL DEF ProxySpec, Spec

-----------------------------------------------------------------------------
(* active_connections.                                                      *)

\* A handler enters or leaves the counted states only in the steps that call
\* take_guacd_stream, join_session and disconnect_viewer.
LEMMA CountStep == HandlerInv /\ CountExact /\ [ProxyNext]_allVars => CountExact'
<1> SUFFICES ASSUME HandlerInv, CountExact, [ProxyNext]_allVars, NEW s \in registry'
             PROVE  nconn'[s] = Cardinality(CountedOn(s)')
  BY DEF CountExact
<1> USE DEF HandlerInv, HandlerType, Counted, CountedOn, PC
<1>0. RegistryInv' /\ s \in Sid
  BY ProxyStep, RegistryStep DEF RegistryInv, TypeOK
<1>f. CountedOn(s) \in SUBSET Conn /\ IsFiniteSet(CountedOn(s))
  BY ProxyAssumption, FS_Subset
<1>n. Cardinality(CountedOn(s)) \in Nat
  BY <1>f, FS_CardinalityType
<1>e. ASSUME s \in registry, nconn'[s] = nconn[s], CountedOn(s)' = CountedOn(s)
      PROVE  nconn'[s] = Cardinality(CountedOn(s)')
  BY <1>e DEF CountExact
<1>1. CASE UNCHANGED allVars
  BY <1>1, <1>e DEF allVars, proxyVars, handlerVars, vars, sessionVars, createVars
<1>2. CASE Aside(BackgroundNext)
  <2>1. /\ CountedOn(s)' = CountedOn(s)
        /\ nconn' = nconn
        /\ s \in registry \/ stage[s] \notin Created
    BY <1>0, <1>2, BackgroundStep DEF Aside, handlerVars
  <2>2. CASE stage[s] \notin Created
    <3>1. CountedOn(s) = {} /\ nconn[s] = 0
      BY <1>0, <2>2 DEF Attribution
    <3> QED BY <2>1, <3>1, FS_EmptySet
  <2> QED BY <1>e, <2>1, <2>2
<1>3. ASSUME NEW c \in Conn,
             \/ Upgrade(c) \/ Vet(c) \/ ValidateToken(c) \/ JoinCheck(c) \/ JoinGuacd(c)
             \/ RecordCheck(c) \/ RecordCreate(c) \/ Cancelled(c) \/ CheckLast(c)
             \/ EndHistory(c) \/ RotatePerEntry(c) \/ RecordWrite(c) \/ GuacdEnded(c) \/ BrowserEnded(c)
      PROVE  nconn'[s] = Cardinality(CountedOn(s)')
  <2>1. UNCHANGED <<registry, nconn, sid>>
    BY <1>3 DEF Upgrade, Vet, ValidateToken, JoinCheck, JoinGuacd, RecordCheck, RecordCreate,
        Cancelled, CheckLast, EndHistory, RotatePerEntry, RecordWrite, GuacdEnded,
        BrowserEnded, ProxyEnds, Move, vars, sessionVars, handlerVars
  <2>2. \A d \in Conn : pc'[d] \in Counted <=> pc[d] \in Counted
    BY <1>3 DEF Upgrade, Vet, ValidateToken, JoinCheck, JoinGuacd, RecordCheck, RecordCreate,
        Cancelled, CheckLast, EndHistory, RotatePerEntry, RecordWrite, GuacdEnded,
        BrowserEnded, ProxyEnds, Move, Goto, handlerVars
  <2> QED BY <1>e, <2>1, <2>2
<1>4. ASSUME NEW c \in Conn, MarkError(c) \/ Complete(c)
      PROVE  nconn'[s] = Cardinality(CountedOn(s)')
  <2>1. UNCHANGED <<registry, nconn, sid>>
    BY <1>4 DEF MarkError, Complete, error_session, complete_session, vars, sessionVars
  <2>2. \A d \in Conn : pc'[d] \in Counted <=> pc[d] \in Counted
    BY <1>4 DEF MarkError, Complete, Goto
  <2> QED BY <1>e, <2>1, <2>2
<1>5. ASSUME NEW c \in Conn, Take(c) \/ TakeDeferred(c) \/ JoinCount(c)
      PROVE  nconn'[s] = Cardinality(CountedOn(s)')
  <2>1. registry' = registry /\ sid' = sid /\ pc[c] \notin Counted
    BY <1>5 DEF Take, TakeDeferred, JoinCount, take_guacd_stream, take_guacd_stream_fails, join_session, vars
  <2>2. CASE s = sid[c] /\ pc'[c] = "setup"
    <3>1. nconn'[s] = nconn[s] + 1
      BY <1>0, <1>5, <2>1, <2>2 DEF Take, TakeDeferred, JoinCount, take_guacd_stream, take_guacd_stream_fails,
          join_session, RegistryInv, TypeOK, Goto
    <3>2. CountedOn(s)' = CountedOn(s) \cup {c} /\ c \notin CountedOn(s)
      BY <1>5, <2>1, <2>2 DEF Take, TakeDeferred, JoinCount, Goto
    <3>3. Cardinality(CountedOn(s) \cup {c}) = Cardinality(CountedOn(s)) + 1
      BY <1>f, <3>2, FS_AddElement
    <3> QED BY <2>1, <3>1, <3>2, <3>3 DEF CountExact
  <2>3. CASE ~ (s = sid[c] /\ pc'[c] = "setup")
    <3>1. nconn'[s] = nconn[s]
      BY <1>0, <1>5, <2>3 DEF Take, TakeDeferred, JoinCount, take_guacd_stream, take_guacd_stream_fails,
          join_session, RegistryInv, TypeOK, Goto, vars, sessionVars
    <3>2. CountedOn(s)' = CountedOn(s)
      BY <1>5, <2>1, <2>3 DEF Take, TakeDeferred, JoinCount, Goto
    <3> QED BY <1>e, <2>1, <3>1, <3>2
  <2> QED BY <2>2, <2>3
<1>6. ASSUME NEW c \in Conn, Disconnect(c)
      PROVE  nconn'[s] = Cardinality(CountedOn(s)')
  <2>1. registry' = registry /\ sid' = sid /\ pc[c] \in Counted
    BY <1>6 DEF Disconnect, disconnect_viewer, vars
  <2>2. CASE s = sid[c]
    <3>1. CountedOn(s)' = CountedOn(s) \ {c} /\ c \in CountedOn(s)
      BY <1>6, <2>1, <2>2 DEF Disconnect, Goto
    <3>2. Cardinality(CountedOn(s) \ {c}) = Cardinality(CountedOn(s)) - 1
      BY <1>f, <3>1, FS_RemoveElement
    <3>3. Cardinality(CountedOn(s)) # 0
      BY <1>f, <3>1, FS_EmptySet
    <3>4. nconn'[s] = nconn[s] - 1
      BY <1>0, <1>6, <1>n, <2>1, <2>2, <3>3 DEF Disconnect, disconnect_viewer, CountExact,
          RegistryInv, TypeOK
    <3> QED BY <2>1, <3>1, <3>2, <3>4 DEF CountExact
  <2>3. CASE s # sid[c]
    <3>1. nconn'[s] = nconn[s]
      BY <1>0, <1>6, <2>3 DEF Disconnect, disconnect_viewer, RegistryInv, TypeOK, vars, sessionVars
    <3>2. CountedOn(s)' = CountedOn(s)
      BY <1>6, <2>1, <2>3 DEF Disconnect, Goto
    <3> QED BY <1>e, <2>1, <3>1, <3>2
  <2> QED BY <2>2, <2>3
<1> QED
  BY <1>1, <1>2, <1>3, <1>4, <1>5, <1>6, BackgroundWaits DEF ProxyNext, HandlerStep, LockingStep, OwnStep,
     PeerStep

\* active_connections is exact in every reachable state.
THEOREM CountIsExact == ProxySpec => []CountExact
<1>1. Init /\ ProxyInit => CountExact
  BY DEF Init, CountExact
<1> QED
  BY <1>1, CountStep, HandlersCorrect, PTL DEF ProxySpec

\* Handlers that keep an Active session from being stranded.
Keeper(c, s) == sid[c] = s /\ pc[c] \in Counted \cup {"left", "complete"}

\* A handler stops keeping its session only by ending it, or after it saw a
\* positive active_connections, which means another handler keeps it.
LEMMA StrandedStep ==
    HandlerInv /\ CountExact /\ NoStrandedSession /\ [ProxyNext]_allVars => NoStrandedSession'
<1> SUFFICES ASSUME HandlerInv, CountExact, NoStrandedSession, [ProxyNext]_allVars,
                    NEW s \in registry', status'[s] = "active"
             PROVE  \E c \in Conn : Keeper(c, s)'
  BY DEF NoStrandedSession, Keeper
<1> USE DEF HandlerInv, HandlerType, Keeper, Counted, PC
<1>0. RegistryInv' /\ s \in Sid
  BY ProxyStep, RegistryStep DEF RegistryInv, TypeOK
<1>1. CASE UNCHANGED allVars
  BY <1>1 DEF NoStrandedSession, allVars, proxyVars, handlerVars, vars, sessionVars
<1>2. CASE Aside(BackgroundNext)
  <2>1. /\ status[s] = "active"
        /\ s \in registry \/ stage[s] \notin Created
        /\ UNCHANGED <<pc, sid>>
    BY <1>0, <1>2, BackgroundStep DEF Aside, handlerVars
  <2>2. s \in registry
    BY <1>0, <2>1 DEF RegistryInv, Bookkeeping
  <2> QED BY <2>1, <2>2 DEF NoStrandedSession
<1>3. ASSUME NEW c \in Conn, UNCHANGED <<registry, sid>>, status[s] = "active",
             \/ Keeper(c, s)'
             \/ ~ Keeper(c, s)
             \/ \E d \in Conn \ {c} : Keeper(d, s),
             \A d \in Conn \ {c} : pc'[d] = pc[d]
      PROVE  \E d \in Conn : Keeper(d, s)'
  BY <1>3 DEF NoStrandedSession
<1>4. ASSUME NEW c \in Conn,
             \/ Upgrade(c) \/ Vet(c) \/ ValidateToken(c) \/ JoinCheck(c) \/ JoinGuacd(c)
             \/ RecordCheck(c) \/ RecordCreate(c) \/ Cancelled(c)
             \/ EndHistory(c) \/ RotatePerEntry(c) \/ RecordWrite(c) \/ GuacdEnded(c) \/ BrowserEnded(c)
      PROVE  \E d \in Conn : Keeper(d, s)'
  <2>1. UNCHANGED <<registry, status, sid>>
    BY <1>4 DEF Upgrade, Vet, ValidateToken, JoinCheck, JoinGuacd, RecordCheck, RecordCreate,
        Cancelled, EndHistory, RotatePerEntry, RecordWrite, GuacdEnded,
        BrowserEnded, ProxyEnds, Move, vars, sessionVars, handlerVars
  <2>2. /\ \A d \in Conn \ {c} : pc'[d] = pc[d]
        /\ pc[c] \in Counted \cup {"left", "complete"} => pc'[c] \in Counted
    BY <1>4 DEF Upgrade, Vet, ValidateToken, JoinCheck, JoinGuacd, RecordCheck, RecordCreate,
        Cancelled, EndHistory, RotatePerEntry, RecordWrite, GuacdEnded,
        BrowserEnded, ProxyEnds, Move, Goto, handlerVars
  <2> QED BY <1>3, <2>1, <2>2
<1>5. ASSUME NEW c \in Conn, Take(c) \/ TakeDeferred(c) \/ JoinCount(c) \/ Disconnect(c)
      PROVE  \E d \in Conn : Keeper(d, s)'
  <2>1. /\ UNCHANGED <<registry, sid>>
        /\ \A d \in Conn \ {c} : pc'[d] = pc[d]
    BY <1>5 DEF Take, TakeDeferred, JoinCount, Disconnect, take_guacd_stream, take_guacd_stream_fails,
        join_session, disconnect_viewer, Goto, vars
  <2>2. CASE s = sid[c] /\ pc'[c] \in {"setup", "left"}
    BY <2>1, <2>2
  <2>3. CASE ~ (s = sid[c] /\ pc'[c] \in {"setup", "left"})
    <3>1. status[s] = "active"
      BY <1>0, <1>5, <2>3 DEF Take, TakeDeferred, JoinCount, Disconnect, take_guacd_stream,
          take_guacd_stream_fails, join_session, disconnect_viewer, Goto, vars, sessionVars,
          RegistryInv, TypeOK
    <3>2. ~ Keeper(c, s)
      BY <1>5, <2>3 DEF Take, TakeDeferred, JoinCount, Disconnect, Goto
    <3> QED BY <1>3, <2>1, <3>1, <3>2
  <2> QED BY <2>2, <2>3
<1>6. ASSUME NEW c \in Conn, MarkError(c) \/ Complete(c)
      PROVE  \E d \in Conn : Keeper(d, s)'
  <2>1. /\ UNCHANGED <<registry, sid>>
        /\ \A d \in Conn \ {c} : pc'[d] = pc[d]
    BY <1>6 DEF MarkError, Complete, error_session, complete_session, Goto, vars
  <2>2. status[s] = "active" /\ s # sid[c]
    BY <1>0, <1>6, <2>1 DEF MarkError, Complete, error_session, complete_session, Joinable, vars,
        sessionVars, RegistryInv, TypeOK
  <2> QED BY <1>3, <2>1, <2>2
<1>7. ASSUME NEW c \in Conn, CheckLast(c)
      PROVE  \E d \in Conn : Keeper(d, s)'
  <2>1. /\ UNCHANGED <<registry, sid, status>>
        /\ \A d \in Conn \ {c} : pc'[d] = pc[d]
    BY <1>7 DEF CheckLast, Goto, vars, sessionVars
  <2>2. CASE s = sid[c] /\ nconn[s] # 0
    <3>1. PICK d \in Conn : sid[d] = s /\ pc[d] \in Counted
      BY <2>1, <2>2, FS_EmptySet DEF CountExact, CountedOn
    <3>2. d # c
      BY <1>7, <3>1 DEF CheckLast
    <3> QED BY <1>3, <2>1, <3>1, <3>2
  <2>3. CASE s = sid[c] /\ nconn[s] = 0
    BY <1>7, <2>1, <2>3 DEF CheckLast, Goto
  <2>4. CASE s # sid[c]
    BY <1>3, <2>1, <2>4
  <2> QED BY <2>2, <2>3, <2>4
<1> QED
  BY <1>1, <1>2, <1>4, <1>5, <1>6, <1>7, BackgroundWaits DEF ProxyNext, HandlerStep, LockingStep, OwnStep,
     PeerStep

\* An Active session always has a connection, or a handler that will end it.
THEOREM NeverStranded == ProxySpec => []NoStrandedSession
<1>1. Init /\ ProxyInit => NoStrandedSession
  BY DEF Init, NoStrandedSession
<1> QED
  BY <1>1, StrandedStep, CountIsExact, HandlersCorrect, PTL DEF ProxySpec

-----------------------------------------------------------------------------
(* Types of the handlers, the history and the recordings *)

LEMMA RemoveAtIs ==
    ASSUME NEW S, NEW s \in Seq(S), NEW i \in 1..Len(s)
    PROVE  /\ RemoveAt(s, i) \in Seq(S) /\ Len(RemoveAt(s, i)) = Len(s) - 1
           /\ \A k \in 1..(Len(s) - 1) : RemoveAt(s, i)[k] = IF k < i THEN s[k] ELSE s[k + 1]
<1> DEFINE a == SubSeq(s, 1, i - 1)
           b == SubSeq(s, i + 1, Len(s))
<1>0. Len(s) \in Nat /\ \A k \in 1..Len(s) : s[k] \in S
  OBVIOUS
<1>1. a \in Seq(S) /\ Len(a) = i - 1 /\ \A k \in 1..(i - 1) : a[k] = s[k]
  <2> DEFINE m == 1
             n == i - 1
  <2>1. m \in Int /\ n \in Int /\ \A k \in m..n : s[k] \in S
    BY <1>0
  <2>2. /\ SubSeq(s, m, n) \in Seq(S) /\ Len(SubSeq(s, m, n)) = IF m <= n THEN n - m + 1 ELSE 0
        /\ \A k \in 1..(n - m + 1) : SubSeq(s, m, n)[k] = s[m + k - 1]
    <3> HIDE DEF m, n
    <3> QED BY <2>1, SubSeqProperties
  <2> QED BY <2>2
<1>2. b \in Seq(S) /\ Len(b) = Len(s) - i /\ \A k \in 1..(Len(s) - i) : b[k] = s[i + k]
  <2> DEFINE m == i + 1
             n == Len(s)
  <2>1. m \in Int /\ n \in Int /\ \A k \in m..n : s[k] \in S
    BY <1>0
  <2>2. /\ SubSeq(s, m, n) \in Seq(S) /\ Len(SubSeq(s, m, n)) = IF m <= n THEN n - m + 1 ELSE 0
        /\ \A k \in 1..(n - m + 1) : SubSeq(s, m, n)[k] = s[m + k - 1]
    <3> HIDE DEF m, n
    <3> QED BY <2>1, SubSeqProperties
  <2>3. /\ n - m + 1 = Len(s) - i /\ (IF m <= n THEN n - m + 1 ELSE 0) = Len(s) - i
        /\ \A k \in 1..(Len(s) - i) : m + k - 1 = i + k
    BY <1>0
  <2>4. b = SubSeq(s, m, n)
    OBVIOUS
  <2> HIDE DEF m, n, b
  <2>5. ASSUME NEW k \in 1..(Len(s) - i) PROVE b[k] = s[i + k]
    <3>1. b[k] = s[m + k - 1]
      BY <2>2, <2>3, <2>4
    <3>2. m + k - 1 = i + k
      BY <2>3
    <3> QED BY <3>1, <3>2
  <2> QED BY <2>2, <2>3, <2>4, <2>5
<1> HIDE DEF a, b
<1>3. /\ a \o b \in Seq(S) /\ Len(a \o b) = Len(a) + Len(b)
      /\ \A k \in 1..(Len(a) + Len(b)) : (a \o b)[k] = IF k <= Len(a) THEN a[k] ELSE b[k - Len(a)]
  BY <1>1, <1>2, ConcatProperties
<1>4. RemoveAt(s, i) = a \o b
  BY DEF RemoveAt, a, b
<1>5. ASSUME NEW k \in 1..(Len(s) - 1)
      PROVE  (a \o b)[k] = IF k < i THEN s[k] ELSE s[k + 1]
  <2>1. (a \o b)[k] = IF k <= i - 1 THEN a[k] ELSE b[k - (i - 1)]
    BY <1>0, <1>1, <1>2, <1>3
  <2>2. CASE k < i
    BY <1>1, <2>1, <2>2
  <2>3. CASE k >= i
    <3> DEFINE x == k - (i - 1)
    <3>1. x \in 1..(Len(s) - i) /\ i + x = k + 1 /\ ~ (k <= i - 1) /\ ~ (k < i)
      BY <1>0, <2>3
    <3>2. (a \o b)[k] = b[x]
      BY <2>1, <3>1
    <3> HIDE DEF x
    <3>3. b[x] = s[i + x]
      BY <1>2, <3>1
    <3>4. s[i + x] = s[k + 1]
      BY <3>1
    <3>5. (a \o b)[k] = s[k + 1]
      BY <3>2, <3>3, <3>4, Zenon
    <3>6. (IF k < i THEN s[k] ELSE s[k + 1]) = s[k + 1]
      BY <3>1
    <3> QED BY <3>5, <3>6
  <2>4. k < i \/ k >= i
    BY <1>0
  <2> QED BY <2>2, <2>3, <2>4, Zenon
<1>6. Len(a \o b) = Len(s) - 1
  BY <1>0, <1>1, <1>2, <1>3
<1>7. /\ a \o b \in Seq(S) /\ Len(a \o b) = Len(s) - 1
      /\ \A k \in 1..(Len(s) - 1) : (a \o b)[k] = IF k < i THEN s[k] ELSE s[k + 1]
  BY <1>3, <1>5, <1>6, Zenon
<1> QED BY <1>4, <1>7, Zenon

\* A directory has one recording of a session at most.
Directory(d) == d \in Seq(Sid) /\ \A i, j \in DOMAIN d : d[i] = d[j] => i = j

LEMMA AppendDirectory ==
    ASSUME NEW d, Directory(d), NEW s \in Sid, \A k \in 1..Len(d) : d[k] # s
    PROVE  Directory(Append(d, s))
<1>0. d \in Seq(Sid) /\ Len(d) \in Nat /\ DOMAIN d = 1..Len(d)
  BY DEF Directory
<1> DEFINE e == Append(d, s)
           n == Len(d)
<1>1. /\ e \in Seq(Sid) /\ DOMAIN e = 1..(n + 1)
      /\ \A k \in 1..n : e[k] = d[k]
      /\ e[n + 1] = s
  BY <1>0
<1>2. \A i, j \in 1..n : d[i] = d[j] => i = j
  BY <1>0 DEF Directory
<1>3. \A k \in 1..(n + 1) : k \in 1..n \/ k = n + 1
  BY <1>0
<1> HIDE DEF e, n
<1>4. ASSUME NEW i \in 1..(n + 1), NEW j \in 1..(n + 1), e[i] = e[j] PROVE i = j
  <2>0. \A k \in 1..n : d[k] # s
    BY DEF n
  <2>1. (i \in 1..n \/ i = n + 1) /\ (j \in 1..n \/ j = n + 1)
    BY <1>3
  <2> QED BY <1>1, <1>2, <1>4, <2>0, <2>1
<1>5. Directory(e)
  BY <1>1, <1>4 DEF Directory
<1> QED BY <1>5 DEF e

\* A recording that is written moves to the end, and stays the only one.
LEMMA TouchDirectory ==
    ASSUME Directory(files), NEW s \in Sid
    PROVE  Directory(Touch(s))
<1>0. files \in Seq(Sid) /\ Len(files) \in Nat /\ DOMAIN files = 1..Len(files)
  BY DEF Directory
<1>1. \A i, j \in 1..Len(files) : files[i] = files[j] => i = j
  BY <1>0 DEF Directory
<1>2. CASE s \notin OnDisk
  <2>1. Touch(s) = Append(files, s)
    BY <1>2 DEF Touch
  <2>2. \A k \in 1..Len(files) : files[k] # s
    BY <1>0, <1>2 DEF OnDisk
  <2>3. Directory(Append(files, s))
    BY <2>2, AppendDirectory
  <2> QED BY <2>1, <2>3
<1>3. CASE s \in OnDisk
  <2> DEFINE i == CHOOSE k \in DOMAIN files : files[k] = s
             r == RemoveAt(files, i)
             n == Len(files)
  <2>1. Touch(s) = Append(r, s)
    BY <1>3, Zenon DEF Touch
  <2>2. i \in 1..n /\ files[i] = s
    <3>1. \E k \in DOMAIN files : files[k] = s
      BY <1>3 DEF OnDisk
    <3> QED BY <1>0, <3>1
  <2> HIDE DEF i
  <2>3. /\ r \in Seq(Sid) /\ Len(r) = n - 1
        /\ \A k \in 1..(n - 1) : r[k] = IF k < i THEN files[k] ELSE files[k + 1]
    BY <1>0, <2>2, RemoveAtIs
  <2> HIDE DEF r
  <2> DEFINE At(k) == IF k < i THEN k ELSE k + 1
  <2>4. \A k \in 1..(n - 1) : At(k) \in 1..n /\ At(k) # i /\ r[k] = files[At(k)]
    BY <1>0, <2>2, <2>3
  <2>5. \A k, l \in 1..(n - 1) : At(k) = At(l) => k = l
    BY <1>0, <2>2
  <2> HIDE DEF At
  <2>n. n = Len(files)
    OBVIOUS
  <2> HIDE DEF n
  <2>6. \A k, l \in 1..(n - 1) : r[k] = r[l] => k = l
    BY <1>1, <2>4, <2>5, <2>n
  <2>7. \A k \in 1..(n - 1) : r[k] # s
    BY <1>1, <2>2, <2>4, <2>n
  <2>8. DOMAIN r = 1..(n - 1)
    BY <2>3
  <2>9. Directory(r) /\ \A k \in 1..Len(r) : r[k] # s
    BY <2>3, <2>6, <2>7, <2>8 DEF Directory
  <2>10. Directory(Append(r, s))
    BY <2>9, AppendDirectory
  <2> QED BY <2>1, <2>10
<1> QED BY <1>2, <1>3

\* Rotation unlinks the oldest.
LEMMA RotatedDirectory ==
    ASSUME Directory(files)
    PROVE  Directory(SubSeq(files, Excess + 1, Len(files)))
<1> DEFINE x == Excess
           n == Len(files)
           m == x + 1
           d == SubSeq(files, m, n)
<1>0. files \in Seq(Sid) /\ n \in Nat /\ DOMAIN files = 1..n
  BY DEF Directory
<1>1. x \in Nat /\ x <= n
  BY <1>0, ProxyAssumption DEF Excess
<1>2. \A i, j \in 1..n : files[i] = files[j] => i = j
  BY <1>0 DEF Directory
<1> HIDE DEF x
<1>3. d \in Seq(Sid) /\ Len(d) = n - x /\ \A k \in 1..(n - x) : d[k] = files[x + k]
  <2>1. /\ m \in Nat /\ 1 <= m /\ m <= n + 1 /\ n <= Len(files) /\ n - m + 1 = n - x
        /\ m \in Int /\ n \in Int /\ \A k \in m..n : files[k] \in Sid
    BY <1>0, <1>1
  <2>2. \A k \in 1..(n - x) : m + k - 1 = x + k
    BY <1>0, <1>1
  <2>5. m \in Nat /\ n \in Nat /\ m = x + 1 /\ x \in Nat /\ x <= n
    BY <1>0, <1>1
  <2>d. d = SubSeq(files, m, n)
    OBVIOUS
  <2> HIDE DEF m, n, d
  <2>3. /\ SubSeq(files, m, n) \in Seq(Sid)
        /\ Len(SubSeq(files, m, n)) = IF m <= n THEN n - m + 1 ELSE 0
        /\ \A k \in 1..(n - m + 1) : SubSeq(files, m, n)[k] = files[m + k - 1]
    BY <2>1, SubSeqProperties
  <2>4. Len(SubSeq(files, m, n)) = n - x
    <3>1. CASE m <= n
      BY <2>3, <2>5, <3>1
    <3>2. CASE ~(m <= n)
      BY <2>3, <2>5, <3>2
    <3> QED BY <3>1, <3>2
  <2> QED BY <2>1, <2>2, <2>3, <2>4, <2>d
<1> HIDE DEF d, n, m
<1>4. \A k, l \in 1..(n - x) : d[k] = d[l] => k = l
  <2>1. \A k \in 1..(n - x) : x + k \in 1..n
    BY <1>0, <1>1
  <2> SUFFICES ASSUME NEW k \in 1..(n - x), NEW l \in 1..(n - x), d[k] = d[l] PROVE k = l
    OBVIOUS
  <2>2. x + k = x + l
    BY <1>2, <1>3, <2>1
  <2> QED BY <1>1, <2>2
<1>5. DOMAIN d = 1..(n - x)
  BY <1>3
<1>6. Directory(d)
  BY <1>3, <1>4, <1>5 DEF Directory
<1> QED BY <1>6 DEF d, m, n, x

\* Type of the variables besides those of HandlerType.
RecordTypes ==
    /\ quick \subseteq Conn /\ writers \subseteq Conn
    /\ history \in [Sid -> Row] /\ saw \in [Conn -> Row]
    /\ Directory(files)

LEMMA RecordStep == HandlerInv /\ RecordTypes /\ [ProxyNext]_allVars => RecordTypes'
<1> SUFFICES ASSUME HandlerInv, RecordTypes, [ProxyNext]_allVars PROVE RecordTypes'
  OBVIOUS
<1>1. CASE UNCHANGED allVars
  BY <1>1 DEF allVars, proxyVars, handlerVars, recVars, RecordTypes
<1>2. CASE Aside(BackgroundNext)
  BY <1>2 DEF Aside, InsertHistory, handlerVars, recVars, RecordTypes, Row
<1>3. ASSUME NEW c \in Conn, HandlerStep(c) PROVE RecordTypes'
  <2>0. sid[c] \in Sid
    BY DEF HandlerInv, HandlerType
  <2>1. CASE UNCHANGED <<quick, writers, history, saw, files>>
    BY <2>1 DEF RecordTypes
  <2>2. CASE \/ Upgrade(c) \/ Vet(c) \/ Take(c) \/ TakeDeferred(c) \/ ValidateToken(c)
             \/ JoinCheck(c) \/ JoinGuacd(c) \/ JoinCount(c) \/ RecordCheck(c) \/ Disconnect(c) \/ Complete(c)
    <3>1. UNCHANGED <<quick, writers, history, saw, files>>
      BY <2>2 DEF Upgrade, Vet, Take, TakeDeferred, ValidateToken, JoinCheck, JoinGuacd, JoinCount, RecordCheck,
                  Disconnect, Complete, Move, recVars
    <3> QED BY <2>1, <3>1
  <2>3. CASE RecordCreate(c) \/ RecordWrite(c)
    <3>1. Directory(Touch(sid[c]))
      BY <2>0, TouchDirectory DEF RecordTypes
    <3>2. /\ quick' = quick /\ history' = history /\ saw' = saw
          /\ files' = Touch(sid[c]) \/ files' = files
          /\ writers' \in {writers, writers \cup {c}}
      BY <2>3 DEF RecordCreate, RecordWrite, recVars, handlerVars
    <3> QED BY <3>1, <3>2 DEF RecordTypes
  <2>4. CASE Cancelled(c) \/ GuacdEnded(c) \/ BrowserEnded(c)
    <3>1. /\ quick' \in {quick, quick \cup {c}} /\ writers' = writers \ {c}
          /\ history' = history /\ saw' = saw /\ files' = files
      BY <2>4 DEF Cancelled, GuacdEnded, BrowserEnded, ProxyEnds
    <3> QED BY <3>1 DEF RecordTypes
  <2>5. CASE MarkError(c) \/ CheckLast(c)
    <3>1. /\ quick' = quick /\ writers' = writers /\ history' = history /\ files' = files
          /\ \E st \in Row : saw' = [saw EXCEPT ![c] = st]
      BY <2>5 DEF MarkError, CheckLast, Record, recVars, Row
    <3> QED BY <3>1 DEF RecordTypes
  <2>6. CASE EndHistory(c)
    <3>1. /\ quick' = quick /\ writers' = writers /\ saw' = saw /\ files' = files
          /\ history' = [history EXCEPT ![sid[c]] = IF @ = "open" THEN saw[c] ELSE @]
      BY <2>6 DEF EndHistory, recVars
    <3> QED BY <2>0, <3>1 DEF RecordTypes
  <2>7. CASE RotatePerEntry(c)
    <3> DEFINE d == SubSeq(files, Excess + 1, Len(files))
    <3>1. Directory(d)
      BY RotatedDirectory DEF RecordTypes
    <3>2. /\ quick' = quick \ {c} /\ writers' = writers /\ history' = history
          /\ saw' = [saw EXCEPT ![c] = "none"]
          /\ files' = d \/ files' = files
      BY <2>7 DEF RotatePerEntry, Record
    <3> HIDE DEF d
    <3> QED BY <3>1, <3>2 DEF RecordTypes, Row
  <2> QED BY <1>3, <2>2, <2>3, <2>4, <2>5, <2>6, <2>7 DEF HandlerStep, LockingStep, OwnStep, PeerStep
<1> QED BY <1>1, <1>2, <1>3, BackgroundWaits DEF ProxyNext

\* Type correctness of the handlers, the history and the recordings; a session
\* never has two recordings in the directory, through every truncation by
\* File::create, every write and every rotation.
THEOREM ProxyTypeCorrect == ProxySpec => []ProxyTypeOK
<1>1. Init /\ ProxyInit => RecordTypes
  <2> SUFFICES ASSUME ProxyInit PROVE RecordTypes
    OBVIOUS
  <2>1. Directory(<< >>)
    BY DEF Directory
  <2> QED BY <2>1 DEF ProxyInit, RecordTypes, Row
<1>2. HandlerInv /\ RecordTypes => ProxyTypeOK
  BY DEF HandlerInv, HandlerType, RecordTypes, Directory, ProxyTypeOK
<1> QED BY <1>1, <1>2, RecordStep, HandlersCorrect, PTL DEF ProxySpec

-----------------------------------------------------------------------------
(* Induction over the natural numbers, and folds.  The library's induction *)
(* theorems have an operator parameter; these have a set instead.          *)

LEMMA NatMin ==
    ASSUME NEW T, T \subseteq Nat, T # {}
    PROVE  \E x \in T : \A y \in T : x <= y
<1> DEFINE R == OpToRel(<, Nat)
<1>1. \A x, y \in Nat : <<x, y>> \in R <=> x < y
  BY DEF OpToRel
<1>2. IsWellFoundedOn(R, Nat)
  BY NatLessThanWellFounded
<1> HIDE DEF R
<1>3. \E x \in T : \A y \in T : ~ (<<y, x>> \in R)
  BY <1>2, WFMin
<1>4. PICK x \in T : \A y \in T : ~ (<<y, x>> \in R)
  BY <1>3
<1>5. \A y \in T : ~ (y < x)
  BY <1>1, <1>4
<1>6. \A y \in T : x <= y
  BY <1>5
<1> QED BY <1>6

\* A set with 0 and with the successors of its numbers has them all.
LEMMA NatAll ==
    ASSUME NEW S, 0 \in S, \A n \in Nat : n \in S => n + 1 \in S
    PROVE  Nat \subseteq S
<1> DEFINE T == Nat \ S
<1>1. SUFFICES ASSUME T # {} PROVE FALSE
  OBVIOUS
<1>2. PICK x \in T : \A y \in T : x <= y
  BY <1>1, NatMin
<1>3. x # 0 /\ x \in Nat
  OBVIOUS
<1>4. x - 1 \in Nat /\ ~ (x <= x - 1)
  BY <1>3
<1>5. x - 1 \in S
  BY <1>2, <1>4
<1>6. (x - 1) + 1 \in S
  BY <1>4, <1>5
<1> QED BY <1>3, <1>6

LEMMA MaxOf ==
    ASSUME NEW n \in Nat, NEW t, t \subseteq 1..n, t # {}
    PROVE  Max(t) \in t /\ \A y \in t : y <= Max(t)
<1> DEFINE T == {n - y : y \in t}
<1>0. \A y \in t : y \in Int /\ n - y \in Nat
  OBVIOUS
<1>1. T \subseteq Nat /\ T # {}
  BY <1>0
<1>2. PICK a \in T : \A b \in T : a <= b
  BY <1>1, NatMin
<1>3. PICK x \in t : a = n - x
  OBVIOUS
<1>4. \A y \in t : n - y \in T
  OBVIOUS
<1> HIDE DEF T
<1>5. ASSUME NEW y \in t PROVE x >= y
  <2>1. n - x <= n - y
    BY <1>2, <1>3, <1>4
  <2>2. x \in Int /\ y \in Int
    BY <1>0
  <2> QED BY <2>1, <2>2
<1>6. \E z \in t : \A y \in t : z >= y
  BY <1>5
<1>7. Max(t) \in t /\ \A y \in t : Max(t) >= y
  BY <1>6, Zenon DEF Max
<1>8. ASSUME NEW y \in t PROVE y <= Max(t)
  <2>1. y \in Int /\ Max(t) \in Int /\ Max(t) >= y
    BY <1>0, <1>7
  <2> QED BY <2>1
<1> QED BY <1>7, <1>8

LEMMA MaxTop ==
    ASSUME NEW n \in Nat, NEW t, t \subseteq 1..n, n \in t
    PROVE  Max(t) = n
<1>1. Max(t) \in t /\ n <= Max(t)
  BY MaxOf
<1>2. Max(t) \in 1..n
  BY <1>1
<1> QED BY <1>1, <1>2

\* The steps of the folds of a chunk.
Step(name, a, x) ==
    CASE name = "element" -> element(a, x)
      [] name = "observe" -> observe(a, x)
      [] name = "classify" -> classify(a, x)
      [] name = "rewrite" -> RewriteOne(a, x)
      [] name = "split" -> split_one(a, x)
      [] name = "receive" -> receive(a, x)
      [] name = "infer" -> InferOne(a, x)
      [] name = "scan" -> scan(a, x)
      [] name = "received" -> Received(a, x)

\* What FoldLeft computes for each set of indices of s.
Folded(it, name, base, s, n) ==
    it = [t \in SUBSET (1..n) |->
             IF t = {} THEN base ELSE Step(name, it[t \ {Max(t)}], s[Max(t)])]

LEMMA FoldedExists ==
    ASSUME NEW name, NEW base, NEW s, NEW n \in Nat
    PROVE  \E it : Folded(it, name, base, s, n)
<1> DEFINE S == {m \in Nat : \E it : Folded(it, name, base, s, m)}
<1>1. 0 \in S
  <2> DEFINE h == [t \in SUBSET (1..0) |-> base]
  <2>1. \A t \in SUBSET (1..0) : t = {}
    OBVIOUS
  <2>2. h = [t \in SUBSET (1..0) |->
               IF t = {} THEN base ELSE Step(name, h[t \ {Max(t)}], s[Max(t)])]
    BY <2>1
  <2>3. Folded(h, name, base, s, 0)
    BY <2>2, Zenon DEF Folded
  <2> QED BY <2>3
<1>2. ASSUME NEW m \in Nat, m \in S PROVE m + 1 \in S
  <2>1. PICK g : Folded(g, name, base, s, m)
    BY <1>2
  <2> DEFINE val(t) == IF m + 1 \in t THEN Step(name, g[t \ {m + 1}], s[m + 1]) ELSE g[t]
             h == [t \in SUBSET (1..(m + 1)) |-> val(t)]
  <2>2. \A t \in SUBSET (1..(m + 1)) : h[t] = val(t)
    OBVIOUS
  <2>3. \A t \in SUBSET (1..m) : h[t] = g[t] /\ t \in SUBSET (1..(m + 1))
    <3> SUFFICES ASSUME NEW t \in SUBSET (1..m) PROVE h[t] = g[t] /\ t \in SUBSET (1..(m + 1))
      OBVIOUS
    <3>1. m + 1 \notin t /\ t \in SUBSET (1..(m + 1))
      OBVIOUS
    <3> QED BY <2>2, <3>1
  <2> HIDE DEF h
  <2>4. ASSUME NEW t \in SUBSET (1..(m + 1))
        PROVE  val(t) = IF t = {} THEN base ELSE Step(name, h[t \ {Max(t)}], s[Max(t)])
    <3>1. CASE m + 1 \in t
      <4> DEFINE k == m + 1
      <4>0. k \in Nat /\ t \subseteq 1..k /\ k \in t
        BY <3>1
      <4>1. Max(t) = m + 1
        <5> HIDE DEF k
        <5>1. Max(t) = k
          BY <4>0, MaxTop
        <5> QED BY <5>1 DEF k
      <4>2. t \ {m + 1} \in SUBSET (1..m)
        OBVIOUS
      <4>3. h[t \ {m + 1}] = g[t \ {m + 1}]
        BY <2>3, <4>2
      <4> QED BY <3>1, <4>1, <4>3
    <3>2. CASE m + 1 \notin t
      <4>1. t \in SUBSET (1..m)
        BY <3>2
      <4>2. g[t] = IF t = {} THEN base ELSE Step(name, g[t \ {Max(t)}], s[Max(t)])
        BY <2>1, <4>1 DEF Folded
      <4>3. t \ {Max(t)} \in SUBSET (1..m)
        BY <4>1
      <4>4. h[t \ {Max(t)}] = g[t \ {Max(t)}]
        BY <2>3, <4>3
      <4> QED BY <3>2, <4>2, <4>4
    <3> QED BY <3>1, <3>2
  <2>5. h = [t \in SUBSET (1..(m + 1)) |->
               IF t = {} THEN base ELSE Step(name, h[t \ {Max(t)}], s[Max(t)])]
    <3>1. h = [t \in SUBSET (1..(m + 1)) |-> val(t)]
      BY DEF h
    <3> HIDE DEF val
    <3> QED BY <2>4, <3>1
  <2>6. Folded(h, name, base, s, m + 1)
    BY <2>5, Zenon DEF Folded
  <2> QED BY <2>6
<1>3. n \in S
  <2> HIDE DEF S
  <2> QED BY <1>1, <1>2, NatAll
<1> QED BY <1>3

\* The fold's values for the prefixes of s.
LEMMA FoldedPrefixes ==
    ASSUME NEW name, NEW base, NEW s, NEW n \in Nat, NEW it, Folded(it, name, base, s, n)
    PROVE  /\ it[1..0] = base
           /\ \A k \in 1..n : it[1..k] = Step(name, it[1..(k - 1)], s[k])
<1>0. \A t \in SUBSET (1..n) :
         it[t] = IF t = {} THEN base ELSE Step(name, it[t \ {Max(t)}], s[Max(t)])
  <2> DEFINE f(t) == IF t = {} THEN base ELSE Step(name, it[t \ {Max(t)}], s[Max(t)])
  <2>1. it = [t \in SUBSET (1..n) |-> f(t)]
    BY Zenon DEF Folded
  <2> HIDE DEF f
  <2>2. \A t \in SUBSET (1..n) : it[t] = f(t)
    BY <2>1
  <2> QED BY <2>2 DEF f
<1>1. it[1..0] = base
  <2>1. 1..0 = {} /\ 1..0 \in SUBSET (1..n)
    OBVIOUS
  <2> QED BY <1>0, <2>1
<1>2. ASSUME NEW k \in 1..n PROVE it[1..k] = Step(name, it[1..(k - 1)], s[k])
  <2>1. 1..k \in SUBSET (1..n) /\ 1..k # {} /\ k \in 1..k /\ k \in Nat
    OBVIOUS
  <2>2. Max(1..k) = k
    BY <2>1, MaxTop
  <2>3. (1..k) \ {k} = 1..(k - 1)
    OBVIOUS
  <2>4. it[1..k] = Step(name, it[(1..k) \ {Max(1..k)}], s[Max(1..k)])
    BY <1>0, <2>1
  <2> QED BY <2>2, <2>3, <2>4
<1> QED BY <1>1, <1>2

\* The values of a fold along s.
IsFold(g, name, base, s) ==
    g[0] = base /\ \A k \in 1..Len(s) : g[k] = Step(name, g[k - 1], s[k])

LEMMA FoldedIsFold ==
    ASSUME NEW name, NEW base, NEW S, NEW s \in Seq(S), NEW it, Folded(it, name, base, s, Len(s))
    PROVE  \E g : IsFold(g, name, base, s) /\ it[DOMAIN s] = g[Len(s)]
<1>1. Len(s) \in Nat /\ DOMAIN s = 1..Len(s)
  OBVIOUS
<1>2. /\ it[1..0] = base
      /\ \A k \in 1..Len(s) : it[1..k] = Step(name, it[1..(k - 1)], s[k])
  BY <1>1, FoldedPrefixes
<1> DEFINE g == [k \in 0..Len(s) |-> it[1..k]]
<1>3. g[0] = base /\ g[Len(s)] = it[DOMAIN s]
  BY <1>1, <1>2
<1>4. ASSUME NEW k \in 1..Len(s) PROVE g[k] = Step(name, g[k - 1], s[k])
  <2>1. k \in 0..Len(s) /\ k - 1 \in 0..Len(s)
    BY <1>1
  <2>2. g[k] = it[1..k] /\ g[k - 1] = it[1..(k - 1)]
    BY <2>1
  <2> QED BY <1>2, <2>2
<1> HIDE DEF g
<1>5. IsFold(g, name, base, s)
  BY <1>3, <1>4 DEF IsFold
<1> QED BY <1>3, <1>5

LEMMA ElementFold ==
    ASSUME NEW base, NEW S, NEW s \in Seq(S)
    PROVE  \E g : IsFold(g, "element", base, s) /\ FoldLeft(element, base, s) = g[Len(s)]
<1> DEFINE E(it) == it = [t \in SUBSET DOMAIN s |->
                            IF t = {} THEN base ELSE element(it[t \ {Max(t)}], s[Max(t)])]
<1>1. FoldLeft(element, base, s) = (CHOOSE it : E(it))[DOMAIN s]
  BY Zenon DEF FoldLeft, MapThenFoldSet
<1>2. \A a, x : Step("element", a, x) = element(a, x)
  BY Zenon DEF Step
<1>3. DOMAIN s = 1..Len(s) /\ Len(s) \in Nat
  OBVIOUS
<1>4. \A it : E(it) <=> Folded(it, "element", base, s, Len(s))
  BY <1>2, <1>3 DEF Folded
<1>5. \E it : E(it)
  BY <1>3, <1>4, FoldedExists
<1> HIDE DEF E
<1>6. E(CHOOSE it : E(it))
  BY <1>5, Zenon
<1> DEFINE f == CHOOSE it : E(it)
<1>7. Folded(f, "element", base, s, Len(s)) /\ FoldLeft(element, base, s) = f[DOMAIN s]
  BY <1>1, <1>4, <1>6
<1> HIDE DEF f
<1>8. \E g : IsFold(g, "element", base, s) /\ f[DOMAIN s] = g[Len(s)]
  BY <1>7, FoldedIsFold
<1> QED BY <1>7, <1>8

LEMMA ObserveFold ==
    ASSUME NEW base, NEW S, NEW s \in Seq(S)
    PROVE  \E g : IsFold(g, "observe", base, s) /\ FoldLeft(observe, base, s) = g[Len(s)]
<1> DEFINE E(it) == it = [t \in SUBSET DOMAIN s |->
                            IF t = {} THEN base ELSE observe(it[t \ {Max(t)}], s[Max(t)])]
<1>1. FoldLeft(observe, base, s) = (CHOOSE it : E(it))[DOMAIN s]
  BY Zenon DEF FoldLeft, MapThenFoldSet
<1>2. \A a, x : Step("observe", a, x) = observe(a, x)
  BY Zenon DEF Step
<1>3. DOMAIN s = 1..Len(s) /\ Len(s) \in Nat
  OBVIOUS
<1>4. \A it : E(it) <=> Folded(it, "observe", base, s, Len(s))
  BY <1>2, <1>3 DEF Folded
<1>5. \E it : E(it)
  BY <1>3, <1>4, FoldedExists
<1> HIDE DEF E
<1>6. E(CHOOSE it : E(it))
  BY <1>5, Zenon
<1> DEFINE f == CHOOSE it : E(it)
<1>7. Folded(f, "observe", base, s, Len(s)) /\ FoldLeft(observe, base, s) = f[DOMAIN s]
  BY <1>1, <1>4, <1>6
<1> HIDE DEF f
<1>8. \E g : IsFold(g, "observe", base, s) /\ f[DOMAIN s] = g[Len(s)]
  BY <1>7, FoldedIsFold
<1> QED BY <1>7, <1>8

LEMMA ClassifyFold ==
    ASSUME NEW base, NEW S, NEW s \in Seq(S)
    PROVE  \E g : IsFold(g, "classify", base, s) /\ FoldLeft(classify, base, s) = g[Len(s)]
<1> DEFINE E(it) == it = [t \in SUBSET DOMAIN s |->
                            IF t = {} THEN base ELSE classify(it[t \ {Max(t)}], s[Max(t)])]
<1>1. FoldLeft(classify, base, s) = (CHOOSE it : E(it))[DOMAIN s]
  BY Zenon DEF FoldLeft, MapThenFoldSet
<1>2. \A a, x : Step("classify", a, x) = classify(a, x)
  BY Zenon DEF Step
<1>3. DOMAIN s = 1..Len(s) /\ Len(s) \in Nat
  OBVIOUS
<1>4. \A it : E(it) <=> Folded(it, "classify", base, s, Len(s))
  BY <1>2, <1>3 DEF Folded
<1>5. \E it : E(it)
  BY <1>3, <1>4, FoldedExists
<1> HIDE DEF E
<1>6. E(CHOOSE it : E(it))
  BY <1>5, Zenon
<1> DEFINE f == CHOOSE it : E(it)
<1>7. Folded(f, "classify", base, s, Len(s)) /\ FoldLeft(classify, base, s) = f[DOMAIN s]
  BY <1>1, <1>4, <1>6
<1> HIDE DEF f
<1>8. \E g : IsFold(g, "classify", base, s) /\ f[DOMAIN s] = g[Len(s)]
  BY <1>7, FoldedIsFold
<1> QED BY <1>7, <1>8

LEMMA RewriteFold ==
    ASSUME NEW base, NEW S, NEW s \in Seq(S)
    PROVE  \E g : IsFold(g, "rewrite", base, s) /\ FoldLeft(RewriteOne, base, s) = g[Len(s)]
<1> DEFINE E(it) == it = [t \in SUBSET DOMAIN s |->
                            IF t = {} THEN base ELSE RewriteOne(it[t \ {Max(t)}], s[Max(t)])]
<1>1. FoldLeft(RewriteOne, base, s) = (CHOOSE it : E(it))[DOMAIN s]
  BY Zenon DEF FoldLeft, MapThenFoldSet
<1>2. \A a, x : Step("rewrite", a, x) = RewriteOne(a, x)
  BY Zenon DEF Step
<1>3. DOMAIN s = 1..Len(s) /\ Len(s) \in Nat
  OBVIOUS
<1>4. \A it : E(it) <=> Folded(it, "rewrite", base, s, Len(s))
  BY <1>2, <1>3 DEF Folded
<1>5. \E it : E(it)
  BY <1>3, <1>4, FoldedExists
<1> HIDE DEF E
<1>6. E(CHOOSE it : E(it))
  BY <1>5, Zenon
<1> DEFINE f == CHOOSE it : E(it)
<1>7. Folded(f, "rewrite", base, s, Len(s)) /\ FoldLeft(RewriteOne, base, s) = f[DOMAIN s]
  BY <1>1, <1>4, <1>6
<1> HIDE DEF f
<1>8. \E g : IsFold(g, "rewrite", base, s) /\ f[DOMAIN s] = g[Len(s)]
  BY <1>7, FoldedIsFold
<1> QED BY <1>7, <1>8

LEMMA ScanFold ==
    ASSUME NEW base, NEW S, NEW s \in Seq(S)
    PROVE  \E g : IsFold(g, "scan", base, s) /\ FoldLeft(scan, base, s) = g[Len(s)]
<1> DEFINE E(it) == it = [t \in SUBSET DOMAIN s |->
                            IF t = {} THEN base ELSE scan(it[t \ {Max(t)}], s[Max(t)])]
<1>1. FoldLeft(scan, base, s) = (CHOOSE it : E(it))[DOMAIN s]
  BY Zenon DEF FoldLeft, MapThenFoldSet
<1>2. \A a, x : Step("scan", a, x) = scan(a, x)
  BY Zenon DEF Step
<1>3. DOMAIN s = 1..Len(s) /\ Len(s) \in Nat
  OBVIOUS
<1>4. \A it : E(it) <=> Folded(it, "scan", base, s, Len(s))
  BY <1>2, <1>3 DEF Folded
<1>5. \E it : E(it)
  BY <1>3, <1>4, FoldedExists
<1> HIDE DEF E
<1>6. E(CHOOSE it : E(it))
  BY <1>5, Zenon
<1> DEFINE f == CHOOSE it : E(it)
<1>7. Folded(f, "scan", base, s, Len(s)) /\ FoldLeft(scan, base, s) = f[DOMAIN s]
  BY <1>1, <1>4, <1>6
<1> HIDE DEF f
<1>8. \E g : IsFold(g, "scan", base, s) /\ f[DOMAIN s] = g[Len(s)]
  BY <1>7, FoldedIsFold
<1> QED BY <1>7, <1>8

LEMMA ReceivedFold ==
    ASSUME NEW base, NEW S, NEW s \in Seq(S)
    PROVE  \E g : IsFold(g, "received", base, s) /\ FoldLeft(Received, base, s) = g[Len(s)]
<1> DEFINE E(it) == it = [t \in SUBSET DOMAIN s |->
                            IF t = {} THEN base ELSE Received(it[t \ {Max(t)}], s[Max(t)])]
<1>1. FoldLeft(Received, base, s) = (CHOOSE it : E(it))[DOMAIN s]
  BY Zenon DEF FoldLeft, MapThenFoldSet
<1>2. \A a, x : Step("received", a, x) = Received(a, x)
  BY Zenon DEF Step
<1>3. DOMAIN s = 1..Len(s) /\ Len(s) \in Nat
  OBVIOUS
<1>4. \A it : E(it) <=> Folded(it, "received", base, s, Len(s))
  BY <1>2, <1>3 DEF Folded
<1>5. \E it : E(it)
  BY <1>3, <1>4, FoldedExists
<1> HIDE DEF E
<1>6. E(CHOOSE it : E(it))
  BY <1>5, Zenon
<1> DEFINE f == CHOOSE it : E(it)
<1>7. Folded(f, "received", base, s, Len(s)) /\ FoldLeft(Received, base, s) = f[DOMAIN s]
  BY <1>1, <1>4, <1>6
<1> HIDE DEF f
<1>8. \E g : IsFold(g, "received", base, s) /\ f[DOMAIN s] = g[Len(s)]
  BY <1>7, FoldedIsFold
<1> QED BY <1>7, <1>8

LEMMA SplitFold ==
    ASSUME NEW base, NEW S, NEW s \in Seq(S)
    PROVE  \E g : IsFold(g, "split", base, s) /\ FoldLeft(split_one, base, s) = g[Len(s)]
<1> DEFINE E(it) == it = [t \in SUBSET DOMAIN s |->
                            IF t = {} THEN base ELSE split_one(it[t \ {Max(t)}], s[Max(t)])]
<1>1. FoldLeft(split_one, base, s) = (CHOOSE it : E(it))[DOMAIN s]
  BY Zenon DEF FoldLeft, MapThenFoldSet
<1>2. \A a, x : Step("split", a, x) = split_one(a, x)
  BY Zenon DEF Step
<1>3. DOMAIN s = 1..Len(s) /\ Len(s) \in Nat
  OBVIOUS
<1>4. \A it : E(it) <=> Folded(it, "split", base, s, Len(s))
  BY <1>2, <1>3 DEF Folded
<1>5. \E it : E(it)
  BY <1>3, <1>4, FoldedExists
<1> HIDE DEF E
<1>6. E(CHOOSE it : E(it))
  BY <1>5, Zenon
<1> DEFINE f == CHOOSE it : E(it)
<1>7. Folded(f, "split", base, s, Len(s)) /\ FoldLeft(split_one, base, s) = f[DOMAIN s]
  BY <1>1, <1>4, <1>6
<1> HIDE DEF f
<1>8. \E g : IsFold(g, "split", base, s) /\ f[DOMAIN s] = g[Len(s)]
  BY <1>7, FoldedIsFold
<1> QED BY <1>7, <1>8

LEMMA ReceiveFold ==
    ASSUME NEW base, NEW S, NEW s \in Seq(S)
    PROVE  \E g : IsFold(g, "receive", base, s) /\ FoldLeft(receive, base, s) = g[Len(s)]
<1> DEFINE E(it) == it = [t \in SUBSET DOMAIN s |->
                            IF t = {} THEN base ELSE receive(it[t \ {Max(t)}], s[Max(t)])]
<1>1. FoldLeft(receive, base, s) = (CHOOSE it : E(it))[DOMAIN s]
  BY Zenon DEF FoldLeft, MapThenFoldSet
<1>2. \A a, x : Step("receive", a, x) = receive(a, x)
  BY Zenon DEF Step
<1>3. DOMAIN s = 1..Len(s) /\ Len(s) \in Nat
  OBVIOUS
<1>4. \A it : E(it) <=> Folded(it, "receive", base, s, Len(s))
  BY <1>2, <1>3 DEF Folded
<1>5. \E it : E(it)
  BY <1>3, <1>4, FoldedExists
<1> HIDE DEF E
<1>6. E(CHOOSE it : E(it))
  BY <1>5, Zenon
<1> DEFINE f == CHOOSE it : E(it)
<1>7. Folded(f, "receive", base, s, Len(s)) /\ FoldLeft(receive, base, s) = f[DOMAIN s]
  BY <1>1, <1>4, <1>6
<1> HIDE DEF f
<1>8. \E g : IsFold(g, "receive", base, s) /\ f[DOMAIN s] = g[Len(s)]
  BY <1>7, FoldedIsFold
<1> QED BY <1>7, <1>8

-----------------------------------------------------------------------------
(* Streams: where the instructions that have passed leave the reader *)

Place == {"between", "opened", "filled"}
After(i) == IF i.op \in {"h264", "img"} THEN "opened" ELSE IF i.op = "blob" THEN "filled" ELSE "between"
May(p, i) ==
    /\ p = "opened" => i.op = "blob"
    /\ p = "filled" => i.op = "end"
    /\ p = "between" => i.op \in {"h264", "img", "clipboard"}
Instr(i) == "op" \in DOMAIN i /\ i.op \in {"h264", "img", "blob", "end", "clipboard"}

\* The place after the first k instructions of s, which began at p.
PlaceAt(p, s, k) == IF k = 0 THEN p ELSE After(s[k])

\* s is a sequence of instructions that may come at p, and ends at q.
Orderly(p, s, q) ==
    /\ \E S : s \in Seq(S)
    /\ \A k \in 1..Len(s) : Instr(s[k]) /\ May(PlaceAt(p, s, k - 1), s[k])
    /\ q = PlaceAt(p, s, Len(s))

LEMMA SeqWider ==
    ASSUME NEW S, NEW T, S \subseteq T, NEW s \in Seq(S)
    PROVE  s \in Seq(T)
OBVIOUS

\* Append, for a sequence of whatever.
LEMMA AppendIs ==
    ASSUME NEW s, \E S : s \in Seq(S), NEW x
    PROVE  /\ \E S : Append(s, x) \in Seq(S)
           /\ Len(s) \in Nat /\ Len(Append(s, x)) = Len(s) + 1
           /\ \A k \in 1..Len(s) : Append(s, x)[k] = s[k]
           /\ Append(s, x)[Len(s) + 1] = x
<1>1. PICK S : s \in Seq(S)
  OBVIOUS
<1> DEFINE T == S \cup {x}
<1>2. S \subseteq T /\ x \in T
  OBVIOUS
<1> HIDE DEF T
<1>3. s \in Seq(T)
  BY <1>1, <1>2, SeqWider
<1>4. Append(s, x) \in Seq(T)
  BY <1>2, <1>3
<1>5. /\ Len(s) \in Nat /\ Len(Append(s, x)) = Len(s) + 1
      /\ \A k \in 1..Len(s) : Append(s, x)[k] = s[k]
      /\ Append(s, x)[Len(s) + 1] = x
  BY <1>2, <1>3
<1> QED BY <1>4, <1>5

LEMMA AfterIsPlace ==
    ASSUME NEW i
    PROVE  After(i) \in Place
BY DEF After, Place

LEMMA OrderlyNone ==
    ASSUME NEW p
    PROVE  Orderly(p, << >>, p)
<1>1. << >> \in Seq({}) /\ Len(<< >>) = 0
  OBVIOUS
<1> QED BY <1>1 DEF Orderly, PlaceAt

LEMMA OrderlyAppend ==
    ASSUME NEW p, NEW s, NEW q, Orderly(p, s, q), NEW i, Instr(i), May(q, i)
    PROVE  Orderly(p, Append(s, i), After(i))
<1> DEFINE t == Append(s, i)
<1>1. /\ \E S : t \in Seq(S)
      /\ Len(s) \in Nat /\ Len(t) = Len(s) + 1
      /\ \A k \in 1..Len(s) : t[k] = s[k]
      /\ t[Len(s) + 1] = i
  BY AppendIs DEF Orderly
<1> HIDE DEF t
<1>2. ASSUME NEW k \in 1..Len(t) PROVE Instr(t[k]) /\ May(PlaceAt(p, t, k - 1), t[k])
  <2>1. CASE k \in 1..Len(s)
    <3>1. t[k] = s[k] /\ PlaceAt(p, t, k - 1) = PlaceAt(p, s, k - 1)
      <4>1. CASE k = 1
        BY <1>1, <2>1, <4>1 DEF PlaceAt
      <4>2. CASE k # 1
        <5>1. k - 1 \in 1..Len(s)
          BY <1>1, <2>1, <4>2
        <5>2. t[k - 1] = s[k - 1] /\ t[k] = s[k]
          BY <1>1, <2>1, <5>1
        <5> QED BY <5>2 DEF PlaceAt
      <4> QED BY <4>1, <4>2
    <3> QED BY <2>1, <3>1 DEF Orderly
  <2>2. CASE k = Len(s) + 1
    <3>1. t[k] = i /\ PlaceAt(p, t, k - 1) = q
      <4>1. k - 1 = Len(s)
        BY <1>1, <2>2
      <4>2. CASE Len(s) = 0
        BY <1>1, <2>2, <4>1, <4>2 DEF PlaceAt, Orderly
      <4>3. CASE Len(s) # 0
        <5>1. Len(s) \in 1..Len(s)
          BY <1>1, <4>3
        <5>2. t[Len(s)] = s[Len(s)]
          BY <1>1, <5>1
        <5> QED BY <1>1, <2>2, <4>1, <4>3, <5>2 DEF PlaceAt, Orderly
      <4> QED BY <4>2, <4>3
    <3> QED BY <3>1
  <2> QED BY <1>1, <2>1, <2>2
<1>3. After(i) = PlaceAt(p, t, Len(t))
  BY <1>1 DEF PlaceAt
<1> QED BY <1>1, <1>2, <1>3 DEF Orderly, t

\* Only the opcodes count.
LEMMA OrderlySame ==
    ASSUME NEW p, NEW s, NEW q, Orderly(p, s, q), NEW t, \E S : t \in Seq(S), Len(t) = Len(s),
           \A k \in 1..Len(s) : Instr(t[k]) /\ t[k].op = s[k].op
    PROVE  Orderly(p, t, q)
<1>1. Len(s) \in Nat
  BY DEF Orderly
<1>2. ASSUME NEW k \in 0..Len(s) PROVE PlaceAt(p, t, k) = PlaceAt(p, s, k)
  <2>1. CASE k = 0
    BY <2>1 DEF PlaceAt
  <2>2. CASE k # 0
    <3>1. t[k].op = s[k].op
      BY <1>1, <2>2
    <3> QED BY <2>2, <3>1 DEF PlaceAt, After
  <2> QED BY <2>1, <2>2
<1>3. ASSUME NEW k \in 1..Len(s) PROVE May(PlaceAt(p, t, k - 1), t[k])
  <2>1. k - 1 \in 0..Len(s)
    BY <1>1
  <2>2. PlaceAt(p, t, k - 1) = PlaceAt(p, s, k - 1) /\ t[k].op = s[k].op
    BY <1>2, <2>1
  <2>3. May(PlaceAt(p, s, k - 1), s[k])
    BY DEF Orderly
  <2> QED BY <2>2, <2>3 DEF May
<1>4. PlaceAt(p, t, Len(t)) = q
  BY <1>1, <1>2 DEF Orderly
<1> QED BY <1>3, <1>4 DEF Orderly

\* Induction up to n.
LEMMA IntervalAll ==
    ASSUME NEW n \in Nat, NEW S, 0 \in S, \A k \in 0..(n - 1) : k \in S => k + 1 \in S
    PROVE  0..n \subseteq S
<1> DEFINE T == {k \in Nat : k <= n => k \in S}
<1>1. 0 \in T
  OBVIOUS
<1>2. ASSUME NEW k \in Nat, k \in T PROVE k + 1 \in T
  BY <1>2
<1>3. Nat \subseteq T
  <2> HIDE DEF T
  <2> QED BY <1>1, <1>2, NatAll
<1> QED BY <1>3

\* The dropper in the middle of a chunk that has come to the place r: what it
\* has kept is orderly, and leaves out a stream that is being dropped.
Kept(f, d, r) ==
    /\ DOMAIN f = {"open", "out"} /\ f.open \in BOOLEAN
    /\ f.open => r # "between"
    /\ Orderly(d, f.out, IF f.open THEN "between" ELSE r)

LEMMA ClassifyKeeps ==
    ASSUME NEW f, NEW d, NEW r \in Place, Kept(f, d, r), NEW i, Instr(i), May(r, i)
    PROVE  Kept(classify(f, i), d, After(i))
<1>0. /\ DOMAIN f = {"open", "out"} /\ f.open \in BOOLEAN /\ (f.open => r # "between")
      /\ Orderly(d, f.out, IF f.open THEN "between" ELSE r)
  BY DEF Kept
<1>1. i.op \in {"h264", "img", "clipboard"} => r = "between" /\ ~ f.open
  BY <1>0 DEF May, Place
<1>2. CASE i.op = "h264" /\ i.view # 0 /\ ~ i.key
  <2>1. classify(f, i) = [f EXCEPT !.open = TRUE]
    BY <1>2 DEF classify
  <2> DEFINE e == [f EXCEPT !.open = TRUE]
  <2>2. DOMAIN e = {"open", "out"} /\ e.open = TRUE /\ e.out = f.out
    BY <1>0
  <2>3. After(i) = "opened" /\ Orderly(d, f.out, "between")
    BY <1>0, <1>1, <1>2 DEF After
  <2> HIDE DEF e
  <2>4. Kept(e, d, After(i))
    BY <2>2, <2>3 DEF Kept
  <2> QED BY <2>1, <2>4 DEF e
<1>3. ASSUME NEW j, Instr(j), j.op = i.op, ~ f.open, classify(f, i) = [f EXCEPT !.out = Append(@, j)]
      PROVE  Kept(classify(f, i), d, After(i))
  <2> DEFINE e == [f EXCEPT !.out = Append(@, j)]
  <2>1. DOMAIN e = {"open", "out"} /\ e.open = FALSE /\ e.out = Append(f.out, j)
    BY <1>0, <1>3
  <2>2. Orderly(d, f.out, r) /\ May(r, j) /\ After(j) = After(i)
    BY <1>0, <1>3 DEF May, After
  <2> HIDE DEF e
  <2>3. Orderly(d, e.out, After(i))
    BY <1>3, <2>1, <2>2, OrderlyAppend
  <2>4. Kept(e, d, After(i))
    BY <2>1, <2>3 DEF Kept
  <2> QED BY <1>3, <2>4 DEF e
<1>4. CASE i.op = "h264" /\ ~ (i.view # 0 /\ ~ i.key)
  <2> DEFINE j == [i EXCEPT !.paired = FALSE]
  <2>1. DOMAIN j = DOMAIN i /\ j.op = i.op
    BY DEF Instr
  <2>2. classify(f, i) = [f EXCEPT !.out = Append(@, j)]
    BY <1>4 DEF classify
  <2> HIDE DEF j
  <2> QED BY <1>1, <1>3, <1>4, <2>1, <2>2 DEF Instr
<1>5. CASE i.op = "blob" /\ f.open
  <2>1. classify(f, i) = f
    BY <1>5 DEF classify
  <2>2. After(i) = "filled"
    BY <1>5 DEF After
  <2> QED BY <1>0, <1>5, <2>1, <2>2 DEF Kept
<1>6. CASE i.op = "end" /\ f.open
  <2>1. classify(f, i) = [f EXCEPT !.open = FALSE]
    BY <1>6 DEF classify
  <2> DEFINE e == [f EXCEPT !.open = FALSE]
  <2>2. DOMAIN e = {"open", "out"} /\ e.open = FALSE /\ e.out = f.out
    BY <1>0
  <2>3. After(i) = "between" /\ Orderly(d, f.out, "between")
    BY <1>0, <1>6 DEF After
  <2> HIDE DEF e
  <2>4. Kept(e, d, After(i))
    BY <2>2, <2>3 DEF Kept
  <2> QED BY <2>1, <2>4 DEF e
<1>7. CASE i.op # "h264" /\ ~ (i.op = "blob" /\ f.open) /\ ~ (i.op = "end" /\ f.open)
  <2>1. classify(f, i) = [f EXCEPT !.out = Append(@, i)]
    BY <1>7 DEF classify
  <2>2. ~ f.open
    BY <1>1, <1>7 DEF Instr
  <2> QED BY <1>3, <2>1, <2>2
<1> QED BY <1>2, <1>4, <1>5, <1>6, <1>7

LEMMA PlaceAtIsPlace ==
    ASSUME NEW p \in Place, NEW s, NEW k
    PROVE  PlaceAt(p, s, k) \in Place
BY AfterIsPlace DEF PlaceAt

\* The dropper leaves streams whole: filter.
LEMMA FilterOrderly ==
    ASSUME NEW p \in Place, NEW s, NEW q, Orderly(p, s, q),
           NEW open \in BOOLEAN, open => p # "between"
    PROVE  Kept(filter(open, s), IF open THEN "between" ELSE p, q)
<1> DEFINE base == [open |-> open, out |-> << >>]
           d == IF open THEN "between" ELSE p
<1>1. PICK S : s \in Seq(S)
  BY DEF Orderly
<1>2. PICK g : IsFold(g, "classify", base, s) /\ filter(open, s) = g[Len(s)]
  <2>1. \E g : IsFold(g, "classify", base, s) /\ FoldLeft(classify, base, s) = g[Len(s)]
    <3> HIDE DEF base
    <3> QED BY <1>1, ClassifyFold
  <2> QED BY <2>1 DEF filter
<1>3. Len(s) \in Nat
  BY <1>1
<1>4. Kept(base, d, p)
  <2>1. DOMAIN base = {"open", "out"} /\ base.open = open /\ base.out = << >>
    OBVIOUS
  <2>2. Orderly(d, << >>, d)
    BY OrderlyNone
  <2> HIDE DEF base
  <2> QED BY <2>1, <2>2 DEF Kept
<1> DEFINE H == {k \in 0..Len(s) : Kept(g[k], d, PlaceAt(p, s, k))}
<1>5. 0 \in H
  BY <1>2, <1>3, <1>4 DEF IsFold, PlaceAt
<1> HIDE DEF base, d
<1>6. ASSUME NEW k \in 0..(Len(s) - 1), k \in H PROVE k + 1 \in H
  <2>1. k + 1 \in 1..Len(s) /\ (k + 1) - 1 = k /\ k + 1 # 0
    BY <1>3
  <2>2. g[k + 1] = Step("classify", g[k], s[k + 1])
    BY <1>2, <2>1 DEF IsFold
  <2>3. g[k + 1] = classify(g[k], s[k + 1])
    BY <2>2, Zenon DEF Step
  <2>4. Instr(s[k + 1]) /\ May(PlaceAt(p, s, k), s[k + 1])
    BY <2>1 DEF Orderly
  <2>5. Kept(g[k], d, PlaceAt(p, s, k)) /\ PlaceAt(p, s, k) \in Place
    BY <1>6, PlaceAtIsPlace
  <2>6. Kept(g[k + 1], d, After(s[k + 1]))
    BY <2>3, <2>4, <2>5, ClassifyKeeps
  <2>7. PlaceAt(p, s, k + 1) = After(s[k + 1])
    BY <2>1 DEF PlaceAt
  <2> QED BY <1>3, <2>1, <2>6, <2>7
<1>7. Len(s) \in H
  <2> HIDE DEF H
  <2>1. 0..Len(s) \subseteq H
    BY <1>3, <1>5, <1>6, IntervalAll
  <2> QED BY <1>3, <2>1
<1>8. q = PlaceAt(p, s, Len(s))
  BY DEF Orderly
<1> QED BY <1>2, <1>7, <1>8 DEF d

\* The rewriter has copied k instructions of s; only parameter sets differ.
Copied(r, s, k) ==
    /\ "out" \in DOMAIN r
    /\ \E S : r.out \in Seq(S)
    /\ Len(r.out) = k
    /\ \A j \in 1..k : Instr(r.out[j]) /\ r.out[j].op = s[j].op

LEMMA CopiedAppend ==
    ASSUME NEW r, NEW s, NEW k \in Nat, Copied(r, s, k), NEW j, Instr(j), j.op = s[k + 1].op,
           NEW e, "out" \in DOMAIN e, e.out = Append(r.out, j)
    PROVE  Copied(e, s, k + 1)
<1> DEFINE a == r.out
<1>0. (\E S : a \in Seq(S)) /\ Len(a) = k /\ e.out = Append(a, j)
  BY DEF Copied
<1> HIDE DEF a
<1>1. /\ \E S : e.out \in Seq(S)
      /\ Len(e.out) = k + 1
      /\ \A m \in 1..k : e.out[m] = a[m]
      /\ e.out[k + 1] = j
  <2>1. /\ \E S : Append(a, j) \in Seq(S)
        /\ Len(Append(a, j)) = Len(a) + 1
        /\ \A m \in 1..Len(a) : Append(a, j)[m] = a[m]
        /\ Append(a, j)[Len(a) + 1] = j
    BY <1>0, AppendIs, Zenon
  <2> QED BY <1>0, <2>1
<1>2. ASSUME NEW m \in 1..(k + 1) PROVE Instr(e.out[m]) /\ e.out[m].op = s[m].op
  <2>1. CASE m \in 1..k
    BY <1>1, <2>1 DEF Copied, a
  <2>2. CASE m = k + 1
    BY <1>1, <2>2
  <2>3. m \in 1..k \/ m = k + 1
    OBVIOUS
  <2> QED BY <2>1, <2>2, <2>3
<1> QED BY <1>1, <1>2 DEF Copied

LEMMA RewriteCopies ==
    ASSUME NEW r, NEW s, NEW k \in Nat, Copied(r, s, k), NEW i, Instr(i), i = s[k + 1]
    PROVE  Copied(RewriteOne(r, i), s, k + 1)
<1> DEFINE e == RewriteOne(r, i)
<1>0. "out" \in DOMAIN r
  BY DEF Copied
<1>1. CASE i.op = "h264"
  <2>1. e = [r EXCEPT !.sps.open = TRUE, !.out = Append(@, i)]
    BY <1>1 DEF RewriteOne
  <2>2. "out" \in DOMAIN e /\ e.out = Append(r.out, i)
    BY <1>0, <2>1
  <2> HIDE DEF e
  <2>3. Copied(e, s, k + 1)
    BY <2>2, CopiedAppend
  <2> QED BY <2>3 DEF e
<1>2. CASE i.op = "end"
  <2>1. e = [r EXCEPT !.sps.open = FALSE, !.out = Append(@, i)]
    BY <1>2 DEF RewriteOne
  <2>2. "out" \in DOMAIN e /\ e.out = Append(r.out, i)
    BY <1>0, <2>1
  <2> HIDE DEF e
  <2>3. Copied(e, s, k + 1)
    BY <2>2, CopiedAppend
  <2> QED BY <2>3 DEF e
<1>3. CASE i.op = "blob" /\ r.sps.open /\ i.sps # None
  <2> DEFINE w == rewritten_payload(r.sps, i)
             j == w.blob
  <2>1. e = [sps |-> w.sps, out |-> Append(r.out, j)]
    BY <1>3 DEF RewriteOne
  <2>2. \E x : j = [i EXCEPT !.sps = x]
    BY DEF rewritten_payload
  <2>3. DOMAIN j = DOMAIN i /\ j.op = i.op
    <3> HIDE DEF j
    <3> QED BY <2>2 DEF Instr
  <2> HIDE DEF w, j
  <2>4. "out" \in DOMAIN e /\ e.out = Append(r.out, j) /\ Instr(j)
    BY <2>1, <2>3 DEF Instr
  <2> HIDE DEF e
  <2>5. Copied(e, s, k + 1)
    BY <2>3, <2>4, CopiedAppend
  <2> QED BY <2>5 DEF e
<1>4. CASE i.op \notin {"h264", "end"} /\ ~ (i.op = "blob" /\ r.sps.open /\ i.sps # None)
  <2>1. e = [r EXCEPT !.out = Append(@, i)]
    BY <1>4 DEF RewriteOne
  <2>2. "out" \in DOMAIN e /\ e.out = Append(r.out, i)
    BY <1>0, <2>1
  <2> HIDE DEF e
  <2>3. Copied(e, s, k + 1)
    BY <2>2, CopiedAppend
  <2> QED BY <2>3 DEF e
<1> QED BY <1>1, <1>2, <1>3, <1>4

\* The rewriter leaves streams as they are: rewrite.
LEMMA RewriteOrderly ==
    ASSUME NEW p, NEW s, NEW q, Orderly(p, s, q), NEW x
    PROVE  Orderly(p, rewrite(x, s).out, q)
<1>1. CASE x.state = "pass" /\ ~ x.bound /\ ~ x.gaps
  <2>1. rewrite(x, s) = [sps |-> x, out |-> s]
    BY <1>1 DEF rewrite
  <2>2. rewrite(x, s).out = s
    BY <2>1
  <2> QED BY <2>2
<1>2. CASE ~ (x.state = "pass" /\ ~ x.bound /\ ~ x.gaps)
  <2> DEFINE base == [sps |-> x, out |-> << >>]
  <2>1. PICK S : s \in Seq(S)
    BY DEF Orderly
  <2>2. Len(s) \in Nat
    BY <2>1
  <2>3. rewrite(x, s) = FoldLeft(RewriteOne, base, s)
    BY <1>2, Zenon DEF rewrite
  <2>4. Copied(base, s, 0)
    <3>1. "out" \in DOMAIN base /\ base.out = << >> /\ << >> \in Seq({}) /\ Len(<< >>) = 0
      OBVIOUS
    <3> HIDE DEF base
    <3> QED BY <3>1 DEF Copied
  <2> HIDE DEF base
  <2>5. PICK g : IsFold(g, "rewrite", base, s) /\ rewrite(x, s) = g[Len(s)]
    BY <2>1, <2>3, RewriteFold
  <2> DEFINE H == {k \in 0..Len(s) : Copied(g[k], s, k)}
  <2>6. 0 \in H
    BY <2>2, <2>4, <2>5 DEF IsFold
  <2>7. ASSUME NEW k \in 0..(Len(s) - 1), k \in H PROVE k + 1 \in H
    <3>1. k + 1 \in 1..Len(s) /\ (k + 1) - 1 = k /\ k \in Nat
      BY <2>2
    <3>2. g[k + 1] = Step("rewrite", g[k], s[k + 1])
      BY <2>5, <3>1 DEF IsFold
    <3>3. g[k + 1] = RewriteOne(g[k], s[k + 1])
      BY <3>2, Zenon DEF Step
    <3>4. Instr(s[k + 1])
      BY <3>1 DEF Orderly
    <3>5. Copied(g[k + 1], s, k + 1)
      BY <2>7, <3>1, <3>3, <3>4, RewriteCopies
    <3> QED BY <2>2, <3>1, <3>5
  <2>8. Len(s) \in H
    <3> HIDE DEF H
    <3>1. 0..Len(s) \subseteq H
      BY <2>2, <2>6, <2>7, IntervalAll
    <3> QED BY <2>2, <3>1
  <2>9. Copied(rewrite(x, s), s, Len(s))
    BY <2>5, <2>8
  <2> DEFINE t == rewrite(x, s).out
  <2>10. /\ \E T : t \in Seq(T)
         /\ Len(t) = Len(s) /\ \A k \in 1..Len(s) : Instr(t[k]) /\ t[k].op = s[k].op
    BY <2>9 DEF Copied
  <2> HIDE DEF t
  <2>11. Orderly(p, t, q)
    BY <2>10, OrderlySame
  <2> QED BY <2>11 DEF t
<1> QED BY <1>1, <1>2

\* A blob in a binary frame belongs to no img: the j-th frame, if sp says
\* whether the chunk began in a stream that is split.
Fits(y, s, sp, j) ==
    /\ y[j].in = s[j]
    /\ y[j].binary => IF j = 1 THEN sp ELSE s[j - 1].op # "img"

\* The splitter has framed k instructions of s, which began at p.
Framed(x, s, p, sp, k) ==
    /\ \E S : x.out \in Seq(S)
    /\ Len(x.out) = k
    /\ \A j \in 1..k : Fits(x.out, s, sp, j)
    /\ x.open \in BOOLEAN
    /\ PlaceAt(p, s, k) = "between" => ~ x.open
    /\ k # 0 => (s[k].op = "img" => ~ x.open)
    /\ k = 0 => x.open = sp

LEMMA SplitFrames ==
    ASSUME NEW x, NEW s, NEW p \in Place, NEW sp \in BOOLEAN, NEW k \in Nat, Framed(x, s, p, sp, k),
           Instr(s[k + 1]), May(PlaceAt(p, s, k), s[k + 1])
    PROVE  Framed(split_one(x, s[k + 1]), s, p, sp, k + 1)
<1> DEFINE i == s[k + 1]
           f == [in |-> i, binary |-> i.op = "blob" /\ x.open]
           e == split_one(x, i)
           a == x.out
<1>0. PlaceAt(p, s, k) \in Place /\ PlaceAt(p, s, k + 1) = After(i)
  BY PlaceAtIsPlace DEF PlaceAt
<1>1. e.open = (i.op = "h264" \/ (x.open /\ i.op # "end")) /\ e.out = Append(a, f)
  BY DEF split_one
<1>2. /\ (\E S : a \in Seq(S)) /\ Len(a) = k /\ (\A j \in 1..k : Fits(a, s, sp, j))
      /\ x.open \in BOOLEAN /\ (PlaceAt(p, s, k) = "between" => ~ x.open)
      /\ (k # 0 => (s[k].op = "img" => ~ x.open)) /\ (k = 0 => x.open = sp)
  BY DEF Framed
<1>3. f.in = i /\ f.binary = (i.op = "blob" /\ x.open)
  OBVIOUS
<1> HIDE DEF a, f, e
<1>4. /\ \E S : e.out \in Seq(S)
      /\ Len(e.out) = k + 1
      /\ \A m \in 1..k : e.out[m] = a[m]
      /\ e.out[k + 1] = f
  <2>0. \E S : a \in Seq(S)
    BY <1>2
  <2>1. /\ \E S : Append(a, f) \in Seq(S)
        /\ Len(Append(a, f)) = Len(a) + 1
        /\ \A m \in 1..Len(a) : Append(a, f)[m] = a[m]
        /\ Append(a, f)[Len(a) + 1] = f
    BY <2>0, AppendIs, Zenon
  <2> QED BY <1>1, <1>2, <2>1
<1>5. ASSUME NEW j \in 1..(k + 1) PROVE Fits(e.out, s, sp, j)
  <2>1. CASE j \in 1..k
    <3>1. e.out[j] = a[j] /\ Fits(a, s, sp, j)
      BY <1>2, <1>4, <2>1
    <3> QED BY <3>1, Zenon DEF Fits
  <2>2. CASE j = k + 1
    <3>1. e.out[j].in = s[j]
      BY <1>3, <1>4, <2>2
    <3>2. ASSUME e.out[j].binary PROVE IF j = 1 THEN sp ELSE s[j - 1].op # "img"
      <4>1. x.open
        BY <1>3, <1>4, <2>2, <3>2
      <4>2. CASE k = 0
        <5>1. j = 1
          BY <2>2, <4>2
        <5>2. sp
          BY <1>2, <4>1, <4>2, Zenon
        <5> QED BY <5>1, <5>2
      <4>3. CASE k # 0
        <5>1. s[k].op # "img" /\ j # 1 /\ j - 1 = k
          BY <1>2, <2>2, <4>1, <4>3
        <5> QED BY <5>1
      <4> QED BY <4>2, <4>3
    <3> QED BY <3>1, <3>2 DEF Fits
  <2>3. j \in 1..k \/ j = k + 1
    OBVIOUS
  <2> QED BY <2>1, <2>2, <2>3
<1>6. e.open \in BOOLEAN
  BY <1>1
<1>7. After(i) = "between" \/ i.op = "img" => ~ e.open
  <2>1. CASE i.op = "end"
    BY <1>1, <2>1
  <2>2. CASE i.op \in {"clipboard", "img"}
    <3>1. PlaceAt(p, s, k) = "between"
      BY <1>0, <2>2 DEF May, Place
    <3> QED BY <1>1, <1>2, <2>2, <3>1
  <2>3. CASE i.op \in {"h264", "blob"}
    BY <2>3 DEF After
  <2> QED BY <2>1, <2>2, <2>3 DEF Instr
<1>8. Framed(e, s, p, sp, k + 1)
  BY <1>0, <1>4, <1>5, <1>6, <1>7 DEF Framed
<1> QED BY <1>8 DEF e

\* Every frame of a chunk fits the stream that it belongs to.
LEMMA SplitOrderly ==
    ASSUME NEW p \in Place, NEW s, NEW q, Orderly(p, s, q), NEW sp \in BOOLEAN, p = "between" => ~ sp
    PROVE  Framed(FoldLeft(split_one, [open |-> sp, out |-> << >>], s), s, p, sp, Len(s))
<1> DEFINE base == [open |-> sp, out |-> << >>]
<1>1. PICK S : s \in Seq(S)
  BY DEF Orderly
<1>2. Len(s) \in Nat
  BY <1>1
<1>3. Framed(base, s, p, sp, 0)
  <2>1. base.open = sp /\ base.out = << >> /\ << >> \in Seq({}) /\ Len(<< >>) = 0
    OBVIOUS
  <2> HIDE DEF base
  <2> QED BY <2>1 DEF Framed, PlaceAt
<1> HIDE DEF base
<1>4. PICK g : IsFold(g, "split", base, s) /\ FoldLeft(split_one, base, s) = g[Len(s)]
  BY <1>1, SplitFold
<1> DEFINE H == {k \in 0..Len(s) : Framed(g[k], s, p, sp, k)}
<1>5. 0 \in H
  BY <1>2, <1>3, <1>4 DEF IsFold
<1>6. ASSUME NEW k \in 0..(Len(s) - 1), k \in H PROVE k + 1 \in H
  <2>1. k + 1 \in 1..Len(s) /\ (k + 1) - 1 = k /\ k \in Nat
    BY <1>2
  <2>2. g[k + 1] = Step("split", g[k], s[k + 1])
    BY <1>4, <2>1 DEF IsFold
  <2>3. g[k + 1] = split_one(g[k], s[k + 1])
    BY <2>2, Zenon DEF Step
  <2>4. Instr(s[k + 1]) /\ May(PlaceAt(p, s, k), s[k + 1])
    BY <2>1 DEF Orderly
  <2>5. Framed(g[k + 1], s, p, sp, k + 1)
    BY <1>6, <2>1, <2>3, <2>4, SplitFrames
  <2> QED BY <1>2, <2>1, <2>5
<1>7. Len(s) \in H
  <2> HIDE DEF H
  <2>1. 0..Len(s) \subseteq H
    BY <1>2, <1>5, <1>6, IntervalAll
  <2> QED BY <1>2, <2>1
<1> QED BY <1>4, <1>7 DEF base

\* The browser at the place p, if sp says whether its stream is split.
Shown(p, sp, b) ==
    /\ {"open", "data", "torn", "wrongform"} \subseteq DOMAIN b
    /\ b.torn = FALSE /\ b.wrongform = FALSE
    /\ p = "between" => ~ sp /\ b.open = None /\ b.data = << >>
    /\ p = "opened" => b.data = << >> /\ (sp /\ b.open # None => b.open.op = "h264")
    /\ p = "filled" => (b.open = None /\ b.data = << >>) \/ (b.open # None /\ b.data # << >>)

LEMMA DecodeKeeps ==
    ASSUME NEW b, NEW s
    PROVE  /\ DOMAIN decode(b, s) = DOMAIN b
           /\ \A f \in DOMAIN b \ {"dpb", "lost"} : decode(b, s)[f] = b[f]
<1>1. \E x, y : decode(b, s) = [b EXCEPT !.dpb = x, !.lost = y]
  BY DEF decode
<1> QED BY <1>1

\* A stream in the browser: opened by an h264 or an img.
LEMMA ReceiveShows ==
    ASSUME NEW b, NEW x, NEW r \in Place, NEW sp \in BOOLEAN, Shown(r, sp, b),
           Instr(x.in), May(r, x.in), x.binary => sp \/ x.in.op # "blob",
           NEW n \in BOOLEAN, After(x.in) = "between" \/ x.in.op = "img" => ~ n
    PROVE  Shown(After(x.in), n, receive(b, x))
<1> DEFINE i == x.in
           e == receive(b, x)
<1>0. /\ {"open", "data", "torn", "wrongform"} \subseteq DOMAIN b
      /\ b.torn = FALSE /\ b.wrongform = FALSE
  BY DEF Shown
<1>1. CASE i.op \in {"h264", "img"}
  <2>1. r = "between" /\ b.open = None
    BY <1>1 DEF May, Place, Shown
  <2>2. e = [b EXCEPT !.open = i, !.data = << >>, !.torn = @ \/ b.open # None]
    BY <1>1 DEF receive, onopen, onblob, onend
  <2>3. /\ DOMAIN e = DOMAIN b /\ e.open = i /\ e.data = << >> /\ e.torn = FALSE
        /\ e.wrongform = FALSE
    BY <1>0, <2>1, <2>2
  <2>4. After(i) = "opened" /\ (n => i.op = "h264")
    BY <1>1 DEF After
  <2> HIDE DEF e
  <2>5. Shown(After(i), n, e)
    BY <1>0, <2>3, <2>4 DEF Shown
  <2> QED BY <2>5 DEF e
<1>2. CASE i.op = "blob" /\ b.open # None
  <2>1. r = "opened" /\ b.data = << >> /\ (sp => b.open.op = "h264")
    BY <1>2 DEF May, Place, Shown
  <2>2. \E y : e = [b EXCEPT !.data = Append(@, i.slice), !.sps = y,
                             !.wrongform = @ \/ (x.binary /\ b.open.op # "h264")]
    BY <1>2 DEF receive, onopen, onblob, onend
  <2>3. /\ DOMAIN e = DOMAIN b /\ e.open = b.open /\ e.data = Append(<< >>, i.slice) /\ e.torn = FALSE
        /\ e.wrongform = FALSE
    <3> HIDE DEF e
    <3> QED BY <1>0, <1>2, <2>1, <2>2
  <2>4. After(i) = "filled"
    BY <1>2 DEF After
  <2>5. e.data # << >>
    <3> HIDE DEF e
    <3> QED BY <2>3
  <2> HIDE DEF e
  <2>6. Shown(After(i), n, e)
    BY <1>0, <1>2, <2>3, <2>4, <2>5 DEF Shown
  <2> QED BY <2>6 DEF e
<1>3. CASE i.op = "end" /\ b.open # None
  <2>1. r = "filled" /\ b.data # << >>
    BY <1>3 DEF May, Place, Shown
  <2> DEFINE c == IF b.data # << >> /\ b.data[1] # None THEN decode(b, b.data[1]) ELSE b
  <2>2. e = [c EXCEPT !.open = None, !.data = << >>, !.torn = @ \/ b.data = << >>]
    BY <1>3 DEF receive, onopen, onblob, onend
  <2>3. DOMAIN c = DOMAIN b /\ c.torn = FALSE /\ c.wrongform = FALSE
    BY <1>0, DecodeKeeps
  <2> HIDE DEF c
  <2>4. /\ DOMAIN e = DOMAIN b /\ e.open = None /\ e.data = << >> /\ e.torn = FALSE
        /\ e.wrongform = FALSE
    BY <1>0, <2>1, <2>2, <2>3
  <2>5. After(i) = "between" /\ ~ n
    BY <1>3 DEF After
  <2> HIDE DEF e
  <2>6. Shown(After(i), n, e)
    BY <1>0, <2>4, <2>5 DEF Shown
  <2> QED BY <2>6 DEF e
<1>4. CASE i.op = "clipboard" \/ (i.op \in {"blob", "end"} /\ b.open = None)
  <2>1. e = b
    BY <1>4 DEF receive, onopen, onblob, onend
  <2>2. CASE i.op = "clipboard"
    <3>1. r = "between" /\ After(i) = "between" /\ ~ n
      BY <2>2 DEF May, Place, After
    <3> QED BY <2>1, <3>1 DEF Shown
  <2>3. CASE i.op = "blob" /\ b.open = None
    <3>1. r = "opened" /\ After(i) = "filled"
      BY <2>3 DEF May, Place, After
    <3> QED BY <2>1, <2>3, <3>1 DEF Shown
  <2>4. CASE i.op = "end" /\ b.open = None
    <3>1. r = "filled" /\ After(i) = "between" /\ ~ n
      BY <2>4 DEF May, Place, After
    <3> QED BY <2>1, <2>4, <3>1 DEF Shown
  <2> QED BY <1>4, <2>2, <2>3, <2>4
<1> QED BY <1>1, <1>2, <1>3, <1>4 DEF Instr

\* Whether the stream that the k-th instruction leaves open is video.
Video(s, sp, k) == IF k = 0 THEN sp ELSE s[k].op = "h264"

\* A chunk of frames that fit leaves the browser as it should be.
LEMMA ReceiveOrderly ==
    ASSUME NEW p \in Place, NEW s, NEW q, Orderly(p, s, q), NEW sp \in BOOLEAN,
           NEW y, \E S : y \in Seq(S), Len(y) = Len(s), \A j \in 1..Len(s) : Fits(y, s, sp, j),
           NEW b, Shown(p, sp, b)
    PROVE  Shown(q, Video(s, sp, Len(s)), FoldLeft(receive, b, y))
<1>1. PICK S : y \in Seq(S)
  OBVIOUS
<1>2. Len(s) \in Nat
  BY DEF Orderly
<1>3. PICK g : IsFold(g, "receive", b, y) /\ FoldLeft(receive, b, y) = g[Len(s)]
  BY <1>1, ReceiveFold
<1> DEFINE H == {k \in 0..Len(s) : Shown(PlaceAt(p, s, k), Video(s, sp, k), g[k])}
<1>5. 0 \in H
  BY <1>2, <1>3 DEF IsFold, PlaceAt, Video
<1>6. ASSUME NEW k \in 0..(Len(s) - 1), k \in H PROVE k + 1 \in H
  <2> DEFINE r == PlaceAt(p, s, k)
             v == Video(s, sp, k)
             n == Video(s, sp, k + 1)
             x == y[k + 1]
  <2>1. k + 1 \in 1..Len(s) /\ (k + 1) - 1 = k /\ k \in Nat /\ k + 1 # 0
    BY <1>2
  <2>2. g[k + 1] = Step("receive", g[k], x)
    BY <1>3, <2>1 DEF IsFold
  <2>3. g[k + 1] = receive(g[k], x)
    BY <2>2, Zenon DEF Step
  <2>4. Instr(s[k + 1]) /\ May(r, s[k + 1]) /\ Fits(y, s, sp, k + 1)
    BY <2>1 DEF Orderly
  <2>5. x.in = s[k + 1]
    BY <2>4 DEF Fits
  <2>6. r \in Place /\ v \in BOOLEAN /\ n \in BOOLEAN /\ Shown(r, v, g[k])
    <3>1. r \in Place
      BY PlaceAtIsPlace
    <3>2. v \in BOOLEAN /\ n \in BOOLEAN
      BY DEF Video
    <3> QED BY <1>6, <3>1, <3>2
  <2>7. ASSUME x.binary, x.in.op = "blob" PROVE v
    <3>1. IF k + 1 = 1 THEN sp ELSE s[(k + 1) - 1].op # "img"
      BY <2>4, <2>7 DEF Fits
    <3>2. CASE k = 0
      BY <3>1, <3>2 DEF Video
    <3>3. CASE k # 0
      <4>1. s[k].op # "img"
        BY <2>1, <3>1, <3>3
      <4>2. r = "opened"
        BY <2>4, <2>5, <2>6, <2>7 DEF May, Place
      <4>3. After(s[k]) = "opened"
        BY <3>3, <4>2 DEF PlaceAt
      <4>4. s[k].op = "h264"
        BY <4>1, <4>3 DEF After
      <4> QED BY <3>3, <4>4 DEF Video
    <3> QED BY <3>2, <3>3
  <2>8. After(x.in) = "between" \/ x.in.op = "img" => ~ n
    BY <2>1, <2>5 DEF Video, After
  <2>9. PlaceAt(p, s, k + 1) = After(x.in)
    BY <2>1, <2>5 DEF PlaceAt
  <2> HIDE DEF r, v, n, x
  <2>10. Shown(After(x.in), n, receive(g[k], x))
    BY <2>4, <2>5, <2>6, <2>7, <2>8, ReceiveShows
  <2>11. Shown(PlaceAt(p, s, k + 1), Video(s, sp, k + 1), g[k + 1])
    BY <2>3, <2>9, <2>10 DEF n
  <2> QED BY <1>2, <2>1, <2>11
<1>7. Len(s) \in H
  <2> HIDE DEF H
  <2>1. 0..Len(s) \subseteq H
    BY <1>2, <1>5, <1>6, IntervalAll
  <2> QED BY <1>2, <2>1
<1>8. q = PlaceAt(p, s, Len(s))
  BY DEF Orderly
<1> QED BY <1>3, <1>7, <1>8

\* A chunk goes through the splitter to the browser.
LEMMA ChunkShown ==
    ASSUME NEW p \in Place, NEW s, NEW q, Orderly(p, s, q), NEW sp \in BOOLEAN, NEW b, Shown(p, sp, b),
           NEW x, x = FoldLeft(split_one, [open |-> sp, out |-> << >>], s)
    PROVE  x.open \in BOOLEAN /\ Shown(q, x.open, FoldLeft(receive, b, x.out))
<1>1. Framed(x, s, p, sp, Len(s))
  <2>1. p = "between" => ~ sp
    BY DEF Shown
  <2> QED BY <2>1, SplitOrderly
<1>2. Len(s) \in Nat /\ q = PlaceAt(p, s, Len(s))
  BY DEF Orderly
<1> DEFINE n == Video(s, sp, Len(s))
           y == x.out
           c == FoldLeft(receive, b, y)
<1>3. (\E S : y \in Seq(S)) /\ Len(y) = Len(s) /\ \A j \in 1..Len(s) : Fits(y, s, sp, j)
  BY <1>1 DEF Framed
<1>4. /\ x.open \in BOOLEAN /\ (q = "between" => ~ x.open)
      /\ (Len(s) # 0 => (s[Len(s)].op = "img" => ~ x.open))
      /\ (Len(s) = 0 => x.open = sp)
  BY <1>1, <1>2 DEF Framed
<1>5. Shown(q, n, c)
  <2> HIDE DEF y, n
  <2>1. Shown(q, Video(s, sp, Len(s)), FoldLeft(receive, b, y))
    BY <1>3, ReceiveOrderly
  <2> QED BY <2>1 DEF n
<1>6. q = "opened" /\ x.open => n
  <2>1. CASE Len(s) = 0
    BY <1>4, <2>1 DEF Video
  <2>2. ASSUME Len(s) # 0, q = "opened", x.open PROVE n
    <3>1. After(s[Len(s)]) = "opened" /\ s[Len(s)].op # "img"
      BY <1>2, <1>4, <2>2 DEF PlaceAt
    <3>2. s[Len(s)].op = "h264"
      BY <3>1 DEF After
    <3> QED BY <2>2, <3>2 DEF Video
  <2> QED BY <2>1, <2>2
<1> HIDE DEF n, c
<1>7. Shown(q, x.open, c)
  BY <1>4, <1>5, <1>6 DEF Shown
<1> QED BY <1>4, <1>7 DEF c

-----------------------------------------------------------------------------
(* The wire *)

\* A unit of an instruction; the one that follows it; the first of an
\* instruction that may come at p.
Sound(u) ==
    /\ Instr(u.in) /\ u.nth \in Nat /\ u.of \in Nat /\ 1 <= u.nth /\ u.nth <= u.of
    /\ u.last <=> u.nth = u.of
Follows(a, b) == b.in = a.in /\ b.of = a.of /\ b.nth = a.nth + 1
Starts(p, u) == May(p, u.in) /\ u.nth = 1

\* u is what guacd has written and the pump has not passed on, when the pump
\* is at p: whole instructions in order, of the last of which some units may
\* have been read.
Flow(p, u) ==
    /\ \E S : u \in Seq(S)
    /\ \A k \in 1..Len(u) :
           /\ Sound(u[k])
           /\ ~ u[k].last => k < Len(u) /\ Follows(u[k], u[k + 1])
           /\ k = 1 => Starts(p, u[k])
           /\ k > 1 /\ u[k - 1].last => Starts(After(u[k - 1].in), u[k])
    /\ IF Len(u) = 0 THEN p = "between" ELSE u[Len(u)].last /\ After(u[Len(u)].in) = "between"

LEMMA TwoSeqs ==
    ASSUME NEW u, \E S : u \in Seq(S), NEW v, \E S : v \in Seq(S)
    PROVE  \E S : u \in Seq(S) /\ v \in Seq(S)
<1>1. PICK S : u \in Seq(S)
  OBVIOUS
<1>2. PICK T : v \in Seq(T)
  OBVIOUS
<1> DEFINE W == S \cup T
<1>3. S \subseteq W /\ T \subseteq W
  OBVIOUS
<1> HIDE DEF W
<1>4. u \in Seq(W) /\ v \in Seq(W)
  BY <1>1, <1>2, <1>3, SeqWider
<1> QED BY <1>4

LEMMA ConcatIs ==
    ASSUME NEW u, \E S : u \in Seq(S), NEW v, \E S : v \in Seq(S)
    PROVE  /\ \E S : u \o v \in Seq(S)
           /\ Len(u) \in Nat /\ Len(v) \in Nat /\ Len(u \o v) = Len(u) + Len(v)
           /\ \A k \in 1..Len(u) : (u \o v)[k] = u[k]
           /\ \A k \in 1..Len(v) : (u \o v)[Len(u) + k] = v[k]
<1>1. PICK S : u \in Seq(S) /\ v \in Seq(S)
  BY TwoSeqs
<1>2. /\ u \o v \in Seq(S) /\ Len(u \o v) = Len(u) + Len(v)
      /\ \A k \in 1..(Len(u) + Len(v)) : (u \o v)[k] = IF k <= Len(u) THEN u[k] ELSE v[k - Len(u)]
  BY <1>1, ConcatProperties
<1>3. Len(u) \in Nat /\ Len(v) \in Nat
  BY <1>1
<1>4. ASSUME NEW k \in 1..Len(u) PROVE (u \o v)[k] = u[k]
  BY <1>2, <1>3
<1>5. ASSUME NEW k \in 1..Len(v) PROVE (u \o v)[Len(u) + k] = v[k]
  <2> DEFINE x == Len(u) + k
  <2>1. x \in 1..(Len(u) + Len(v)) /\ ~ (x <= Len(u)) /\ x - Len(u) = k
    BY <1>3
  <2>2. (u \o v)[x] = v[x - Len(u)]
    <3> HIDE DEF x
    <3> QED BY <1>2, <2>1
  <2> QED BY <2>1, <2>2
<1> QED BY <1>2, <1>3, <1>4, <1>5

\* j is u and then v.
Joined(j, u, v) ==
    /\ \E S : j \in Seq(S)
    /\ Len(u) \in Nat /\ Len(v) \in Nat /\ Len(j) = Len(u) + Len(v)
    /\ \A k \in 1..Len(u) : j[k] = u[k]
    /\ \A k \in 1..Len(v) : j[Len(u) + k] = v[k]

LEMMA ConcatJoins ==
    ASSUME NEW u, \E S : u \in Seq(S), NEW v, \E S : v \in Seq(S)
    PROVE  Joined(u \o v, u, v)
BY ConcatIs DEF Joined

LEMMA SubSeqIs ==
    ASSUME NEW u, \E S : u \in Seq(S), NEW m \in Nat, NEW n \in Nat, 1 <= m, m <= n + 1, n <= Len(u)
    PROVE  /\ \E S : SubSeq(u, m, n) \in Seq(S)
           /\ Len(SubSeq(u, m, n)) = n - m + 1
           /\ \A k \in 1..(n - m + 1) : SubSeq(u, m, n)[k] = u[m + k - 1]
<1>1. PICK S : u \in Seq(S)
  OBVIOUS
<1>2. \A k \in m..n : u[k] \in S
  BY <1>1
<1>3. /\ SubSeq(u, m, n) \in Seq(S) /\ Len(SubSeq(u, m, n)) = IF m <= n THEN n - m + 1 ELSE 0
      /\ \A k \in 1..(n - m + 1) : SubSeq(u, m, n)[k] = u[m + k - 1]
  BY <1>2, SubSeqProperties
<1>4. (IF m <= n THEN n - m + 1 ELSE 0) = n - m + 1
  OBVIOUS
<1> QED BY <1>3, <1>4

LEMMA SameSeq ==
    ASSUME NEW u, \E S : u \in Seq(S), NEW v, \E S : v \in Seq(S), Len(u) = Len(v),
           \A k \in 1..Len(u) : u[k] = v[k]
    PROVE  u = v
<1>1. PICK S : u \in Seq(S) /\ v \in Seq(S)
  BY TwoSeqs
<1> QED BY <1>1, SeqEqual

LEMMA FlowJoin ==
    ASSUME NEW p, NEW u, Flow(p, u), NEW v, Flow("between", v)
    PROVE  Flow(p, u \o v)
<1> DEFINE w == u \o v
           m == Len(u)
           n == Len(v)
<1>1. (\E S : u \in Seq(S)) /\ (\E S : v \in Seq(S))
  BY DEF Flow
<1>2. /\ \E S : w \in Seq(S)
      /\ m \in Nat /\ n \in Nat /\ Len(w) = m + n
      /\ \A k \in 1..m : w[k] = u[k]
      /\ \A k \in 1..n : w[m + k] = v[k]
  BY <1>1, ConcatIs
<1>3. /\ \A k \in 1..m :
             /\ Sound(u[k])
             /\ ~ u[k].last => k < m /\ Follows(u[k], u[k + 1])
             /\ k = 1 => Starts(p, u[k])
             /\ k > 1 /\ u[k - 1].last => Starts(After(u[k - 1].in), u[k])
      /\ IF m = 0 THEN p = "between" ELSE u[m].last /\ After(u[m].in) = "between"
  BY DEF Flow
<1>4. /\ \A k \in 1..n :
             /\ Sound(v[k])
             /\ ~ v[k].last => k < n /\ Follows(v[k], v[k + 1])
             /\ k = 1 => Starts("between", v[k])
             /\ k > 1 /\ v[k - 1].last => Starts(After(v[k - 1].in), v[k])
      /\ (n # 0 => v[n].last /\ After(v[n].in) = "between")
  BY DEF Flow
<1> HIDE DEF w, m, n
<1>5. ASSUME NEW k \in 1..(m + n)
      PROVE  /\ Sound(w[k])
             /\ ~ w[k].last => k < m + n /\ Follows(w[k], w[k + 1])
             /\ k = 1 => Starts(p, w[k])
             /\ k > 1 /\ w[k - 1].last => Starts(After(w[k - 1].in), w[k])
  <2>1. CASE k \in 1..m
    <3>1. w[k] = u[k]
      BY <1>2, <2>1
    <3>2. k < m => w[k + 1] = u[k + 1]
      BY <1>2, <2>1
    <3>3. k > 1 => w[k - 1] = u[k - 1]
      BY <1>2, <2>1
    <3>4. k < m => k < m + n
      BY <1>2
    <3> QED BY <1>3, <2>1, <3>1, <3>2, <3>3, <3>4
  <2>2. CASE k \notin 1..m
    <3> DEFINE j == k - m
    <3>1. j \in 1..n /\ k = m + j /\ k + 1 = m + (j + 1) /\ k - 1 = m + (j - 1)
      BY <1>2, <2>2
    <3>2. w[k] = v[j]
      BY <1>2, <3>1
    <3>3. j < n => w[k + 1] = v[j + 1] /\ k < m + n
      <4> SUFFICES ASSUME j < n PROVE w[k + 1] = v[j + 1] /\ k < m + n
        OBVIOUS
      <4>1. j + 1 \in 1..n
        BY <1>2, <3>1
      <4>2. w[m + (j + 1)] = v[j + 1]
        BY <1>2, <4>1
      <4> QED BY <1>2, <3>1, <4>2
    <3>4. j > 1 => w[k - 1] = v[j - 1]
      <4> SUFFICES ASSUME j > 1 PROVE w[k - 1] = v[j - 1]
        OBVIOUS
      <4>1. j - 1 \in 1..n
        BY <1>2, <3>1
      <4>2. w[m + (j - 1)] = v[j - 1]
        BY <1>2, <4>1
      <4> QED BY <1>2, <3>1, <4>2
    <3>5. j = 1 => IF m = 0 THEN k = 1 ELSE w[k - 1] = u[m] /\ k # 1
      <4>1. CASE m = 0
        BY <3>1, <4>1
      <4>2. CASE m # 0
        <5>1. m \in 1..m /\ (j = 1 => k - 1 = m /\ k # 1)
          BY <1>2, <3>1, <4>2
        <5> QED BY <1>2, <4>2, <5>1
      <4> QED BY <4>1, <4>2
    <3>6. j > 1 => k # 1
      BY <1>2, <3>1
    <3>7. k > 1 /\ j = 1 => m # 0
      BY <1>2, <3>1
    <3> HIDE DEF j
    <3>8. Sound(w[k]) /\ (~ w[k].last => k < m + n /\ Follows(w[k], w[k + 1]))
      BY <1>4, <3>1, <3>2, <3>3
    <3>9. CASE j = 1
      <4>1. Starts("between", w[k])
        BY <1>4, <3>1, <3>2, <3>9
      <4>2. CASE m = 0
        BY <1>3, <3>5, <3>7, <3>8, <3>9, <4>1, <4>2
      <4>3. CASE m # 0
        <5>1. w[k - 1] = u[m] /\ k # 1 /\ After(u[m].in) = "between"
          BY <1>3, <3>5, <3>9, <4>3
        <5> QED BY <3>8, <4>1, <5>1
      <4> QED BY <4>2, <4>3
    <3>10. CASE j > 1
      BY <1>4, <3>1, <3>2, <3>4, <3>6, <3>8, <3>10
    <3> QED BY <1>2, <3>1, <3>9, <3>10
  <2> QED BY <2>1, <2>2
<1>6. IF m + n = 0 THEN p = "between" ELSE w[m + n].last /\ After(w[m + n].in) = "between"
  <2>1. CASE n = 0
    <3>1. CASE m = 0
      BY <1>3, <2>1, <3>1
    <3>2. CASE m # 0
      <4>1. m \in 1..m /\ m + n = m
        BY <1>2, <2>1, <3>2
      <4> QED BY <1>2, <1>3, <3>2, <4>1
    <3> QED BY <3>1, <3>2
  <2>2. CASE n # 0
    <3>1. n \in 1..n /\ m + n # 0
      BY <1>2, <2>2
    <3>2. w[m + n] = v[n]
      BY <1>2, <3>1
    <3> QED BY <1>4, <2>2, <3>1, <3>2
  <2> QED BY <2>1, <2>2
<1>7. Flow(p, w)
  BY <1>2, <1>5, <1>6 DEF Flow
<1> QED BY <1>7 DEF w

LEMMA PartIs ==
    ASSUME NEW i, Instr(i), NEW of \in Nat, NEW nth \in 1..of, NEW semi
    PROVE  /\ Sound(Part(i, nth, of, semi))
           /\ Part(i, nth, of, semi).in = i
           /\ Part(i, nth, of, semi).nth = nth /\ Part(i, nth, of, semi).of = of
           /\ (Part(i, nth, of, semi).last <=> nth = of)
<1> DEFINE l == nth = of
           m == semi \/ nth = of
           x == Part(i, nth, of, semi)
<1>1. x = [in |-> i, nth |-> nth, of |-> of, last |-> l, semi |-> m]
  BY Zenon DEF Part
<1>2. (nth = of => l = TRUE) /\ (nth # of => l = FALSE)
  OBVIOUS
<1> HIDE DEF l, m, x
<1>3. x.in = i /\ x.nth = nth /\ x.of = of /\ x.last = l
  BY <1>1
<1>4. x.last <=> nth = of
  <2>1. (nth = of => x.last = TRUE) /\ (nth # of => x.last = FALSE)
    BY <1>2, <1>3
  <2> QED BY <2>1
<1>5. 1 <= x.nth /\ x.nth <= x.of /\ x.nth \in Nat /\ x.of \in Nat /\ Instr(x.in)
  BY <1>3
<1>6. Sound(x)
  <2>1. x.last <=> x.nth = x.of
    BY <1>3, <1>4, Zenon
  <2> QED BY <1>5, <2>1, Zenon DEF Sound
<1> QED BY <1>3, <1>4, <1>6, Zenon DEF x

LEMMA WholeIs ==
    ASSUME NEW i, Instr(i)
    PROVE  Sound(Whole(i)) /\ Whole(i).in = i /\ Whole(i).nth = 1 /\ Whole(i).of = 1 /\ Whole(i).last
<1> DEFINE one == 1
           no == FALSE
<1>1. one \in Nat /\ one \in 1..one
  OBVIOUS
<1>2. Whole(i) = Part(i, one, one, no)
  BY DEF Whole
<1> HIDE DEF one, no
<1>3. /\ Sound(Part(i, one, one, no)) /\ Part(i, one, one, no).in = i
      /\ Part(i, one, one, no).nth = one /\ Part(i, one, one, no).of = one
      /\ Part(i, one, one, no).last
  BY <1>1, PartIs
<1> QED BY <1>2, <1>3 DEF one

\* What guacd sends at a time is whole.
LEMMA FlowSend ==
    ASSUME NEW s, NEW paired
    PROVE  Flow("between", Send(s, paired))
<1> DEFINE a == [op |-> "h264", view |-> s.view, key |-> s.idr, paired |-> paired, surface |-> 0]
           b == [op |-> "blob", slice |-> s, sps |-> IF s.idr THEN host.shape.sps ELSE None,
                 enough |-> s.idr \/ host.shape.enough]
           c == [op |-> "end"]
           u == Send(s, paired)
<1>1. /\ Instr(a) /\ a.op = "h264" /\ Instr(b) /\ b.op = "blob" /\ Instr(c) /\ c.op = "end"
  BY DEF Instr
<1>2. u = <<Whole(a), Part(b, 1, 2, FALSE), Part(b, 2, 2, FALSE), Whole(c)>>
  BY Zenon DEF Send
<1> HIDE DEF a, b, c, u
<1>3. /\ \E S : u \in Seq(S)
      /\ Len(u) = 4
      /\ u[1] = Whole(a) /\ u[2] = Part(b, 1, 2, FALSE) /\ u[3] = Part(b, 2, 2, FALSE) /\ u[4] = Whole(c)
  <2> DEFINE S == {Whole(a), Part(b, 1, 2, FALSE), Part(b, 2, 2, FALSE), Whole(c)}
  <2>1. u \in Seq(S)
    BY <1>2
  <2>2. /\ Len(u) = 4
        /\ u[1] = Whole(a) /\ u[2] = Part(b, 1, 2, FALSE) /\ u[3] = Part(b, 2, 2, FALSE) /\ u[4] = Whole(c)
    BY <1>2
  <2>3. \E T : u \in Seq(T)
    BY <2>1
  <2> QED BY <2>2, <2>3
<1>4. Sound(u[1]) /\ u[1].in = a /\ u[1].nth = 1 /\ u[1].last
  BY <1>1, <1>3, WholeIs
<1> DEFINE one == 1
           two == 2
           no == FALSE
<1>0. one \in 1..two /\ two \in 1..two /\ two \in Nat /\ one # two
  OBVIOUS
<1>00. u[2] = Part(b, one, two, no) /\ u[3] = Part(b, two, two, no)
  BY <1>3
<1> HIDE DEF one, two, no
<1>5. Sound(u[2]) /\ u[2].in = b /\ u[2].nth = one /\ u[2].of = two /\ ~ u[2].last
  BY <1>0, <1>00, <1>1, PartIs
<1>6. Sound(u[3]) /\ u[3].in = b /\ u[3].nth = two /\ u[3].of = two /\ u[3].last
  BY <1>0, <1>00, <1>1, PartIs
<1>7. Sound(u[4]) /\ u[4].in = c /\ u[4].nth = 1 /\ u[4].last
  BY <1>1, <1>3, WholeIs
<1>8. /\ Starts("between", u[1]) /\ Starts(After(u[1].in), u[2]) /\ Follows(u[2], u[3])
      /\ Starts(After(u[3].in), u[4])
  BY <1>1, <1>4, <1>5, <1>6, <1>7 DEF Starts, Follows, May, After, one, two
<1>9. ASSUME NEW k \in 1..Len(u)
      PROVE  /\ Sound(u[k])
             /\ ~ u[k].last => k < Len(u) /\ Follows(u[k], u[k + 1])
             /\ k = 1 => Starts("between", u[k])
             /\ k > 1 /\ u[k - 1].last => Starts(After(u[k - 1].in), u[k])
  <2>1. k = 1 \/ k = 2 \/ k = 3 \/ k = 4
    BY <1>3
  <2>2. CASE k = 1
    BY <1>4, <1>8, <2>2
  <2>3. CASE k = 2
    <3>1. k + 1 = 3 /\ k - 1 = 1 /\ k < Len(u) /\ k # 1
      BY <1>3, <2>3
    <3> QED BY <1>4, <1>5, <1>8, <2>3, <3>1, Zenon
  <2>4. CASE k = 3
    <3>1. k - 1 = 2 /\ k # 1
      BY <2>4
    <3> QED BY <1>5, <1>6, <2>4, <3>1, Zenon
  <2>5. CASE k = 4
    <3>1. k - 1 = 3 /\ k # 1
      BY <2>5
    <3> QED BY <1>6, <1>7, <1>8, <2>5, <3>1, Zenon
  <2> QED BY <2>1, <2>2, <2>3, <2>4, <2>5
<1>10. IF Len(u) = 0 THEN "between" = "between" ELSE u[Len(u)].last /\ After(u[Len(u)].in) = "between"
  BY <1>1, <1>3, <1>7 DEF After
<1>11. Flow("between", u)
  BY <1>3, <1>9, <1>10 DEF Flow
<1> QED BY <1>11 DEF u

\* A clipboard of n units.
LEMMA FlowText ==
    ASSUME NEW n \in Nat, n >= 1, NEW d, Instr(d), d.op = "clipboard"
    PROVE  Flow("between", [k \in 1..n |-> Part(d, k, n, TRUE)])
<1> DEFINE u == [k \in 1..n |-> Part(d, k, n, TRUE)]
<1>1. (\E S : u \in Seq(S)) /\ Len(u) = n
  <2> DEFINE S == {Part(d, k, n, TRUE) : k \in 1..n}
  <2>1. u \in [1..n -> S]
    OBVIOUS
  <2>2. u \in Seq(S)
    <3> HIDE DEF u, S
    <3> QED BY <2>1, SeqDef
  <2>3. DOMAIN u = 1..n
    BY <2>1
  <2> HIDE DEF u, S
  <2>4. Len(u) = n
    BY <2>2, <2>3
  <2> QED BY <2>2, <2>4
<1>2. \A k \in 1..n : u[k] = Part(d, k, n, TRUE)
  OBVIOUS
<1> HIDE DEF u
<1>3. \A k \in 1..n : Sound(u[k]) /\ u[k].in = d /\ u[k].nth = k /\ u[k].of = n /\ (u[k].last <=> k = n)
  <2> SUFFICES ASSUME NEW k \in 1..n
               PROVE  Sound(u[k]) /\ u[k].in = d /\ u[k].nth = k /\ u[k].of = n /\ (u[k].last <=> k = n)
    OBVIOUS
  <2> DEFINE yes == TRUE
  <2>1. u[k] = Part(d, k, n, yes)
    BY <1>2
  <2> HIDE DEF yes
  <2> QED BY <2>1, PartIs
<1>4. ASSUME NEW k \in 1..Len(u)
      PROVE  /\ Sound(u[k])
             /\ ~ u[k].last => k < Len(u) /\ Follows(u[k], u[k + 1])
             /\ k = 1 => Starts("between", u[k])
             /\ k > 1 /\ u[k - 1].last => Starts(After(u[k - 1].in), u[k])
  <2>1. k \in 1..n /\ Sound(u[k]) /\ u[k].in = d /\ u[k].nth = k /\ u[k].of = n /\ (u[k].last <=> k = n)
    BY <1>1, <1>3
  <2>2. ASSUME ~ u[k].last PROVE k < n /\ Follows(u[k], u[k + 1])
    <3>1. k + 1 \in 1..n
      BY <2>1, <2>2
    <3>2. u[k + 1].in = d /\ u[k + 1].nth = k + 1 /\ u[k + 1].of = n
      BY <1>3, <3>1
    <3> QED BY <2>1, <3>1, <3>2 DEF Follows
  <2>3. k = 1 => Starts("between", u[k])
    BY <2>1 DEF Starts, May
  <2>4. k > 1 => ~ u[k - 1].last
    <3> SUFFICES ASSUME k > 1 PROVE ~ u[k - 1].last
      OBVIOUS
    <3>1. k - 1 \in 1..n /\ k - 1 # n
      BY <2>1
    <3> QED BY <1>3, <3>1
  <2> QED BY <1>1, <2>1, <2>2, <2>3, <2>4
<1>5. Len(u) # 0 /\ u[Len(u)].last /\ After(u[Len(u)].in) = "between"
  <2>1. n \in 1..n /\ n # 0
    OBVIOUS
  <2>2. u[n].last /\ u[n].in = d
    BY <1>3, <2>1
  <2> QED BY <1>1, <2>1, <2>2 DEF After
<1>6. Flow("between", u)
  BY <1>1, <1>4, <1>5 DEF Flow
<1> QED BY <1>6 DEF u

\* What SendOther sends is a clipboard, or three instructions.
LEMMA OtherIs ==
    ASSUME NEW what
    PROVE  \/ /\ what \in {"clipboard", "paste"}
              /\ \E n \in Nat : n >= 1 /\ Other(what) = [k \in 1..n |-> Part([op |-> "clipboard"], k, n, TRUE)]
           \/ /\ what \notin {"clipboard", "paste"}
              /\ Other(what) =
                     <<Whole(IF what = "surface"
                             THEN [op |-> "h264", view |-> 0, key |-> TRUE, paired |-> FALSE, surface |-> 1]
                             ELSE [op |-> "img"]),
                       Whole([op |-> "blob", slice |-> None,
                              sps |-> IF what = "surface" THEN host.shape.sps ELSE None]),
                       Whole([op |-> "end"])>>
<1>1. CASE what \in {"clipboard", "paste"}
  <2> DEFINE n == IF what = "paste" THEN MaxCarry + 2 ELSE 2
  <2>1. n \in Nat /\ n >= 1
    BY BoundsAssumption
  <2>2. Other(what) = [k \in 1..n |-> Part([op |-> "clipboard"], k, n, TRUE)]
    BY <1>1, Zenon DEF Other
  <2> HIDE DEF n
  <2> QED BY <1>1, <2>1, <2>2
<1>2. CASE what \notin {"clipboard", "paste"}
  BY <1>2, Zenon DEF Other
<1> QED BY <1>1, <1>2

LEMMA FlowOther ==
    ASSUME NEW what
    PROVE  Flow("between", Other(what))
<1> DEFINE u == Other(what)
           d == [op |-> "clipboard"]
           h == [op |-> "h264", view |-> 0, key |-> TRUE, paired |-> FALSE, surface |-> 1]
           a == IF what = "surface" THEN h ELSE [op |-> "img"]
           b == [op |-> "blob", slice |-> None, sps |-> IF what = "surface" THEN host.shape.sps ELSE None]
           c == [op |-> "end"]
<1>1. /\ Instr(a) /\ a.op \in {"h264", "img"} /\ Instr(b) /\ b.op = "blob" /\ Instr(c) /\ c.op = "end"
      /\ Instr(d) /\ d.op = "clipboard"
  BY DEF Instr
<1>2. \/ \E n \in Nat : n >= 1 /\ u = [k \in 1..n |-> Part(d, k, n, TRUE)]
      \/ u = <<Whole(a), Whole(b), Whole(c)>>
  BY OtherIs, Zenon
<1> HIDE DEF a, b, c, d, u
<1>3. CASE \E n \in Nat : n >= 1 /\ u = [k \in 1..n |-> Part(d, k, n, TRUE)]
  <2>1. Flow("between", u)
    BY <1>1, <1>3, FlowText
  <2> QED BY <2>1 DEF u
<1>4. CASE u = <<Whole(a), Whole(b), Whole(c)>>
  <2>2. (\E S : u \in Seq(S)) /\ Len(u) = 3 /\ u[1] = Whole(a) /\ u[2] = Whole(b) /\ u[3] = Whole(c)
    <3> DEFINE S == {Whole(a), Whole(b), Whole(c)}
    <3>1. u \in Seq(S) /\ Len(u) = 3 /\ u[1] = Whole(a) /\ u[2] = Whole(b) /\ u[3] = Whole(c)
      BY <1>4
    <3> QED BY <3>1
  <2>3. /\ Sound(u[1]) /\ u[1].in = a /\ u[1].nth = 1 /\ u[1].last
        /\ Sound(u[2]) /\ u[2].in = b /\ u[2].nth = 1 /\ u[2].last
        /\ Sound(u[3]) /\ u[3].in = c /\ u[3].nth = 1 /\ u[3].last
    BY <1>1, <2>2, WholeIs
  <2>4. Starts("between", u[1]) /\ Starts(After(u[1].in), u[2]) /\ Starts(After(u[2].in), u[3])
    BY <1>1, <2>3 DEF Starts, May, After
  <2>5. ASSUME NEW k \in 1..Len(u)
        PROVE  /\ Sound(u[k])
               /\ ~ u[k].last => k < Len(u) /\ Follows(u[k], u[k + 1])
               /\ k = 1 => Starts("between", u[k])
               /\ k > 1 /\ u[k - 1].last => Starts(After(u[k - 1].in), u[k])
    <3>1. k \in {1, 2, 3}
      BY <2>2
    <3> QED BY <2>2, <2>3, <2>4, <3>1
  <2>6. Len(u) # 0 /\ u[Len(u)].last /\ After(u[Len(u)].in) = "between"
    BY <1>1, <2>2, <2>3 DEF After
  <2>7. Flow("between", u)
    BY <2>2, <2>5, <2>6 DEF Flow
  <2> QED BY <2>7 DEF u
<1> QED BY <1>2, <1>3, <1>4

\* What is left behind the last complete instruction.
LEMMA FlowRest ==
    ASSUME NEW p, NEW u, Flow(p, u), NEW m \in 1..Len(u), u[m].last
    PROVE  Flow(After(u[m].in), SubSeq(u, m + 1, Len(u)))
<1> DEFINE n == Len(u)
           v == SubSeq(u, m + 1, n)
<1>0. n \in Nat /\ m \in 1..n /\ (\E S : u \in Seq(S))
  BY DEF Flow
<1>1. /\ \E S : v \in Seq(S)
      /\ Len(v) = n - m /\ \A k \in 1..(n - m) : v[k] = u[m + k]
  <2> DEFINE x == m + 1
  <2>0. x \in Nat /\ 1 <= x /\ x <= n + 1 /\ n <= Len(u) /\ n - x + 1 = n - m
    BY <1>0
  <2>1. /\ \E S : SubSeq(u, x, n) \in Seq(S)
        /\ Len(SubSeq(u, x, n)) = n - x + 1
        /\ \A k \in 1..(n - x + 1) : SubSeq(u, x, n)[k] = u[x + k - 1]
    <3>1. \E S : u \in Seq(S)
      BY <1>0
    <3>2. x \in Nat /\ n \in Nat /\ 1 <= x /\ x <= n + 1 /\ n <= Len(u)
      BY <1>0, <2>0
    <3> HIDE DEF x, n
    <3> QED BY <3>1, <3>2, SubSeqIs
  <2>2. \A k \in 1..(n - m) : x + k - 1 = m + k
    BY <1>0
  <2>3. v = SubSeq(u, x, n)
    OBVIOUS
  <2> HIDE DEF x, n, v
  <2> QED BY <2>0, <2>1, <2>2, <2>3
<1>2. /\ \A k \in 1..n :
             /\ Sound(u[k])
             /\ ~ u[k].last => k < n /\ Follows(u[k], u[k + 1])
             /\ k > 1 /\ u[k - 1].last => Starts(After(u[k - 1].in), u[k])
      /\ u[n].last /\ After(u[n].in) = "between"
  BY <1>0 DEF Flow
<1> HIDE DEF n, v
<1>3. ASSUME NEW k \in 1..(n - m)
      PROVE  /\ Sound(v[k])
             /\ ~ v[k].last => k < n - m /\ Follows(v[k], v[k + 1])
             /\ k = 1 => Starts(After(u[m].in), v[k])
             /\ k > 1 /\ v[k - 1].last => Starts(After(v[k - 1].in), v[k])
  <2> DEFINE j == m + k
  <2>1. j \in 1..n /\ j > 1 /\ j + 1 = m + (k + 1) /\ j - 1 = m + (k - 1) /\ (j < n <=> k < n - m)
    BY <1>0
  <2>2. v[k] = u[j]
    BY <1>1
  <2>3. ASSUME k < n - m PROVE v[k + 1] = u[j + 1]
    <3>1. k + 1 \in 1..(n - m)
      BY <1>0, <2>3
    <3>2. v[k + 1] = u[m + (k + 1)]
      BY <1>1, <3>1
    <3> QED BY <2>1, <3>2
  <2>4. ASSUME k > 1 PROVE v[k - 1] = u[j - 1]
    <3>1. k - 1 \in 1..(n - m)
      BY <1>0, <2>4
    <3>2. v[k - 1] = u[m + (k - 1)]
      BY <1>1, <3>1
    <3> QED BY <2>1, <3>2
  <2>5. k = 1 => j - 1 = m
    BY <1>0
  <2> HIDE DEF j
  <2> QED BY <1>2, <2>1, <2>2, <2>3, <2>4, <2>5
<1>4. IF n - m = 0 THEN After(u[m].in) = "between" ELSE v[n - m].last /\ After(v[n - m].in) = "between"
  <2>1. CASE n - m = 0
    <3>1. n = m
      BY <1>0, <2>1
    <3> QED BY <1>2, <2>1, <3>1
  <2>2. CASE n - m # 0
    <3>1. n - m \in 1..(n - m) /\ m + (n - m) = n
      BY <1>0, <2>2
    <3>2. v[n - m] = u[m + (n - m)]
      BY <1>1, <3>1
    <3> QED BY <1>2, <2>2, <3>1, <3>2
  <2> QED BY <2>1, <2>2
<1>5. Flow(After(u[m].in), v)
  BY <1>1, <1>3, <1>4 DEF Flow
<1> QED BY <1>5 DEF v, n

\* What the first k units of u hold, of instructions that are complete.
Drawn(s, p, u, k) ==
    \E q : /\ Orderly(p, s, q)
           /\ k = 0 => q = p
           /\ k # 0 => IF u[k].last THEN q = After(u[k].in) ELSE May(q, u[k].in)

LEMMA ElementDraws ==
    ASSUME NEW p, NEW u, Flow(p, u), NEW k \in Nat, k < Len(u), NEW s, Drawn(s, p, u, k)
    PROVE  Drawn(element(s, u[k + 1]), p, u, k + 1)
<1> DEFINE x == u[k + 1]
<1>0. Len(u) \in Nat
  BY DEF Flow
<1>1. k + 1 \in 1..Len(u) /\ (k + 1) - 1 = k /\ k + 1 # 0 /\ (k # 0 => k + 1 > 1 /\ k \in 1..Len(u))
  BY <1>0
<1>2. /\ Instr(x.in) /\ (k = 0 => May(p, x.in))
      /\ (k # 0 /\ u[k].last => May(After(u[k].in), x.in))
      /\ (k # 0 /\ ~ u[k].last => x.in = u[k].in)
  BY <1>1 DEF Flow, Sound, Starts, Follows
<1>3. PICK q : /\ Orderly(p, s, q)
               /\ k = 0 => q = p
               /\ k # 0 => IF u[k].last THEN q = After(u[k].in) ELSE May(q, u[k].in)
  BY DEF Drawn
<1>4. May(q, x.in)
  <2>1. CASE k = 0
    BY <1>2, <1>3, <2>1
  <2>2. CASE k # 0 /\ u[k].last
    BY <1>2, <1>3, <2>2
  <2>3. CASE k # 0 /\ ~ u[k].last
    BY <1>2, <1>3, <2>3
  <2> QED BY <2>1, <2>2, <2>3
<1>5. CASE x.last
  <2>1. element(s, x) = Append(s, x.in)
    BY <1>5 DEF element
  <2> DEFINE i == x.in
  <2>2. Orderly(p, Append(s, i), After(i))
    <3>1. Instr(i) /\ May(q, i) /\ Orderly(p, s, q)
      BY <1>2, <1>3, <1>4
    <3> HIDE DEF i
    <3> QED BY <3>1, OrderlyAppend
  <2> QED BY <1>1, <1>5, <2>1, <2>2 DEF Drawn
<1>6. CASE ~ x.last
  <2>1. element(s, x) = s
    BY <1>6 DEF element
  <2> QED BY <1>1, <1>3, <1>4, <1>6, <2>1 DEF Drawn
<1> QED BY <1>5, <1>6

\* A read passes on whole instructions, in their order.
LEMMA FlowTaken ==
    ASSUME NEW p, NEW u, Flow(p, u), NEW m \in 1..Len(u), u[m].last
    PROVE  Orderly(p, Instructions(SubSeq(u, 1, m)), After(u[m].in))
<1> DEFINE s == SubSeq(u, 1, m)
<1>0. Len(u) \in Nat /\ (\E S : u \in Seq(S))
  BY DEF Flow
<1>1. (\E S : s \in Seq(S)) /\ Len(s) = m /\ \A k \in 1..m : s[k] = u[k]
  <2>1. m \in Nat /\ 1 \in Nat /\ 1 <= 1 /\ 1 <= m + 1 /\ m <= Len(u) /\ m - 1 + 1 = m
    BY <1>0
  <2>2. \E S : u \in Seq(S)
    BY <1>0
  <2>3. /\ \E S : SubSeq(u, 1, m) \in Seq(S)
        /\ Len(SubSeq(u, 1, m)) = m - 1 + 1
        /\ \A k \in 1..(m - 1 + 1) : SubSeq(u, 1, m)[k] = u[1 + k - 1]
    BY <2>1, <2>2, SubSeqIs
  <2>4. \A k \in 1..m : 1 + k - 1 = k
    BY <2>1
  <2> HIDE DEF s
  <2>5. s = SubSeq(u, 1, m)
    BY DEF s
  <2> QED BY <2>1, <2>3, <2>4, <2>5
<1> HIDE DEF s
<1>2. PICK S : s \in Seq(S)
  BY <1>1
<1>3. PICK g : IsFold(g, "element", << >>, s) /\ FoldLeft(element, << >>, s) = g[Len(s)]
  BY <1>2, ElementFold
<1>4. Instructions(s) = g[m]
  BY <1>1, <1>3 DEF Instructions
<1> DEFINE H == {k \in 0..m : Drawn(g[k], p, u, k)}
<1>5. 0 \in H
  <2>1. Drawn(<< >>, p, u, 0)
    BY OrderlyNone DEF Drawn
  <2> QED BY <1>3, <2>1 DEF IsFold
<1>6. ASSUME NEW k \in 0..(m - 1), k \in H PROVE k + 1 \in H
  <2>1. k + 1 \in 1..m /\ (k + 1) - 1 = k /\ k \in Nat /\ k < Len(u)
    BY <1>0
  <2>2. g[k + 1] = Step("element", g[k], s[k + 1]) /\ s[k + 1] = u[k + 1]
    BY <1>1, <1>3, <2>1 DEF IsFold
  <2>3. g[k + 1] = element(g[k], u[k + 1])
    BY <2>2, Zenon DEF Step
  <2>4. Drawn(g[k + 1], p, u, k + 1)
    BY <1>6, <2>1, <2>3, ElementDraws
  <2> QED BY <2>1, <2>4
<1>7. m \in H
  <2> HIDE DEF H
  <2>1. m \in Nat
    BY <1>0
  <2>2. 0..m \subseteq H
    BY <1>5, <1>6, <2>1, IntervalAll
  <2> QED BY <2>1, <2>2
<1>8. Orderly(p, g[m], After(u[m].in))
  BY <1>7 DEF Drawn
<1> QED BY <1>4, <1>8 DEF s

\* The units that are due after the first k of u.
Owed(d, u, k) == (k = 0 => d = 0) /\ (k # 0 => d = u[k].of - u[k].nth)
Less(d, u) == IF d = 0 THEN u.of - 1 ELSE d - 1

LEMMA OwedNext ==
    ASSUME NEW p, NEW u, Flow(p, u), NEW k \in Nat, k < Len(u), NEW d, Owed(d, u, k)
    PROVE  /\ Owed(Less(d, u[k + 1]), u, k + 1)
           /\ d = 0 => u[k + 1].nth = 1
           /\ Less(d, u[k + 1]) = 0 <=> u[k + 1].last
<1> DEFINE v == u[k + 1]
<1>0. Len(u) \in Nat
  BY DEF Flow
<1>1. k + 1 \in 1..Len(u) /\ (k + 1) - 1 = k /\ k + 1 # 0 /\ (k # 0 => k + 1 > 1 /\ k \in 1..Len(u))
  BY <1>0
<1>2. /\ Sound(v) /\ (k = 0 => v.nth = 1)
      /\ (k # 0 /\ u[k].last => v.nth = 1)
      /\ (k # 0 /\ ~ u[k].last => Follows(u[k], v))
      /\ (k # 0 => Sound(u[k]))
  BY <1>1 DEF Flow, Starts
<1> HIDE DEF v
<1>3. v.nth \in Nat /\ v.of \in Nat /\ 1 <= v.nth /\ v.nth <= v.of /\ (v.last <=> v.nth = v.of)
  BY <1>2 DEF Sound
<1>4. CASE k = 0 \/ u[k].last
  <2>1. d = 0 /\ v.nth = 1
    <3>1. CASE k = 0
      BY <1>2, <3>1 DEF Owed
    <3>2. CASE k # 0
      BY <1>2, <1>4, <3>2 DEF Owed, Sound
    <3> QED BY <3>1, <3>2
  <2>2. Less(d, v) = v.of - v.nth
    BY <2>1 DEF Less
  <2>3. v.of - v.nth = 0 <=> v.nth = v.of
    BY <1>3
  <2> QED BY <1>1, <1>3, <2>1, <2>2, <2>3 DEF Owed, v
<1>5. CASE k # 0 /\ ~ u[k].last
  <2>1. d = u[k].of - u[k].nth /\ v.of = u[k].of /\ v.nth = u[k].nth + 1
    BY <1>2, <1>5 DEF Owed, Follows
  <2>2. u[k].of \in Nat /\ u[k].nth \in Nat /\ u[k].nth <= u[k].of /\ u[k].nth # u[k].of
    BY <1>2, <1>5 DEF Sound
  <2>3. d # 0 /\ d - 1 = v.of - v.nth /\ (v.of - v.nth = 0 <=> v.nth = v.of)
    BY <1>3, <2>1, <2>2
  <2>4. Less(d, v) = v.of - v.nth
    BY <2>3 DEF Less
  <2> QED BY <1>1, <1>3, <2>3, <2>4 DEF Owed, v
<1> QED BY <1>4, <1>5

\* The scan after k units: where it has not stopped, it stands behind them, and
\* has found the end of an instruction.
Scanning(x, k) ==
    DOMAIN x = {"stop", "due", "at", "end"} /\ x.at \in Nat /\ x.at <= k /\ x.end \in 0..x.at
Scanned(x, u, k) ==
    /\ Scanning(x, k) /\ x.stop = FALSE /\ x.at = k /\ Owed(x.due, u, k)
    /\ x.end # 0 => u[x.end].last

LEMMA ScanIs ==
    ASSUME NEW x, NEW u
    PROVE  \/ scan(x, u) = [x EXCEPT !.stop = TRUE] /\ (x.stop \/ (x.due = 0 /\ u.nth # 1))
           \/ scan(x, u) = [stop |-> FALSE, due |-> Less(x.due, u), at |-> x.at + 1,
                           end |-> IF Less(x.due, u) = 0 THEN x.at + 1 ELSE x.end]
BY Zenon DEF scan, Less

LEMMA ScanningOn ==
    ASSUME NEW k \in Nat, NEW x, Scanning(x, k), NEW u
    PROVE  Scanning(scan(x, u), k + 1)
<1> DEFINE y == scan(x, u)
           d == Less(x.due, u)
<1>1. \/ y = [x EXCEPT !.stop = TRUE]
      \/ y = [stop |-> FALSE, due |-> d, at |-> x.at + 1, end |-> IF d = 0 THEN x.at + 1 ELSE x.end]
  BY ScanIs, Zenon
<1> HIDE DEF y, d
<1>2. Scanning(y, k + 1)
  BY <1>1 DEF Scanning
<1> QED BY <1>2 DEF y

LEMMA ScannedOn ==
    ASSUME NEW p, NEW u, Flow(p, u), NEW k \in Nat, k < Len(u), NEW x, Scanned(x, u, k)
    PROVE  Scanned(scan(x, u[k + 1]), u, k + 1)
<1> DEFINE v == u[k + 1]
           y == scan(x, v)
           d == Less(x.due, v)
<1>1. x.stop = FALSE /\ x.at = k /\ Owed(x.due, u, k) /\ Scanning(x, k) /\ (x.end # 0 => u[x.end].last)
  BY DEF Scanned
<1>2. Owed(d, u, k + 1) /\ (x.due = 0 => v.nth = 1) /\ (d = 0 <=> v.last)
  BY <1>1, OwedNext
<1>3. y = [stop |-> FALSE, due |-> d, at |-> x.at + 1, end |-> IF d = 0 THEN x.at + 1 ELSE x.end]
  <2>1. ~ (x.stop \/ (x.due = 0 /\ v.nth # 1))
    BY <1>1, <1>2
  <2> QED BY <2>1, ScanIs, Zenon
<1>4. Scanning(y, k + 1)
  BY <1>1, ScanningOn
<1>v. v = u[k + 1]
  OBVIOUS
<1> HIDE DEF v, y, d
<1>5. y.stop = FALSE /\ y.at = k + 1 /\ y.due = d /\ y.end = IF d = 0 THEN k + 1 ELSE x.end
  BY <1>1, <1>3
<1>6. y.end # 0 => u[y.end].last
  <2>1. CASE d = 0
    BY <1>2, <1>5, <1>v, <2>1
  <2>2. CASE d # 0
    BY <1>1, <1>5, <2>2
  <2> QED BY <2>1, <2>2
<1>7. Scanned(y, u, k + 1)
  BY <1>2, <1>4, <1>5, <1>6, Zenon DEF Scanned
<1> QED BY <1>7 DEF y, v

Unscanned == [stop |-> FALSE, due |-> 0, at |-> 0, end |-> 0]

\* The scan ends within what it is given ...
LEMMA BoundaryWithin ==
    ASSUME NEW r, \E S : r \in Seq(S)
    PROVE  last_instruction_boundary(r) \in 0..Len(r)
<1>1. PICK S : r \in Seq(S)
  OBVIOUS
<1> DEFINE base == Unscanned
           n == Len(r)
<1>2. PICK g : IsFold(g, "scan", base, r) /\ FoldLeft(scan, base, r) = g[Len(r)]
  <2> HIDE DEF base
  <2> QED BY <1>1, ScanFold
<1>3. last_instruction_boundary(r) = g[n].end
  BY <1>2, Zenon DEF last_instruction_boundary, Unscanned
<1>4. Scanning(base, 0)
  BY DEF Scanning, Unscanned
<1> HIDE DEF base
<1>0. n \in Nat /\ n = Len(r)
  BY <1>1
<1> HIDE DEF n
<1> DEFINE H == {k \in 0..n : Scanning(g[k], k)}
<1>5. 0 \in H
  BY <1>0, <1>2, <1>4 DEF IsFold
<1>6. ASSUME NEW k \in 0..(n - 1), k \in H PROVE k + 1 \in H
  <2>1. k + 1 \in 1..n /\ (k + 1) - 1 = k /\ k \in Nat /\ k + 1 \in 0..n
    BY <1>0
  <2>2. g[k + 1] = Step("scan", g[k], r[k + 1])
    BY <1>0, <1>2, <2>1 DEF IsFold
  <2>3. g[k + 1] = scan(g[k], r[k + 1])
    BY <2>2, Zenon DEF Step
  <2>4. Scanning(g[k + 1], k + 1)
    BY <1>6, <2>1, <2>3, ScanningOn
  <2> QED BY <2>1, <2>4
<1>7. n \in H
  <2> HIDE DEF H
  <2>1. 0..n \subseteq H
    BY <1>0, <1>5, <1>6, IntervalAll
  <2> QED BY <1>0, <2>1
<1>8. Scanning(g[n], n)
  BY <1>7
<1> QED BY <1>0, <1>3, <1>8 DEF Scanning

\* ... and, from the head of an instruction, at the end of one.
LEMMA BoundaryIs ==
    ASSUME NEW p, NEW u, Flow(p, u), NEW r, \E S : r \in Seq(S),
           Len(r) <= Len(u), \A k \in 1..Len(r) : r[k] = u[k]
    PROVE  /\ last_instruction_boundary(r) \in 0..Len(r)
           /\ last_instruction_boundary(r) # 0 => r[last_instruction_boundary(r)].last
<1>1. PICK S : r \in Seq(S)
  OBVIOUS
<1> DEFINE base == Unscanned
           n == Len(r)
<1>2. PICK g : IsFold(g, "scan", base, r) /\ FoldLeft(scan, base, r) = g[Len(r)]
  <2> HIDE DEF base
  <2> QED BY <1>1, ScanFold
<1>3. last_instruction_boundary(r) = g[n].end
  BY <1>2, Zenon DEF last_instruction_boundary, Unscanned
<1>4. Scanned(base, u, 0)
  BY DEF Scanned, Scanning, Owed, Unscanned
<1> HIDE DEF base
<1>0. n \in Nat /\ n = Len(r) /\ Len(u) \in Nat /\ n <= Len(u)
  BY <1>1 DEF Flow
<1> HIDE DEF n
<1> DEFINE H == {k \in 0..n : Scanned(g[k], u, k)}
<1>5. 0 \in H
  BY <1>0, <1>2, <1>4 DEF IsFold
<1>6. ASSUME NEW k \in 0..(n - 1), k \in H PROVE k + 1 \in H
  <2>1. k + 1 \in 1..n /\ (k + 1) - 1 = k /\ k \in Nat /\ k + 1 \in 0..n /\ k < Len(u)
    BY <1>0
  <2>2. g[k + 1] = Step("scan", g[k], r[k + 1]) /\ r[k + 1] = u[k + 1]
    BY <1>0, <1>2, <2>1 DEF IsFold
  <2>3. g[k + 1] = scan(g[k], u[k + 1])
    BY <2>2, Zenon DEF Step
  <2>4. Scanned(g[k + 1], u, k + 1)
    BY <1>6, <2>1, <2>3, ScannedOn
  <2> QED BY <2>1, <2>4
<1>7. n \in H
  <2> HIDE DEF H
  <2>1. 0..n \subseteq H
    BY <1>0, <1>5, <1>6, IntervalAll
  <2> QED BY <1>0, <2>1
<1>8. Scanning(g[n], n) /\ (g[n].end # 0 => u[g[n].end].last)
  BY <1>7 DEF Scanned
<1>9. g[n].end \in 0..n
  BY <1>0, <1>8 DEF Scanning
<1>10. g[n].end # 0 => r[g[n].end].last
  BY <1>0, <1>8, <1>9
<1> QED BY <1>0, <1>3, <1>9, <1>10

\* The browser's parser is left with nothing by whole instructions.
LEMMA AllReceived ==
    ASSUME NEW p, NEW u, Flow(p, u), NEW m \in 1..Len(u), u[m].last,
           NEW s, \E S : s \in Seq(S), Len(s) = m, \A k \in 1..m : s[k] = u[k], NEW d, d = 0
    PROVE  FoldLeft(Received, d, s) = 0
<1>1. PICK S : s \in Seq(S)
  OBVIOUS
<1>2. PICK g : IsFold(g, "received", d, s) /\ FoldLeft(Received, d, s) = g[Len(s)]
  BY <1>1, ReceivedFold
<1>0. m \in Nat /\ Len(u) \in Nat /\ m <= Len(u) /\ m >= 1
  BY DEF Flow
<1> DEFINE H == {k \in 0..m : Owed(g[k], u, k)}
<1>5. 0 \in H
  BY <1>0, <1>2 DEF IsFold, Owed
<1>6. ASSUME NEW k \in 0..(m - 1), k \in H PROVE k + 1 \in H
  <2>1. k + 1 \in 1..m /\ (k + 1) - 1 = k /\ k \in Nat /\ k + 1 \in 0..m /\ k < Len(u)
    BY <1>0
  <2>2. g[k + 1] = Step("received", g[k], s[k + 1]) /\ s[k + 1] = u[k + 1]
    BY <1>0, <1>2, <2>1 DEF IsFold
  <2>3. g[k + 1] = Less(g[k], u[k + 1])
    BY <2>2, Zenon DEF Step, Received, Less
  <2>4. Owed(g[k + 1], u, k + 1)
    BY <1>6, <2>1, <2>3, OwedNext
  <2> QED BY <2>1, <2>4
<1>7. m \in H
  <2> HIDE DEF H
  <2>1. 0..m \subseteq H
    BY <1>0, <1>5, <1>6, IntervalAll
  <2> QED BY <1>0, <2>1
<1>8. g[m] = u[m].of - u[m].nth
  BY <1>0, <1>7 DEF Owed
<1>9. u[m].of = u[m].nth /\ u[m].of \in Nat
  <2>1. Sound(u[m])
    BY DEF Flow
  <2> QED BY <2>1 DEF Sound
<1> QED BY <1>2, <1>8, <1>9

\* A sequence of whatever; v is u from m to n; r is what a read of n units of w
\* makes of them and of the carry c.
IsSeq(u) == \E S : u \in Seq(S)
SubOf(v, u, m, n) ==
    /\ IsSeq(v) /\ Len(v) = n - m + 1
    /\ \A k \in 1..(n - m + 1) : v[k] = u[m + k - 1]
ReadOf(r, c, w, n) ==
    /\ IsSeq(r) /\ Len(r) = Len(c) + n /\ Len(r) <= Len(c \o w)
    /\ \A k \in 1..Len(r) : r[k] = (c \o w)[k]
    /\ \A k \in 1..(Len(w) - n) : SubSeq(w, n + 1, Len(w))[k] = (c \o w)[Len(r) + k]
    /\ IsSeq(SubSeq(w, n + 1, Len(w))) /\ Len(SubSeq(w, n + 1, Len(w))) = Len(w) - n

\* A read: what it joins with the carry, passes on and carries over.
LEMMA ReadIs ==
    ASSUME NEW c, IsSeq(c), NEW w, IsSeq(w), NEW n \in 1..Len(w), NEW r, r = c \o SubSeq(w, 1, n)
    PROVE  ReadOf(r, c, w, n)
<1>0. (\E S : c \in Seq(S)) /\ (\E S : w \in Seq(S))
  BY DEF IsSeq
<1> DEFINE a == SubSeq(w, 1, n)
           m == n + 1
           l == Len(w)
           b == SubSeq(w, m, l)
<1>1. /\ \E S : c \o w \in Seq(S)
      /\ Len(c) \in Nat /\ Len(w) \in Nat /\ Len(c \o w) = Len(c) + Len(w)
      /\ \A k \in 1..Len(c) : (c \o w)[k] = c[k]
      /\ \A k \in 1..Len(w) : (c \o w)[Len(c) + k] = w[k]
  <2>1. Joined(c \o w, c, w)
    BY <1>0, ConcatJoins
  <2> QED BY <2>1, Zenon DEF Joined
<1>2. (\E S : a \in Seq(S)) /\ Len(a) = n /\ \A k \in 1..n : a[k] = w[k]
  <2>1. n \in Nat /\ 1 \in Nat /\ 1 <= 1 /\ 1 <= n + 1 /\ n <= Len(w) /\ n - 1 + 1 = n
    BY <1>1
  <2>2. /\ \E S : SubSeq(w, 1, n) \in Seq(S)
        /\ Len(SubSeq(w, 1, n)) = n - 1 + 1
        /\ \A k \in 1..(n - 1 + 1) : SubSeq(w, 1, n)[k] = w[1 + k - 1]
    BY <1>0, <2>1, SubSeqIs
  <2>3. \A k \in 1..n : 1 + k - 1 = k
    BY <2>1
  <2>4. a = SubSeq(w, 1, n)
    OBVIOUS
  <2> HIDE DEF a
  <2> QED BY <2>1, <2>2, <2>3, <2>4
<1>3. (\E S : b \in Seq(S)) /\ Len(b) = l - n /\ \A k \in 1..(l - n) : b[k] = w[n + k]
  <2>1. m \in Nat /\ l \in Nat /\ 1 <= m /\ m <= l + 1 /\ l <= Len(w)
    BY <1>1
  <2>2. l - m + 1 = l - n /\ \A k \in 1..(l - n) : m + k - 1 = n + k
    BY <1>1
  <2> HIDE DEF m, l
  <2>3. /\ \E S : SubSeq(w, m, l) \in Seq(S)
        /\ Len(SubSeq(w, m, l)) = l - m + 1
        /\ \A k \in 1..(l - m + 1) : SubSeq(w, m, l)[k] = w[m + k - 1]
    BY <1>0, <2>1, SubSeqIs
  <2>4. b = SubSeq(w, m, l)
    OBVIOUS
  <2> HIDE DEF b
  <2> QED BY <2>2, <2>3, <2>4
<1> HIDE DEF a
<1>4. /\ \E S : c \o a \in Seq(S)
      /\ Len(c) \in Nat /\ Len(a) \in Nat /\ Len(c \o a) = Len(c) + Len(a)
      /\ \A k \in 1..Len(c) : (c \o a)[k] = c[k]
      /\ \A k \in 1..Len(a) : (c \o a)[Len(c) + k] = a[k]
  <2>1. \E S : a \in Seq(S)
    BY <1>2
  <2>2. Joined(c \o a, c, a)
    BY <1>0, <2>1, ConcatJoins
  <2> QED BY <2>2, Zenon DEF Joined
<1>5. r = c \o a
  BY DEF a
<1>6. (\E S : r \in Seq(S)) /\ Len(r) = Len(c) + n /\ Len(r) <= Len(c \o w)
  BY <1>1, <1>2, <1>4, <1>5
<1>7. ASSUME NEW k \in 1..Len(r) PROVE r[k] = (c \o w)[k]
  <2>1. CASE k \in 1..Len(c)
    BY <1>1, <1>4, <1>5, <2>1
  <2>2. CASE k \notin 1..Len(c)
    <3> DEFINE j == k - Len(c)
    <3>1. j \in 1..n /\ k = Len(c) + j /\ j \in 1..Len(w)
      BY <1>1, <1>6, <2>2
    <3> HIDE DEF j
    <3>2. r[k] = a[j] /\ a[j] = w[j] /\ (c \o w)[k] = w[j]
      BY <1>1, <1>2, <1>4, <1>5, <3>1
    <3> QED BY <3>2
  <2> QED BY <2>1, <2>2
<1>8. ASSUME NEW k \in 1..(Len(w) - n) PROVE b[k] = (c \o w)[Len(r) + k]
  <2>1. n + k \in 1..Len(w) /\ Len(r) + k = Len(c) + (n + k)
    BY <1>1, <1>6
  <2>2. (c \o w)[Len(c) + (n + k)] = w[n + k]
    BY <1>1, <2>1
  <2>3. b[k] = w[n + k]
    BY <1>3
  <2> QED BY <2>1, <2>2, <2>3
<1> HIDE DEF b, m, l
<1>9. IsSeq(r) /\ IsSeq(b)
  BY <1>3, <1>6 DEF IsSeq
<1>10. /\ Len(r) = Len(c) + n /\ Len(r) <= Len(c \o w) /\ Len(b) = Len(w) - n
  BY <1>3, <1>6 DEF l
<1>11. b = SubSeq(w, n + 1, Len(w))
  BY DEF b, m, l
<1> QED BY <1>7, <1>8, <1>9, <1>10, <1>11, Zenon DEF ReadOf

LEMMA SubSeqCuts ==
    ASSUME NEW u, IsSeq(u), NEW m \in Nat, NEW n \in Nat, 1 <= m, m <= n + 1, n <= Len(u)
    PROVE  SubOf(SubSeq(u, m, n), u, m, n)
BY SubSeqIs DEF SubOf, IsSeq

LEMMA JoinIs ==
    ASSUME NEW u, IsSeq(u), NEW v, IsSeq(v)
    PROVE  /\ IsSeq(u \o v)
           /\ Len(u) \in Nat /\ Len(v) \in Nat /\ Len(u \o v) = Len(u) + Len(v)
           /\ \A k \in 1..Len(u) : (u \o v)[k] = u[k]
           /\ \A k \in 1..Len(v) : (u \o v)[Len(u) + k] = v[k]
<1>1. Joined(u \o v, u, v)
  BY ConcatJoins DEF IsSeq
<1> QED BY <1>1, Zenon DEF Joined, IsSeq

LEMMA SeqLen ==
    ASSUME NEW u, IsSeq(u)
    PROVE  Len(u) \in Nat
BY DEF IsSeq

LEMMA SeqsEqual ==
    ASSUME NEW u, IsSeq(u), NEW v, IsSeq(v), Len(u) = Len(v), \A k \in 1..Len(u) : u[k] = v[k]
    PROVE  u = v
BY SameSeq DEF IsSeq

\* What a read leaves, behind the end of its last complete instruction.
LEMMA ReadLeaves ==
    ASSUME NEW c, IsSeq(c), NEW w, IsSeq(w), NEW n \in 1..Len(w),
           NEW r, ReadOf(r, c, w, n), NEW e \in 0..Len(r)
    PROVE  /\ IsSeq(SubSeq(r, e + 1, Len(r))) /\ IsSeq(SubSeq(w, n + 1, Len(w)))
           /\ SubSeq(r, e + 1, Len(r)) \o SubSeq(w, n + 1, Len(w)) = SubSeq(c \o w, e + 1, Len(c \o w))
<1> DEFINE u == c \o w
           b == SubSeq(w, n + 1, Len(w))
           l == Len(r)
           x == e + 1
           z == Len(u)
           a == SubSeq(r, x, l)
           v == SubSeq(u, x, z)
<1>1. /\ IsSeq(r) /\ l = Len(c) + n /\ l <= z
      /\ \A k \in 1..l : r[k] = u[k]
      /\ \A k \in 1..(Len(w) - n) : b[k] = u[l + k]
      /\ IsSeq(b) /\ Len(b) = Len(w) - n
  BY Zenon DEF ReadOf
<1>2. IsSeq(u) /\ Len(c) \in Nat /\ Len(w) \in Nat /\ z = Len(c) + Len(w)
  BY JoinIs
<1>3. /\ l \in Nat /\ z \in Nat /\ x \in Nat /\ 1 <= x /\ x <= l + 1 /\ x <= z + 1 /\ e \in Nat
      /\ l - x + 1 = l - e /\ z - x + 1 = z - e /\ z - l = Len(w) - n
  BY <1>1, <1>2
<1>u. u = c \o w /\ b = SubSeq(w, n + 1, Len(w)) /\ x = e + 1 /\ l = Len(r) /\ z = Len(u)
  OBVIOUS
<1> HIDE DEF u, b, l, x, z
<1>4. IsSeq(a) /\ Len(a) = l - e /\ \A k \in 1..(l - e) : a[k] = u[e + k]
  <2>1. SubOf(a, r, x, l)
    <3>1. l <= Len(r)
      BY <1>3, <1>u
    <3> QED BY <1>1, <1>3, <3>1, SubSeqCuts
  <2>2. \A k \in 1..(l - e) : x + k - 1 = e + k /\ e + k \in 1..l
    BY <1>3, <1>u
  <2> HIDE DEF a
  <2>3. IsSeq(a) /\ Len(a) = l - e /\ \A k \in 1..(l - e) : a[k] = r[e + k]
    BY <1>3, <2>1, <2>2 DEF SubOf
  <2>4. \A k \in 1..(l - e) : r[e + k] = u[e + k]
    BY <1>1, <2>2
  <2> QED BY <2>3, <2>4
<1>5. IsSeq(v) /\ Len(v) = z - e /\ \A k \in 1..(z - e) : v[k] = u[e + k]
  <2>1. SubOf(v, u, x, z)
    <3>1. z <= Len(u)
      BY <1>3, <1>u
    <3> QED BY <1>2, <1>3, <3>1, SubSeqCuts
  <2>2. \A k \in 1..(z - e) : x + k - 1 = e + k
    BY <1>3, <1>u
  <2> HIDE DEF v
  <2> QED BY <1>3, <2>1, <2>2 DEF SubOf
<1> HIDE DEF a, v
<1>7. a \o b = v
  <2> DEFINE j == a \o b
  <2>1. /\ IsSeq(j)
        /\ Len(a) \in Nat /\ Len(b) \in Nat /\ Len(j) = Len(a) + Len(b)
        /\ \A k \in 1..Len(a) : j[k] = a[k]
        /\ \A k \in 1..Len(b) : j[Len(a) + k] = b[k]
    <3>1. IsSeq(a) /\ IsSeq(b)
      BY <1>1, <1>4
    <3>2. Joined(a \o b, a, b)
      BY <3>1, ConcatJoins DEF IsSeq
    <3> QED BY <3>2, Zenon DEF Joined, IsSeq
  <2> HIDE DEF j
  <2>2. Len(j) = Len(v)
    BY <1>1, <1>3, <1>4, <1>5, <2>1
  <2>3. ASSUME NEW k \in 1..Len(j) PROVE j[k] = v[k]
    <3>0. k \in 1..(z - e)
      BY <1>5, <2>2
    <3>1. v[k] = u[e + k]
      BY <1>5, <3>0
    <3>2. CASE k \in 1..Len(a)
      BY <1>4, <2>1, <3>1, <3>2
    <3>3. CASE k \notin 1..Len(a)
      <4> DEFINE i == k - Len(a)
      <4>0. Len(a) = l - e /\ Len(b) = Len(w) - n /\ Len(j) = Len(a) + Len(b)
        BY <1>1, <1>4, <2>1
      <4>1. i \in 1..Len(b) /\ k = Len(a) + i /\ i \in 1..(Len(w) - n) /\ e + k = l + i
        BY <1>3, <2>1, <3>3, <4>0
      <4> HIDE DEF i
      <4>2. j[k] = b[i]
        BY <2>1, <4>1
      <4>3. b[i] = u[l + i]
        BY <1>1, <4>1
      <4> QED BY <3>1, <4>1, <4>2, <4>3
    <3> QED BY <3>2, <3>3
  <2>4. j = v
    BY <1>5, <2>1, <2>2, <2>3, SeqsEqual
  <2> QED BY <2>4 DEF j
<1> QED BY <1>1, <1>4, <1>7, <1>u, Zenon DEF a, v

\* What a read passes on is the beginning of what had not been passed on.
LEMMA ReadPasses ==
    ASSUME NEW c, IsSeq(c), NEW w, IsSeq(w), NEW n \in 1..Len(w),
           NEW r, ReadOf(r, c, w, n), NEW e \in 1..Len(r)
    PROVE  /\ e \in 1..Len(c \o w) /\ r[e] = (c \o w)[e]
           /\ SubSeq(r, 1, e) = SubSeq(c \o w, 1, e)
<1> DEFINE u == c \o w
           a == SubSeq(r, 1, e)
           v == SubSeq(u, 1, e)
<1>1. /\ IsSeq(r) /\ Len(r) <= Len(u)
      /\ \A k \in 1..Len(r) : r[k] = u[k]
  BY Zenon DEF ReadOf
<1>2. IsSeq(u)
  BY JoinIs
<1>u. u = c \o w
  OBVIOUS
<1> HIDE DEF u
<1>3. Len(r) \in Nat /\ Len(u) \in Nat
  BY <1>1, <1>2, SeqLen
<1>4. /\ e \in Nat /\ 1 \in Nat /\ 1 <= 1 /\ 1 <= e + 1 /\ e <= Len(r) /\ e <= Len(u) /\ e - 1 + 1 = e
      /\ e \in 1..Len(u)
  BY <1>1, <1>3
<1>5. SubOf(a, r, 1, e) /\ SubOf(v, u, 1, e)
  BY <1>1, <1>2, <1>4, SubSeqCuts
<1>7. \A k \in 1..e : 1 + k - 1 = k /\ k \in 1..Len(r)
  BY <1>3, <1>4
<1> HIDE DEF a, v
<1>8. /\ IsSeq(a) /\ IsSeq(v)
      /\ Len(a) = Len(v) /\ \A k \in 1..Len(a) : a[k] = v[k]
  BY <1>1, <1>4, <1>5, <1>7 DEF SubOf
<1>9. a = v
  BY <1>8, SeqsEqual
<1>10. e \in 1..Len(u) /\ r[e] = u[e]
  BY <1>1, <1>4
<1> QED BY <1>9, <1>10, <1>u, Zenon DEF a, v

LEMMA SubSeqAll ==
    ASSUME NEW u, IsSeq(u)
    PROVE  SubSeq(u, 1, Len(u)) = u
<1> DEFINE v == SubSeq(u, 1, Len(u))
<1>1. Len(u) \in Nat
  BY SeqLen
<1>2. 1 \in Nat /\ 1 <= 1 /\ 1 <= Len(u) + 1 /\ Len(u) <= Len(u)
  BY <1>1
<1>3. SubOf(v, u, 1, Len(u))
  BY <1>1, <1>2, SubSeqCuts
<1>4. Len(u) - 1 + 1 = Len(u) /\ \A k \in 1..Len(u) : 1 + k - 1 = k
  BY <1>1
<1> HIDE DEF v
<1>5. IsSeq(v) /\ Len(v) = Len(u) /\ \A k \in 1..Len(v) : v[k] = u[k]
  BY <1>3, <1>4 DEF SubOf
<1>6. v = u
  BY <1>5, SeqsEqual
<1> QED BY <1>6 DEF v

LEMMA FlowSeq ==
    ASSUME NEW p, NEW u, Flow(p, u)
    PROVE  IsSeq(u)
BY DEF Flow, IsSeq

\* The pump after a read that ends in no complete instruction ...
LEMMA ReadNothing ==
    ASSUME NEW p, NEW c, IsSeq(c), NEW w, IsSeq(w), Flow(p, c \o w),
           NEW n \in 1..Len(w), NEW r, ReadOf(r, c, w, n), NEW e \in 0..Len(r), e = 0
    PROVE  Flow(p, SubSeq(r, e + 1, Len(r)) \o SubSeq(w, n + 1, Len(w)))
<1>1. SubSeq(r, e + 1, Len(r)) \o SubSeq(w, n + 1, Len(w)) = SubSeq(c \o w, e + 1, Len(c \o w))
  BY ReadLeaves
<1>2. SubSeq(c \o w, 1, Len(c \o w)) = c \o w
  BY FlowSeq, SubSeqAll
<1>3. e + 1 = 1
  OBVIOUS
<1> QED BY <1>1, <1>2, <1>3

LEMMA ReadEnds ==
    ASSUME NEW p, NEW c, IsSeq(c), NEW w, IsSeq(w), Flow(p, c \o w),
           NEW n \in 1..Len(w), NEW r, ReadOf(r, c, w, n),
           NEW e, e = last_instruction_boundary(r)
    PROVE  e \in 0..Len(r) /\ (e # 0 => r[e].last)
<1> DEFINE u == c \o w
<1>1. Flow(p, u) /\ IsSeq(r) /\ Len(r) <= Len(u) /\ \A k \in 1..Len(r) : r[k] = u[k]
  BY Zenon DEF ReadOf
<1>2. \E S : r \in Seq(S)
  BY <1>1 DEF IsSeq
<1> HIDE DEF u
<1> QED BY <1>1, <1>2, BoundaryIs

\* ... and after one that does: what it passes on is orderly, and no part of
\* an instruction hangs behind it.
LEMMA ReadSome ==
    ASSUME NEW p, NEW c, IsSeq(c), NEW w, IsSeq(w), Flow(p, c \o w),
           NEW n \in 1..Len(w), NEW r, ReadOf(r, c, w, n),
           NEW e, e = last_instruction_boundary(r), e # 0
    PROVE  \E q \in Place : /\ Orderly(p, Instructions(SubSeq(r, 1, e)), q)
                            /\ Flow(q, SubSeq(r, e + 1, Len(r)) \o SubSeq(w, n + 1, Len(w)))
<1> DEFINE u == c \o w
<1>1. Len(r) \in Nat
  BY SeqLen DEF ReadOf
<1>2. e \in 0..Len(r) /\ r[e].last
  BY ReadEnds
<1>3. e \in 1..Len(r) /\ e \in 0..Len(r)
  BY <1>1, <1>2
<1>4. e \in 1..Len(u) /\ r[e] = u[e] /\ SubSeq(r, 1, e) = SubSeq(u, 1, e)
  BY <1>3, ReadPasses, SMTT(30)
<1>5. SubSeq(r, e + 1, Len(r)) \o SubSeq(w, n + 1, Len(w)) = SubSeq(u, e + 1, Len(u))
  BY <1>3, ReadLeaves
<1>7. Flow(p, u)
  OBVIOUS
<1> HIDE DEF u
<1>6. u[e].last
  BY <1>2, <1>4
<1>8. Orderly(p, Instructions(SubSeq(u, 1, e)), After(u[e].in))
  BY <1>4, <1>6, <1>7, FlowTaken
<1>9. Flow(After(u[e].in), SubSeq(u, e + 1, Len(u)))
  BY <1>4, <1>6, <1>7, FlowRest
<1>10. After(u[e].in) \in Place
  BY AfterIsPlace
<1> QED BY <1>4, <1>5, <1>8, <1>9, <1>10, Zenon

LEMMA NothingHangs ==
    ASSUME NEW p, NEW c, IsSeq(c), NEW w, IsSeq(w), Flow(p, c \o w),
           NEW n \in 1..Len(w), NEW r, ReadOf(r, c, w, n),
           NEW e, e = last_instruction_boundary(r), e # 0, NEW d, d = 0
    PROVE  FoldLeft(Received, d, SubSeq(r, 1, e)) = 0
<1> DEFINE u == c \o w
           s == SubSeq(u, 1, e)
<1>1. Len(r) \in Nat
  BY SeqLen DEF ReadOf
<1>2. e \in 0..Len(r) /\ r[e].last
  BY ReadEnds
<1>3. e \in 1..Len(r)
  BY <1>1, <1>2
<1>4. e \in 1..Len(u) /\ r[e] = u[e] /\ SubSeq(r, 1, e) = s
  BY <1>3, ReadPasses, SMTT(30)
<1>5. Flow(p, u)
  OBVIOUS
<1> HIDE DEF u
<1>6. IsSeq(u) /\ Len(u) \in Nat
  BY <1>5, FlowSeq, SeqLen
<1>7. /\ e \in Nat /\ 1 \in Nat /\ 1 <= 1 /\ 1 <= e + 1 /\ e <= Len(u) /\ e - 1 + 1 = e
      /\ \A k \in 1..e : 1 + k - 1 = k
  BY <1>4, <1>6
<1>8. SubOf(s, u, 1, e)
  BY <1>6, <1>7, SubSeqCuts
<1> HIDE DEF s
<1>9. (\E S : s \in Seq(S)) /\ Len(s) = e /\ \A k \in 1..e : s[k] = u[k]
  BY <1>7, <1>8 DEF SubOf, IsSeq
<1>10. u[e].last
  BY <1>2, <1>4
<1>11. FoldLeft(Received, d, s) = 0
  <2>1. \E S : s \in Seq(S)
    BY <1>9
  <2>2. Len(s) = e
    BY <1>9
  <2>3. \A k \in 1..e : s[k] = u[k]
    BY <1>9
  <2>4. e \in 1..Len(u) /\ d = 0
    BY <1>4
  <2> QED BY <1>5, <1>10, <2>1, <2>2, <2>3, <2>4, AllReceived, Zenon
<1> QED BY <1>4, <1>11

-----------------------------------------------------------------------------
(* The pump *)

\* The dropper drops a stream that is open, and none before it decided to;
\* behind it the reader is between streams as long as it drops one.
Dropper(d, p) ==
    /\ d.open \in BOOLEAN /\ d.state \in {"deciding", "dropping", "off"}
    /\ d.state = "deciding" => d.open = FALSE
    /\ d.state = "dropping" /\ d.open => p # "between"
Downstream(d, p) == IF d.state = "dropping" /\ d.open THEN "between" ELSE p

\* A reader that was told of no stream takes what is left of one for nothing.
LEMMA ShownAnywhere ==
    ASSUME NEW p, NEW sp, NEW b, Shown("between", sp, b)
    PROVE  Shown(p, sp, b)
BY DEF Shown

LEMMA DecidedIs ==
    ASSUME NEW st \in {"deciding", "dropping", "off"}, NEW v
    PROVE  /\ Decided(st, v) \in {"deciding", "dropping", "off"}
           /\ Decided(st, v) = "deciding" => st = "deciding"
           /\ Decided(st, v) = "dropping" => st # "off"
BY DEF Decided

\* A chunk through the dropper, which may begin or stop to drop with it.
LEMMA ProcessOrderly ==
    ASSUME NEW p \in Place, NEW s, NEW q, Orderly(p, s, q), Dropper(drop, p),
           NEW sp, NEW b, Shown(Downstream(drop, p), sp, b)
    PROVE  /\ Dropper(process(s).drop, q)
           /\ \E d \in Place : Orderly(d, process(s).out, Downstream(process(s).drop, q)) /\ Shown(d, sp, b)
<1> DEFINE a == process(s)
           g == filter(drop.open, s)
<1>0. /\ drop.open \in BOOLEAN /\ drop.state \in {"deciding", "dropping", "off"}
      /\ drop.state = "deciding" => drop.open = FALSE
      /\ drop.state = "dropping" /\ drop.open => p # "between"
  BY DEF Dropper
<1>1. PICK st : /\ st = "off" \/ \E v : st = Decided(drop.state, v)
                /\ a.drop.state = st
                /\ a.drop.open = IF st = "dropping" THEN g.open ELSE drop.open
                /\ a.out = IF st = "dropping" THEN g.out ELSE s
  <2> DEFINE second == drop.state # "off" /\ other_surface(drop, s)
             pr == IF second THEN probe ELSE FoldLeft(observe, probe, s)
             st == IF second THEN "off" ELSE Decided(drop.state, safety(pr))
             f == IF st = "dropping" THEN g ELSE [open |-> drop.open, out |-> s]
             first == IF drop.state = "off" THEN drop.first ELSE FirstSurface(drop, s)
             blind == drop.blind \/ (st = "dropping" /\ ~ Seen(pr, host.shape))
             said == st = "dropping"
  <2>1. a = [probe |-> pr, out |-> f.out,
             drop |-> [state |-> st, open |-> f.open, announced |-> said, blind |-> blind, first |-> first]]
    BY Zenon DEF process
  <2>2. st = "off" \/ \E v : st = Decided(drop.state, v)
    BY Zenon
  <2> HIDE DEF second, pr, st, g, a, first, blind, said
  <2>3. f.open = (IF st = "dropping" THEN g.open ELSE drop.open) /\ f.out = IF st = "dropping" THEN g.out ELSE s
    OBVIOUS
  <2> HIDE DEF f
  <2>4. a.drop.state = st /\ a.drop.open = f.open /\ a.out = f.out
    BY <2>1
  <2> QED BY <2>2, <2>3, <2>4
<1> HIDE DEF a, g
<1>2. /\ st \in {"deciding", "dropping", "off"}
      /\ st = "deciding" => drop.state = "deciding"
      /\ st = "dropping" => drop.state # "off"
  BY <1>0, <1>1, DecidedIs
<1>3. CASE st = "dropping"
  <2> DEFINE o == drop.open
             d == IF o THEN "between" ELSE p
  <2>1. o \in BOOLEAN /\ (o => p # "between") /\ Downstream(drop, p) = d
    BY <1>0, <1>2, <1>3 DEF Downstream
  <2>2. Kept(g, d, q)
    <3> HIDE DEF o
    <3>1. Kept(filter(o, s), IF o THEN "between" ELSE p, q)
      BY <2>1, FilterOrderly
    <3> QED BY <3>1 DEF o, g
  <2>3. d \in Place
    BY DEF Place
  <2> HIDE DEF d
  <2>4. /\ g.open \in BOOLEAN /\ (g.open => q # "between")
        /\ Orderly(d, g.out, IF g.open THEN "between" ELSE q)
    BY <2>2 DEF Kept
  <2>5. a.drop.state = "dropping" /\ a.drop.open = g.open /\ a.out = g.out
    BY <1>1, <1>3
  <2>6. Dropper(a.drop, q) /\ Downstream(a.drop, q) = IF g.open THEN "between" ELSE q
    BY <2>4, <2>5 DEF Dropper, Downstream
  <2>7. Orderly(d, a.out, Downstream(a.drop, q)) /\ Shown(d, sp, b)
    BY <2>1, <2>4, <2>5, <2>6
  <2> QED BY <2>3, <2>6, <2>7 DEF a
<1>4. CASE st # "dropping"
  <2>1. a.drop.state = st /\ a.drop.open = drop.open /\ a.out = s
    BY <1>1, <1>4
  <2>2. Dropper(a.drop, q) /\ Downstream(a.drop, q) = q
    BY <1>0, <1>2, <1>4, <2>1 DEF Dropper, Downstream
  <2>3. Shown(p, sp, b)
    BY ShownAnywhere DEF Downstream
  <2>4. Orderly(p, a.out, Downstream(a.drop, q))
    BY <2>1, <2>2
  <2> QED BY <2>2, <2>3, <2>4 DEF a
<1> QED BY <1>3, <1>4

LEMMA ShownTold ==
    ASSUME NEW p, NEW sp, NEW b, Shown(p, sp, b), NEW t
    PROVE  Shown(p, sp, [b EXCEPT !.told = t])
BY DEF Shown

\* A chunk on its way to the browser.
LEMMA ForwardShows ==
    ASSUME NEW p \in Place, NEW sent, NEW s, s = Instructions(sent), NEW q, Orderly(p, s, q),
           Dropper(drop, p), split \in BOOLEAN,
           Shown(Downstream(drop, p), split, browser), Forward(sent)
    PROVE  /\ Dropper(drop', q) /\ split' \in BOOLEAN
           /\ Shown(Downstream(drop', q), split', browser')
<1> DEFINE a == process(s)
           y == [sps EXCEPT !.gaps = wants_frame_num_gaps(a.drop)]
           r == rewrite(y, a.out)
           b == [browser EXCEPT !.told = a.drop.announced]
           x == FoldLeft(split_one, [open |-> split, out |-> <<>>], r.out)
<1>1. /\ drop' = a.drop /\ split' = x.open
      /\ browser' = FoldLeft(receive, b, x.out)
  BY Zenon DEF Forward
<1>2. Shown(Downstream(drop, p), split, b)
  <2> DEFINE t == a.drop.announced
  <2> HIDE DEF a, t
  <2>1. Shown(Downstream(drop, p), split, [browser EXCEPT !.told = t])
    BY ShownTold
  <2> QED BY <2>1 DEF t
<1> HIDE DEF b
<1>3. /\ Dropper(a.drop, q)
      /\ \E d \in Place : Orderly(d, a.out, Downstream(a.drop, q)) /\ Shown(d, split, b)
  BY <1>2, ProcessOrderly
<1> HIDE DEF a
<1>4. PICK d \in Place : Orderly(d, a.out, Downstream(a.drop, q)) /\ Shown(d, split, b)
  BY <1>3
<1> DEFINE q2 == Downstream(a.drop, q)
           s2 == a.out
<1>5. Orderly(d, r.out, q2)
  <2>1. Orderly(d, s2, q2)
    BY <1>4
  <2> HIDE DEF q2, s2, y
  <2>2. Orderly(d, rewrite(y, s2).out, q2)
    BY <2>1, RewriteOrderly
  <2> QED BY <2>2 DEF s2
<1> HIDE DEF r, q2
<1>6. x.open \in BOOLEAN /\ Shown(q2, x.open, FoldLeft(receive, b, x.out))
  <2> DEFINE s3 == r.out
  <2>1. Orderly(d, s3, q2)
    BY <1>5
  <2>2. x = FoldLeft(split_one, [open |-> split, out |-> <<>>], s3)
    OBVIOUS
  <2> HIDE DEF s3, x
  <2> QED BY <1>4, <2>1, <2>2, ChunkShown
<1> HIDE DEF x
<1>7. Shown(Downstream(drop', q), split', browser')
  BY <1>1, <1>6, Zenon DEF q2
<1> QED BY <1>1, <1>3, <1>6, <1>7, Zenon

-----------------------------------------------------------------------------
(* The invariant of the stream *)

\* Where the pump has come to, everything behind it is whole instructions in
\* order, and the browser was shown whole streams.
Pumped(p, u) ==
    /\ Flow(p, u)
    /\ Dropper(drop, p) /\ split \in BOOLEAN
    /\ Shown(Downstream(drop, p), split, browser)

\* Until the pump has flushed a full carry, when nothing is due in the parser.
Undisturbed ==
    /\ parser = [due |-> 0, spliced |-> FALSE, forced |-> FALSE]
    /\ \E p \in Place : Pumped(p, carry \o wire)

StreamInv ==
    /\ IsSeq(carry) /\ IsSeq(wire) /\ DOMAIN parser = {"due", "spliced", "forced"}
    /\ parser.forced \/ Undisturbed

LEMMA JoinAssociative ==
    ASSUME NEW c, IsSeq(c), NEW w, IsSeq(w), NEW v, IsSeq(v)
    PROVE  c \o (w \o v) = (c \o w) \o v
<1>1. PICK S : c \in Seq(S) /\ w \in Seq(S)
  BY TwoSeqs DEF IsSeq
<1>2. PICK T : v \in Seq(T)
  BY DEF IsSeq
<1> DEFINE R == S \cup T
<1>3. c \in Seq(R) /\ w \in Seq(R) /\ v \in Seq(R)
  BY <1>1, <1>2, SeqWider
<1> HIDE DEF R
<1> QED BY <1>3, ConcatAssociative

LEMMA NoneJoined ==
    ASSUME NEW z, z = << >>
    PROVE  IsSeq(z) /\ z \o z = z
<1>1. z \in Seq({}) /\ Len(z) = 0
  OBVIOUS
<1>2. IsSeq(z)
  BY <1>1, Zenon DEF IsSeq
<1>3. IsSeq(z \o z) /\ Len(z \o z) = 0 + 0
  BY <1>1, <1>2, JoinIs
<1>4. z \o z = z
  BY <1>1, <1>2, <1>3, SeqsEqual
<1> QED BY <1>2, <1>4

LEMMA StreamStart == StreamInit => StreamInv
<1> SUFFICES ASSUME StreamInit PROVE StreamInv
  OBVIOUS
<1>1. /\ wire = << >> /\ carry = << >> /\ split = FALSE
      /\ parser = [due |-> 0, spliced |-> FALSE, forced |-> FALSE]
      /\ browser = [open |-> None, data |-> <<>>, dpb |-> NoPictures, sps |-> None,
                    told |-> FALSE, torn |-> FALSE, wrongform |-> FALSE, lost |-> {}]
      /\ drop \in for_session
  BY Zenon DEF StreamInit
<1>2. drop.state \in {"deciding", "off"} /\ drop.open = FALSE
  BY <1>1 DEF for_session
<1>3. Flow("between", << >>)
  <2>1. \E S : << >> \in Seq(S)
    BY NoneJoined DEF IsSeq
  <2>2. Len(<< >>) = 0 /\ 1..0 = {}
    OBVIOUS
  <2> QED BY <2>1, <2>2 DEF Flow
<1>4. Dropper(drop, "between") /\ Downstream(drop, "between") = "between"
  BY <1>2 DEF Dropper, Downstream
<1>5. Shown("between", split, browser)
  BY <1>1 DEF Shown
<1>6. Pumped("between", carry \o wire)
  <2>1. carry \o wire = carry /\ carry = << >>
    BY <1>1, NoneJoined
  <2>2. split \in BOOLEAN
    BY <1>1
  <2> QED BY <1>3, <1>4, <1>5, <2>1, <2>2, Zenon DEF Pumped
<1>7. "between" \in Place
  BY DEF Place
<1>8. IsSeq(carry) /\ IsSeq(wire)
  BY <1>1, NoneJoined
<1>9. DOMAIN parser = {"due", "spliced", "forced"}
  BY <1>1
<1>10. Undisturbed
  BY <1>1, <1>6, <1>7, Zenon DEF Undisturbed
<1> QED BY <1>8, <1>9, <1>10, Zenon DEF StreamInv

\* guacd writes whole instructions behind the ones it wrote.
LEMMA SendingKeeps ==
    ASSUME StreamInv, NEW v, Flow("between", v), wire' = wire \o v, UNCHANGED Pump
    PROVE  StreamInv'
<1>0. /\ IsSeq(carry) /\ IsSeq(wire) /\ IsSeq(v) /\ DOMAIN parser = {"due", "spliced", "forced"}
      /\ parser.forced \/ Undisturbed
  BY FlowSeq DEF StreamInv
<1>2. /\ carry' = carry /\ drop' = drop /\ split' = split /\ browser' = browser /\ parser' = parser
  BY DEF Pump
<1>5. IsSeq(carry') /\ IsSeq(wire')
  BY <1>0, <1>2, JoinIs
<1>6. ASSUME Undisturbed PROVE Undisturbed'
  <2>1. PICK p \in Place : Pumped(p, carry \o wire)
    BY <1>6 DEF Undisturbed
  <2>2. Flow(p, (carry \o wire) \o v)
    <3> DEFINE u == carry \o wire
    <3>1. Flow(p, u)
      BY <2>1 DEF Pumped
    <3> HIDE DEF u
    <3>2. Flow(p, u \o v)
      BY <3>1, FlowJoin
    <3> QED BY <3>2 DEF u
  <2>3. carry' \o wire' = (carry \o wire) \o v
    BY <1>0, <1>2, JoinAssociative
  <2>4. Dropper(drop', p) /\ split' \in BOOLEAN /\ Shown(Downstream(drop', p), split', browser')
    BY <1>2, <2>1 DEF Pumped
  <2>5. Flow(p, carry' \o wire')
    BY <2>2, <2>3
  <2>6. parser' = [due |-> 0, spliced |-> FALSE, forced |-> FALSE]
    BY <1>2, <1>6 DEF Undisturbed
  <2> QED BY <2>4, <2>5, <2>6 DEF Undisturbed, Pumped
<1> QED BY <1>0, <1>2, <1>5, <1>6 DEF StreamInv

\* A read of the pump: it carries over what it read, and may pass on a chunk
\* of whole instructions, or flush a full carry.
LEMMA ReadStep ==
    ASSUME NEW n \in 1..Len(wire), guacd_to_ws(n),
           NEW r, r = carry \o SubSeq(wire, 1, n), NEW e, e = last_instruction_boundary(r)
    PROVE  /\ wire' = SubSeq(wire, n + 1, Len(wire)) /\ host' = host
           /\ \/ /\ e = 0 /\ carry' = SubSeq(r, e + 1, Len(r))
                 /\ UNCHANGED <<probe, drop, sps, split, browser, parser>>
              \/ e # 0 /\ carry' = SubSeq(r, e + 1, Len(r)) /\ Forward(SubSeq(r, 1, e))
              \/ carry' = SubSeq(r, Len(r) + 1, Len(r)) /\ FlushFull(SubSeq(r, 1, Len(r)))
<1> DEFINE flushed == e = 0 /\ Len(r) > MaxCarry
           end == IF flushed THEN Len(r) ELSE e
           sent == SubSeq(r, 1, end)
<1>1. /\ wire' = SubSeq(wire, n + 1, Len(wire)) /\ host' = host
      /\ carry' = SubSeq(r, end + 1, Len(r))
      /\ \/ end = 0 /\ UNCHANGED <<probe, drop, sps, split, browser, parser>>
         \/ e # 0 /\ Forward(sent)
         \/ flushed /\ FlushFull(sent)
  BY Zenon DEF guacd_to_ws
<1>2. CASE end = 0 /\ UNCHANGED <<probe, drop, sps, split, browser, parser>>
  <2>1. e = 0 /\ end = e
    <3>1. CASE flushed
      BY <1>2, <3>1
    <3>2. CASE ~ flushed
      BY <1>2, <3>2
    <3> QED BY <3>1, <3>2
  <2> QED BY <1>1, <1>2, <2>1, Zenon
<1>3. CASE e # 0 /\ Forward(sent)
  <2>1. end = e
    BY <1>3
  <2> QED BY <1>1, <1>3, <2>1, Zenon
<1>4. CASE flushed /\ FlushFull(sent)
  <2>1. end = Len(r)
    BY <1>4
  <2> QED BY <1>1, <1>4, <2>1, Zenon
<1> QED BY <1>1, <1>2, <1>3, <1>4

LEMMA ForwardParser ==
    ASSUME NEW sent, Forward(sent), DOMAIN parser = {"due", "spliced", "forced"}
    PROVE  /\ DOMAIN parser' = {"due", "spliced", "forced"}
           /\ parser' = [parser EXCEPT !.due = FoldLeft(Received, parser.due, sent)]
           /\ parser'.forced = parser.forced
<1> DEFINE d == FoldLeft(Received, parser.due, sent)
<1>1. parser' = [parser EXCEPT !.due = d]
  BY Zenon DEF Forward
<1> HIDE DEF d
<1>2. /\ DOMAIN parser' = {"due", "spliced", "forced"}
      /\ parser'.forced = parser.forced
  BY <1>1
<1> QED BY <1>1, <1>2 DEF d

LEMMA FlushParser ==
    ASSUME NEW sent, FlushFull(sent), DOMAIN parser = {"due", "spliced", "forced"}
    PROVE  DOMAIN parser' = {"due", "spliced", "forced"} /\ parser'.forced = TRUE
<1> DEFINE d == FoldLeft(Received, parser.due, sent)
<1>1. parser' = [parser EXCEPT !.due = d, !.forced = TRUE]
  BY Zenon DEF FlushFull
<1> HIDE DEF d
<1> QED BY <1>1

LEMMA ReadingKeeps ==
    ASSUME StreamInv, NEW n \in 1..Len(wire), guacd_to_ws(n)
    PROVE  StreamInv'
<1> DEFINE r == carry \o SubSeq(wire, 1, n)
           e == last_instruction_boundary(r)
           l == Len(r)
           Fields == DOMAIN parser = {"due", "spliced", "forced"}
<1>0. /\ IsSeq(carry) /\ IsSeq(wire) /\ Fields
      /\ parser.forced \/ Undisturbed
  BY Zenon DEF StreamInv
<1>1. /\ wire' = SubSeq(wire, n + 1, Len(wire))
      /\ \/ /\ e = 0 /\ carry' = SubSeq(r, e + 1, Len(r))
            /\ UNCHANGED <<probe, drop, sps, split, browser, parser>>
         \/ e # 0 /\ carry' = SubSeq(r, e + 1, Len(r)) /\ Forward(SubSeq(r, 1, e))
         \/ carry' = SubSeq(r, l + 1, Len(r)) /\ FlushFull(SubSeq(r, 1, Len(r)))
  BY ReadStep, Zenon
<1>2. ReadOf(r, carry, wire, n)
  BY <1>0, ReadIs
<1> HIDE DEF r
<1>3. IsSeq(r)
  BY <1>2 DEF ReadOf
<1>4. e \in 0..Len(r) /\ l \in 0..Len(r)
  <2>1. e \in 0..Len(r)
    BY <1>3, BoundaryWithin DEF IsSeq
  <2>2. l \in 0..Len(r)
    BY <1>3, SeqLen
  <2> QED BY <2>1, <2>2
<1>e. e = last_instruction_boundary(r)
  OBVIOUS
<1> HIDE DEF e, l
<1>5. IsSeq(wire')
  BY <1>0, <1>1, <1>2, <1>4, ReadLeaves
<1>6. IsSeq(SubSeq(r, e + 1, Len(r))) /\ IsSeq(SubSeq(r, l + 1, Len(r)))
  BY <1>0, <1>2, <1>4, ReadLeaves
<1>7. IsSeq(carry')
  BY <1>1, <1>6
<1>8. CASE e = 0 /\ carry' = SubSeq(r, e + 1, Len(r)) /\ UNCHANGED <<probe, drop, sps, split, browser, parser>>
  <2>1. drop' = drop /\ split' = split /\ browser' = browser /\ parser' = parser
    BY <1>8
  <2>2. ASSUME Undisturbed PROVE Undisturbed'
    <3>1. PICK p \in Place : Pumped(p, carry \o wire)
      BY <2>2 DEF Undisturbed
    <3>2. Flow(p, carry \o wire) /\ e = 0
      BY <1>8, <3>1 DEF Pumped
    <3>3. Flow(p, carry' \o wire')
      BY <1>0, <1>1, <1>2, <1>4, <1>8, <3>2, ReadNothing
    <3>4. Dropper(drop', p) /\ split' \in BOOLEAN /\ Shown(Downstream(drop', p), split', browser')
      BY <2>1, <3>1 DEF Pumped
    <3>5. parser' = [due |-> 0, spliced |-> FALSE, forced |-> FALSE]
      BY <2>1, <2>2 DEF Undisturbed
    <3> QED BY <3>3, <3>4, <3>5 DEF Undisturbed, Pumped
  <2> QED BY <1>0, <1>5, <1>7, <2>1, <2>2 DEF StreamInv
<1>9. CASE e # 0 /\ carry' = SubSeq(r, e + 1, Len(r)) /\ Forward(SubSeq(r, 1, e))
  <2> DEFINE sent == SubSeq(r, 1, e)
             s == Instructions(sent)
  <2>1. Forward(sent)
    BY <1>9
  <2>s. s = Instructions(sent) /\ sent = SubSeq(r, 1, e)
    OBVIOUS
  <2> HIDE DEF s, sent
  <2>2. /\ DOMAIN parser' = {"due", "spliced", "forced"}
        /\ parser' = [parser EXCEPT !.due = FoldLeft(Received, parser.due, sent)]
        /\ parser'.forced = parser.forced
    BY <1>0, <2>1, ForwardParser
  <2>3. ASSUME Undisturbed PROVE Undisturbed'
    <3>1. PICK p \in Place : Pumped(p, carry \o wire)
      BY <2>3 DEF Undisturbed
    <3>2. /\ Flow(p, carry \o wire) /\ Dropper(drop, p) /\ split \in BOOLEAN
          /\ Shown(Downstream(drop, p), split, browser)
      BY <3>1 DEF Pumped
    <3>3. \E q \in Place : /\ Orderly(p, Instructions(SubSeq(r, 1, e)), q)
                           /\ Flow(q, SubSeq(r, e + 1, Len(r)) \o SubSeq(wire, n + 1, Len(wire)))
      BY <1>0, <1>2, <1>9, <1>e, <3>2, ReadSome
    <3>4. PICK q \in Place : Orderly(p, s, q) /\ Flow(q, carry' \o wire')
      BY <1>1, <1>9, <2>s, <3>3, Zenon
    <3>5. /\ Dropper(drop', q) /\ split' \in BOOLEAN
          /\ Shown(Downstream(drop', q), split', browser')
      BY <2>1, <2>s, <3>2, <3>4, ForwardShows
    <3> DEFINE d == parser.due
               z == FoldLeft(Received, d, sent)
    <3>6. d = 0 /\ parser = [due |-> 0, spliced |-> FALSE, forced |-> FALSE]
      BY <2>3 DEF Undisturbed
    <3>7. z = 0
      <4> HIDE DEF d
      <4>1. FoldLeft(Received, d, SubSeq(r, 1, e)) = 0
        BY <1>0, <1>2, <1>9, <1>e, <3>2, <3>6, NothingHangs
      <4> QED BY <2>s, <4>1
    <3>8. parser' = [parser EXCEPT !.due = z]
      BY <2>2
    <3> HIDE DEF z
    <3>9. parser' = [due |-> 0, spliced |-> FALSE, forced |-> FALSE]
      BY <3>6, <3>7, <3>8
    <3> QED BY <3>4, <3>5, <3>9 DEF Undisturbed, Pumped
  <2> QED BY <1>0, <1>5, <1>7, <2>2, <2>3 DEF StreamInv
<1>10. CASE carry' = SubSeq(r, l + 1, Len(r)) /\ FlushFull(SubSeq(r, 1, Len(r)))
  <2> DEFINE sent == SubSeq(r, 1, Len(r))
  <2>1. FlushFull(sent)
    BY <1>10
  <2> HIDE DEF sent
  <2>2. DOMAIN parser' = {"due", "spliced", "forced"} /\ parser'.forced = TRUE
    BY <1>0, <2>1, FlushParser
  <2> QED BY <1>5, <1>7, <2>2 DEF StreamInv
<1> QED BY <1>1, <1>8, <1>9, <1>10

LEMMA StreamStep == StreamInv /\ [StreamNext]_streamVars => StreamInv'
<1> SUFFICES ASSUME StreamInv, [StreamNext]_streamVars PROVE StreamInv'
  OBVIOUS
<1>1. ASSUME NEW view, NEW idr, SendView(view, idr) PROVE StreamInv'
  <2>1. PICK s : wire' = wire \o Send(Encode(host, s).slice, FALSE)
    BY <1>1, Zenon DEF SendView
  <2> DEFINE v == Send(Encode(host, s).slice, FALSE)
  <2>2. Flow("between", v)
    BY FlowSend
  <2>3. wire' = wire \o v /\ UNCHANGED Pump
    BY <1>1, <2>1, Zenon DEF SendView
  <2> HIDE DEF v
  <2> QED BY <2>2, <2>3, SendingKeeps
<1>2. ASSUME NEW idr, SendPair(idr) PROVE StreamInv'
  <2>1. PICK s, t : wire' = wire \o Send(Encode(host, s).slice, TRUE)
                                 \o Send(Encode(Encode(host, s).host, t).slice, FALSE)
    BY <1>2, Zenon DEF SendPair
  <2> DEFINE a == Send(Encode(host, s).slice, TRUE)
             b == Send(Encode(Encode(host, s).host, t).slice, FALSE)
             v == a \o b
  <2>2. Flow("between", a) /\ Flow("between", b)
    BY FlowSend
  <2>3. wire' = (wire \o a) \o b /\ UNCHANGED Pump
    BY <1>2, <2>1, Zenon DEF SendPair
  <2> HIDE DEF a, b
  <2>4. Flow("between", v)
    BY <2>2, FlowJoin
  <2>5. IsSeq(wire) /\ IsSeq(a) /\ IsSeq(b)
    BY <2>2, FlowSeq DEF StreamInv
  <2>6. wire' = wire \o v
    BY <2>3, <2>5, JoinAssociative
  <2> HIDE DEF v
  <2> QED BY <2>3, <2>4, <2>6, SendingKeeps
<1>3. ASSUME NEW what, SendOther(what) PROVE StreamInv'
  <2> DEFINE v == Other(what)
  <2>1. Flow("between", v)
    BY FlowOther
  <2>2. wire' = wire \o v /\ UNCHANGED Pump
    BY <1>3, Zenon DEF SendOther
  <2> HIDE DEF v
  <2> QED BY <2>1, <2>2, SendingKeeps
<1>4. ASSUME NEW n \in 1..Len(wire), guacd_to_ws(n) PROVE StreamInv'
  BY <1>4, ReadingKeeps
<1>5. CASE ws_to_guacd
  <2>1. /\ carry' = carry /\ wire' = wire /\ drop' = drop /\ split' = split /\ browser' = browser
    BY <1>5 DEF ws_to_guacd
  <2>2. ASSUME Undisturbed PROVE Undisturbed'
    <3>0. parser = [due |-> 0, spliced |-> FALSE, forced |-> FALSE]
      BY <2>2 DEF Undisturbed
    <3> DEFINE now == parser.spliced \/ parser.due # 0
    <3>1. now = FALSE /\ parser' = [parser EXCEPT !.spliced = now]
      BY <1>5, <3>0 DEF ws_to_guacd
    <3>2. parser' = [due |-> 0, spliced |-> FALSE, forced |-> FALSE]
      BY <3>0, <3>1
    <3> QED BY <2>1, <2>2, <3>2 DEF Undisturbed, Pumped
  <2>3. DOMAIN parser' = DOMAIN parser /\ (parser.forced => parser'.forced)
    <3> DEFINE now == parser.spliced \/ parser.due # 0
    <3>1. parser' = [parser EXCEPT !.spliced = now] /\ DOMAIN parser = {"due", "spliced", "forced"}
      BY <1>5, Zenon DEF ws_to_guacd, StreamInv
    <3> HIDE DEF now
    <3>2. DOMAIN parser' = DOMAIN parser /\ parser'.forced = parser.forced
      BY <3>1
    <3> QED BY <3>2
  <2>4. IsSeq(carry') /\ IsSeq(wire')
    BY <2>1 DEF StreamInv
  <2> QED BY <2>2, <2>3, <2>4 DEF StreamInv
<1>6. CASE UNCHANGED streamVars
  <2>1. /\ carry' = carry /\ wire' = wire /\ drop' = drop /\ split' = split /\ browser' = browser
        /\ parser' = parser
    BY <1>6 DEF streamVars
  <2> QED BY <2>1 DEF StreamInv, Undisturbed, Pumped
<1> QED BY <1>1, <1>2, <1>3, <1>4, <1>5, <1>6, Zenon DEF StreamNext

\* StreamInv holds throughout, for any hosts and any cut of the reads.
THEOREM StreamInvariant == StreamSpec => []StreamInv
BY StreamStart, StreamStep, PTL DEF StreamSpec

\* Unless the pump had to flush a full carry, the echo of a ping (ws_to_guacd)
\* never lands inside an instruction, wherever the reads of guacd's socket end:
\* the scan by lengths (last_instruction_boundary) and the browser's parser,
\* which counts for itself what is due, agree on the end of every message.
THEOREM PingsBetween == StreamSpec => []NeverSpliced
<1>1. StreamInv => NeverSpliced
  BY DEF StreamInv, Undisturbed, NeverSpliced
<1> QED BY <1>1, StreamInvariant, PTL

\* The browser gets every stream it is told of whole, and binary frames only
\* for streams that take them: through AuxDropper, SpsRewriter and BlobSplitter,
\* whatever the hosts do, whenever a drop begins or ends, until a full carry
\* has been flushed past them.
THEOREM StreamsAreWhole == StreamSpec => []WholeStreams
<1>1. StreamInv => WholeStreams
  BY DEF StreamInv, Undisturbed, Pumped, Shown, WholeStreams
<1> QED BY <1>1, StreamInvariant, PTL

-----------------------------------------------------------------------------
(* Types of the stream *)

\* What a step of a fold leaves as it is: the counts within their bounds, the
\* state of the rewriter one of three, the notice in the browser, and that what
\* comes out is a sequence.
Tallied(p) == {"main", "aux"} \subseteq DOMAIN p /\ p.main \in 0..MinMain /\ p.aux \in 0..MinAux
Rewriter(x) == {"state", "bound"} \subseteq DOMAIN x /\ x.state \in {"undecided", "rewriting", "pass"}
Fine(name, a, t) ==
    CASE name = "observe" -> Tallied(a)
      [] name = "rewrite" -> DOMAIN a = {"sps", "out"} /\ Rewriter(a.sps) /\ IsSeq(a.out)
      [] name = "receive" -> "told" \in DOMAIN a /\ a.told = t
      [] name = "element" -> IsSeq(a)
      [] name = "classify" -> DOMAIN a = {"open", "out"} /\ IsSeq(a.out)
      [] name = "split" -> DOMAIN a = {"open", "out"} /\ IsSeq(a.out)
FoldNames == {"observe", "rewrite", "receive", "element", "classify", "split"}

LEMMA SeqLonger ==
    ASSUME NEW s, IsSeq(s), NEW x
    PROVE  IsSeq(Append(s, x))
BY AppendIs DEF IsSeq

LEMMA UpToBound ==
    ASSUME NEW m \in Nat, NEW n \in 0..m
    PROVE  UpTo(n, m) \in 0..m
BY DEF UpTo

LEMMA AbsorbCounts ==
    ASSUME NEW p, Tallied(p), NEW blob
    PROVE  Tallied(absorb(p, blob))
<1>0. MinMain \in Nat /\ MinAux \in Nat
  BY BoundsAssumption
<1>1. p.main \in 0..MinMain /\ p.aux \in 0..MinAux /\ {"main", "aux"} \subseteq DOMAIN p
  BY DEF Tallied
<1>2. UpTo(p.main, MinMain) \in 0..MinMain /\ UpTo(p.aux, MinAux) \in 0..MinAux
  BY <1>0, <1>1, UpToBound
<1> DEFINE a == absorb(p, blob)
<1>3. /\ DOMAIN a = DOMAIN p
      /\ a.main \in {p.main, UpTo(p.main, MinMain)} /\ a.aux \in {p.aux, UpTo(p.aux, MinAux)}
  BY <1>1 DEF absorb
<1> HIDE DEF a
<1>4. Tallied(a)
  BY <1>1, <1>2, <1>3 DEF Tallied
<1> QED BY <1>4 DEF a

LEMMA AnalyseCounts ==
    ASSUME NEW p, Tallied(p), NEW blob
    PROVE  Tallied(analyse(p, blob))
BY AbsorbCounts DEF analyse

LEMMA OpenCounts ==
    ASSUME NEW p, Tallied(p), NEW x
    PROVE  Tallied([p EXCEPT !.open = x])
BY DEF Tallied

LEMMA ObserveCounts ==
    ASSUME NEW p, Tallied(p), NEW i
    PROVE  Tallied(observe(p, i))
<1>1. \E q, x : Tallied(q) /\ (observe(p, i) = q \/ observe(p, i) = [q EXCEPT !.open = x])
  <2> DEFINE a == analyse(p, i)
             b == analyse(p, p.open[1])
  <2>1. Tallied(a) /\ Tallied(b)
    BY AnalyseCounts
  <2>2. \/ observe(p, i) = [p EXCEPT !.open = <<>>]
        \/ observe(p, i) = [a EXCEPT !.open = None]
        \/ observe(p, i) = [p EXCEPT !.open = <<i>>]
        \/ observe(p, i) = [b EXCEPT !.open = None]
        \/ observe(p, i) = [p EXCEPT !.open = None]
        \/ observe(p, i) = p
    BY DEF observe
  <2> HIDE DEF a, b
  <2> QED BY <2>1, <2>2
<1> QED BY <1>1, OpenCounts

LEMMA PayloadFine ==
    ASSUME NEW x, Rewriter(x), NEW i
    PROVE  Rewriter(rewritten_payload(x, i).sps)
<1>1. \E st \in {"undecided", "rewriting", "pass"} : \E bound :
          rewritten_payload(x, i).sps = [x EXCEPT !.state = st, !.bound = bound]
  BY DEF rewritten_payload, Rewriter
<1> QED BY <1>1 DEF Rewriter

LEMMA RewriteFine ==
    ASSUME NEW r, DOMAIN r = {"sps", "out"}, Rewriter(r.sps), IsSeq(r.out), NEW i
    PROVE  DOMAIN RewriteOne(r, i) = {"sps", "out"} /\ Rewriter(RewriteOne(r, i).sps) /\ IsSeq(RewriteOne(r, i).out)
<1> DEFINE w == rewritten_payload(r.sps, i)
           e == RewriteOne(r, i)
<1>1. Rewriter(w.sps)
  BY PayloadFine
<1>2. \E y : /\ \/ \E o : e = [r EXCEPT !.sps.open = o, !.out = Append(r.out, y)]
                \/ e = [sps |-> w.sps, out |-> Append(r.out, y)]
                \/ e = [r EXCEPT !.out = Append(r.out, y)]
  BY DEF RewriteOne
<1> HIDE DEF e, w
<1>3. PICK y : /\ \/ \E o : e = [r EXCEPT !.sps.open = o, !.out = Append(r.out, y)]
                  \/ e = [sps |-> w.sps, out |-> Append(r.out, y)]
                  \/ e = [r EXCEPT !.out = Append(r.out, y)]
  BY <1>2
<1> DEFINE out == Append(r.out, y)
<1>4. IsSeq(out)
  BY SeqLonger
<1> HIDE DEF out
<1>5. DOMAIN e = {"sps", "out"} /\ Rewriter(e.sps) /\ e.out = out
  <2>1. ASSUME NEW o, e = [r EXCEPT !.sps.open = o, !.out = out]
        PROVE  DOMAIN e = {"sps", "out"} /\ Rewriter(e.sps) /\ e.out = out
    <3>1. DOMAIN e = {"sps", "out"} /\ e.sps = [r.sps EXCEPT !.open = o] /\ e.out = out
      BY <2>1
    <3> DEFINE x == r.sps
    <3>2. Rewriter([x EXCEPT !.open = o])
      <4>1. Rewriter(x)
        OBVIOUS
      <4> HIDE DEF x
      <4> QED BY <4>1 DEF Rewriter
    <3> QED BY <3>1, <3>2
  <2>2. ASSUME e = [sps |-> w.sps, out |-> out]
        PROVE  DOMAIN e = {"sps", "out"} /\ Rewriter(e.sps) /\ e.out = out
    BY <1>1, <2>2
  <2>3. ASSUME e = [r EXCEPT !.out = out]
        PROVE  DOMAIN e = {"sps", "out"} /\ Rewriter(e.sps) /\ e.out = out
    <3>1. DOMAIN e = {"sps", "out"} /\ e.sps = r.sps /\ e.out = out
      BY <2>3
    <3> QED BY <3>1
  <2> QED BY <1>3, <2>1, <2>2, <2>3 DEF out
<1> QED BY <1>4, <1>5 DEF e

LEMMA ClassifyFine ==
    ASSUME NEW f, DOMAIN f = {"open", "out"}, IsSeq(f.out), NEW i
    PROVE  DOMAIN classify(f, i) = {"open", "out"} /\ IsSeq(classify(f, i).out)
<1> DEFINE e == classify(f, i)
<1>1. \/ \E o : e = [f EXCEPT !.open = o]
      \/ \E y : e = [f EXCEPT !.out = Append(f.out, y)]
      \/ e = f
  BY DEF classify
<1> HIDE DEF e
<1>2. ASSUME NEW y, e = [f EXCEPT !.out = Append(f.out, y)]
      PROVE  DOMAIN e = {"open", "out"} /\ IsSeq(e.out)
  <2> DEFINE out == Append(f.out, y)
  <2>1. IsSeq(out)
    BY SeqLonger
  <2>2. e = [f EXCEPT !.out = out]
    BY <1>2
  <2> HIDE DEF out
  <2>3. DOMAIN e = {"open", "out"} /\ e.out = out
    BY <2>2
  <2> QED BY <2>1, <2>3
<1>3. ASSUME NEW o, e = [f EXCEPT !.open = o]
      PROVE  DOMAIN e = {"open", "out"} /\ IsSeq(e.out)
  BY <1>3
<1> QED BY <1>1, <1>2, <1>3 DEF e

LEMMA SplitFine ==
    ASSUME NEW x, IsSeq(x.out), NEW i
    PROVE  DOMAIN split_one(x, i) = {"open", "out"} /\ IsSeq(split_one(x, i).out)
<1> DEFINE e == split_one(x, i)
           o == i.op = "h264" \/ (x.open /\ i.op # "end")
           y == [in |-> i, binary |-> i.op = "blob" /\ x.open]
           out == Append(x.out, y)
<1>1. e = [open |-> o, out |-> out]
  BY Zenon DEF split_one
<1> HIDE DEF y
<1>2. IsSeq(out)
  BY SeqLonger
<1> HIDE DEF e, o, out
<1>3. DOMAIN e = {"open", "out"} /\ e.out = out
  BY <1>1
<1> QED BY <1>2, <1>3 DEF e

LEMMA ElementFine ==
    ASSUME NEW s, IsSeq(s), NEW u
    PROVE  IsSeq(element(s, u))
BY SeqLonger DEF element

LEMMA ReceiveFine ==
    ASSUME NEW b, NEW t, "told" \in DOMAIN b, b.told = t, NEW x
    PROVE  "told" \in DOMAIN receive(b, x) /\ receive(b, x).told = t
<1> DEFINE e == receive(b, x)
           d == decode(b, b.data[1])
<1>1. "told" \in DOMAIN d /\ d.told = t
  BY DecodeKeeps
<1>2. \/ \E o, a, c : e = [b EXCEPT !.open = o, !.data = a, !.torn = c]
      \/ \E o, a, c : e = [b EXCEPT !.data = o, !.sps = a, !.wrongform = c]
      \/ \E o, a, c : e = [d EXCEPT !.open = o, !.data = a, !.torn = c]
      \/ e = b
  BY DEF receive, onopen, onblob, onend
<1> HIDE DEF e, d
<1>3. "told" \in DOMAIN e /\ e.told = t
  BY <1>1, <1>2
<1> QED BY <1>3 DEF e

LEMMA StepFine ==
    ASSUME NEW name \in FoldNames, NEW a, NEW t, Fine(name, a, t), NEW x
    PROVE  Fine(name, Step(name, a, x), t)
<1>1. CASE name = "observe"
  BY <1>1, ObserveCounts DEF Fine, Step
<1>2. CASE name = "rewrite"
  BY <1>2, RewriteFine DEF Fine, Step
<1>3. CASE name = "receive"
  BY <1>3, ReceiveFine DEF Fine, Step
<1>4. CASE name = "element"
  BY <1>4, ElementFine DEF Fine, Step
<1>5. CASE name = "classify"
  BY <1>5, ClassifyFine DEF Fine, Step
<1>6. CASE name = "split"
  BY <1>6, SplitFine DEF Fine, Step
<1> QED BY <1>1, <1>2, <1>3, <1>4, <1>5, <1>6 DEF FoldNames

LEMMA FoldFine ==
    ASSUME NEW name \in FoldNames, NEW base, NEW t, Fine(name, base, t),
           NEW s, Len(s) \in Nat, NEW g, IsFold(g, name, base, s)
    PROVE  Fine(name, g[Len(s)], t)
<1> DEFINE n == Len(s)
           H == {k \in 0..n : Fine(name, g[k], t)}
<1>1. 0 \in H
  BY DEF IsFold
<1>2. ASSUME NEW k \in 0..(n - 1), k \in H PROVE k + 1 \in H
  <2>1. k + 1 \in 1..n /\ (k + 1) - 1 = k /\ k + 1 \in 0..n
    OBVIOUS
  <2>2. g[k + 1] = Step(name, g[k], s[k + 1])
    BY <2>1 DEF IsFold
  <2>3. Fine(name, g[k + 1], t)
    BY <1>2, <2>2, StepFine
  <2> QED BY <2>1, <2>3
<1>3. n \in H
  <2>0. n \in Nat
    OBVIOUS
  <2> HIDE DEF H, n
  <2>1. 0..n \subseteq H
    BY <1>1, <1>2, <2>0, IntervalAll
  <2> QED BY <2>0, <2>1
<1> QED BY <1>3

LEMMA ObserveFine ==
    ASSUME NEW p, Tallied(p), NEW s, \E S : s \in Seq(S)
    PROVE  Tallied(FoldLeft(observe, p, s))
<1>1. PICK S : s \in Seq(S)
  OBVIOUS
<1>2. PICK g : IsFold(g, "observe", p, s) /\ FoldLeft(observe, p, s) = g[Len(s)]
  BY <1>1, ObserveFold
<1>3. Fine("observe", p, 0) /\ Len(s) \in Nat /\ "observe" \in FoldNames
  BY <1>1 DEF Fine, FoldNames
<1>4. Fine("observe", g[Len(s)], 0)
  BY <1>2, <1>3, FoldFine
<1> QED BY <1>2, <1>4 DEF Fine

LEMMA InstructionsFine ==
    ASSUME NEW u, \E S : u \in Seq(S)
    PROVE  \E S : Instructions(u) \in Seq(S)
<1>1. PICK S : u \in Seq(S)
  OBVIOUS
<1> DEFINE base == << >>
<1>2. IsSeq(base)
  BY NoneJoined
<1>b. base = << >>
  OBVIOUS
<1> HIDE DEF base
<1>3. PICK g : IsFold(g, "element", base, u) /\ FoldLeft(element, base, u) = g[Len(u)]
  BY <1>1, ElementFold
<1>4. Fine("element", base, 0) /\ Len(u) \in Nat /\ "element" \in FoldNames
  BY <1>1, <1>2 DEF Fine, FoldNames
<1>5. Fine("element", g[Len(u)], 0)
  BY <1>3, <1>4, FoldFine
<1>6. Instructions(u) = g[Len(u)]
  BY <1>3, <1>b, Zenon DEF Instructions
<1> QED BY <1>5, <1>6 DEF Fine, IsSeq

LEMMA FilterFine ==
    ASSUME NEW open, NEW s, \E S : s \in Seq(S)
    PROVE  \E S : filter(open, s).out \in Seq(S)
<1>1. PICK S : s \in Seq(S)
  OBVIOUS
<1> DEFINE base == [open |-> open, out |-> << >>]
<1>2. DOMAIN base = {"open", "out"} /\ IsSeq(base.out)
  BY NoneJoined
<1>3. PICK g : IsFold(g, "classify", base, s) /\ FoldLeft(classify, base, s) = g[Len(s)]
  BY <1>1, ClassifyFold
<1>6. filter(open, s) = g[Len(s)]
  BY <1>3, Zenon DEF filter
<1> HIDE DEF base
<1>4. Fine("classify", base, 0) /\ Len(s) \in Nat /\ "classify" \in FoldNames
  BY <1>1, <1>2 DEF Fine, FoldNames
<1>5. Fine("classify", g[Len(s)], 0)
  BY <1>3, <1>4, FoldFine
<1> QED BY <1>5, <1>6 DEF Fine, IsSeq

LEMMA SplitterFine ==
    ASSUME NEW open, NEW s, \E S : s \in Seq(S)
    PROVE  \E S : FoldLeft(split_one, [open |-> open, out |-> << >>], s).out \in Seq(S)
<1>1. PICK S : s \in Seq(S)
  OBVIOUS
<1> DEFINE base == [open |-> open, out |-> << >>]
<1>2. DOMAIN base = {"open", "out"} /\ IsSeq(base.out)
  BY NoneJoined
<1>3. PICK g : IsFold(g, "split", base, s) /\ FoldLeft(split_one, base, s) = g[Len(s)]
  BY <1>1, SplitFold
<1>4. Fine("split", base, 0) /\ Len(s) \in Nat /\ "split" \in FoldNames
  <2> HIDE DEF base
  <2> QED BY <1>1, <1>2 DEF Fine, FoldNames
<1>5. Fine("split", g[Len(s)], 0)
  <2> HIDE DEF base
  <2> QED BY <1>3, <1>4, FoldFine
<1>6. IsSeq(g[Len(s)].out)
  BY <1>5 DEF Fine
<1> QED BY <1>3, <1>6 DEF IsSeq

LEMMA RewriterFine ==
    ASSUME NEW x, Rewriter(x), NEW s, \E S : s \in Seq(S)
    PROVE  Rewriter(rewrite(x, s).sps) /\ \E S : rewrite(x, s).out \in Seq(S)
<1> DEFINE base == [sps |-> x, out |-> << >>]
<1>1. PICK S : s \in Seq(S)
  OBVIOUS
<1>2. PICK g : IsFold(g, "rewrite", base, s) /\ FoldLeft(RewriteOne, base, s) = g[Len(s)]
  BY <1>1, RewriteFold
<1>3. DOMAIN base = {"sps", "out"} /\ base.sps = x /\ IsSeq(base.out)
  BY NoneJoined
<1>4. \/ rewrite(x, s).sps = x /\ rewrite(x, s).out = s
      \/ rewrite(x, s) = FoldLeft(RewriteOne, base, s)
  BY DEF rewrite
<1> HIDE DEF base
<1>5. Fine("rewrite", base, 0) /\ Len(s) \in Nat /\ "rewrite" \in FoldNames
  BY <1>1, <1>3 DEF Fine, FoldNames
<1>6. Fine("rewrite", g[Len(s)], 0)
  BY <1>2, <1>5, FoldFine
<1>7. Rewriter(g[Len(s)].sps) /\ IsSeq(g[Len(s)].out)
  BY <1>6 DEF Fine
<1> QED BY <1>1, <1>2, <1>4, <1>7 DEF IsSeq

LEMMA BrowserFine ==
    ASSUME NEW b, NEW t, "told" \in DOMAIN b, b.told = t, NEW y, \E S : y \in Seq(S)
    PROVE  "told" \in DOMAIN FoldLeft(receive, b, y) /\ FoldLeft(receive, b, y).told = t
<1>1. PICK S : y \in Seq(S)
  OBVIOUS
<1>2. PICK g : IsFold(g, "receive", b, y) /\ FoldLeft(receive, b, y) = g[Len(y)]
  BY <1>1, ReceiveFold
<1>3. Fine("receive", b, t) /\ Len(y) \in Nat /\ "receive" \in FoldNames
  BY <1>1 DEF Fine, FoldNames
<1>4. Fine("receive", g[Len(y)], t)
  BY <1>2, <1>3, FoldFine
<1> QED BY <1>2, <1>4 DEF Fine

StreamTypes ==
    /\ Tallied(probe) /\ Rewriter(sps)
    /\ drop.state \in {"deciding", "dropping", "off"}
    /\ drop.announced = (drop.state = "dropping")
    /\ "told" \in DOMAIN browser /\ browser.told = drop.announced

LEMMA ForwardTypes ==
    ASSUME NEW sent, \E S : sent \in Seq(S), StreamTypes, Forward(sent)
    PROVE  StreamTypes'
<1> DEFINE s == Instructions(sent)
           a == process(s)
           y == [sps EXCEPT !.gaps = wants_frame_num_gaps(a.drop)]
           r == rewrite(y, a.out)
           b == [browser EXCEPT !.told = a.drop.announced]
           base == [open |-> split, out |-> <<>>]
           x == FoldLeft(split_one, base, r.out)
<1>1. /\ probe' = a.probe /\ drop' = a.drop /\ sps' = r.sps
      /\ browser' = FoldLeft(receive, b, x.out)
  BY Zenon DEF Forward
<1>s. \E S : s \in Seq(S)
  BY InstructionsFine
<1> HIDE DEF s
<1>2. /\ Tallied(a.probe) /\ a.drop.announced = (a.drop.state = "dropping")
      /\ a.drop.state \in {"deciding", "dropping", "off"} /\ \E S : a.out \in Seq(S)
  <2> DEFINE g == filter(drop.open, s)
             second == drop.state # "off" /\ other_surface(drop, s)
             pr == IF second THEN probe ELSE FoldLeft(observe, probe, s)
             st == IF second THEN "off" ELSE Decided(drop.state, safety(pr))
             f == IF st = "dropping" THEN g ELSE [open |-> drop.open, out |-> s]
             first == IF drop.state = "off" THEN drop.first ELSE FirstSurface(drop, s)
             blind == drop.blind \/ (st = "dropping" /\ ~ Seen(pr, host.shape))
             said == st = "dropping"
  <2>1. a = [probe |-> pr, out |-> f.out,
             drop |-> [state |-> st, open |-> f.open, announced |-> said, blind |-> blind, first |-> first]]
    BY Zenon DEF process
  <2>2. Tallied(pr)
    <3>1. Tallied(probe)
      BY DEF StreamTypes
    <3>2. Tallied(FoldLeft(observe, probe, s))
      BY <1>s, <3>1, ObserveFine
    <3> QED BY <3>1, <3>2
  <2>3. st \in {"deciding", "dropping", "off"}
    <3>1. drop.state \in {"deciding", "dropping", "off"}
      BY DEF StreamTypes
    <3> HIDE DEF pr
    <3> QED BY <3>1, DecidedIs
  <2>4. \E S : g.out \in Seq(S)
    BY <1>s, FilterFine
  <2> HIDE DEF second, pr, st, g, a, first, blind
  <2>5. \E S : f.out \in Seq(S)
    BY <1>s, <2>4
  <2> HIDE DEF f, said
  <2>6. a.probe = pr /\ a.drop.announced = said /\ a.drop.state = st /\ a.out = f.out
    BY <2>1
  <2> QED BY <2>2, <2>3, <2>5, <2>6 DEF said
<1> HIDE DEF a
<1>5. Rewriter(r.sps) /\ \E S : r.out \in Seq(S)
  <2> DEFINE s2 == a.out
  <2>1. \E S : s2 \in Seq(S)
    BY <1>2
  <2>2. Rewriter(y)
    BY DEF StreamTypes, Rewriter
  <2> HIDE DEF s2, y
  <2>3. Rewriter(rewrite(y, s2).sps) /\ \E S : rewrite(y, s2).out \in Seq(S)
    BY <2>1, <2>2, RewriterFine
  <2> QED BY <2>3 DEF s2
<1> HIDE DEF r
<1>6. \E S : x.out \in Seq(S)
  <2> DEFINE s3 == r.out
  <2>1. \E S : s3 \in Seq(S)
    BY <1>5
  <2> HIDE DEF s3
  <2>2. \E S : FoldLeft(split_one, [open |-> split, out |-> << >>], s3).out \in Seq(S)
    BY <2>1, SplitterFine
  <2> QED BY <2>2 DEF s3
<1> DEFINE t == a.drop.announced
           z == x.out
<1>7. "told" \in DOMAIN b /\ b.told = t
  BY DEF StreamTypes
<1> HIDE DEF b, t, x
<1>8. "told" \in DOMAIN browser' /\ browser'.told = t
  <2>1. \E S : z \in Seq(S)
    BY <1>6
  <2>2. browser' = FoldLeft(receive, b, z)
    BY <1>1
  <2> HIDE DEF z
  <2> QED BY <1>7, <2>1, <2>2, BrowserFine
<1>9. drop'.announced = t
  BY <1>1 DEF t
<1> QED BY <1>1, <1>2, <1>5, <1>8, <1>9 DEF StreamTypes

LEMMA FlushTypes ==
    ASSUME NEW sent, \E S : sent \in Seq(S), StreamTypes, FlushFull(sent)
    PROVE  StreamTypes'
<1> DEFINE ins == Instructions(sent)
           text == [k \in 1..Len(ins) |-> [in |-> ins[k], binary |-> FALSE]]
<1>1. /\ probe' = probe /\ drop' = drop /\ sps' = sps
      /\ browser' = FoldLeft(receive, browser, text)
  BY Zenon DEF FlushFull
<1>2. \E S : ins \in Seq(S)
  BY InstructionsFine
<1> HIDE DEF ins
<1>3. \E S : text \in Seq(S)
  <2>1. Len(ins) \in Nat
    BY <1>2
  <2> DEFINE n == Len(ins)
             S == {[in |-> ins[k], binary |-> FALSE] : k \in 1..n}
  <2>2. text \in [1..n -> S]
    OBVIOUS
  <2> HIDE DEF text, n, S
  <2>3. n \in Nat
    BY <2>1 DEF n
  <2>4. text \in Seq(S)
    BY <2>2, <2>3, SeqDef
  <2> QED BY <2>4
<1> DEFINE t == drop.announced
<1>4. "told" \in DOMAIN browser /\ browser.told = t
  BY DEF StreamTypes
<1> HIDE DEF text, t
<1>5. "told" \in DOMAIN browser' /\ browser'.told = t
  BY <1>1, <1>3, <1>4, BrowserFine
<1> QED BY <1>1, <1>5 DEF StreamTypes, t

\* The probe's counts stay within the thresholds of the gate, the dropper and
\* the rewriter in their states, and the browser is told exactly what the
\* dropper is doing, for all hosts and bounds.
THEOREM StreamTypeCorrect == StreamSpec => []StreamTypeOK
<1>1. StreamInit => StreamTypes
  <2> SUFFICES ASSUME StreamInit PROVE StreamTypes
    OBVIOUS
  <2>1. /\ sps = [state |-> "undecided", bound |-> FALSE, gaps |-> FALSE, open |-> FALSE]
        /\ browser = [open |-> None, data |-> <<>>, dpb |-> NoPictures, sps |-> None,
                      told |-> FALSE, torn |-> FALSE, wrongform |-> FALSE, lost |-> {}]
        /\ drop \in for_session /\ probe = NoEvidence
    BY Zenon DEF StreamInit
  <2>2. drop.state \in {"deciding", "off"} /\ drop.announced = FALSE
    BY <2>1 DEF for_session
  <2>3. Tallied(probe)
    BY <2>1, BoundsAssumption DEF Tallied, NoEvidence
  <2>4. Rewriter(sps) /\ "told" \in DOMAIN browser /\ browser.told = FALSE
    BY <2>1 DEF Rewriter
  <2> QED BY <2>2, <2>3, <2>4 DEF StreamTypes
<1>2. StreamInv /\ StreamTypes /\ [StreamNext]_streamVars => StreamTypes'
  <2> SUFFICES ASSUME StreamInv, StreamTypes, [StreamNext]_streamVars PROVE StreamTypes'
    OBVIOUS
  <2>1. ASSUME UNCHANGED <<probe, drop, sps, browser>> PROVE StreamTypes'
    BY <2>1 DEF StreamTypes
  <2>2. ASSUME NEW n \in 1..Len(wire), guacd_to_ws(n) PROVE StreamTypes'
    <3> DEFINE r == carry \o SubSeq(wire, 1, n)
               e == last_instruction_boundary(r)
               l == Len(r)
    <3>1. \/ UNCHANGED <<probe, drop, sps, split, browser, parser>>
          \/ e # 0 /\ Forward(SubSeq(r, 1, e))
          \/ FlushFull(SubSeq(r, 1, l))
      BY <2>2, ReadStep, Zenon
    <3>2. IsSeq(carry) /\ IsSeq(wire)
      BY DEF StreamInv
    <3>3. ReadOf(r, carry, wire, n)
      BY <3>2, ReadIs
    <3>4. IsSeq(r) /\ Len(r) \in Nat
      BY <3>3, SeqLen DEF ReadOf
    <3> HIDE DEF r
    <3>5. e \in 0..Len(r) /\ l \in 0..Len(r)
      BY <3>4, BoundaryWithin DEF IsSeq
    <3> HIDE DEF e, l
    <3>6. ASSUME NEW m \in 0..Len(r) PROVE \E S : SubSeq(r, 1, m) \in Seq(S)
      <4>1. m \in Nat /\ 1 \in Nat /\ 1 <= 1 /\ 1 <= m + 1 /\ m <= Len(r)
        BY <3>4
      <4>2. SubOf(SubSeq(r, 1, m), r, 1, m)
        BY <3>4, <4>1, SubSeqCuts
      <4> QED BY <4>2 DEF SubOf, IsSeq
    <3>7. CASE UNCHANGED <<probe, drop, sps, split, browser, parser>>
      BY <2>1, <3>7
    <3>8. CASE Forward(SubSeq(r, 1, e))
      <4> DEFINE sent == SubSeq(r, 1, e)
      <4>1. (\E S : sent \in Seq(S)) /\ Forward(sent)
        BY <3>5, <3>6, <3>8
      <4> HIDE DEF sent
      <4> QED BY <4>1, ForwardTypes
    <3>9. CASE FlushFull(SubSeq(r, 1, l))
      <4> DEFINE sent == SubSeq(r, 1, l)
      <4>1. (\E S : sent \in Seq(S)) /\ FlushFull(sent)
        BY <3>5, <3>6, <3>9
      <4> HIDE DEF sent
      <4> QED BY <4>1, FlushTypes
    <3> QED BY <3>1, <3>7, <3>8, <3>9
  <2>3. ASSUME NEW view, NEW idr, SendView(view, idr) PROVE StreamTypes'
    BY <2>1, <2>3 DEF SendView, Pump
  <2>4. ASSUME NEW idr, SendPair(idr) PROVE StreamTypes'
    BY <2>1, <2>4 DEF SendPair, Pump
  <2>5. ASSUME NEW what, SendOther(what) PROVE StreamTypes'
    BY <2>1, <2>5 DEF SendOther, Pump
  <2>6. CASE ws_to_guacd
    BY <2>1, <2>6 DEF ws_to_guacd
  <2>7. CASE UNCHANGED streamVars
    BY <2>1, <2>7 DEF streamVars
  <2> QED BY <2>2, <2>3, <2>4, <2>5, <2>6, <2>7, Zenon DEF StreamNext
<1>3. StreamTypes => StreamTypeOK
  BY DEF StreamTypes, Tallied, Rewriter, StreamTypeOK
<1> QED BY <1>1, <1>2, <1>3, StreamInvariant, PTL DEF StreamSpec

-----------------------------------------------------------------------------
(* Folds, one element at a time *)

LEMMA FoldGrows ==
    ASSUME NEW name, NEW base, NEW s, IsSeq(s), NEW x,
           NEW g, IsFold(g, name, base, s), NEW h, IsFold(h, name, base, Append(s, x))
    PROVE  h[Len(Append(s, x))] = Step(name, g[Len(s)], x)
<1> DEFINE t == Append(s, x)
           n == Len(s)
           S == {k \in Nat : k <= n => h[k] = g[k]}
<1>1. /\ n \in Nat /\ Len(t) = n + 1 /\ t[n + 1] = x
      /\ \A k \in 1..n : t[k] = s[k]
  BY AppendIs DEF IsSeq
<1> HIDE DEF t, n
<1>2. /\ g[0] = base /\ \A k \in 1..n : g[k] = Step(name, g[k - 1], s[k])
      /\ h[0] = base /\ \A k \in 1..(n + 1) : h[k] = Step(name, h[k - 1], t[k])
  BY <1>1 DEF IsFold, t, n
<1>3. 0 \in S
  BY <1>2
<1>4. ASSUME NEW k \in Nat, k \in S PROVE k + 1 \in S
  <2> SUFFICES ASSUME k + 1 <= n PROVE h[k + 1] = g[k + 1]
    OBVIOUS
  <2>1. k + 1 \in 1..n /\ k + 1 \in 1..(n + 1) /\ (k + 1) - 1 = k /\ h[k] = g[k]
    BY <1>1, <1>4
  <2>2. g[k + 1] = Step(name, g[(k + 1) - 1], s[k + 1]) /\ h[k + 1] = Step(name, h[(k + 1) - 1], t[k + 1])
    BY <1>2, <2>1
  <2> QED BY <1>1, <2>1, <2>2
<1>5. n \in S
  <2> HIDE DEF S
  <2> QED BY <1>1, <1>3, <1>4, NatAll
<1>6. h[n] = g[n]
  BY <1>1, <1>5
<1>7. n + 1 \in 1..(n + 1) /\ (n + 1) - 1 = n
  BY <1>1
<1>8. h[n + 1] = Step(name, h[(n + 1) - 1], t[n + 1])
  BY <1>2, <1>7
<1> QED BY <1>1, <1>6, <1>7, <1>8 DEF t, n

LEMMA FoldOfNone ==
    ASSUME NEW name, NEW base, NEW g, IsFold(g, name, base, << >>)
    PROVE  g[Len(<< >>)] = base
BY DEF IsFold

LEMMA NoneIsSeq == IsSeq(<< >>) /\ << >> \in Seq({})
BY DEF IsSeq

LEMMA ObserveGrows ==
    ASSUME NEW base, NEW s, IsSeq(s), NEW x
    PROVE  FoldLeft(observe, base, Append(s, x)) = observe(FoldLeft(observe, base, s), x)
<1>1. IsSeq(Append(s, x))
  BY AppendIs DEF IsSeq
<1>2. PICK g : IsFold(g, "observe", base, s) /\ FoldLeft(observe, base, s) = g[Len(s)]
  BY ObserveFold DEF IsSeq
<1>3. PICK h : IsFold(h, "observe", base, Append(s, x)) /\ FoldLeft(observe, base, Append(s, x)) = h[Len(Append(s, x))]
  BY <1>1, ObserveFold DEF IsSeq
<1>4. h[Len(Append(s, x))] = Step("observe", g[Len(s)], x)
  BY <1>2, <1>3, FoldGrows
<1>5. \A a, y : Step("observe", a, y) = observe(a, y)
  BY Zenon DEF Step
<1> QED BY <1>2, <1>3, <1>4, <1>5

LEMMA ObserveNone ==
    ASSUME NEW base
    PROVE  FoldLeft(observe, base, << >>) = base
<1>1. PICK g : IsFold(g, "observe", base, << >>) /\ FoldLeft(observe, base, << >>) = g[Len(<< >>)]
  BY ObserveFold, NoneIsSeq
<1> QED BY <1>1, FoldOfNone

LEMMA ClassifyGrows ==
    ASSUME NEW base, NEW s, IsSeq(s), NEW x
    PROVE  FoldLeft(classify, base, Append(s, x)) = classify(FoldLeft(classify, base, s), x)
<1>1. IsSeq(Append(s, x))
  BY AppendIs DEF IsSeq
<1>2. PICK g : IsFold(g, "classify", base, s) /\ FoldLeft(classify, base, s) = g[Len(s)]
  BY ClassifyFold DEF IsSeq
<1>3. PICK h : IsFold(h, "classify", base, Append(s, x)) /\ FoldLeft(classify, base, Append(s, x)) = h[Len(Append(s, x))]
  BY <1>1, ClassifyFold DEF IsSeq
<1>4. h[Len(Append(s, x))] = Step("classify", g[Len(s)], x)
  BY <1>2, <1>3, FoldGrows
<1>5. \A a, y : Step("classify", a, y) = classify(a, y)
  BY Zenon DEF Step
<1> QED BY <1>2, <1>3, <1>4, <1>5

LEMMA ClassifyNone ==
    ASSUME NEW base
    PROVE  FoldLeft(classify, base, << >>) = base
<1>1. PICK g : IsFold(g, "classify", base, << >>) /\ FoldLeft(classify, base, << >>) = g[Len(<< >>)]
  BY ClassifyFold, NoneIsSeq
<1> QED BY <1>1, FoldOfNone

LEMMA RewriteGrows ==
    ASSUME NEW base, NEW s, IsSeq(s), NEW x
    PROVE  FoldLeft(RewriteOne, base, Append(s, x)) = RewriteOne(FoldLeft(RewriteOne, base, s), x)
<1>1. IsSeq(Append(s, x))
  BY AppendIs DEF IsSeq
<1>2. PICK g : IsFold(g, "rewrite", base, s) /\ FoldLeft(RewriteOne, base, s) = g[Len(s)]
  BY RewriteFold DEF IsSeq
<1>3. PICK h : IsFold(h, "rewrite", base, Append(s, x)) /\ FoldLeft(RewriteOne, base, Append(s, x)) = h[Len(Append(s, x))]
  BY <1>1, RewriteFold DEF IsSeq
<1>4. h[Len(Append(s, x))] = Step("rewrite", g[Len(s)], x)
  BY <1>2, <1>3, FoldGrows
<1>5. \A a, y : Step("rewrite", a, y) = RewriteOne(a, y)
  BY Zenon DEF Step
<1> QED BY <1>2, <1>3, <1>4, <1>5

LEMMA RewriteNone ==
    ASSUME NEW base
    PROVE  FoldLeft(RewriteOne, base, << >>) = base
<1>1. PICK g : IsFold(g, "rewrite", base, << >>) /\ FoldLeft(RewriteOne, base, << >>) = g[Len(<< >>)]
  BY RewriteFold, NoneIsSeq
<1> QED BY <1>1, FoldOfNone

LEMMA SplitGrows ==
    ASSUME NEW base, NEW s, IsSeq(s), NEW x
    PROVE  FoldLeft(split_one, base, Append(s, x)) = split_one(FoldLeft(split_one, base, s), x)
<1>1. IsSeq(Append(s, x))
  BY AppendIs DEF IsSeq
<1>2. PICK g : IsFold(g, "split", base, s) /\ FoldLeft(split_one, base, s) = g[Len(s)]
  BY SplitFold DEF IsSeq
<1>3. PICK h : IsFold(h, "split", base, Append(s, x)) /\ FoldLeft(split_one, base, Append(s, x)) = h[Len(Append(s, x))]
  BY <1>1, SplitFold DEF IsSeq
<1>4. h[Len(Append(s, x))] = Step("split", g[Len(s)], x)
  BY <1>2, <1>3, FoldGrows
<1>5. \A a, y : Step("split", a, y) = split_one(a, y)
  BY Zenon DEF Step
<1> QED BY <1>2, <1>3, <1>4, <1>5

LEMMA SplitNone ==
    ASSUME NEW base
    PROVE  FoldLeft(split_one, base, << >>) = base
<1>1. PICK g : IsFold(g, "split", base, << >>) /\ FoldLeft(split_one, base, << >>) = g[Len(<< >>)]
  BY SplitFold, NoneIsSeq
<1> QED BY <1>1, FoldOfNone

LEMMA ReceiveGrows ==
    ASSUME NEW base, NEW s, IsSeq(s), NEW x
    PROVE  FoldLeft(receive, base, Append(s, x)) = receive(FoldLeft(receive, base, s), x)
<1>1. IsSeq(Append(s, x))
  BY AppendIs DEF IsSeq
<1>2. PICK g : IsFold(g, "receive", base, s) /\ FoldLeft(receive, base, s) = g[Len(s)]
  BY ReceiveFold DEF IsSeq
<1>3. PICK h : IsFold(h, "receive", base, Append(s, x)) /\ FoldLeft(receive, base, Append(s, x)) = h[Len(Append(s, x))]
  BY <1>1, ReceiveFold DEF IsSeq
<1>4. h[Len(Append(s, x))] = Step("receive", g[Len(s)], x)
  BY <1>2, <1>3, FoldGrows
<1>5. \A a, y : Step("receive", a, y) = receive(a, y)
  BY Zenon DEF Step
<1> QED BY <1>2, <1>3, <1>4, <1>5

LEMMA ReceiveNone ==
    ASSUME NEW base
    PROVE  FoldLeft(receive, base, << >>) = base
<1>1. PICK g : IsFold(g, "receive", base, << >>) /\ FoldLeft(receive, base, << >>) = g[Len(<< >>)]
  BY ReceiveFold, NoneIsSeq
<1> QED BY <1>1, FoldOfNone

-----------------------------------------------------------------------------
(* The encoder's side of what has not reached the browser yet, and what    *)
(* keeps the decoder in step with it                                       *)

\* None is no instruction, slice or parameter set.
NoneApart == {"op", "view", "frames"} \cap DOMAIN None = {}

\* Where in the stream, the picture that is on its way, and the encoder's
\* buffer before it.
Idle(d, g) == [at |-> "between", head |-> None, slice |-> None, dpb |-> d, begun |-> g]
Advance(x, e, i) ==
    CASE i.op \in {"h264", "img"} -> [e EXCEPT !.at = "opened", !.head = i]
      [] i.op = "blob" -> [e EXCEPT !.at = "filled", !.slice = i.slice]
      [] i.op = "end" -> IF e.slice = None THEN Idle(e.dpb, e.begun)
                         ELSE Idle(Mark(e.dpb, e.slice, x.sps.frames), TRUE)
      [] OTHER -> e

\* A slice of host x, and one that it codes at this point.
OfHost(x, s) ==
    LET a == Habit(x, s.view) IN
    /\ {"view", "idr"} \subseteq DOMAIN s
    /\ s.view \in {0, 1} /\ s.idr \in BOOLEAN
    /\ s.idr => s.fn = 0 /\ s.read = "none" /\ s.marks = IF x.main.read = "long" THEN "long" ELSE "short"
    /\ ~ s.idr => /\ s.read = a.read /\ s.marks = a.marks /\ s.as = a.chain /\ s.active = a.active
                  /\ a.read = "long" /\ a.chain = 0 => s.name = 0
Coded(x, e, s) ==
    OfHost(x, s) /\ (~ s.idr => e.begun /\ s.fn = e.dpb.prev + 1 /\ s.ref = Reference(e.dpb, s))

\* The instructions that may come at this point.
Heads(i) ==
    /\ {"op", "view", "key", "paired"} \subseteq DOMAIN i
    /\ i.op = "h264" /\ i.view \in {0, 1} /\ i.key \in BOOLEAN
Bears(x, e, i) ==
    /\ Heads(e.head) /\ Coded(x, e, i.slice) /\ i.slice.view = e.head.view /\ i.slice.idr = e.head.key
    /\ i.sps = IF i.slice.idr THEN x.sps ELSE None
Legal(x, e, i) ==
    /\ e.at \in Place /\ "op" \in DOMAIN i
    /\ e.at = "between" => i.op \in {"clipboard", "img"} \/ Heads(i)
    /\ e.at = "opened" => i.op = "blob" /\ {"slice", "sps"} \subseteq DOMAIN i /\ (i.slice # None => Bears(x, e, i))
    /\ e.at = "filled" => i.op = "end"

Buffer(d) == DOMAIN d = {"lt", "st", "prev"} /\ DOMAIN d.lt = {0, 1} /\ d.prev \in Nat

\* Hosts whose auxiliary views may be dropped: the main views keep to a chain
\* that no auxiliary view is put in, and there is a third frame; or no auxiliary
\* view is a reference.
ChainApart(x) ==
    /\ x.main.read = "long" /\ x.main.chain = 0 /\ x.sps.frames >= 3
    /\ x.aux.marks = "long" => x.aux.chain # 0
Unreferenced(x) == x.aux.marks = "none"
Harmless(x) == ChainApart(x) \/ Unreferenced(x)

\* Hosts whose main views may refer to an auxiliary one.
Entangled(x) ==
    /\ x.aux.marks # "none"
    /\ \/ x.main.read = "relative"
       \/ x.main.read = "long" /\ x.main.chain = 0 /\ x.aux.marks = "long" /\ x.aux.chain = 0
       \/ x.main.read = "default" /\ x.aux.marks = "short"
       \/ x.main.read = "default" /\ x.main.active > 1 /\ ~ AllowUnproven

LEMMA HostsAre ==
    ASSUME NEW x, Described(x)
    PROVE  Harmless(x) \/ Entangled(x) \/ NoRoom(x) \/ InferredFirst(x)
<1>1. /\ x.main.read \in {"long", "relative", "default"} /\ x.aux.marks \in {"long", "short", "none"}
      /\ x.sps.frames \in Nat /\ x.main.active \in Nat /\ x.main.chain = 0
      /\ x.main.read = "long" /\ x.aux.marks = "short" => x.sps.frames >= 3
  BY DEF Described, Habits, Parameters
<1>2. CASE x.main.read = "long"
  BY <1>1, <1>2 DEF Harmless, ChainApart, Unreferenced, Entangled, NoRoom
<1>3. CASE x.main.read = "relative"
  BY <1>3 DEF Harmless, Unreferenced, Entangled
<1>4. CASE x.main.read = "default"
  BY <1>1, <1>4 DEF Harmless, Unreferenced, Entangled, InferredFirst
<1> QED BY <1>1, <1>2, <1>3, <1>4

\* An opening of a picture that may be dropped.
Shed(x, i) == Heads(i) /\ i.view # 0 /\ ~ i.key /\ Harmless(x)

\* A keyframe is on its way.
Anew(e) == e.at = "filled" /\ e.slice # None /\ e.slice.idr

\* The decoder's buffer: it is the encoder's if nothing was dropped that is
\* put there; otherwise the chain of the main views is the encoder's, and
\* the decoder may infer what it misses.
Agree(x, e, b) ==
    IF ChainApart(x)
    THEN /\ Buffer(b.dpb) /\ b.dpb.lt[0] = e.dpb.lt[0] /\ b.dpb.prev <= e.dpb.prev
         /\ b.dpb.prev < e.dpb.prev /\ ~ Anew(e) => b.sps # None /\ b.sps.gaps = TRUE
    ELSE b.dpb = e.dpb


LEMMA MarkLong ==
    ASSUME NEW d, NEW s, NEW cap, ~ s.idr, s.marks = "long"
    PROVE  Mark(d, s, cap) = [d EXCEPT !.lt[s.as] = s.id, !.prev = s.fn]
BY DEF Mark

LEMMA MarkShort ==
    ASSUME NEW d, NEW s, NEW cap, ~ s.idr, s.marks = "short"
    PROVE  Mark(d, s, cap) = [Push(d, [id |-> s.id, fn |-> s.fn], cap) EXCEPT !.prev = s.fn]
BY DEF Mark

LEMMA MarkNone ==
    ASSUME NEW d, NEW s, NEW cap, ~ s.idr, s.marks = "none"
    PROVE  Mark(d, s, cap) = d
BY DEF Mark

LEMMA MarkKeyframe ==
    ASSUME NEW d, NEW s, NEW cap, s.idr
    PROVE  /\ s.marks = "long" => Mark(d, s, cap) = [NoPictures EXCEPT !.lt[0] = s.id]
           /\ s.marks = "short" => Mark(d, s, cap) = [NoPictures EXCEPT !.st = <<[id |-> s.id, fn |-> 0]>>]
<1>1. CASE s.marks = "long"
  BY <1>1 DEF Mark
<1>2. CASE s.marks = "short"
  BY <1>2 DEF Mark
<1> QED BY <1>1, <1>2

LEMMA PushKeeps ==
    ASSUME NEW d, Buffer(d), NEW p, NEW cap
    PROVE  Buffer(Push(d, p, cap)) /\ Push(d, p, cap).lt = d.lt /\ Push(d, p, cap).prev = d.prev
BY DEF Push, Buffer

\* What an inter slice does to a buffer: lt[0] is its picture if it is put there.
LEMMA MarkKeeps ==
    ASSUME NEW d, Buffer(d), NEW s, NEW cap, ~ s.idr, s.marks \in {"long", "short", "none"}, s.fn \in Nat
    PROVE  /\ Buffer(Mark(d, s, cap))
           /\ Mark(d, s, cap).lt[0] = IF s.marks = "long" /\ s.as = 0 THEN s.id ELSE d.lt[0]
           /\ Mark(d, s, cap).prev = IF s.marks = "none" THEN d.prev ELSE s.fn
<1>1. CASE s.marks = "long"
  <2>1. Mark(d, s, cap) = [d EXCEPT !.lt[s.as] = s.id, !.prev = s.fn]
    BY <1>1, MarkLong
  <2> QED BY <1>1, <2>1 DEF Buffer
<1>2. CASE s.marks = "short"
  <2> DEFINE q == Push(d, [id |-> s.id, fn |-> s.fn], cap)
  <2>1. Mark(d, s, cap) = [q EXCEPT !.prev = s.fn]
    BY <1>2, MarkShort, Zenon
  <2>2. Buffer(q) /\ q.lt = d.lt
    BY PushKeeps
  <2> HIDE DEF q
  <2> QED BY <1>2, <2>1, <2>2 DEF Buffer
<1>3. CASE s.marks = "none"
  BY <1>3, MarkNone
<1> QED BY <1>1, <1>2, <1>3

LEMMA KeyframeBuffer ==
    ASSUME NEW d, NEW s, NEW cap, s.idr, s.marks \in {"long", "short"}
    PROVE  Buffer(Mark(d, s, cap)) /\ Mark(d, s, cap).prev = 0
<1>1. CASE s.marks = "long"
  <2>1. Mark(d, s, cap) = [NoPictures EXCEPT !.lt[0] = s.id]
    BY <1>1, MarkKeyframe
  <2> QED BY <2>1 DEF Buffer, NoPictures
<1>2. CASE s.marks = "short"
  <2>1. Mark(d, s, cap) = [NoPictures EXCEPT !.st = <<[id |-> s.id, fn |-> 0]>>]
    BY <1>2, MarkKeyframe
  <2> QED BY <2>1 DEF Buffer, NoPictures
<1> QED BY <1>1, <1>2

\* A slice that is dropped.
LEMMA ShedAgrees ==
    ASSUME NEW x, Described(x), NEW e, NEW b, Buffer(e.dpb), Agree(x, e, b), NEW s, Coded(x, e, s),
           ~ s.idr, s.view = 1, Harmless(x), b.sps # None, b.sps.gaps = TRUE, NEW cap
    PROVE  Buffer(Mark(e.dpb, s, cap)) /\ Agree(x, Idle(Mark(e.dpb, s, cap), TRUE), b)
<1> DEFINE d == e.dpb
           m == Mark(d, s, cap)
           f == Idle(m, TRUE)
<1>0. f.dpb = m
  BY DEF Idle
<1>1. /\ s.marks = x.aux.marks /\ s.as = x.aux.chain /\ s.fn = d.prev + 1 /\ d.prev \in Nat
      /\ s.marks \in {"long", "short", "none"}
  BY DEF Coded, OfHost, Habit, Buffer, Described, Habits
<1>2. /\ Buffer(m)
      /\ m.lt[0] = IF s.marks = "long" /\ s.as = 0 THEN s.id ELSE d.lt[0]
      /\ m.prev = IF s.marks = "none" THEN d.prev ELSE s.fn
  BY <1>1, MarkKeeps
<1>3. s.marks = "none" => m = d
  BY MarkNone, Zenon
<1> HIDE DEF m, f
<1>4. CASE ChainApart(x)
  <2>1. m.lt[0] = d.lt[0]
    BY <1>1, <1>2, <1>4 DEF ChainApart
  <2>2. d.prev <= m.prev /\ m.prev \in Nat
    BY <1>1, <1>2
  <2>3. Buffer(b.dpb) /\ b.dpb.lt[0] = d.lt[0] /\ b.dpb.prev <= d.prev
    BY <1>4 DEF Agree
  <2>4. b.dpb.prev <= m.prev
    BY <1>1, <2>2, <2>3 DEF Buffer
  <2>5. Agree(x, f, b)
    BY <1>0, <1>4, <2>1, <2>3, <2>4 DEF Agree
  <2> QED BY <1>2, <2>5 DEF f, m
<1>5. CASE ~ ChainApart(x)
  <2>1. m = d
    BY <1>1, <1>3, <1>5 DEF Harmless, Unreferenced
  <2>2. Agree(x, f, b)
    BY <1>0, <1>5, <2>1 DEF Agree
  <2> QED BY <1>2, <2>2 DEF f, m
<1> QED BY <1>4, <1>5

-----------------------------------------------------------------------------
(* Decoding *)

LEMMA InferFold ==
    ASSUME NEW base, NEW S, NEW s \in Seq(S)
    PROVE  \E g : IsFold(g, "infer", base, s) /\ FoldLeft(InferOne, base, s) = g[Len(s)]
<1> DEFINE E(it) == it = [t \in SUBSET DOMAIN s |->
                            IF t = {} THEN base ELSE InferOne(it[t \ {Max(t)}], s[Max(t)])]
<1>1. FoldLeft(InferOne, base, s) = (CHOOSE it : E(it))[DOMAIN s]
  BY Zenon DEF FoldLeft, MapThenFoldSet
<1>2. \A a, x : Step("infer", a, x) = InferOne(a, x)
  BY Zenon DEF Step
<1>3. DOMAIN s = 1..Len(s) /\ Len(s) \in Nat
  OBVIOUS
<1>4. \A it : E(it) <=> Folded(it, "infer", base, s, Len(s))
  BY <1>2, <1>3 DEF Folded
<1>5. \E it : E(it)
  BY <1>3, <1>4, FoldedExists
<1> HIDE DEF E
<1>6. E(CHOOSE it : E(it))
  BY <1>5, Zenon
<1> DEFINE f == CHOOSE it : E(it)
<1>7. Folded(f, "infer", base, s, Len(s)) /\ FoldLeft(InferOne, base, s) = f[DOMAIN s]
  BY <1>1, <1>4, <1>6
<1> HIDE DEF f
<1>8. \E g : IsFold(g, "infer", base, s) /\ f[DOMAIN s] = g[Len(s)]
  BY <1>7, FoldedIsFold
<1> QED BY <1>7, <1>8

Inferred(r, d) == DOMAIN r = {"dpb", "cap"} /\ Buffer(r.dpb) /\ r.dpb.lt = d.lt /\ r.dpb.prev = d.prev

LEMMA InferOneKeeps ==
    ASSUME NEW r, NEW d, Inferred(r, d), NEW f
    PROVE  Inferred(InferOne(r, f), d)
<1> DEFINE q == Push(r.dpb, [id |-> 0, fn |-> f], r.cap)
<1>1. InferOne(r, f) = [r EXCEPT !.dpb = q]
  BY Zenon DEF InferOne
<1>2. Buffer(q) /\ q.lt = r.dpb.lt /\ q.prev = r.dpb.prev
  BY PushKeeps DEF Inferred
<1> HIDE DEF q
<1> QED BY <1>1, <1>2 DEF Inferred

LEMMA InferKeeps ==
    ASSUME NEW d, Buffer(d), NEW s, NEW cap, IsSeq(Gap(d, s))
    PROVE  /\ Buffer(Infer(d, s, cap)) /\ Infer(d, s, cap).lt = d.lt /\ Infer(d, s, cap).prev = d.prev
           /\ Gap(d, s) = << >> => Infer(d, s, cap) = d
<1> DEFINE base == [dpb |-> d, cap |-> cap]
           u == Gap(d, s)
           n == Len(u)
<1>0. Infer(d, s, cap) = FoldLeft(InferOne, base, u).dpb
  BY Zenon DEF Infer
<1>1. PICK g : IsFold(g, "infer", base, u) /\ FoldLeft(InferOne, base, u) = g[Len(u)]
  BY InferFold DEF IsSeq
<1>2. n \in Nat
  BY SeqLen
<1>3. \A a, y : Step("infer", a, y) = InferOne(a, y)
  BY Zenon DEF Step
<1> HIDE DEF u
<1>4. g[0] = base /\ \A k \in 1..n : g[k] = InferOne(g[k - 1], u[k])
  BY <1>1, <1>3 DEF IsFold
<1> DEFINE S == {k \in 0..n : Inferred(g[k], d)}
<1>5. 0 \in S
  <2>1. Inferred(base, d)
    BY DEF Inferred
  <2> QED BY <1>2, <1>4, <2>1
<1>6. ASSUME NEW k \in 0..(n - 1), k \in S PROVE k + 1 \in S
  <2>1. k + 1 \in 1..n /\ k + 1 \in 0..n /\ (k + 1) - 1 = k
    BY <1>2
  <2>2. g[k + 1] = InferOne(g[k], u[k + 1])
    BY <1>4, <2>1
  <2>3. Inferred(g[k], d)
    BY <1>6
  <2> QED BY <2>1, <2>2, <2>3, InferOneKeeps
<1>7. n \in S
  <2> HIDE DEF S
  <2>1. 0..n \subseteq S
    BY <1>2, <1>5, <1>6, IntervalAll
  <2> QED BY <1>2, <2>1
<1>8. Inferred(g[n], d)
  BY <1>7
<1>9. u = << >> => g[n] = base
  BY <1>4
<1>10. FoldLeft(InferOne, base, u) = g[n]
  BY <1>1
<1>11. u = << >> => g[n].dpb = d
  BY <1>9
<1> QED BY <1>0, <1>8, <1>10, <1>11 DEF Inferred, u

LEMMA GapIs ==
    ASSUME NEW d, d.prev \in Nat, NEW s, s.idr \in BOOLEAN, s.idr \/ (s.fn \in Nat /\ d.prev < s.fn)
    PROVE  /\ IsSeq(Gap(d, s))
           /\ s.idr \/ s.fn = d.prev + 1 => Gap(d, s) = << >>
<1>1. CASE s.idr
  BY <1>1, NoneIsSeq DEF Gap
<1>2. CASE ~ s.idr
  <2> DEFINE n == s.fn - 1 - d.prev
             u == [i \in 1..n |-> d.prev + i]
  <2>1. Gap(d, s) = u /\ n \in Nat
    BY <1>2 DEF Gap
  <2> HIDE DEF n
  <2>2. u \in Seq(Int)
    BY <2>1
  <2>3. n = 0 => u = << >>
    BY <2>1
  <2>4. s.fn = d.prev + 1 => n = 0
    BY DEF n
  <2> HIDE DEF u
  <2> QED BY <1>2, <2>1, <2>2, <2>3, <2>4 DEF IsSeq
<1> QED BY <1>1, <1>2

LEMMA TwoChains == Cardinality({}) = 0 /\ Cardinality({0}) = 1 /\ Cardinality({1}) = 1 /\ Cardinality({0, 1}) = 2
<1>1. Cardinality({}) = 0
  BY FS_EmptySet
<1>2. Cardinality({0}) = 1 /\ Cardinality({1}) = 1 /\ IsFiniteSet({0})
  BY FS_Singleton
<1>3. Cardinality({0} \cup {1}) = Cardinality({0}) + 1
  <2>1. 1 \notin {0}
    OBVIOUS
  <2> QED BY <1>2, <2>1, FS_AddElement
<1>4. {0} \cup {1} = {0, 1}
  OBVIOUS
<1>5. Cardinality({0, 1}) = 1 + 1
  BY <1>2, <1>3, <1>4, Zenon
<1> QED BY <1>1, <1>2, <1>5

\* Two long-term pictures leave a third frame free.
LEMMA RoomToInfer ==
    ASSUME NEW d, NEW cap, cap \in Nat, cap >= 3
    PROVE  ~ Full(d, cap)
<1> SUFFICES ASSUME d.st = << >> PROVE ~ (Count(d) >= cap)
  BY DEF Full
<1> DEFINE L == {k \in {0, 1} : d.lt[k] # 0}
<1>1. L = {} \/ L = {0} \/ L = {1} \/ L = {0, 1}
  OBVIOUS
<1>2. Cardinality({}) = 0 /\ Cardinality({0}) = 1 /\ Cardinality({1}) = 1 /\ Cardinality({0, 1}) = 2
  BY TwoChains
<1>3. Cardinality(L) \in {0, 1, 2}
  BY <1>1, <1>2
<1>4. Count(d) = Cardinality(L) + 0
  BY DEF Count
<1> HIDE DEF L
<1> QED BY <1>3, <1>4

LEMMA DecodeIs ==
    ASSUME NEW b, {"dpb", "lost", "sps"} \subseteq DOMAIN b, NEW s
    PROVE  LET cap == b.sps.frames
               d == Infer(b.dpb, s, cap)
               c == decode(b, s)
           IN  /\ c.dpb = Mark(d, s, cap) /\ c.sps = b.sps
               /\ (s.idr \/ (Reference(d, s) = s.ref
                             /\ (Gap(b.dpb, s) = << >> \/ (b.sps.gaps = TRUE /\ ~ Full(b.dpb, cap)))))
                  => c.lost = b.lost
               /\ c.lost = b.lost \/ c.lost = b.lost \cup {s.view}
<1> DEFINE cap == b.sps.frames
           d == Infer(b.dpb, s, cap)
           gap == Gap(b.dpb, s) # << >>
           fine == s.idr \/ (Reference(d, s) = s.ref /\ ~ (gap /\ (~ b.sps.gaps \/ Full(b.dpb, cap))))
           m == Mark(d, s, cap)
           c == decode(b, s)
<1>1. c = [b EXCEPT !.dpb = m, !.lost = IF fine THEN b.lost ELSE b.lost \cup {s.view}]
  BY Zenon DEF decode
<1>2. (s.idr \/ (Reference(d, s) = s.ref
                 /\ (Gap(b.dpb, s) = << >> \/ (b.sps.gaps = TRUE /\ ~ Full(b.dpb, cap))))) => fine
  OBVIOUS
<1> HIDE DEF fine, m, c, gap
<1>3. /\ c.dpb = m /\ c.sps = b.sps
      /\ fine => c.lost = b.lost
      /\ c.lost = b.lost \/ c.lost = b.lost \cup {s.view}
  BY <1>1
<1> QED BY <1>2, <1>3 DEF m, c

LEMMA MarkOfKeyframe ==
    ASSUME NEW d, NEW q, NEW s, NEW cap, NEW top, s.idr, s.marks \in {"long", "short"}
    PROVE  Mark(d, s, cap) = Mark(q, s, top)
<1>1. CASE s.marks = "long"
  BY <1>1, MarkKeyframe
<1>2. CASE s.marks = "short"
  BY <1>2, MarkKeyframe
<1> QED BY <1>1, <1>2

LEMMA SliceMarks ==
    ASSUME NEW x, Described(x), NEW s, OfHost(x, s)
    PROVE  /\ s.marks \in {"long", "short", "none"}
           /\ s.idr => s.marks \in {"long", "short"}
           /\ s.idr \in BOOLEAN /\ s.view \in {0, 1}
<1>1. CASE s.idr
  BY <1>1 DEF OfHost
<1>2. CASE ~ s.idr
  BY <1>2 DEF OfHost, Habit, Described, Habits
<1> QED BY <1>1, <1>2 DEF OfHost

Decoded(x, e, b, s) ==
    LET c == decode(b, s)
        m == Mark(e.dpb, s, x.sps.frames)
    IN  Buffer(m) /\ Agree(x, Idle(m, TRUE), c) /\ 0 \notin c.lost /\ c.sps = b.sps

LEMMA DecodeKeyframe ==
    ASSUME NEW x, Described(x), NEW e, NEW b, NEW s, OfHost(x, s), s.idr,
           {"dpb", "lost", "sps"} \subseteq DOMAIN b, 0 \notin b.lost
    PROVE  Decoded(x, e, b, s)
<1> DEFINE m == Mark(e.dpb, s, x.sps.frames)
           f == Idle(m, TRUE)
           c == decode(b, s)
           d == Infer(b.dpb, s, b.sps.frames)
<1>0. s.marks \in {"long", "short"} /\ f.dpb = m
  BY SliceMarks DEF Idle
<1>1. c.dpb = Mark(d, s, b.sps.frames) /\ c.sps = b.sps /\ c.lost = b.lost
  BY DecodeIs
<1> HIDE DEF c, d
<1>2. Mark(d, s, b.sps.frames) = m
  BY <1>0, MarkOfKeyframe
<1>3. Buffer(m)
  BY <1>0, KeyframeBuffer
<1> HIDE DEF m, f
<1>4. Agree(x, f, c)
  BY <1>0, <1>1, <1>2, <1>3 DEF Agree, Buffer
<1> QED BY <1>1, <1>3, <1>4 DEF Decoded, c, f, m

LEMMA LongReference ==
    ASSUME NEW d, NEW s, s.read = "long", s.name = 0
    PROVE  Reference(d, s) = d.lt[0]
BY DEF Reference

LEMMA DecodeApart ==
    ASSUME NEW x, Described(x), ChainApart(x), NEW e, NEW b, Buffer(e.dpb), Agree(x, e, b), ~ Anew(e),
           NEW s, Coded(x, e, s), ~ s.idr, {"dpb", "lost", "sps"} \subseteq DOMAIN b,
           b.sps.frames = x.sps.frames, 0 \notin b.lost
    PROVE  Decoded(x, e, b, s)
<1> DEFINE cap == x.sps.frames
           m == Mark(e.dpb, s, cap)
           f == Idle(m, TRUE)
           c == decode(b, s)
           d == Infer(b.dpb, s, cap)
           n == Mark(d, s, cap)
<1>0. /\ s.marks \in {"long", "short", "none"} /\ s.view \in {0, 1} /\ s.idr \in BOOLEAN
      /\ f.dpb = m
  BY SliceMarks DEF Idle, Coded
<1>1. /\ s.fn = e.dpb.prev + 1 /\ e.dpb.prev \in Nat /\ s.fn \in Nat /\ s.ref = Reference(e.dpb, s)
      /\ Buffer(b.dpb) /\ b.dpb.prev \in Nat /\ b.dpb.lt[0] = e.dpb.lt[0] /\ b.dpb.prev <= e.dpb.prev
      /\ b.dpb.prev < e.dpb.prev => b.sps # None /\ b.sps.gaps = TRUE
  <2>1. s.fn = e.dpb.prev + 1 /\ s.ref = Reference(e.dpb, s)
    BY DEF Coded
  <2>2. /\ Buffer(b.dpb) /\ b.dpb.lt[0] = e.dpb.lt[0] /\ b.dpb.prev <= e.dpb.prev
        /\ b.dpb.prev < e.dpb.prev => b.sps # None /\ b.sps.gaps = TRUE
    BY DEF Agree
  <2>3. e.dpb.prev \in Nat
    BY DEF Buffer
  <2>4. b.dpb.prev \in Nat
    BY <2>2 DEF Buffer
  <2> QED BY <2>1, <2>2, <2>3, <2>4
<1>2. b.dpb.prev < s.fn
  BY <1>1
<1>3. IsSeq(Gap(b.dpb, s)) /\ (s.fn = b.dpb.prev + 1 => Gap(b.dpb, s) = << >>)
  BY <1>0, <1>1, <1>2, GapIs
<1>4. Buffer(d) /\ d.lt = b.dpb.lt /\ d.prev = b.dpb.prev
  BY <1>1, <1>3, InferKeeps
<1>5. /\ c.dpb = n /\ c.sps = b.sps
      /\ (Reference(d, s) = s.ref /\ (Gap(b.dpb, s) = << >> \/ (b.sps.gaps = TRUE /\ ~ Full(b.dpb, cap))))
         => c.lost = b.lost
      /\ c.lost = b.lost \/ c.lost = b.lost \cup {s.view}
  <2> DEFINE top == b.sps.frames
             q == Infer(b.dpb, s, top)
  <2>1. /\ c.dpb = Mark(q, s, top) /\ c.sps = b.sps
        /\ (s.idr \/ (Reference(q, s) = s.ref
                      /\ (Gap(b.dpb, s) = << >> \/ (b.sps.gaps = TRUE /\ ~ Full(b.dpb, top)))))
           => c.lost = b.lost
        /\ c.lost = b.lost \/ c.lost = b.lost \cup {s.view}
    BY DecodeIs, Zenon
  <2>2. top = cap
    OBVIOUS
  <2> HIDE DEF top, cap, c
  <2> QED BY <2>1, <2>2
<1> HIDE DEF d, c
<1>6. /\ Buffer(m) /\ m.lt[0] = (IF s.marks = "long" /\ s.as = 0 THEN s.id ELSE e.dpb.lt[0])
      /\ m.prev = (IF s.marks = "none" THEN e.dpb.prev ELSE s.fn)
  BY <1>0, <1>1, MarkKeeps
<1>7. /\ Buffer(n) /\ n.lt[0] = (IF s.marks = "long" /\ s.as = 0 THEN s.id ELSE d.lt[0])
      /\ n.prev = (IF s.marks = "none" THEN d.prev ELSE s.fn)
  BY <1>0, <1>1, <1>4, MarkKeeps
<1> HIDE DEF m, n, f
<1>8. n.lt[0] = m.lt[0]
  BY <1>1, <1>4, <1>6, <1>7
<1>9. n.prev <= m.prev /\ (n.prev < m.prev => b.sps # None /\ b.sps.gaps = TRUE)
  BY <1>1, <1>4, <1>6, <1>7
<1>10. Agree(x, f, c)
  BY <1>0, <1>5, <1>7, <1>8, <1>9 DEF Agree
<1>11. 0 \notin c.lost
  <2>1. CASE s.view = 1
    BY <1>5, <2>1
  <2>2. CASE s.view = 0
    <3>1. s.read = "long" /\ s.name = 0
      BY <2>2 DEF Coded, OfHost, Habit, ChainApart
    <3>2. Reference(d, s) = d.lt[0] /\ Reference(e.dpb, s) = e.dpb.lt[0]
      BY <3>1, LongReference
    <3>3. Reference(d, s) = s.ref
      BY <1>1, <1>4, <3>2
    <3>4. cap \in Nat /\ cap >= 3
      BY DEF ChainApart, Described, Parameters
    <3>5. ~ Full(b.dpb, cap)
      <4> HIDE DEF cap
      <4> QED BY <3>4, RoomToInfer
    <3>6. CASE b.dpb.prev < e.dpb.prev
      BY <1>1, <1>5, <3>3, <3>5, <3>6
    <3>7. CASE ~ (b.dpb.prev < e.dpb.prev)
      <4>1. s.fn = b.dpb.prev + 1
        BY <1>1, <3>7
      <4> QED BY <1>3, <1>5, <3>3, <4>1
    <3> QED BY <3>6, <3>7
  <2> QED BY <1>0, <2>1, <2>2
<1> QED BY <1>5, <1>6, <1>10, <1>11 DEF Decoded, c, f, m

LEMMA DecodeSame ==
    ASSUME NEW x, Described(x), ~ ChainApart(x), NEW e, NEW b, Buffer(e.dpb), Agree(x, e, b),
           NEW s, Coded(x, e, s), ~ s.idr, {"dpb", "lost", "sps"} \subseteq DOMAIN b,
           b.sps.frames = x.sps.frames, 0 \notin b.lost
    PROVE  Decoded(x, e, b, s)
<1> DEFINE cap == x.sps.frames
           m == Mark(e.dpb, s, cap)
           f == Idle(m, TRUE)
           c == decode(b, s)
           d == Infer(b.dpb, s, cap)
<1>0. s.marks \in {"long", "short", "none"} /\ s.idr \in BOOLEAN /\ f.dpb = m
  BY SliceMarks DEF Idle, Coded
<1>1. /\ s.fn = e.dpb.prev + 1 /\ e.dpb.prev \in Nat /\ s.fn \in Nat /\ s.ref = Reference(e.dpb, s)
      /\ b.dpb = e.dpb
  BY DEF Coded, Buffer, Agree
<1>2. e.dpb.prev < s.fn
  BY <1>1
<1>3. IsSeq(Gap(e.dpb, s)) /\ Gap(e.dpb, s) = << >>
  BY <1>0, <1>1, <1>2, GapIs
<1>4. d = e.dpb
  BY <1>1, <1>3, InferKeeps
<1>5. /\ c.dpb = Mark(d, s, cap) /\ c.sps = b.sps
      /\ (Reference(d, s) = s.ref /\ Gap(b.dpb, s) = << >>) => c.lost = b.lost
  BY DecodeIs
<1> HIDE DEF d, c
<1>6. Buffer(m)
  BY <1>0, <1>1, MarkKeeps
<1>7. c.dpb = m /\ c.lost = b.lost
  BY <1>1, <1>3, <1>4, <1>5
<1> HIDE DEF m, f
<1>8. Agree(x, f, c)
  BY <1>0, <1>7 DEF Agree
<1> QED BY <1>5, <1>6, <1>7, <1>8 DEF Decoded, c, f, m

\* A slice that is decoded.
LEMMA DecodeAgrees ==
    ASSUME NEW x, Described(x), NEW e, NEW b, Buffer(e.dpb), Agree(x, e, b),
           NEW s, Coded(x, e, s), s.idr \/ ~ Anew(e), {"dpb", "lost", "sps"} \subseteq DOMAIN b,
           b.sps.frames = x.sps.frames, 0 \notin b.lost
    PROVE  Decoded(x, e, b, s)
<1>1. CASE s.idr
  <2>1. OfHost(x, s)
    BY DEF Coded
  <2> QED BY <1>1, <2>1, DecodeKeyframe
<1>2. CASE ~ s.idr /\ ChainApart(x)
  <2>1. ~ s.idr /\ ~ Anew(e) /\ ChainApart(x)
    BY <1>2
  <2> QED BY <2>1, DecodeApart, Zenon
<1>3. CASE ~ s.idr /\ ~ ChainApart(x)
  BY <1>3, DecodeSame, Zenon
<1> QED BY <1>1, <1>2, <1>3

-----------------------------------------------------------------------------
(* The decoder in step with the encoder *)

BrowserFields == {"open", "data", "dpb", "sps", "told", "torn", "wrongform", "lost"}
SpsFields == {"frames", "colour", "reorder", "gaps"}
SpsOf(x, y) == DOMAIN y = SpsFields /\ y.frames = x.sps.frames

\* The browser is where the encoder's stream is, unless it never heard of the
\* stream, which is then one that may be dropped.
Position(x, live, e, open, b) ==
    /\ e.at = "between" => b.open = None /\ b.data = << >> /\ e.slice = None /\ ~ (live /\ open)
    /\ e.at = "opened" => b.data = << >> /\ e.slice = None
    /\ e.at = "filled" =>
           /\ e.slice # None => /\ Heads(e.head) /\ Coded(x, e, e.slice)
                                /\ e.slice.view = e.head.view /\ e.slice.idr = e.head.key
           /\ b.open # None => b.data = <<e.slice>>
    /\ e.at # "between" /\ b.open = None => Shed(x, e.head) /\ b.data = << >>
    /\ live /\ open => b.open = None

\* Its parameter set allows gaps as long as pictures are or may be dropped.
Picture(x, live, e, b) ==
    /\ b.sps # None => SpsOf(x, b.sps)
    /\ e.begun \/ (Anew(e) /\ b.open # None) => b.sps # None
    /\ b.sps # None /\ (live \/ (e.at # "between" /\ b.open = None)) => b.sps.gaps = TRUE

Rewrites(live, e, rw, b) ==
    live /\ e.at = "opened" /\ b.open # None /\ e.head.op = "h264" => rw.open = TRUE

EncoderOK(e) ==
    /\ DOMAIN e = {"at", "head", "slice", "dpb", "begun"}
    /\ e.at \in Place /\ Buffer(e.dpb) /\ e.begun \in BOOLEAN

Synced(x, live, e, open, rw, b) ==
    /\ EncoderOK(e)
    /\ DOMAIN b = BrowserFields /\ 0 \notin b.lost
    /\ Position(x, live, e, open, b)
    /\ Picture(x, live, e, b)
    /\ Rewrites(live, e, rw, b)
    /\ Agree(x, e, b)

\* What reaches the browser of an instruction that is not dropped.
Faithful(x, live, rw, i, j) ==
    /\ "op" \in DOMAIN j /\ j.op = i.op
    /\ i.op = "blob" =>
           /\ j.slice = i.slice
           /\ i.sps = None => j.sps = None
           /\ i.sps # None /\ SpsOf(x, i.sps) =>
                  j.sps # None /\ SpsOf(x, j.sps) /\ (live /\ rw.open = TRUE => j.sps.gaps = TRUE)

LEMMA ReceiveIdle ==
    ASSUME NEW b, NEW y, y.in.op = "clipboard" \/ (y.in.op \in {"blob", "end"} /\ b.open = None)
    PROVE  receive(b, y) = b
BY DEF receive, onopen, onblob, onend

\* An instruction that opens a stream the browser hears of.
LEMMA OpeningSeen ==
    ASSUME NoneApart, NEW x, NEW live \in BOOLEAN, NEW e, NEW open, NEW rw, NEW b, Synced(x, live, e, open, rw, b),
           e.at = "between", NEW i, i.op = "img" \/ Heads(i), NEW y, "op" \in DOMAIN y.in, y.in.op = i.op,
           NEW w, live /\ i.op = "h264" => w.open = TRUE
    PROVE  Synced(x, live, Advance(x, e, i), open, w, receive(b, y))
<1> DEFINE f == Advance(x, e, i)
           c == receive(b, y)
<1>1. i.op \in {"img", "h264"}
  BY DEF Heads
<1>2. f = [e EXCEPT !.at = "opened", !.head = i]
  BY <1>1 DEF Advance
<1>3. c = [b EXCEPT !.open = y.in, !.data = << >>, !.torn = b.torn \/ b.open # None]
  <2>1. y.in.op \in {"h264", "img"}
    BY <1>1
  <2> QED BY <2>1 DEF receive, onopen, onblob, onend
<1>4. y.in # None
  BY DEF NoneApart
<1> HIDE DEF f, c
<1>0. /\ DOMAIN e = {"at", "head", "slice", "dpb", "begun"} /\ Buffer(e.dpb) /\ e.begun \in BOOLEAN
      /\ DOMAIN b = BrowserFields /\ 0 \notin b.lost
      /\ e.slice = None /\ ~ (live /\ open)
  BY DEF Synced, EncoderOK, Position
<1>5. /\ DOMAIN f = DOMAIN e /\ f.at = "opened" /\ f.head = i /\ f.slice = None /\ f.dpb = e.dpb /\ f.begun = e.begun
  BY <1>0, <1>2
<1>6. /\ DOMAIN c = BrowserFields /\ c.open = y.in /\ c.data = << >>
      /\ c.sps = b.sps /\ c.dpb = b.dpb /\ c.lost = b.lost
  BY <1>0, <1>3 DEF BrowserFields
<1>7. ~ Anew(e) /\ ~ Anew(f)
  BY <1>5 DEF Anew
<1>8. EncoderOK(f)
  BY <1>0, <1>5 DEF EncoderOK, Place
<1>9. Position(x, live, f, open, c)
  BY <1>0, <1>4, <1>5, <1>6 DEF Position
<1>10. Picture(x, live, f, c)
  <2>1. Picture(x, live, e, b)
    BY DEF Synced
  <2> QED BY <1>4, <1>5, <1>6, <1>7, <2>1 DEF Picture
<1>11. Rewrites(live, f, w, c)
  BY <1>5 DEF Rewrites
<1>12. Agree(x, f, c)
  <2>1. Agree(x, e, b)
    BY DEF Synced
  <2> QED BY <1>5, <1>6, <1>7, <2>1 DEF Agree
<1> QED BY <1>0, <1>6, <1>8, <1>9, <1>10, <1>11, <1>12 DEF Synced, f, c

\* One that opens a stream which is dropped.
LEMMA OpeningShed ==
    ASSUME NEW x, NEW e, NEW open, NEW rw, NEW b, Synced(x, TRUE, e, open, rw, b),
           e.at = "between", NEW i, Shed(x, i)
    PROVE  Synced(x, TRUE, Advance(x, e, i), TRUE, rw, b)
<1> DEFINE f == Advance(x, e, i)
<1>1. i.op = "h264"
  BY DEF Heads, Shed
<1>2. f = [e EXCEPT !.at = "opened", !.head = i]
  BY <1>1 DEF Advance
<1> HIDE DEF f
<1>0. /\ DOMAIN e = {"at", "head", "slice", "dpb", "begun"} /\ Buffer(e.dpb) /\ e.begun \in BOOLEAN
      /\ DOMAIN b = BrowserFields /\ 0 \notin b.lost
      /\ e.slice = None /\ b.open = None /\ b.data = << >>
  BY DEF Synced, EncoderOK, Position
<1>5. /\ DOMAIN f = DOMAIN e /\ f.at = "opened" /\ f.head = i /\ f.slice = None /\ f.dpb = e.dpb /\ f.begun = e.begun
  BY <1>0, <1>2
<1>7. ~ Anew(e) /\ ~ Anew(f)
  BY <1>5 DEF Anew
<1>8. EncoderOK(f)
  BY <1>0, <1>5 DEF EncoderOK, Place
<1>9. Position(x, TRUE, f, TRUE, b)
  BY <1>0, <1>5 DEF Position
<1>10. Picture(x, TRUE, f, b)
  <2>1. Picture(x, TRUE, e, b)
    BY DEF Synced
  <2> QED BY <1>5, <1>7, <2>1 DEF Picture
<1>11. Rewrites(TRUE, f, rw, b)
  BY <1>0 DEF Rewrites
<1>12. Agree(x, f, b)
  <2>1. Agree(x, e, b)
    BY DEF Synced
  <2> QED BY <1>5, <1>7, <2>1 DEF Agree
<1> QED BY <1>0, <1>8, <1>9, <1>10, <1>11, <1>12 DEF Synced, f

LEMMA CodedAt ==
    ASSUME NEW x, NEW e, NEW s, Coded(x, e, s), NEW f, f.begun = e.begun, f.dpb = e.dpb
    PROVE  Coded(x, f, s)
BY DEF Coded

\* The data of a stream.
Filled(x, e, f, i) ==
    /\ EncoderOK(f) /\ f.at = "filled" /\ f.head = e.head /\ f.slice = i.slice /\ f.dpb = e.dpb /\ f.begun = e.begun
    /\ f.slice # None =>
           /\ Heads(f.head) /\ Coded(x, f, f.slice) /\ f.slice.view = f.head.view /\ f.slice.idr = f.head.key
           /\ i.sps = IF f.slice.idr THEN x.sps ELSE None

LEMMA BlobFills ==
    ASSUME NEW x, NEW e, EncoderOK(e), e.at = "opened", NEW i, Legal(x, e, i)
    PROVE  Filled(x, e, Advance(x, e, i), i)
<1> DEFINE f == Advance(x, e, i)
<1>1. i.op = "blob" /\ (i.slice # None => Bears(x, e, i))
  BY DEF Legal
<1>2. f = [e EXCEPT !.at = "filled", !.slice = i.slice]
  BY <1>1 DEF Advance
<1> HIDE DEF f
<1>3. /\ DOMAIN f = DOMAIN e /\ f.at = "filled" /\ f.head = e.head /\ f.slice = i.slice
      /\ f.dpb = e.dpb /\ f.begun = e.begun
  BY <1>2 DEF EncoderOK
<1>4. EncoderOK(f)
  BY <1>3 DEF EncoderOK, Place
<1>5. ASSUME f.slice # None
      PROVE  /\ Heads(f.head) /\ Coded(x, f, f.slice) /\ f.slice.view = f.head.view /\ f.slice.idr = f.head.key
             /\ i.sps = IF f.slice.idr THEN x.sps ELSE None
  <2>1. Bears(x, e, i)
    BY <1>1, <1>3, <1>5
  <2>2. Coded(x, e, f.slice)
    BY <1>3, <2>1 DEF Bears
  <2>3. Coded(x, f, f.slice)
    BY <1>3, <2>2, CodedAt
  <2> QED BY <1>3, <2>1, <2>3 DEF Bears
<1> QED BY <1>3, <1>4, <1>5 DEF Filled, f

LEMMA BlobUnseen ==
    ASSUME NEW x, NEW live \in BOOLEAN, NEW e, NEW open, NEW rw, NEW b, Synced(x, live, e, open, rw, b),
           e.at = "opened", NEW i, Legal(x, e, i), b.open = None, NEW w
    PROVE  Synced(x, live, Advance(x, e, i), open, w, b)
<1> DEFINE f == Advance(x, e, i)
<1>0. /\ EncoderOK(e) /\ DOMAIN b = BrowserFields /\ 0 \notin b.lost /\ Agree(x, e, b)
      /\ Position(x, live, e, open, b) /\ Picture(x, live, e, b)
  BY DEF Synced
<1>1. Filled(x, e, f, i)
  BY <1>0, BlobFills
<1> HIDE DEF f
<1>2. ~ Anew(e)
  BY DEF Anew
<1>3. Position(x, live, f, open, b)
  BY <1>0, <1>1 DEF Position, Filled
<1>4. Picture(x, live, f, b)
  BY <1>0, <1>1, <1>2 DEF Picture, Filled
<1>5. Agree(x, f, b)
  BY <1>0, <1>1, <1>2 DEF Agree, Filled
<1>6. Rewrites(live, f, w, b)
  BY <1>1 DEF Rewrites, Filled
<1> QED BY <1>0, <1>1, <1>3, <1>4, <1>5, <1>6 DEF Synced, Filled, f

LEMMA BlobSeen ==
    ASSUME NoneApart, NEW x, Described(x), NEW live \in BOOLEAN, NEW e, NEW open, NEW rw, NEW b,
           Synced(x, live, e, open, rw, b), e.at = "opened", NEW i, Legal(x, e, i), b.open # None,
           ~ (live /\ open), NEW y, Faithful(x, live, rw, i, y.in), NEW w
    PROVE  Synced(x, live, Advance(x, e, i), open, w, receive(b, y))
<1> DEFINE f == Advance(x, e, i)
           c == receive(b, y)
           j == y.in
<1>0. /\ EncoderOK(e) /\ DOMAIN b = BrowserFields /\ 0 \notin b.lost /\ Agree(x, e, b)
      /\ Position(x, live, e, open, b) /\ Picture(x, live, e, b) /\ Rewrites(live, e, rw, b)
  BY DEF Synced
<1>1. Filled(x, e, f, i)
  BY <1>0, BlobFills
<1>2. i.op = "blob" /\ j.op = "blob" /\ j.slice = i.slice
  BY DEF Legal, Faithful
<1>3. c = [b EXCEPT !.data = Append(b.data, j.slice),
                    !.sps = IF j.slice # None /\ j.sps # None THEN j.sps ELSE b.sps,
                    !.wrongform = b.wrongform \/ (y.binary /\ b.open.op # "h264")]
  BY <1>2 DEF receive, onopen, onblob, onend
<1>4. b.data = << >>
  BY <1>0 DEF Position
<1> HIDE DEF f, c, j
<1>5. /\ DOMAIN c = BrowserFields /\ c.open = b.open /\ c.data = <<i.slice>>
      /\ c.dpb = b.dpb /\ c.lost = b.lost
      /\ c.sps = IF i.slice # None /\ j.sps # None THEN j.sps ELSE b.sps
  <2>1. Append(b.data, j.slice) = <<i.slice>>
    BY <1>2, <1>4
  <2>2. Append(b.data, j.slice) = c.data
    BY <1>0, <1>3 DEF BrowserFields
  <2>3. /\ DOMAIN c = BrowserFields /\ c.open = b.open /\ c.dpb = b.dpb /\ c.lost = b.lost
        /\ c.sps = IF j.slice # None /\ j.sps # None THEN j.sps ELSE b.sps
    BY <1>0, <1>3 DEF BrowserFields
  <2> QED BY <1>2, <2>1, <2>2, <2>3
<1>6. ~ Anew(e) /\ f.slice = i.slice /\ f.at = "filled"
  BY <1>1 DEF Anew, Filled
<1>7. ASSUME Anew(f)
      PROVE  c.sps = j.sps /\ j.sps # None /\ SpsOf(x, j.sps) /\ (live => j.sps.gaps = TRUE)
  <2>1. i.slice # None /\ i.sps = x.sps /\ Heads(e.head)
    BY <1>1, <1>7 DEF Filled, Anew
  <2>2. DOMAIN x.sps = SpsFields
    BY DEF Described, Parameters, SpsFields
  <2>3. x.sps # None
    BY <2>2 DEF NoneApart, SpsFields
  <2>4. SpsOf(x, i.sps)
    BY <2>1, <2>2 DEF SpsOf
  <2>5. j.sps # None /\ SpsOf(x, j.sps) /\ (live /\ rw.open = TRUE => j.sps.gaps = TRUE)
    BY <1>2, <2>1, <2>3, <2>4 DEF Faithful, j
  <2>6. live => rw.open = TRUE
    BY <1>0, <2>1 DEF Rewrites, Heads
  <2> QED BY <1>5, <2>1, <2>5, <2>6
<1>8. ASSUME ~ Anew(f)
      PROVE  c.sps = b.sps
  <2>1. CASE i.slice = None
    BY <1>5, <2>1
  <2>2. CASE i.slice # None
    <3>1. ~ i.slice.idr
      BY <1>6, <1>8, <2>2 DEF Anew
    <3>2. i.sps = None
      BY <1>1, <1>6, <2>2, <3>1 DEF Filled
    <3>3. j.sps = None
      BY <1>2, <3>2 DEF Faithful, j
    <3> QED BY <1>5, <3>3
  <2> QED BY <2>1, <2>2
<1>9. Position(x, live, f, open, c)
  BY <1>0, <1>1, <1>5, <1>6 DEF Position, Filled
<1>10. Picture(x, live, f, c)
  <2>1. CASE Anew(f)
    BY <1>5, <1>7, <2>1 DEF Picture
  <2>2. CASE ~ Anew(f)
    BY <1>0, <1>1, <1>5, <1>8, <2>2 DEF Picture, Filled
  <2> QED BY <2>1, <2>2
<1>11. Agree(x, f, c)
  <2>1. CASE Anew(f)
    BY <1>0, <1>1, <1>5, <2>1 DEF Agree, Filled
  <2>2. CASE ~ Anew(f)
    BY <1>0, <1>1, <1>5, <1>6, <1>8, <2>2 DEF Agree, Filled
  <2> QED BY <2>1, <2>2
<1>12. Rewrites(live, f, w, c)
  BY <1>6 DEF Rewrites
<1> QED BY <1>0, <1>1, <1>5, <1>9, <1>10, <1>11, <1>12 DEF Synced, Filled, f, c

\* The end of a stream.
LEMMA EndIs ==
    ASSUME NEW x, NEW e, NEW i, i.op = "end"
    PROVE  /\ e.slice = None => Advance(x, e, i) = Idle(e.dpb, e.begun)
           /\ e.slice # None => Advance(x, e, i) = Idle(Mark(e.dpb, e.slice, x.sps.frames), TRUE)
BY DEF Advance

LEMMA IdleSynced ==
    ASSUME NEW x, NEW live \in BOOLEAN, NEW d, Buffer(d), NEW g \in BOOLEAN, NEW open, ~ (live /\ open),
           NEW c, DOMAIN c = BrowserFields, 0 \notin c.lost, c.open = None, c.data = << >>,
           c.sps # None => SpsOf(x, c.sps), g => c.sps # None, live /\ c.sps # None => c.sps.gaps = TRUE,
           Agree(x, Idle(d, g), c), NEW w
    PROVE  Synced(x, live, Idle(d, g), open, w, c)
<1> DEFINE f == Idle(d, g)
<1>1. /\ DOMAIN f = {"at", "head", "slice", "dpb", "begun"} /\ f.at = "between" /\ f.slice = None
      /\ f.dpb = d /\ f.begun = g
  BY DEF Idle
<1> HIDE DEF f
<1>2. ~ Anew(f)
  BY <1>1 DEF Anew
<1>3. EncoderOK(f)
  BY <1>1 DEF EncoderOK, Place
<1>4. Position(x, live, f, open, c)
  BY <1>1 DEF Position
<1>5. Picture(x, live, f, c)
  BY <1>1, <1>2 DEF Picture
<1>6. Rewrites(live, f, w, c)
  BY <1>1 DEF Rewrites
<1>7. Agree(x, f, c)
  BY DEF f
<1> QED BY <1>3, <1>4, <1>5, <1>6, <1>7 DEF Synced, f

LEMMA EndUnseen ==
    ASSUME NEW x, Described(x), NEW live \in BOOLEAN, NEW e, NEW open, NEW rw, NEW b,
           Synced(x, live, e, open, rw, b), e.at = "filled", NEW i, i.op = "end", b.open = None,
           NEW after, ~ (live /\ after), NEW w
    PROVE  Synced(x, live, Advance(x, e, i), after, w, b)
<1>0. /\ EncoderOK(e) /\ DOMAIN b = BrowserFields /\ 0 \notin b.lost /\ Agree(x, e, b)
      /\ Position(x, live, e, open, b) /\ Picture(x, live, e, b)
  BY DEF Synced
<1>1. Buffer(e.dpb) /\ e.begun \in BOOLEAN /\ Shed(x, e.head) /\ b.data = << >>
  BY <1>0 DEF EncoderOK, Position
<1>2. /\ b.sps # None => SpsOf(x, b.sps) /\ b.sps.gaps = TRUE
      /\ e.begun => b.sps # None
  BY <1>0 DEF Picture
<1>3. CASE e.slice = None
  <2>1. Advance(x, e, i) = Idle(e.dpb, e.begun)
    BY <1>3, EndIs
  <2>2. Agree(x, Idle(e.dpb, e.begun), b)
    BY <1>0, <1>3 DEF Agree, Idle, Anew
  <2>3. Synced(x, live, Idle(e.dpb, e.begun), after, w, b)
    BY <1>0, <1>1, <1>2, <2>2, IdleSynced
  <2> QED BY <2>1, <2>3
<1>4. CASE e.slice # None
  <2> DEFINE s == e.slice
             m == Mark(e.dpb, s, x.sps.frames)
  <2>1. Advance(x, e, i) = Idle(m, TRUE)
    BY <1>4, EndIs
  <2>2. Coded(x, e, s) /\ s.view = e.head.view /\ s.idr = e.head.key
    BY <1>0, <1>4 DEF Position
  <2>3. ~ s.idr /\ s.view = 1 /\ Harmless(x)
    BY <1>1, <2>2 DEF Shed, Heads
  <2>4. e.begun
    BY <2>2, <2>3 DEF Coded
  <2>5. b.sps # None /\ b.sps.gaps = TRUE /\ SpsOf(x, b.sps)
    BY <1>2, <2>4
  <2>6. Buffer(m) /\ Agree(x, Idle(m, TRUE), b)
    <3> HIDE DEF s
    <3> QED BY <1>0, <1>1, <2>2, <2>3, <2>5, ShedAgrees
  <2> HIDE DEF m
  <2>7. Synced(x, live, Idle(m, TRUE), after, w, b)
    BY <1>0, <1>1, <2>5, <2>6, IdleSynced
  <2> QED BY <2>1, <2>7
<1> QED BY <1>3, <1>4

LEMMA EndSeen ==
    ASSUME NEW x, Described(x), NEW live \in BOOLEAN, NEW e, NEW open, NEW rw, NEW b,
           Synced(x, live, e, open, rw, b), e.at = "filled", NEW i, i.op = "end", b.open # None,
           ~ (live /\ open), NEW y, y.in.op = "end", NEW w
    PROVE  Synced(x, live, Advance(x, e, i), open, w, receive(b, y))
<1> DEFINE c == receive(b, y)
           s == e.slice
<1>0. /\ EncoderOK(e) /\ DOMAIN b = BrowserFields /\ 0 \notin b.lost /\ Agree(x, e, b)
      /\ Position(x, live, e, open, b) /\ Picture(x, live, e, b)
  BY DEF Synced
<1>1. Buffer(e.dpb) /\ e.begun \in BOOLEAN /\ b.data = <<s>>
  BY <1>0 DEF EncoderOK, Position
<1>2. b.data # << >> /\ b.data[1] = s
  BY <1>1
<1>3. /\ b.sps # None => SpsOf(x, b.sps)
      /\ e.begun \/ Anew(e) => b.sps # None
      /\ live /\ b.sps # None => b.sps.gaps = TRUE
  BY <1>0 DEF Picture
<1>4. CASE s = None
  <2>1. Advance(x, e, i) = Idle(e.dpb, e.begun)
    BY <1>4, EndIs
  <2>2. \E t : c = [b EXCEPT !.open = None, !.data = << >>, !.torn = t]
    BY <1>2, <1>4 DEF receive, onopen, onblob, onend
  <2> HIDE DEF c
  <2>3. DOMAIN c = BrowserFields /\ c.open = None /\ c.data = << >> /\ c.dpb = b.dpb /\ c.sps = b.sps /\ c.lost = b.lost
    BY <1>0, <2>2 DEF BrowserFields
  <2>4. Agree(x, Idle(e.dpb, e.begun), c)
    BY <1>0, <1>4, <2>3 DEF Agree, Idle, Anew
  <2>5. Synced(x, live, Idle(e.dpb, e.begun), open, w, c)
    BY <1>0, <1>1, <1>3, <2>3, <2>4, IdleSynced
  <2> QED BY <2>1, <2>5 DEF c
<1>5. CASE s # None
  <2> DEFINE m == Mark(e.dpb, s, x.sps.frames)
             q == decode(b, s)
  <2>1. Advance(x, e, i) = Idle(m, TRUE)
    BY <1>5, EndIs
  <2>2. \E t : c = [q EXCEPT !.open = None, !.data = << >>, !.torn = t]
    BY <1>2, <1>5 DEF receive, onopen, onblob, onend
  <2>3. DOMAIN q = BrowserFields
    BY <1>0, DecodeKeeps
  <2>4. Coded(x, e, s)
    BY <1>0, <1>5 DEF Position
  <2>5. s.idr \in BOOLEAN /\ (~ s.idr => e.begun)
    BY <2>4 DEF Coded, OfHost
  <2>6. (s.idr => Anew(e)) /\ (~ s.idr => ~ Anew(e))
    BY <1>5, <2>5 DEF Anew
  <2>7. b.sps # None /\ SpsOf(x, b.sps) /\ b.sps.frames = x.sps.frames /\ (live => b.sps.gaps = TRUE)
    BY <1>3, <2>5, <2>6 DEF SpsOf
  <2>8. Decoded(x, e, b, s)
    <3>1. {"dpb", "lost", "sps"} \subseteq DOMAIN b /\ (s.idr \/ ~ Anew(e))
      BY <1>0, <2>5, <2>6 DEF BrowserFields
    <3> HIDE DEF s
    <3> QED BY <1>0, <1>1, <2>4, <2>7, <3>1, DecodeAgrees, Zenon
  <2>9. Buffer(m) /\ Agree(x, Idle(m, TRUE), q) /\ 0 \notin q.lost /\ q.sps = b.sps
    BY <2>8 DEF Decoded
  <2> HIDE DEF c, m, q
  <2>10. DOMAIN c = BrowserFields /\ c.open = None /\ c.data = << >> /\ c.dpb = q.dpb /\ c.sps = q.sps /\ c.lost = q.lost
    BY <2>2, <2>3 DEF BrowserFields
  <2>11. Agree(x, Idle(m, TRUE), c)
    BY <2>9, <2>10 DEF Agree
  <2>12. Synced(x, live, Idle(m, TRUE), open, w, c)
    BY <2>7, <2>9, <2>10, <2>11, IdleSynced
  <2> QED BY <2>1, <2>12 DEF c
<1> QED BY <1>4, <1>5

\* An instruction that reaches the browser.
LEMMA KeptStep ==
    ASSUME NoneApart, NEW x, Described(x), NEW live \in BOOLEAN, NEW e, NEW open, NEW rw, NEW b,
           Synced(x, live, e, open, rw, b), NEW i, Legal(x, e, i), i.op \in {"blob", "end"} => ~ (live /\ open),
           NEW y, Faithful(x, live, rw, i, y.in), NEW w, live /\ i.op = "h264" => w.open = TRUE
    PROVE  Synced(x, live, Advance(x, e, i), open, w, receive(b, y))
<1>0. /\ "op" \in DOMAIN y.in /\ y.in.op = i.op /\ e.at \in Place /\ EncoderOK(e)
  BY DEF Faithful, Synced, EncoderOK
<1>1. CASE e.at = "between"
  <2>1. i.op = "clipboard" \/ i.op = "img" \/ Heads(i)
    BY <1>1 DEF Legal
  <2>2. CASE i.op = "clipboard"
    <3>1. Advance(x, e, i) = e /\ receive(b, y) = b
      BY <1>0, <2>2, ReceiveIdle DEF Advance
    <3>2. Synced(x, live, e, open, w, b)
      BY <1>1 DEF Synced, Rewrites
    <3> QED BY <3>1, <3>2
  <2>3. CASE i.op = "img" \/ Heads(i)
    BY <1>0, <1>1, <2>3, OpeningSeen
  <2> QED BY <2>1, <2>2, <2>3
<1>2. CASE e.at = "opened"
  <2>1. i.op = "blob"
    BY <1>2 DEF Legal
  <2>2. CASE b.open = None
    <3>1. receive(b, y) = b
      BY <1>0, <2>1, <2>2, ReceiveIdle
    <3>2. Synced(x, live, Advance(x, e, i), open, w, b)
      BY <1>2, <2>2, BlobUnseen
    <3> QED BY <3>1, <3>2
  <2>3. CASE b.open # None
    BY <1>2, <2>1, <2>3, BlobSeen
  <2> QED BY <2>2, <2>3
<1>3. CASE e.at = "filled"
  <2>1. i.op = "end"
    BY <1>3 DEF Legal
  <2>2. CASE b.open = None
    <3>1. receive(b, y) = b
      BY <1>0, <2>1, <2>2, ReceiveIdle
    <3>2. ~ (live /\ open)
      BY <2>1
    <3>3. Synced(x, live, Advance(x, e, i), open, w, b)
      BY <1>3, <2>1, <2>2, <3>2, EndUnseen
    <3> QED BY <3>1, <3>3
  <2>3. CASE b.open # None
    BY <1>0, <1>3, <2>1, <2>3, EndSeen
  <2> QED BY <2>2, <2>3
<1> QED BY <1>0, <1>1, <1>2, <1>3 DEF Place

\* One that is dropped.
LEMMA DroppedStep ==
    ASSUME NEW x, Described(x), Harmless(x), NEW e, NEW open \in BOOLEAN, NEW rw, NEW b,
           Synced(x, TRUE, e, open, rw, b), NEW i, Legal(x, e, i), NEW after,
           \/ i.op = "h264" /\ i.view # 0 /\ ~ i.key /\ after = TRUE
           \/ i.op = "blob" /\ open /\ after = open
           \/ i.op = "end" /\ open /\ after = FALSE
    PROVE  Synced(x, TRUE, Advance(x, e, i), after, rw, b)
<1>0. EncoderOK(e) /\ e.at \in Place /\ (open => b.open = None) /\ (e.at = "between" => ~ open)
  BY DEF Synced, EncoderOK, Position
<1>1. CASE i.op = "h264"
  <2>1. e.at = "between" /\ Heads(i)
    BY <1>0, <1>1 DEF Legal, Place
  <2>2. Shed(x, i) /\ after = TRUE
    BY <1>1, <2>1 DEF Shed
  <2> QED BY <2>1, <2>2, OpeningShed
<1>2. CASE i.op = "blob"
  <2>1. e.at = "opened"
    BY <1>0, <1>2 DEF Legal, Place, Heads
  <2> QED BY <1>0, <1>2, <2>1, BlobUnseen
<1>3. CASE i.op = "end"
  <2>1. e.at = "filled"
    BY <1>0, <1>3 DEF Legal, Place, Heads
  <2> QED BY <1>0, <1>3, <2>1, EndUnseen
<1> QED BY <1>1, <1>2, <1>3

\* What the rewriter hands on.
RewriterFields == {"state", "bound", "gaps", "open"}
Payload(x, r, i, w) ==
    /\ DOMAIN w.sps = RewriterFields /\ w.sps.gaps = r.gaps /\ w.sps.open = r.open
    /\ DOMAIN w.blob = DOMAIN i /\ w.blob.op = i.op /\ w.blob.slice = i.slice
    /\ SpsOf(x, i.sps) => SpsOf(x, w.blob.sps) /\ (r.gaps = TRUE => w.blob.sps.gaps = TRUE)

LEMMA PayloadKeeps ==
    ASSUME NEW x, NEW r, DOMAIN r = RewriterFields, NEW i, {"op", "slice", "sps"} \subseteq DOMAIN i
    PROVE  Payload(x, r, i, rewritten_payload(r, i))
<1> DEFINE first == r.state = "undecided"
           now == [r EXCEPT !.state = IF first THEN (IF needs_description(i.sps) THEN "rewriting" ELSE "pass") ELSE @,
                            !.bound = IF first THEN reordering_unbounded(i.sps) ELSE @]
           a == IF now.state = "rewriting" THEN complete_colour_signalling(i.sps) ELSE i.sps
           c == IF now.bound THEN declare_no_reordering(a) ELSE a
           d == IF now.gaps THEN allow_frame_num_gaps(c) ELSE c
           w == rewritten_payload(r, i)
<1>1. w = [sps |-> now, blob |-> [i EXCEPT !.sps = d]]
  BY DEF rewritten_payload
<1>2. DOMAIN now = RewriterFields /\ now.gaps = r.gaps /\ now.open = r.open
  BY DEF RewriterFields
<1>3. SpsOf(x, i.sps) => SpsOf(x, a)
  BY DEF SpsOf, complete_colour_signalling, SpsFields
<1>4. SpsOf(x, a) => SpsOf(x, c)
  <2> HIDE DEF a, now
  <2> QED BY DEF SpsOf, declare_no_reordering, SpsFields
<1>5. SpsOf(x, c) => SpsOf(x, d) /\ (now.gaps = TRUE => d.gaps = TRUE)
  <2> HIDE DEF c, now
  <2> QED BY DEF SpsOf, allow_frame_num_gaps, SpsFields
<1> HIDE DEF d, now, c, a, w
<1>6. /\ w.sps = now /\ DOMAIN w.blob = DOMAIN i /\ w.blob.op = i.op /\ w.blob.slice = i.slice /\ w.blob.sps = d
  BY <1>1
<1>7. Payload(x, r, i, w)
  BY <1>2, <1>3, <1>4, <1>5, <1>6 DEF Payload
<1> QED BY <1>7 DEF w

\* The rewriter in the middle of a chunk.
Rewriting(live, r) ==
    DOMAIN r = {"sps", "out"} /\ DOMAIN r.sps = RewriterFields /\ IsSeq(r.out) /\ (live => r.sps.gaps = TRUE)

\* What the dropper hands on.
Handed(i, j) ==
    /\ "op" \in DOMAIN j /\ j.op = i.op
    /\ i.op = "blob" => j = i /\ {"slice", "sps"} \subseteq DOMAIN i
Rewrote(x, live, r, i, n) ==
    /\ Rewriting(live, n)
    /\ i.op = "h264" => n.sps.open = TRUE
    /\ \E k : Faithful(x, live, r.sps, i, k) /\ n.out = Append(r.out, k)

LEMMA RewriteStep ==
    ASSUME NoneApart, NEW x, NEW live \in BOOLEAN, NEW r, Rewriting(live, r), NEW i, NEW j, Handed(i, j)
    PROVE  Rewrote(x, live, r, i, RewriteOne(r, j))
<1> DEFINE n == RewriteOne(r, j)
           w == rewritten_payload(r.sps, j)
<1>0. /\ DOMAIN r = {"sps", "out"} /\ DOMAIN r.sps = RewriterFields /\ IsSeq(r.out) /\ (live => r.sps.gaps = TRUE)
      /\ "op" \in DOMAIN j /\ j.op = i.op
  BY DEF Rewriting, Handed
<1>1. ASSUME NEW k PROVE IsSeq(Append(r.out, k))
  BY <1>0, AppendIs DEF IsSeq
<1>2. CASE j.op = "blob" /\ r.sps.open /\ j.sps # None
  <2>1. n = [sps |-> w.sps, out |-> Append(r.out, w.blob)]
    BY <1>2 DEF RewriteOne
  <2>2. j = i /\ {"op", "slice", "sps"} \subseteq DOMAIN j
    BY <1>0, <1>2 DEF Handed
  <2>3. Payload(x, r.sps, j, w)
    BY <1>0, <2>2, PayloadKeeps, Zenon
  <2> HIDE DEF n, w
  <2>4. n.sps = w.sps /\ n.out = Append(r.out, w.blob) /\ DOMAIN n = {"sps", "out"}
    BY <2>1
  <2>5. Rewriting(live, n)
    BY <1>0, <1>1, <2>3, <2>4 DEF Rewriting, Payload
  <2>6. SpsOf(x, w.blob.sps) => w.blob.sps # None
    BY DEF SpsOf, SpsFields, NoneApart
  <2>7. Faithful(x, live, r.sps, i, w.blob)
    BY <1>0, <1>2, <2>2, <2>3, <2>6 DEF Faithful, Payload
  <2>8. Rewrote(x, live, r, i, n)
    BY <1>0, <1>2, <2>4, <2>5, <2>7 DEF Rewrote
  <2> QED BY <2>8 DEF n
<1>3. CASE ~ (j.op = "blob" /\ r.sps.open /\ j.sps # None)
  <2>1. Faithful(x, live, r.sps, i, j)
    BY <1>0, <1>3 DEF Faithful, Handed
  <2>2. n.sps.open = TRUE \/ j.op # "h264"
    BY <1>0 DEF RewriteOne, RewriterFields
  <2>4. /\ DOMAIN n = {"sps", "out"} /\ DOMAIN n.sps = RewriterFields /\ n.sps.gaps = r.sps.gaps
        /\ n.out = Append(r.out, j)
    <3>1. CASE j.op = "h264"
      BY <1>0, <3>1 DEF RewriteOne, RewriterFields
    <3>2. CASE j.op = "end"
      BY <1>0, <3>2 DEF RewriteOne, RewriterFields
    <3>3. CASE j.op \notin {"h264", "end"}
      <4>1. n = [r EXCEPT !.out = Append(r.out, j)]
        BY <1>3, <3>3 DEF RewriteOne
      <4> HIDE DEF n
      <4> QED BY <1>0, <4>1
    <3> QED BY <3>1, <3>2, <3>3
  <2> HIDE DEF n
  <2>5. Rewriting(live, n)
    BY <1>0, <1>1, <2>4 DEF Rewriting
  <2>6. i.op = "h264" => n.sps.open = TRUE
    BY <1>0, <2>2
  <2>7. Rewrote(x, live, r, i, n)
    BY <2>1, <2>4, <2>5, <2>6 DEF Rewrote
  <2> QED BY <2>7 DEF n
<1> QED BY <1>2, <1>3

-----------------------------------------------------------------------------
(* A chunk on its way, instruction by instruction *)

\* What the dropper does to an instruction: n is what comes of its state f.
Sheds(f, i, n) ==
    /\ n.out = f.out
    /\ \/ i.op = "h264" /\ i.view # 0 /\ ~ i.key /\ n.open = TRUE
       \/ i.op = "blob" /\ f.open /\ n.open = f.open
       \/ i.op = "end" /\ f.open /\ n.open = FALSE
Keeps(f, i, n) ==
    /\ n.open = f.open /\ (i.op \in {"blob", "end"} => ~ f.open)
    /\ \E j : Handed(i, j) /\ n.out = Append(f.out, j)

LEMMA OpenerHeads ==
    ASSUME NEW x, NEW e, e.at \in Place, NEW i, Legal(x, e, i), i.op = "h264"
    PROVE  e.at = "between" /\ Heads(i)
BY DEF Legal, Place

LEMMA Unchanged ==
    ASSUME NEW x, NEW e, e.at \in Place, NEW i, Legal(x, e, i)
    PROVE  Handed(i, i)
BY DEF Legal, Place, Handed, Heads

LEMMA ClassifyStep ==
    ASSUME NEW x, NEW e, e.at \in Place, NEW i, Legal(x, e, i),
           NEW f, DOMAIN f = {"open", "out"}, f.open \in BOOLEAN
    PROVE  /\ DOMAIN classify(f, i) = {"open", "out"} /\ classify(f, i).open \in BOOLEAN
           /\ Sheds(f, i, classify(f, i)) \/ Keeps(f, i, classify(f, i))
<1> DEFINE n == classify(f, i)
<1>0. Handed(i, i)
  BY Unchanged
<1>1. CASE i.op = "h264"
  <2>1. Heads(i)
    BY <1>1, OpenerHeads
  <2>2. CASE i.view # 0 /\ ~ i.key
    <3>1. n = [f EXCEPT !.open = TRUE]
      BY <1>1, <2>2 DEF classify
    <3> HIDE DEF n
    <3>2. n.out = f.out /\ n.open = TRUE /\ DOMAIN n = {"open", "out"}
      BY <3>1
    <3>3. Sheds(f, i, n)
      BY <1>1, <2>2, <3>2 DEF Sheds
    <3> QED BY <3>2, <3>3 DEF n
  <2>3. CASE ~ (i.view # 0 /\ ~ i.key)
    <3> DEFINE j == [i EXCEPT !.paired = FALSE]
    <3>1. n = [f EXCEPT !.out = Append(f.out, j)]
      BY <1>1, <2>3 DEF classify
    <3>2. Handed(i, j)
      BY <1>1, <2>1 DEF Handed, Heads
    <3> HIDE DEF n, j
    <3>3. n.out = Append(f.out, j) /\ n.open = f.open /\ DOMAIN n = {"open", "out"}
      BY <3>1
    <3>4. Keeps(f, i, n)
      BY <1>1, <3>2, <3>3 DEF Keeps
    <3> QED BY <3>3, <3>4 DEF n
  <2> QED BY <2>2, <2>3
<1>2. CASE i.op = "blob" /\ f.open
  <2>1. n = f
    BY <1>2 DEF classify
  <2>2. Sheds(f, i, n)
    BY <1>2, <2>1 DEF Sheds
  <2> QED BY <2>1, <2>2
<1>3. CASE i.op = "end" /\ f.open
  <2>1. n = [f EXCEPT !.open = FALSE]
    BY <1>3 DEF classify
  <2> HIDE DEF n
  <2>2. n.out = f.out /\ n.open = FALSE /\ DOMAIN n = {"open", "out"}
    BY <2>1
  <2>3. Sheds(f, i, n)
    BY <1>3, <2>2 DEF Sheds
  <2> QED BY <2>2, <2>3 DEF n
<1>4. CASE i.op # "h264" /\ ~ (i.op \in {"blob", "end"} /\ f.open)
  <2>1. n = [f EXCEPT !.out = Append(f.out, i)]
    BY <1>4 DEF classify
  <2> HIDE DEF n
  <2>2. n.out = Append(f.out, i) /\ n.open = f.open /\ DOMAIN n = {"open", "out"}
    BY <2>1
  <2>3. Keeps(f, i, n)
    BY <1>0, <1>4, <2>2 DEF Keeps
  <2> QED BY <2>2, <2>3 DEF n
<1> QED BY <1>1, <1>2, <1>3, <1>4

\* The stages, for the part s of a chunk: c says in which state they meet it.
DropsTo(c, s) ==
    IF c.dropping THEN FoldLeft(classify, [open |-> c.open, out |-> << >>], s) ELSE [open |-> c.open, out |-> s]
RewritesTo(c, s) ==
    IF c.pass THEN [sps |-> c.sps, out |-> s] ELSE FoldLeft(RewriteOne, [sps |-> c.sps, out |-> << >>], s)
SplitsTo(c, s) == FoldLeft(split_one, [open |-> c.split, out |-> << >>], s)
ShowsTo(c, s) == FoldLeft(receive, c.browser, s)

Stages(c, f, r, y, b, e) ==
    /\ DOMAIN f = {"open", "out"} /\ f.open \in BOOLEAN /\ IsSeq(f.out)
    /\ c.live /\ ~ c.dropping => ~ f.open
    /\ Rewriting(c.live, r)
    /\ IsSeq(y.out)
    /\ Synced(c.shape, c.live, e, f.open, r.sps, b)
Piped(c, s, e) ==
    LET f == DropsTo(c, s)
        r == RewritesTo(c, f.out)
        y == SplitsTo(c, r.out)
    IN  IsSeq(s) /\ Stages(c, f, r, y, ShowsTo(c, y.out), e)

\* A chunk is dropped from only while that is harmless, and its parameter sets
\* pass as they are only where nothing is or may be dropped.
Context(c) ==
    /\ NoneApart /\ Described(c.shape)
    /\ c.live \in BOOLEAN /\ c.dropping \in BOOLEAN /\ c.pass \in BOOLEAN
    /\ c.dropping => c.live /\ Harmless(c.shape)
    /\ c.live => ~ c.pass

LEMMA DropsGrow ==
    ASSUME NEW c, Context(c), NEW s, IsSeq(s), NEW e, e.at \in Place, NEW i, Legal(c.shape, e, i),
           NEW f, f = DropsTo(c, s), DOMAIN f = {"open", "out"}, f.open \in BOOLEAN
    PROVE  /\ DOMAIN DropsTo(c, Append(s, i)) = {"open", "out"} /\ DropsTo(c, Append(s, i)).open \in BOOLEAN
           /\ \/ c.dropping /\ Sheds(f, i, DropsTo(c, Append(s, i)))
              \/ /\ \E j : Handed(i, j) /\ DropsTo(c, Append(s, i)).out = Append(f.out, j)
                 /\ DropsTo(c, Append(s, i)).open = f.open
                 /\ c.dropping /\ i.op \in {"blob", "end"} => ~ f.open
<1> DEFINE n == DropsTo(c, Append(s, i))
<1>1. CASE c.dropping
  <2>1. n = classify(f, i)
    BY <1>1, ClassifyGrows DEF DropsTo
  <2>2. /\ DOMAIN n = {"open", "out"} /\ n.open \in BOOLEAN
        /\ Sheds(f, i, n) \/ Keeps(f, i, n)
    <3>1. /\ DOMAIN classify(f, i) = {"open", "out"} /\ classify(f, i).open \in BOOLEAN
          /\ Sheds(f, i, classify(f, i)) \/ Keeps(f, i, classify(f, i))
      BY ClassifyStep
    <3> QED BY <2>1, <3>1
  <2> QED BY <1>1, <2>2 DEF Keeps
<1>2. CASE ~ c.dropping
  <2>1. n = [open |-> c.open, out |-> Append(s, i)] /\ f = [open |-> c.open, out |-> s]
    BY <1>2 DEF DropsTo
  <2>2. Handed(i, i)
    BY Unchanged
  <2> HIDE DEF n
  <2>3. DOMAIN n = {"open", "out"} /\ n.out = Append(f.out, i) /\ n.open = f.open
    BY <2>1
  <2> QED BY <1>2, <2>2, <2>3 DEF n
<1> QED BY <1>1, <1>2

Passes(c, r, i, n) ==
    /\ Rewriting(c.live, n)
    /\ c.live /\ i.op = "h264" => n.sps.open = TRUE
    /\ \E k : Faithful(c.shape, c.live, r.sps, i, k) /\ n.out = Append(r.out, k)

LEMMA RewritesGrow ==
    ASSUME NEW c, Context(c), NEW s, IsSeq(s), NEW r, r = RewritesTo(c, s), Rewriting(c.live, r),
           NEW i, NEW j, Handed(i, j)
    PROVE  Passes(c, r, i, RewritesTo(c, Append(s, j)))
<1> DEFINE n == RewritesTo(c, Append(s, j))
<1>1. CASE ~ c.pass
  <2>1. n = RewriteOne(r, j)
    BY <1>1, RewriteGrows DEF RewritesTo
  <2>2. Rewrote(c.shape, c.live, r, i, n)
    <3>1. Rewrote(c.shape, c.live, r, i, RewriteOne(r, j))
      BY RewriteStep, Zenon DEF Context
    <3> QED BY <2>1, <3>1
  <2> HIDE DEF n
  <2>3. Passes(c, r, i, n)
    BY <2>2, Zenon DEF Rewrote, Passes
  <2> QED BY <2>3 DEF n
<1>2. CASE c.pass
  <2>1. n = [sps |-> c.sps, out |-> Append(s, j)] /\ r = [sps |-> c.sps, out |-> s]
    BY <1>2 DEF RewritesTo
  <2>2. IsSeq(Append(s, j))
    BY AppendIs DEF IsSeq
  <2>3. ~ c.live
    BY <1>2 DEF Context
  <2> HIDE DEF n
  <2>4. DOMAIN n = {"sps", "out"} /\ n.sps = r.sps /\ n.out = Append(r.out, j)
    BY <2>1
  <2>5. Rewriting(c.live, n)
    BY <2>1, <2>2, <2>3, <2>4 DEF Rewriting
  <2>6. Faithful(c.shape, c.live, r.sps, i, j)
    BY <2>3 DEF Faithful, Handed
  <2>7. Passes(c, r, i, n)
    BY <2>3, <2>4, <2>5, <2>6 DEF Passes
  <2> QED BY <2>7 DEF n
<1> QED BY <1>1, <1>2 DEF Context

LEMMA SplitsGrow ==
    ASSUME NEW c, NEW s, IsSeq(s), NEW k
    PROVE  SplitsTo(c, Append(s, k)) = split_one(SplitsTo(c, s), k)
BY SplitGrows DEF SplitsTo

LEMMA ShowsGrow ==
    ASSUME NEW c, NEW s, IsSeq(s), NEW k
    PROVE  ShowsTo(c, Append(s, k)) = receive(ShowsTo(c, s), k)
BY ReceiveGrows DEF ShowsTo

\* The next instruction of the chunk.
LEMMA PipedGrows ==
    ASSUME NEW c, Context(c), NEW s, NEW e, Piped(c, s, e), NEW i, Legal(c.shape, e, i)
    PROVE  Piped(c, Append(s, i), Advance(c.shape, e, i))
<1> DEFINE t == Append(s, i)
           f == DropsTo(c, s)
           r == RewritesTo(c, f.out)
           y == SplitsTo(c, r.out)
           b == ShowsTo(c, y.out)
           ff == DropsTo(c, t)
           rr == RewritesTo(c, ff.out)
           yy == SplitsTo(c, rr.out)
           bb == ShowsTo(c, yy.out)
           a == Advance(c.shape, e, i)
<1>1. IsSeq(s) /\ Stages(c, f, r, y, b, e)
  BY DEF Piped
<1>2. IsSeq(t)
  BY <1>1, AppendIs DEF IsSeq
<1>s. SUFFICES Stages(c, ff, rr, yy, bb, a)
  BY <1>2 DEF Piped
<1>3. /\ DOMAIN f = {"open", "out"} /\ f.open \in BOOLEAN /\ IsSeq(f.out)
      /\ (c.live /\ ~ c.dropping => ~ f.open)
      /\ Rewriting(c.live, r) /\ IsSeq(y.out) /\ Synced(c.shape, c.live, e, f.open, r.sps, b)
  BY <1>1 DEF Stages
<1>4. e.at \in Place
  BY <1>3 DEF Synced, EncoderOK
<1>5. /\ DOMAIN ff = {"open", "out"} /\ ff.open \in BOOLEAN
      /\ \/ c.dropping /\ Sheds(f, i, ff)
         \/ /\ \E j : Handed(i, j) /\ ff.out = Append(f.out, j)
            /\ ff.open = f.open
            /\ c.dropping /\ i.op \in {"blob", "end"} => ~ f.open
  <2> HIDE DEF f
  <2> QED BY <1>1, <1>3, <1>4, DropsGrow DEF f
<1>6. CASE c.dropping /\ Sheds(f, i, ff)
  <2>1. ff.out = f.out
    BY <1>6 DEF Sheds
  <2>2. rr = r /\ yy = y /\ bb = b
    BY <2>1
  <2>3. c.live = TRUE /\ Harmless(c.shape) /\ Described(c.shape)
    BY <1>6 DEF Context
  <2>4. Synced(c.shape, c.live, a, ff.open, r.sps, b)
    <3> HIDE DEF f, ff, r, b
    <3>1. \/ i.op = "h264" /\ i.view # 0 /\ ~ i.key /\ ff.open = TRUE
          \/ i.op = "blob" /\ f.open /\ ff.open = f.open
          \/ i.op = "end" /\ f.open /\ ff.open = FALSE
      BY <1>6 DEF Sheds
    <3>2. Synced(c.shape, TRUE, e, f.open, r.sps, b)
      BY <1>3, <2>3
    <3>3. Synced(c.shape, TRUE, a, ff.open, r.sps, b)
      BY <1>3, <2>3, <3>1, <3>2, DroppedStep
    <3> QED BY <2>3, <3>3
  <2> HIDE DEF f, ff, r, rr, y, yy, b, bb, a
  <2> QED BY <1>3, <1>5, <1>6, <2>1, <2>2, <2>4 DEF Stages
<1>7. CASE /\ \E j : Handed(i, j) /\ ff.out = Append(f.out, j)
           /\ ff.open = f.open
           /\ c.dropping /\ i.op \in {"blob", "end"} => ~ f.open
  <2> HIDE DEF f, ff
  <2>1. PICK j : Handed(i, j) /\ ff.out = Append(f.out, j)
    BY <1>7
  <2>2. IsSeq(ff.out)
    <3>1. IsSeq(Append(f.out, j))
      BY <1>3, AppendIs DEF IsSeq
    <3> QED BY <2>1, <3>1
  <2>3. /\ Rewriting(c.live, rr)
        /\ c.live /\ i.op = "h264" => rr.sps.open = TRUE
        /\ \E k : Faithful(c.shape, c.live, r.sps, i, k) /\ rr.out = Append(r.out, k)
    <3>1. rr = RewritesTo(c, Append(f.out, j))
      BY <2>1
    <3>2. Passes(c, r, i, RewritesTo(c, Append(f.out, j)))
      BY <1>3, <2>1, RewritesGrow, Zenon
    <3> HIDE DEF r, rr
    <3> QED BY <3>1, <3>2, Zenon DEF Passes
  <2> HIDE DEF r, rr
  <2>4. PICK k : Faithful(c.shape, c.live, r.sps, i, k) /\ rr.out = Append(r.out, k)
    BY <2>3
  <2>5. yy = split_one(y, k)
    <3>1. IsSeq(r.out)
      BY <1>3 DEF Rewriting
    <3>2. yy = SplitsTo(c, Append(r.out, k))
      BY <2>4
    <3> QED BY <3>1, <3>2, SplitsGrow
  <2> DEFINE z == [in |-> k, binary |-> k.op = "blob" /\ y.open]
  <2> HIDE DEF y, yy
  <2>6. yy.out = Append(y.out, z)
    BY <2>5 DEF split_one
  <2> HIDE DEF z
  <2>7. IsSeq(yy.out)
    <3>1. IsSeq(Append(y.out, z))
      BY <1>3, AppendIs DEF IsSeq
    <3> QED BY <2>6, <3>1
  <2>8. bb = receive(b, z)
    <3>1. bb = ShowsTo(c, Append(y.out, z))
      BY <2>6
    <3> QED BY <1>3, <3>1, ShowsGrow
  <2>9. z.in = k
    BY DEF z
  <2> HIDE DEF f, ff, r, rr, y, yy, b, bb, z
  <2>10. i.op \in {"blob", "end"} => ~ (c.live /\ f.open)
    BY <1>3, <1>7
  <2>11. Synced(c.shape, c.live, a, f.open, rr.sps, receive(b, z))
    BY <1>3, <2>3, <2>4, <2>9, <2>10, KeptStep DEF Context
  <2> HIDE DEF a
  <2> QED BY <1>3, <1>5, <1>7, <2>2, <2>3, <2>7, <2>8, <2>11 DEF Stages
<1> HIDE DEF f, ff, r, rr, y, yy, b, bb, a
<1> QED BY <1>5, <1>6, <1>7

-----------------------------------------------------------------------------
(* What the probe has learnt of the host *)

ProbeFields ==
    {"main", "aux", "anyAux", "auxRef", "jump", "last", "mods", "claims", "unmarked", "active", "frames", "open"}

\* How the main views refer is known from the first inter slice of one on, and
\* how the auxiliary views are marked from the first of theirs.
MainKnown(x, p) ==
    /\ x.main.read = "long" /\ x.main.chain = 0 => <<"long", 0>> \in p.mods[0]
    /\ x.main.read = "relative" => Relative(p.mods[0])
    /\ x.main.read = "default" => p.active >= x.main.active
AuxKnown(x, p) ==
    /\ x.aux.marks # "none" => p.auxRef = TRUE
    /\ x.aux.marks = "long" => x.aux.chain \in p.claims
    /\ x.aux.marks # "long" => p.unmarked = TRUE
Learnt(x, p) ==
    /\ DOMAIN p = ProbeFields /\ DOMAIN p.mods = {0, 1} /\ p.active \in Nat
    /\ p.main # 0 => MainKnown(x, p)
    /\ p.aux # 0 => AuxKnown(x, p)
    /\ x.main.read = "default" => p.mods[0] = {}
    /\ p.frames \in {None, x.sps.frames}
Blob(x, i) == OfHost(x, i.slice) /\ i.sps \in {None, x.sps}
Evidence(x, p) ==
    /\ Learnt(x, p)
    /\ p.open # None /\ p.open # << >> => Blob(x, p.open[1])

\* A slice header, and what the habits of its view make of it.
Header(s, k, h) ==
    /\ h.view = s.view /\ h.idr = s.idr /\ (s.idr => h.list_mods = {})
    /\ ~ s.idr => /\ h.reference = (k.marks # "none") /\ h.active = k.active /\ h.active \in Nat
                  /\ h.mmco = IF k.marks = "long" THEN {k.chain} ELSE {}
                  /\ k.read = "default" => h.list_mods = {}
                  /\ k.read = "relative" => Relative(h.list_mods)
                  /\ k.read = "long" /\ k.chain = 0 => h.list_mods = {<<"long", 0>>}

LEMMA HeaderOf ==
    ASSUME NEW x, Described(x), NEW s, OfHost(x, s)
    PROVE  Header(s, Habit(x, s.view), parse_slice(s))
<1> DEFINE a == Habit(x, s.view)
           h == parse_slice(s)
<1>0. a \in Habits /\ s.idr \in BOOLEAN /\ s.view \in {0, 1}
  BY DEF Described, Habit, OfHost
<1>1. h.view = s.view /\ h.idr = s.idr /\ h.reference = (s.marks # "none") /\ h.active = s.active
  BY DEF parse_slice
<1>2. s.idr => s.read = "none"
  BY DEF OfHost
<1>3. s.idr => h.list_mods = {}
  BY <1>2 DEF parse_slice
<1>4. ~ s.idr => s.read = a.read /\ s.marks = a.marks /\ s.as = a.chain /\ s.active = a.active
                 /\ (a.read = "long" /\ a.chain = 0 => s.name = 0)
  BY DEF OfHost
<1>5. ASSUME ~ s.idr
      PROVE  /\ h.mmco = IF a.marks = "long" THEN {a.chain} ELSE {}
             /\ a.read = "default" => h.list_mods = {}
             /\ a.read = "relative" => Relative(h.list_mods)
             /\ a.read = "long" /\ a.chain = 0 => h.list_mods = {<<"long", 0>>}
  <2> HIDE DEF a
  <2>1. h.mmco = IF a.marks = "long" THEN {a.chain} ELSE {}
    BY <1>4, <1>5 DEF parse_slice
  <2>2. a.read = "default" => h.list_mods = {}
    BY <1>4, <1>5 DEF parse_slice
  <2>3. ASSUME a.read = "relative" PROVE Relative(h.list_mods)
    <3>1. h.list_mods = {<<"relative", s.fn - s.name>>}
      BY <1>4, <1>5, <2>3 DEF parse_slice
    <3>2. <<"relative", s.fn - s.name>>[1] = "relative"
      OBVIOUS
    <3> QED BY <3>1, <3>2 DEF Relative
  <2>4. a.read = "long" /\ a.chain = 0 => h.list_mods = {<<"long", 0>>}
    BY <1>4, <1>5 DEF parse_slice
  <2> QED BY <2>1, <2>2, <2>3, <2>4
<1>6. a.active \in Nat
  BY <1>0 DEF Habits
<1> HIDE DEF h, a
<1>7. Header(s, a, h)
  BY <1>1, <1>3, <1>4, <1>5, <1>6 DEF Header
<1> QED BY <1>7 DEF h, a

\* What a slice header of each kind changes.
LEMMA AbsorbIs ==
    ASSUME NEW p, DOMAIN p = ProbeFields, DOMAIN p.mods = {0, 1}, NEW blob,
           NEW h, h = parse_slice(blob.slice), h.view \in {0, 1}, NEW a, a = absorb(p, blob)
    PROVE  /\ DOMAIN a = ProbeFields /\ DOMAIN a.mods = {0, 1}
           /\ a.mods[h.view] = p.mods[h.view] \cup h.list_mods
           /\ a.mods[1 - h.view] = p.mods[1 - h.view]
           /\ a.main = IF h.view = 0 /\ ~ h.idr THEN UpTo(p.main, MinMain) ELSE p.main
           /\ a.aux = IF h.view # 0 /\ ~ h.idr THEN UpTo(p.aux, MinAux) ELSE p.aux
           /\ a.auxRef = (p.auxRef \/ (h.view # 0 /\ h.reference))
           /\ a.claims = IF h.view = 0 THEN p.claims ELSE p.claims \cup h.mmco
           /\ a.unmarked = (p.unmarked \/ (h.view # 0 /\ ~ h.idr /\ h.mmco = {}))
           /\ a.active = IF h.view = 0 /\ ~ h.idr /\ h.active > p.active THEN h.active ELSE p.active
           /\ a.frames = IF blob.sps # None THEN blob.sps.frames ELSE p.frames
<1>1. DOMAIN a = ProbeFields /\ DOMAIN a.mods = {0, 1}
  BY DEF absorb, ProbeFields
<1>2. /\ a.mods[h.view] = p.mods[h.view] \cup h.list_mods
      /\ a.mods[1 - h.view] = p.mods[1 - h.view]
  BY DEF absorb, ProbeFields
<1>3. /\ a.main = IF h.view = 0 /\ ~ h.idr THEN UpTo(p.main, MinMain) ELSE p.main
      /\ a.aux = IF h.view # 0 /\ ~ h.idr THEN UpTo(p.aux, MinAux) ELSE p.aux
  BY DEF absorb, ProbeFields
<1>4. /\ a.auxRef = (p.auxRef \/ (h.view # 0 /\ h.reference))
      /\ a.claims = IF h.view = 0 THEN p.claims ELSE p.claims \cup h.mmco
  BY DEF absorb, ProbeFields
<1>5. /\ a.unmarked = (p.unmarked \/ (h.view # 0 /\ ~ h.idr /\ h.mmco = {}))
      /\ a.active = IF h.view = 0 /\ ~ h.idr /\ h.active > p.active THEN h.active ELSE p.active
  BY DEF absorb, ProbeFields
<1>6. a.frames = IF blob.sps # None THEN blob.sps.frames ELSE p.frames
  BY DEF absorb, ProbeFields, parse_sps
<1> QED BY <1>1, <1>2, <1>3, <1>4, <1>5, <1>6

LEMMA RelativeGrows ==
    ASSUME NEW m, NEW n, Relative(m) \/ Relative(n)
    PROVE  Relative(m \cup n)
BY DEF Relative

LEMMA AbsorbLearns ==
    ASSUME NEW x, Described(x), NEW p, Learnt(x, p), NEW blob, Blob(x, blob)
    PROVE  Learnt(x, absorb(p, blob))
<1> DEFINE s == blob.slice
           h == parse_slice(s)
           k == Habit(x, s.view)
           a == absorb(p, blob)
<1>h. OfHost(x, s) /\ blob.sps \in {None, x.sps}
  BY DEF Blob
<1>0. s.view \in {0, 1} /\ s.idr \in BOOLEAN
  BY <1>h DEF OfHost
<1>1. DOMAIN p = ProbeFields /\ DOMAIN p.mods = {0, 1} /\ p.active \in Nat /\ p.frames \in {None, x.sps.frames}
  BY DEF Learnt
<1>2. /\ h.view = s.view /\ h.idr = s.idr /\ (s.idr => h.list_mods = {})
      /\ ~ s.idr => /\ h.reference = (k.marks # "none") /\ h.active = k.active /\ h.active \in Nat
                    /\ h.mmco = IF k.marks = "long" THEN {k.chain} ELSE {}
                    /\ k.read = "default" => h.list_mods = {}
                    /\ k.read = "relative" => Relative(h.list_mods)
                    /\ k.read = "long" /\ k.chain = 0 => h.list_mods = {<<"long", 0>>}
  <2>1. Header(s, k, h)
    BY <1>h, HeaderOf
  <2> HIDE DEF h, k
  <2> QED BY <2>1 DEF Header
<1> HIDE DEF h
<1>3. /\ DOMAIN a = ProbeFields /\ DOMAIN a.mods = {0, 1}
      /\ a.mods[h.view] = p.mods[h.view] \cup h.list_mods
      /\ a.mods[1 - h.view] = p.mods[1 - h.view]
      /\ a.main = IF h.view = 0 /\ ~ h.idr THEN UpTo(p.main, MinMain) ELSE p.main
      /\ a.aux = IF h.view # 0 /\ ~ h.idr THEN UpTo(p.aux, MinAux) ELSE p.aux
      /\ a.auxRef = (p.auxRef \/ (h.view # 0 /\ h.reference))
      /\ a.claims = IF h.view = 0 THEN p.claims ELSE p.claims \cup h.mmco
      /\ a.unmarked = (p.unmarked \/ (h.view # 0 /\ ~ h.idr /\ h.mmco = {}))
      /\ a.active = IF h.view = 0 /\ ~ h.idr /\ h.active > p.active THEN h.active ELSE p.active
      /\ a.frames = IF blob.sps # None THEN blob.sps.frames ELSE p.frames
  BY <1>0, <1>1, <1>2, AbsorbIs DEF h
<1> HIDE DEF a, s
<1>4. a.active \in Nat /\ a.active >= p.active
  BY <1>0, <1>1, <1>2, <1>3
<1>5. p.mods[0] \subseteq a.mods[0] /\ p.claims \subseteq a.claims
  BY <1>0, <1>2, <1>3
<1>6. (p.auxRef = TRUE => a.auxRef = TRUE) /\ (p.unmarked = TRUE => a.unmarked = TRUE)
  BY <1>3
<1>7. (s.view = 0 => k = x.main) /\ (s.view # 0 => k = x.aux)
  BY DEF Habit
<1> HIDE DEF k
<1>8. ASSUME x.main.read = "default" PROVE a.mods[0] = {}
  <2>1. p.mods[0] = {}
    BY <1>8 DEF Learnt
  <2>2. CASE s.view = 0
    <3>1. h.list_mods = {}
      BY <1>0, <1>2, <1>7, <1>8, <2>2
    <3> QED BY <1>2, <1>3, <2>1, <2>2, <3>1
  <2>3. CASE s.view = 1
    BY <1>2, <1>3, <2>1, <2>3
  <2> QED BY <1>0, <2>2, <2>3
<1>9. ASSUME MainKnown(x, p) PROVE MainKnown(x, a)
  <2>1. x.main.read = "relative" => Relative(a.mods[0])
    BY <1>5, <1>9 DEF MainKnown, Relative
  <2>2. x.main.active \in Nat
    BY DEF Described, Habits
  <2> QED BY <1>1, <1>4, <1>5, <1>9, <2>1, <2>2 DEF MainKnown
<1>10. ASSUME a.main # 0 PROVE MainKnown(x, a)
  <2>1. CASE p.main # 0
    BY <1>9, <2>1 DEF Learnt
  <2>2. CASE p.main = 0
    <3>1. s.view = 0 /\ ~ s.idr
      BY <1>2, <1>3, <1>10, <2>2
    <3>2. k = x.main /\ a.mods[0] = p.mods[0] \cup h.list_mods
      BY <1>2, <1>3, <1>7, <3>1
    <3>3. x.main.read = "relative" => Relative(a.mods[0])
      BY <1>2, <3>1, <3>2, RelativeGrows
    <3>4. a.active >= x.main.active
      BY <1>1, <1>2, <1>3, <3>1, <3>2
    <3>5. x.main.read = "long" /\ x.main.chain = 0 => <<"long", 0>> \in a.mods[0]
      BY <1>2, <3>1, <3>2
    <3> QED BY <3>3, <3>4, <3>5 DEF MainKnown
  <2> QED BY <2>1, <2>2
<1>11. ASSUME a.aux # 0 PROVE AuxKnown(x, a)
  <2>1. CASE p.aux # 0
    BY <1>5, <1>6, <2>1 DEF Learnt, AuxKnown
  <2>2. CASE p.aux = 0
    <3>1. s.view = 1 /\ ~ s.idr
      BY <1>0, <1>2, <1>3, <1>11, <2>2
    <3>2. k = x.aux /\ a.claims = p.claims \cup h.mmco
      BY <1>2, <1>3, <1>7, <3>1
    <3>3. h.reference = (x.aux.marks # "none") /\ h.mmco = IF x.aux.marks = "long" THEN {x.aux.chain} ELSE {}
      BY <1>2, <3>1, <3>2
    <3>4. ASSUME x.aux.marks # "none" PROVE a.auxRef = TRUE
      <4>0. h.view # 0
        BY <1>2, <3>1
      <4>1. h.view # 0 /\ h.reference
        BY <3>3, <3>4, <4>0, Zenon
      <4> QED BY <1>3, <4>1, Zenon
    <3>5. ASSUME x.aux.marks # "long" PROVE a.unmarked = TRUE
      <4>1. h.view # 0 /\ ~ h.idr /\ h.mmco = {}
        BY <1>2, <3>1, <3>3, <3>5
      <4> QED BY <1>3, <4>1, Zenon
    <3>6. x.aux.marks = "long" => x.aux.chain \in a.claims
      BY <3>2, <3>3
    <3> QED BY <3>4, <3>5, <3>6 DEF AuxKnown
  <2> QED BY <2>1, <2>2
<1>12. a.frames \in {None, x.sps.frames}
  BY <1>h, <1>1, <1>3
<1>13. Learnt(x, a)
  BY <1>3, <1>4, <1>8, <1>10, <1>11, <1>12 DEF Learnt
<1> QED BY <1>13 DEF a

LEMMA AnalyseLearns ==
    ASSUME NEW x, Described(x), NEW p, Learnt(x, p), NEW blob, Blob(x, blob)
    PROVE  Learnt(x, analyse(p, blob))
<1>1. analyse(p, blob) = p \/ analyse(p, blob) = absorb(p, blob)
  BY Zenon DEF analyse
<1>2. Learnt(x, absorb(p, blob))
  BY AbsorbLearns
<1> QED BY <1>1, <1>2

LEMMA OpenLearnt ==
    ASSUME NEW x, NEW p, Learnt(x, p), NEW o, o # None /\ o # << >> => Blob(x, o[1])
    PROVE  Evidence(x, [p EXCEPT !.open = o])
<1> DEFINE q == [p EXCEPT !.open = o]
<1>1. /\ DOMAIN q = ProbeFields /\ q.open = o /\ q.main = p.main /\ q.aux = p.aux /\ q.mods = p.mods
      /\ q.active = p.active /\ q.auxRef = p.auxRef /\ q.claims = p.claims /\ q.unmarked = p.unmarked
      /\ q.frames = p.frames
  BY DEF Learnt, ProbeFields
<1> HIDE DEF q
<1>2. Evidence(x, q)
  BY <1>1 DEF Evidence, Learnt, MainKnown, AuxKnown
<1> QED BY <1>2 DEF q

\* An instruction that the probe sees.
LEMMA ObserveLearns ==
    ASSUME NEW x, Described(x), NEW p, Evidence(x, p), NEW e, NEW i, Legal(x, e, i)
    PROVE  Evidence(x, observe(p, i))
<1>0. Learnt(x, p)
  BY DEF Evidence
<1>1. CASE i.op = "h264"
  <2>1. observe(p, i) = [p EXCEPT !.open = << >>]
    BY <1>1 DEF observe
  <2>2. Evidence(x, [p EXCEPT !.open = << >>])
    BY <1>0, OpenLearnt
  <2> QED BY <2>1, <2>2
<1>2. CASE i.op = "blob" /\ p.open = << >> /\ i.slice # None
  <2>1. Blob(x, i)
    <3>1. Bears(x, e, i)
      BY <1>2 DEF Legal, Place, Heads
    <3> QED BY <3>1 DEF Bears, Coded, Blob
  <2>2. Learnt(x, analyse(p, i))
    BY <1>0, <2>1, AnalyseLearns
  <2>3. Evidence(x, [analyse(p, i) EXCEPT !.open = None])
    <3> HIDE DEF Learnt
    <3> QED BY <2>2, OpenLearnt
  <2>4. Evidence(x, [p EXCEPT !.open = <<i>>])
    <3>1. <<i>>[1] = i
      OBVIOUS
    <3>2. Blob(x, <<i>>[1])
      BY <2>1, <3>1
    <3> QED BY <1>0, <3>2, OpenLearnt
  <2>5. observe(p, i) = IF i.enough THEN [analyse(p, i) EXCEPT !.open = None] ELSE [p EXCEPT !.open = <<i>>]
    BY <1>2 DEF observe
  <2> QED BY <2>3, <2>4, <2>5
<1>3. CASE i.op = "end" /\ p.open # None
  <2>1. observe(p, i) = [(IF p.open = << >> THEN p ELSE analyse(p, p.open[1])) EXCEPT !.open = None]
    BY <1>3 DEF observe
  <2>2. CASE p.open = << >>
    <3>1. Evidence(x, [p EXCEPT !.open = None])
      BY <1>0, OpenLearnt
    <3> QED BY <2>1, <2>2, <3>1
  <2>3. CASE p.open # << >>
    <3>1. Blob(x, p.open[1])
      BY <1>3, <2>3 DEF Evidence
    <3>2. Learnt(x, analyse(p, p.open[1]))
      BY <1>0, <3>1, AnalyseLearns
    <3>3. Evidence(x, [analyse(p, p.open[1]) EXCEPT !.open = None])
      BY <3>2, OpenLearnt
    <3> QED BY <2>1, <2>3, <3>3
  <2> QED BY <2>2, <2>3
<1>4. CASE ~ (i.op = "h264" \/ (i.op = "blob" /\ p.open = << >> /\ i.slice # None) \/ (i.op = "end" /\ p.open # None))
  <2>1. observe(p, i) = p
    BY <1>4 DEF observe
  <2> QED BY <2>1
<1> QED BY <1>1, <1>2, <1>3, <1>4

\* The gate does not open for a host whose main views are not safe from it.
LEMMA GateHolds ==
    ASSUME NEW x, Described(x), NEW p, Evidence(x, p), p.main \in Nat, p.aux \in Nat, MinMain > 0, MinAux > 0,
           NEW st, st = "dropping" => Harmless(x), Decided(st, safety(p)) = "dropping", st \in {"deciding", "dropping", "off"}
    PROVE  Harmless(x) \/ InferredFirst(x) \/ (NoRoom(x) /\ ~ Seen(p, x))
<1> SUFFICES ASSUME ~ Harmless(x), Entangled(x) \/ (NoRoom(x) /\ Seen(p, x)) PROVE FALSE
  BY HostsAre
<1>1. st = "deciding"
  <2>1. Decided("off", safety(p)) = "off"
    BY DEF Decided
  <2> QED BY <2>1
<1>2. safety(p) = "safe" \/ (safety(p) = "unproven" /\ AllowUnproven)
  BY <1>1 DEF Decided
<1>3. safety(p) = verdict(p) /\ ~ (p.main < MinMain) /\ ~ (p.aux < MinAux)
  BY <1>2 DEF safety
<1>4. p.main # 0 /\ p.aux # 0
  BY <1>3, BoundsAssumption
<1>5. MainKnown(x, p) /\ AuxKnown(x, p) /\ (x.main.read = "default" => p.mods[0] = {}) /\ p.active \in Nat
  BY <1>4 DEF Evidence, Learnt
<1>6. p.auxRef = TRUE
  BY <1>5 DEF Entangled, NoRoom, AuxKnown
<1>7. CASE x.main.read = "relative"
  <2>1. Relative(p.mods[0])
    BY <1>5, <1>7 DEF MainKnown
  <2>2. ~ chains_are_separate(p) /\ p.mods[0] # {}
    BY <2>1 DEF chains_are_separate, Relative
  <2>3. verdict(p) = "unsafe"
    BY <1>6, <2>2 DEF verdict
  <2> QED BY <1>2, <1>3, <2>3
<1>8. CASE x.main.read = "long" /\ x.main.chain = 0 /\ x.aux.marks = "long" /\ x.aux.chain = 0
  <2>1. <<"long", 0>> \in p.mods[0] /\ 0 \in p.claims
    BY <1>5, <1>8 DEF MainKnown, AuxKnown
  <2>2. 0 \in LongTerm(p.mods[0])
    BY <2>1 DEF LongTerm
  <2>3. ~ chains_are_separate(p) /\ p.mods[0] # {}
    BY <2>1, <2>2 DEF chains_are_separate
  <2>4. verdict(p) = "unsafe"
    BY <1>6, <2>3 DEF verdict
  <2> QED BY <1>2, <1>3, <2>4
<1>9. ASSUME x.main.read = "default" PROVE verdict(p) = default_list(p)
  <2>1. p.mods[0] = {}
    BY <1>5, <1>9
  <2>2. ~ chains_are_separate(p)
    BY <2>1 DEF chains_are_separate, LongTerm
  <2> QED BY <1>6, <2>1, <2>2 DEF verdict
<1>10. CASE x.main.read = "default" /\ x.aux.marks = "short"
  <2>1. p.unmarked = TRUE
    BY <1>5, <1>10 DEF AuxKnown
  <2> QED BY <1>2, <1>3, <1>9, <1>10, <2>1 DEF default_list
<1>11. CASE x.main.read = "default" /\ x.main.active > 1 /\ ~ AllowUnproven
  <2>1. p.active > 1
    <3>1. p.active >= x.main.active /\ x.main.active \in Nat
      BY <1>5, <1>11 DEF MainKnown, Described, Habits
    <3> QED BY <1>5, <1>11, <3>1
  <2> QED BY <1>2, <1>3, <1>9, <1>11, <2>1 DEF default_list
<1>12. CASE NoRoom(x) /\ Seen(p, x)
  <2> DEFINE both == LongTerm(p.mods[0] \cup p.mods[1])
  <2>1. x.main.chain = 0 /\ x.aux.chain = 1 /\ x.aux.marks = "long" /\ x.main.read = "long" /\ x.sps.frames \in Nat
        /\ x.sps.frames <= 2
    BY <1>12 DEF NoRoom, Described, Habits, Parameters
  <2>2. Chains(x) = {0, 1}
    BY <2>1 DEF Chains
  <2>3. p.jump /\ p.frames # None /\ {0, 1} \subseteq both
    BY <1>12, <2>2 DEF Seen
  <2>4. both = {0, 1}
    BY <2>3 DEF LongTerm
  <2>5. Cardinality({0, 1}) = 2
    BY TwoChains
  <2>6. p.frames = x.sps.frames
    BY <2>3 DEF Evidence, Learnt
  <2> HIDE DEF both
  <2>7. p.frames <= Cardinality(both)
    BY <2>1, <2>4, <2>5, <2>6
  <2>8. no_room_for_inferred_frames(p)
    BY <2>3, <2>7 DEF no_room_for_inferred_frames, both
  <2>9. p.mods[0] # {}
    BY <1>5, <2>1 DEF MainKnown
  <2>10. verdict(p) = "unsafe"
    BY <1>6, <2>8, <2>9 DEF verdict
  <2> QED BY <1>2, <1>3, <2>10
<1> QED BY <1>7, <1>8, <1>10, <1>11, <1>12 DEF Entangled

-----------------------------------------------------------------------------
(* What is behind the pump, as the encoder wrote it *)

\* u leads the encoder from e to f.
Along(x, a, unit, b) ==
    IF unit.last THEN Legal(x, a, unit.in) /\ b = Advance(x, a, unit.in) ELSE b = a
Leads(x, t, u) == \A k \in 1..Len(u) : Along(x, t[k - 1], u[k], t[k])
Path(x, e, u, f) == IsSeq(u) /\ \E t : t[0] = e /\ t[Len(u)] = f /\ Leads(x, t, u)

LEMMA PathNone ==
    ASSUME NEW x, NEW e
    PROVE  Path(x, e, << >>, e)
<1>1. IsSeq(<< >>)
  BY NoneIsSeq
<1>2. Len(<< >>) = 0
  OBVIOUS
<1> DEFINE t == [k \in {0} |-> e]
<1>3. t[0] = e /\ t[Len(<< >>)] = e /\ Leads(x, t, << >>)
  BY <1>2 DEF Leads
<1> QED BY <1>1, <1>3 DEF Path

LEMMA PathJoin ==
    ASSUME NEW x, NEW e, NEW u, NEW f, Path(x, e, u, f), NEW v, NEW g, Path(x, f, v, g)
    PROVE  Path(x, e, u \o v, g)
<1>1. PICK p : p[0] = e /\ p[Len(u)] = f /\ Leads(x, p, u)
  BY DEF Path
<1>2. PICK q : q[0] = f /\ q[Len(v)] = g /\ Leads(x, q, v)
  BY DEF Path
<1> DEFINE m == Len(u)
           n == Len(v)
           j == u \o v
           t == [k \in 0..(m + n) |-> IF k <= m THEN p[k] ELSE q[k - m]]
<1>3. /\ IsSeq(j) /\ m \in Nat /\ n \in Nat /\ Len(j) = m + n
      /\ \A k \in 1..m : j[k] = u[k]
      /\ \A k \in 1..n : j[m + k] = v[k]
  BY JoinIs DEF Path
<1> HIDE DEF j
<1>4. \A k \in 0..m : t[k] = p[k]
  BY <1>3
<1>5. \A k \in 0..n : t[m + k] = q[k]
  <2> SUFFICES ASSUME NEW k \in 0..n PROVE t[m + k] = q[k]
    OBVIOUS
  <2>1. CASE k = 0
    <3>1. t[m + k] = p[m]
      BY <1>3, <2>1
    <3> QED BY <1>1, <1>2, <2>1, <3>1
  <2>2. CASE k # 0
    <3>1. m + k \in 0..(m + n) /\ ~ (m + k <= m) /\ (m + k) - m = k
      BY <1>3, <2>2
    <3> QED BY <3>1
  <2> QED BY <2>1, <2>2
<1>6. t[0] = e
  BY <1>1, <1>3, <1>4
<1>7. t[m + n] = g
  <2> HIDE DEF t
  <2>1. n \in 0..n
    BY <1>3
  <2>2. t[m + n] = q[n]
    BY <1>5, <2>1
  <2> QED BY <1>2, <2>2
<1> HIDE DEF t
<1>8. ASSUME NEW k \in 1..(m + n) PROVE Along(x, t[k - 1], j[k], t[k])
  <2>1. CASE k <= m
    <3>1. k \in 1..m /\ k - 1 \in 0..m /\ k \in 0..m
      BY <1>3, <2>1
    <3>2. t[k - 1] = p[k - 1] /\ t[k] = p[k] /\ j[k] = u[k]
      BY <1>3, <1>4, <3>1
    <3>3. Along(x, p[k - 1], u[k], p[k])
      BY <1>1, <3>1 DEF Leads
    <3> QED BY <3>2, <3>3
  <2>2. CASE ~ (k <= m)
    <3> DEFINE i == k - m
    <3>1. i \in 1..n /\ i - 1 \in 0..n /\ i \in 0..n /\ m + i = k /\ m + (i - 1) = k - 1
      BY <1>3, <2>2
    <3>2. t[m + (i - 1)] = q[i - 1] /\ t[m + i] = q[i] /\ j[m + i] = v[i]
      BY <1>3, <1>5, <3>1
    <3>3. Along(x, q[i - 1], v[i], q[i])
      BY <1>2, <3>1 DEF Leads
    <3> HIDE DEF i
    <3> QED BY <3>1, <3>2, <3>3
  <2> QED BY <2>1, <2>2
<1>9. Leads(x, t, j)
  BY <1>3, <1>8 DEF Leads
<1> QED BY <1>3, <1>6, <1>7, <1>9 DEF Path, j

LEMMA PathPush ==
    ASSUME NEW x, NEW e, NEW u, NEW f, Path(x, e, u, f), NEW unit, NEW g, Along(x, f, unit, g)
    PROVE  Path(x, e, Append(u, unit), g)
<1>1. PICK p : p[0] = e /\ p[Len(u)] = f /\ Leads(x, p, u)
  BY DEF Path
<1> DEFINE m == Len(u)
           j == Append(u, unit)
           t == [k \in 0..(m + 1) |-> IF k <= m THEN p[k] ELSE g]
<1>3. /\ IsSeq(j) /\ m \in Nat /\ Len(j) = m + 1
      /\ \A k \in 1..m : j[k] = u[k]
      /\ j[m + 1] = unit
  BY AppendIs DEF Path, IsSeq
<1> HIDE DEF j
<1>4. \A k \in 0..m : t[k] = p[k]
  BY <1>3
<1>5. t[m + 1] = g
  BY <1>3
<1>6. t[0] = e /\ t[m] = f
  BY <1>1, <1>3, <1>4
<1> HIDE DEF t
<1>8. ASSUME NEW k \in 1..(m + 1) PROVE Along(x, t[k - 1], j[k], t[k])
  <2>1. CASE k <= m
    <3>1. k \in 1..m /\ k - 1 \in 0..m /\ k \in 0..m
      BY <1>3, <2>1
    <3>2. t[k - 1] = p[k - 1] /\ t[k] = p[k] /\ j[k] = u[k]
      BY <1>3, <1>4, <3>1
    <3>3. Along(x, p[k - 1], u[k], p[k])
      BY <1>1, <3>1 DEF Leads
    <3> QED BY <3>2, <3>3
  <2>2. CASE ~ (k <= m)
    <3>1. k = m + 1 /\ k - 1 = m
      BY <1>3, <2>2
    <3> QED BY <1>3, <1>5, <1>6, <3>1
  <2> QED BY <2>1, <2>2
<1>9. Leads(x, t, j)
  BY <1>3, <1>8 DEF Leads
<1> QED BY <1>3, <1>5, <1>6, <1>9 DEF Path, j

LEMMA PathSplit ==
    ASSUME NEW x, NEW e, NEW u, NEW f, Path(x, e, u, f), NEW m \in 0..Len(u)
    PROVE  \E h : Path(x, e, SubSeq(u, 1, m), h) /\ Path(x, h, SubSeq(u, m + 1, Len(u)), f)
<1>1. PICK p : p[0] = e /\ p[Len(u)] = f /\ Leads(x, p, u)
  BY DEF Path
<1> DEFINE n == Len(u)
           a == SubSeq(u, 1, m)
           b == SubSeq(u, m + 1, n)
           q == [k \in 0..(n - m) |-> p[m + k]]
<1>2. IsSeq(u) /\ n \in Nat /\ m \in Nat /\ m <= n
  BY SeqLen DEF Path
<1>3. IsSeq(a) /\ Len(a) = m /\ \A k \in 1..m : a[k] = u[k]
  <2>1. SubOf(a, u, 1, m)
    BY <1>2, SubSeqCuts
  <2> HIDE DEF a
  <2>2. Len(a) = m - 1 + 1 /\ \A k \in 1..(m - 1 + 1) : a[k] = u[1 + k - 1]
    BY <2>1 DEF SubOf
  <2> QED BY <1>2, <2>1, <2>2 DEF SubOf
<1>4. IsSeq(b) /\ Len(b) = n - m /\ \A k \in 1..(n - m) : b[k] = u[m + k]
  <2> DEFINE w == m + 1
  <2>1. w \in Nat /\ 1 <= w /\ w <= n + 1 /\ n - w + 1 = n - m /\ \A k \in Int : w + k - 1 = m + k
    BY <1>2
  <2> HIDE DEF w
  <2>2. SubOf(SubSeq(u, w, n), u, w, n)
    BY <1>2, <2>1, SubSeqCuts
  <2>3. b = SubSeq(u, w, n)
    BY DEF w
  <2> HIDE DEF b
  <2>4. Len(b) = n - w + 1 /\ IsSeq(b) /\ \A k \in 1..(n - w + 1) : b[k] = u[w + k - 1]
    BY <2>2, <2>3 DEF SubOf
  <2> QED BY <1>2, <2>1, <2>4
<1> HIDE DEF a, b
<1>5. Path(x, e, a, p[m])
  <2>1. Leads(x, p, a)
    <3> SUFFICES ASSUME NEW k \in 1..m PROVE Along(x, p[k - 1], a[k], p[k])
      BY <1>3 DEF Leads
    <3>1. k \in 1..n /\ a[k] = u[k]
      BY <1>2, <1>3
    <3> QED BY <1>1, <3>1 DEF Leads
  <2> QED BY <1>1, <1>3, <2>1 DEF Path
<1>6. Path(x, p[m], b, f)
  <2>1. q[0] = p[m] /\ q[n - m] = f
    BY <1>1, <1>2
  <2>2. Leads(x, q, b)
    <3> SUFFICES ASSUME NEW k \in 1..(n - m) PROVE Along(x, q[k - 1], b[k], q[k])
      BY <1>4 DEF Leads
    <3>1. m + k \in 1..n /\ k \in 0..(n - m) /\ k - 1 \in 0..(n - m) /\ (m + k) - 1 = m + (k - 1)
      BY <1>2
    <3>2. Along(x, p[(m + k) - 1], u[m + k], p[m + k])
      BY <1>1, <3>1 DEF Leads
    <3>3. q[k - 1] = p[m + (k - 1)] /\ q[k] = p[m + k] /\ b[k] = u[m + k]
      BY <1>4, <3>1
    <3> QED BY <3>1, <3>2, <3>3
  <2> HIDE DEF q
  <2> QED BY <1>4, <2>1, <2>2 DEF Path
<1> QED BY <1>5, <1>6 DEF a, b

\* A chunk that the pump passes on, through the probe ...
LEMMA ChunkLearns ==
    ASSUME NEW x, Described(x), NEW p, Evidence(x, p), NEW e, NEW u, NEW f, Path(x, e, u, f)
    PROVE  Evidence(x, FoldLeft(observe, p, Instructions(u)))
<1> DEFINE n == Len(u)
<1>1. PICK t : t[0] = e /\ t[n] = f /\ Leads(x, t, u)
  BY DEF Path
<1>2. IsSeq(u) /\ n \in Nat
  BY SeqLen DEF Path
<1>3. PICK g : IsFold(g, "element", << >>, u) /\ Instructions(u) = g[n]
  BY <1>2, ElementFold DEF IsSeq, Instructions
<1> DEFINE S == {k \in 0..n : IsSeq(g[k]) /\ Evidence(x, FoldLeft(observe, p, g[k]))}
<1>4. 0 \in S
  <2>1. g[0] = << >>
    BY <1>3 DEF IsFold
  <2>2. FoldLeft(observe, p, << >>) = p
    BY ObserveNone
  <2>3. IsSeq(g[0]) /\ Evidence(x, FoldLeft(observe, p, g[0]))
    BY <2>1, <2>2, NoneIsSeq
  <2> QED BY <1>2, <2>3
<1>5. ASSUME NEW k \in 0..(n - 1), k \in S PROVE k + 1 \in S
  <2>1. k + 1 \in 1..n /\ (k + 1) - 1 = k /\ k + 1 \in 0..n
    BY <1>2
  <2>2. g[k + 1] = element(g[k], u[k + 1])
    <3>1. g[k + 1] = Step("element", g[(k + 1) - 1], u[k + 1])
      BY <1>3, <2>1 DEF IsFold
    <3>2. \A a, y : Step("element", a, y) = element(a, y)
      BY Zenon DEF Step
    <3> QED BY <2>1, <3>1, <3>2
  <2>3. Along(x, t[k], u[k + 1], t[k + 1])
    <3>1. Along(x, t[(k + 1) - 1], u[k + 1], t[k + 1])
      BY <1>1, <2>1 DEF Leads
    <3> QED BY <2>1, <3>1
  <2>4. IsSeq(g[k]) /\ Evidence(x, FoldLeft(observe, p, g[k]))
    BY <1>5
  <2>5. IsSeq(g[k + 1]) /\ Evidence(x, FoldLeft(observe, p, g[k + 1]))
    <3>1. CASE u[k + 1].last
      <4> DEFINE i == u[k + 1].in
      <4>1. g[k + 1] = Append(g[k], i) /\ Legal(x, t[k], i)
        BY <2>2, <2>3, <3>1 DEF element, Along
      <4>2. IsSeq(Append(g[k], i))
        BY <2>4, AppendIs DEF IsSeq
      <4>3. FoldLeft(observe, p, Append(g[k], i)) = observe(FoldLeft(observe, p, g[k]), i)
        BY <2>4, ObserveGrows
      <4>4. Evidence(x, observe(FoldLeft(observe, p, g[k]), i))
        <5> DEFINE w == FoldLeft(observe, p, g[k])
        <5>1. Evidence(x, w)
          BY <2>4
        <5> HIDE DEF w
        <5>2. Evidence(x, observe(w, i))
          BY <4>1, <5>1, ObserveLearns
        <5> QED BY <5>2 DEF w
      <4>5. Evidence(x, FoldLeft(observe, p, Append(g[k], i)))
        BY <4>3, <4>4
      <4> QED BY <4>1, <4>2, <4>5
    <3>2. CASE ~ u[k + 1].last
      <4>1. g[k + 1] = g[k]
        BY <2>2, <3>2 DEF element
      <4> QED BY <2>4, <4>1
    <3> QED BY <3>1, <3>2
  <2> QED BY <2>1, <2>5
<1>6. n \in S
  <2> HIDE DEF S
  <2>1. 0..n \subseteq S
    BY <1>2, <1>4, <1>5, IntervalAll
  <2> QED BY <1>2, <2>1
<1> QED BY <1>3, <1>6

\* ... and through the dropper, the rewriter and the splitter to the browser.
LEMMA ChunkPiped ==
    ASSUME NEW c, Context(c), NEW e, Piped(c, << >>, e), NEW u, NEW f, Path(c.shape, e, u, f)
    PROVE  Piped(c, Instructions(u), f)
<1> DEFINE n == Len(u)
<1>1. PICK t : t[0] = e /\ t[n] = f /\ Leads(c.shape, t, u)
  BY DEF Path
<1>2. IsSeq(u) /\ n \in Nat
  BY SeqLen DEF Path
<1>3. PICK g : IsFold(g, "element", << >>, u) /\ Instructions(u) = g[n]
  BY <1>2, ElementFold DEF IsSeq, Instructions
<1> DEFINE S == {k \in 0..n : Piped(c, g[k], t[k])}
<1>4. 0 \in S
  <2>1. g[0] = << >>
    BY <1>3 DEF IsFold
  <2> QED BY <1>1, <1>2, <2>1
<1>5. ASSUME NEW k \in 0..(n - 1), k \in S PROVE k + 1 \in S
  <2>1. k + 1 \in 1..n /\ (k + 1) - 1 = k /\ k + 1 \in 0..n
    BY <1>2
  <2>2. g[k + 1] = element(g[k], u[k + 1])
    <3>1. g[k + 1] = Step("element", g[(k + 1) - 1], u[k + 1])
      BY <1>3, <2>1 DEF IsFold
    <3>2. \A a, y : Step("element", a, y) = element(a, y)
      BY Zenon DEF Step
    <3> QED BY <2>1, <3>1, <3>2
  <2>3. Along(c.shape, t[k], u[k + 1], t[k + 1])
    <3>1. Along(c.shape, t[(k + 1) - 1], u[k + 1], t[k + 1])
      BY <1>1, <2>1 DEF Leads
    <3> QED BY <2>1, <3>1
  <2>4. Piped(c, g[k], t[k])
    BY <1>5
  <2>5. Piped(c, g[k + 1], t[k + 1])
    <3>1. CASE u[k + 1].last
      <4> DEFINE i == u[k + 1].in
      <4>1. g[k + 1] = Append(g[k], i) /\ Legal(c.shape, t[k], i) /\ t[k + 1] = Advance(c.shape, t[k], i)
        BY <2>2, <2>3, <3>1 DEF element, Along
      <4>2. Piped(c, Append(g[k], i), Advance(c.shape, t[k], i))
        BY <2>4, <4>1, PipedGrows
      <4> QED BY <4>1, <4>2
    <3>2. CASE ~ u[k + 1].last
      <4>1. g[k + 1] = g[k] /\ t[k + 1] = t[k]
        BY <2>2, <2>3, <3>2 DEF element, Along
      <4> QED BY <2>4, <4>1
    <3> QED BY <3>1, <3>2
  <2> QED BY <2>1, <2>5
<1>6. n \in S
  <2> HIDE DEF S
  <2>1. 0..n \subseteq S
    BY <1>2, <1>4, <1>5, IntervalAll
  <2> QED BY <1>2, <2>1
<1> QED BY <1>1, <1>3, <1>6

\* What guacd sends of a picture.
LEMMA IdleFields ==
    ASSUME NEW d, NEW g
    PROVE  /\ DOMAIN Idle(d, g) = {"at", "head", "slice", "dpb", "begun"}
           /\ Idle(d, g).at = "between" /\ Idle(d, g).slice = None /\ Idle(d, g).dpb = d /\ Idle(d, g).begun = g
BY DEF Idle

LEMMA TupleTwo ==
    ASSUME NEW a, NEW b
    PROVE  Append(<<a>>, b) = <<a, b>>
<1> DEFINE u == <<a>>
           v == <<a, b>>
<1>1. /\ u \in Seq({a, b}) /\ v \in Seq({a, b}) /\ Len(u) = 1 /\ Len(v) = 2
      /\ u[1] = a /\ v[1] = a /\ v[2] = b
  OBVIOUS
<1> HIDE DEF u, v
<1>0. IsSeq(u) /\ IsSeq(v)
  BY <1>1 DEF IsSeq
<1>2. /\ IsSeq(Append(u, b)) /\ Len(Append(u, b)) = Len(u) + 1
      /\ \A k \in 1..Len(u) : Append(u, b)[k] = u[k]
      /\ Append(u, b)[Len(u) + 1] = b
  BY <1>0, AppendIs DEF IsSeq
<1>3. Len(Append(u, b)) = 2 /\ Append(u, b)[1] = a /\ Append(u, b)[2] = b
  BY <1>1, <1>2
<1>4. \A k \in 1..2 : Append(u, b)[k] = v[k]
  BY <1>1, <1>3
<1>5. Append(u, b) = v
  BY <1>0, <1>1, <1>2, <1>3, <1>4, SeqsEqual
<1> QED BY <1>5 DEF u, v

LEMMA TupleThree ==
    ASSUME NEW a, NEW b, NEW c
    PROVE  Append(<<a, b>>, c) = <<a, b, c>>
<1> DEFINE u == <<a, b>>
           v == <<a, b, c>>
<1>1. /\ u \in Seq({a, b, c}) /\ v \in Seq({a, b, c}) /\ Len(u) = 2 /\ Len(v) = 3
      /\ u[1] = a /\ u[2] = b /\ v[1] = a /\ v[2] = b /\ v[3] = c
  OBVIOUS
<1> HIDE DEF u, v
<1>0. IsSeq(u) /\ IsSeq(v)
  BY <1>1 DEF IsSeq
<1>2. /\ IsSeq(Append(u, c)) /\ Len(Append(u, c)) = Len(u) + 1
      /\ \A k \in 1..Len(u) : Append(u, c)[k] = u[k]
      /\ Append(u, c)[Len(u) + 1] = c
  BY <1>0, AppendIs DEF IsSeq
<1>3. Len(Append(u, c)) = 3 /\ Append(u, c)[1] = a /\ Append(u, c)[2] = b /\ Append(u, c)[3] = c
  BY <1>1, <1>2
<1>4. \A k \in 1..3 : Append(u, c)[k] = v[k]
  BY <1>1, <1>3
<1>5. Append(u, c) = v
  BY <1>0, <1>1, <1>2, <1>3, <1>4, SeqsEqual
<1> QED BY <1>5 DEF u, v

LEMMA TupleFour ==
    ASSUME NEW a, NEW b, NEW c, NEW d
    PROVE  Append(<<a, b, c>>, d) = <<a, b, c, d>>
<1> DEFINE u == <<a, b, c>>
           v == <<a, b, c, d>>
<1>1. /\ u \in Seq({a, b, c, d}) /\ v \in Seq({a, b, c, d}) /\ Len(u) = 3 /\ Len(v) = 4
      /\ u[1] = a /\ u[2] = b /\ u[3] = c /\ v[1] = a /\ v[2] = b /\ v[3] = c /\ v[4] = d
  OBVIOUS
<1> HIDE DEF u, v
<1>0. IsSeq(u) /\ IsSeq(v)
  BY <1>1 DEF IsSeq
<1>2. /\ IsSeq(Append(u, d)) /\ Len(Append(u, d)) = Len(u) + 1
      /\ \A k \in 1..Len(u) : Append(u, d)[k] = u[k]
      /\ Append(u, d)[Len(u) + 1] = d
  BY <1>0, AppendIs DEF IsSeq
<1>3. Len(Append(u, d)) = 4 /\ Append(u, d)[1] = a /\ Append(u, d)[2] = b /\ Append(u, d)[3] = c /\ Append(u, d)[4] = d
  BY <1>1, <1>2
<1>4. \A k \in 1..4 : Append(u, d)[k] = v[k]
  BY <1>1, <1>3
<1>5. Append(u, d) = v
  BY <1>0, <1>1, <1>2, <1>3, <1>4, SeqsEqual
<1> QED BY <1>5 DEF u, v

LEMMA PathTwo ==
    ASSUME NEW x, NEW e, NEW a, NEW f, Along(x, e, a, f), NEW b, NEW g, Along(x, f, b, g)
    PROVE  Path(x, e, <<a, b>>, g)
<1>1. Path(x, e, Append(<< >>, a), f)
  BY PathNone, PathPush
<1>2. Path(x, e, Append(Append(<< >>, a), b), g)
  BY <1>1, PathPush
<1>3. Append(Append(<< >>, a), b) = <<a, b>>
  BY TupleTwo
<1> QED BY <1>2, <1>3

LEMMA PathThree ==
    ASSUME NEW x, NEW e, NEW a, NEW f, Along(x, e, a, f), NEW b, NEW g, Along(x, f, b, g), NEW c, NEW h, Along(x, g, c, h)
    PROVE  Path(x, e, <<a, b, c>>, h)
<1>1. Path(x, e, <<a, b>>, g)
  BY PathTwo
<1>2. Path(x, e, Append(<<a, b>>, c), h)
  BY <1>1, PathPush
<1>3. Append(<<a, b>>, c) = <<a, b, c>>
  BY TupleThree
<1> QED BY <1>2, <1>3

\* A stream: its opening, its data and its end.
Opened(e, i) == [e EXCEPT !.at = "opened", !.head = i]
LEMMA OpenedFields ==
    ASSUME NEW d, NEW g, NEW i
    PROVE  LET o == Opened(Idle(d, g), i) IN
           /\ DOMAIN o = {"at", "head", "slice", "dpb", "begun"}
           /\ o.at = "opened" /\ o.head = i /\ o.slice = None /\ o.dpb = d /\ o.begun = g
BY DEF Idle, Opened

LEMMA PartFields ==
    ASSUME NEW i, NEW of \in Nat, NEW nth \in 1..of, NEW semi
    PROVE  Part(i, nth, of, semi).in = i /\ (Part(i, nth, of, semi).last <=> nth = of)
<1> DEFINE l == nth = of
           m == semi \/ nth = of
           x == Part(i, nth, of, semi)
<1>1. x = [in |-> i, nth |-> nth, of |-> of, last |-> l, semi |-> m]
  BY Zenon DEF Part
<1>2. l <=> nth = of
  OBVIOUS
<1> HIDE DEF l, m, x
<1>3. x.in = i /\ x.last = l
  BY <1>1
<1>4. x.last <=> l
  BY <1>3, Zenon
<1> QED BY <1>2, <1>3, <1>4, Zenon DEF x

LEMMA WholeFields ==
    ASSUME NEW i
    PROVE  Whole(i).last /\ Whole(i).in = i
<1> DEFINE one == 1
           no == FALSE
<1>1. one \in Nat /\ one \in 1..one
  OBVIOUS
<1>2. Whole(i) = Part(i, one, one, no)
  BY DEF Whole
<1> HIDE DEF one, no
<1>3. Part(i, one, one, no).in = i /\ Part(i, one, one, no).last
  BY <1>1, PartFields
<1> QED BY <1>2, <1>3

LEMMA AlongOpening ==
    ASSUME NEW x, NEW d, NEW g, NEW i, "op" \in DOMAIN i, i.op = "img" \/ Heads(i)
    PROVE  Along(x, Idle(d, g), Whole(i), Opened(Idle(d, g), i))
<1> DEFINE e == Idle(d, g)
<1>1. e.at = "between"
  BY IdleFields
<1>2. i.op \in {"h264", "img"}
  BY DEF Heads
<1>3. Whole(i).last /\ Whole(i).in = i
  BY WholeFields
<1> HIDE DEF e
<1>4. Legal(x, e, i)
  BY <1>1 DEF Legal, Place
<1>5. Advance(x, e, i) = Opened(e, i)
  BY <1>2 DEF Advance, Opened
<1>6. Along(x, e, Whole(i), Opened(e, i))
  BY <1>3, <1>4, <1>5 DEF Along
<1> QED BY <1>6 DEF e

\* Data that is no picture of the encoder's.
LEMMA AlongBlank ==
    ASSUME NEW x, NEW d, NEW g, NEW h, NEW i, {"op", "slice", "sps"} \subseteq DOMAIN i, i.op = "blob", i.slice = None
    PROVE  \E f : Along(x, Opened(Idle(d, g), h), Whole(i), f) /\ Along(x, f, Whole([op |-> "end"]), Idle(d, g))
<1> DEFINE e == Opened(Idle(d, g), h)
           f == [e EXCEPT !.at = "filled", !.slice = None]
           z == [op |-> "end"]
<1>1. /\ DOMAIN e = {"at", "head", "slice", "dpb", "begun"}
      /\ e.at = "opened" /\ e.head = h /\ e.slice = None /\ e.dpb = d /\ e.begun = g
  BY OpenedFields
<1>2. Whole(i).last /\ Whole(i).in = i /\ Whole(z).last /\ Whole(z).in = z
  BY WholeFields
<1> HIDE DEF e
<1>3. Legal(x, e, i) /\ Advance(x, e, i) = f
  BY <1>1 DEF Legal, Advance, Place
<1>4. Along(x, e, Whole(i), f)
  <2> HIDE DEF f
  <2> QED BY <1>2, <1>3 DEF Along
<1>5. f.at = "filled" /\ f.slice = None /\ f.dpb = d /\ f.begun = g
  BY <1>1
<1> HIDE DEF f
<1>6. Legal(x, f, z) /\ Advance(x, f, z) = Idle(d, g)
  BY <1>5 DEF Legal, Advance, Place
<1>7. Along(x, f, Whole(z), Idle(d, g))
  <2> HIDE DEF z
  <2> QED BY <1>2, <1>6 DEF Along
<1> QED BY <1>4, <1>7 DEF e, z

LEMMA FunctionIsSeq ==
    ASSUME NEW S, NEW n \in Nat, NEW u \in [1..n -> S]
    PROVE  IsSeq(u) /\ Len(u) = n
<1>1. u \in Seq(S)
  BY SeqDef
<1>2. Len(u) = n
  BY <1>1
<1> QED BY <1>1, <1>2 DEF IsSeq

\* An instruction that opens no stream, in any number of units.
LEMMA PathText ==
    ASSUME NEW x, NEW d, NEW g, NEW n \in Nat, n >= 1, NEW i, "op" \in DOMAIN i, i.op = "clipboard",
           NEW u, u = [k \in 1..n |-> Part(i, k, n, TRUE)]
    PROVE  Path(x, Idle(d, g), u, Idle(d, g))
<1> DEFINE e == Idle(d, g)
           t == [k \in 0..n |-> e]
           S == {Part(i, k, n, TRUE) : k \in 1..n}
<1>1. u \in [1..n -> S]
  OBVIOUS
<1>2. e.at = "between"
  BY IdleFields
<1> HIDE DEF S, e
<1>3. IsSeq(u) /\ Len(u) = n
  BY <1>1, FunctionIsSeq, Zenon
<1>4. Legal(x, e, i) /\ Advance(x, e, i) = e
  BY <1>2 DEF Legal, Advance, Place
<1>5. ASSUME NEW k \in 1..n PROVE Along(x, e, u[k], e)
  <2>1. u[k] = Part(i, k, n, TRUE)
    OBVIOUS
  <2> DEFINE yes == TRUE
  <2>2. Part(i, k, n, yes).in = i
    <3> HIDE DEF yes
    <3> QED BY PartFields
  <2>3. u[k].in = i
    BY <2>1, <2>2
  <2> HIDE DEF yes
  <2> QED BY <1>4, <2>3, Zenon DEF Along
<1>6. \A k \in 0..n : t[k] = e
  OBVIOUS
<1> HIDE DEF t
<1>7. Leads(x, t, u)
  <2> SUFFICES ASSUME NEW k \in 1..n PROVE Along(x, t[k - 1], u[k], t[k])
    BY <1>3 DEF Leads
  <2>1. t[k - 1] = e /\ t[k] = e
    BY <1>6
  <2> QED BY <1>5, <2>1
<1>8. t[0] = e /\ t[Len(u)] = e /\ IsSeq(u)
  <2>1. 0 \in 0..n /\ n \in 0..n
    OBVIOUS
  <2> QED BY <1>3, <1>6, <2>1, Zenon
<1> QED BY <1>7, <1>8 DEF Path, e

LEMMA PathOther ==
    ASSUME NEW what \in {"surface", "img", "clipboard", "paste"}, NEW d, NEW g
    PROVE  Path(host.shape, Idle(d, g), Other(what), Idle(d, g))
<1> DEFINE x == host.shape
           e == Idle(d, g)
<1>1. CASE what \in {"clipboard", "paste"}
  <2> DEFINE i == [op |-> "clipboard"]
  <2>1. PICK n \in Nat : n >= 1 /\ Other(what) = [k \in 1..n |-> Part(i, k, n, TRUE)]
    BY <1>1, OtherIs
  <2>2. "op" \in DOMAIN i /\ i.op = "clipboard"
    OBVIOUS
  <2> HIDE DEF i
  <2> QED BY <2>1, <2>2, PathText
<1>2. CASE what \notin {"clipboard", "paste"}
  <2> DEFINE h == IF what = "surface" THEN [op |-> "h264", view |-> 0, key |-> TRUE, paired |-> FALSE, surface |-> 1]
                  ELSE [op |-> "img"]
             i == [op |-> "blob", slice |-> None, sps |-> IF what = "surface" THEN x.sps ELSE None]
  <2>1. Other(what) = <<Whole(h), Whole(i), Whole([op |-> "end"])>>
    BY <1>2, OtherIs
  <2>2. "op" \in DOMAIN h /\ (h.op = "img" \/ Heads(h))
    BY DEF Heads
  <2>3. {"op", "slice", "sps"} \subseteq DOMAIN i /\ i.op = "blob" /\ i.slice = None
    OBVIOUS
  <2> HIDE DEF h, i
  <2>4. Along(x, e, Whole(h), Opened(e, h))
    BY <2>2, AlongOpening
  <2>5. PICK f : Along(x, Opened(e, h), Whole(i), f) /\ Along(x, f, Whole([op |-> "end"]), e)
    BY <2>3, AlongBlank
  <2> HIDE DEF e
  <2>6. Path(x, e, <<Whole(h), Whole(i), Whole([op |-> "end"])>>, e)
    BY <2>4, <2>5, PathThree
  <2> QED BY <2>1, <2>6 DEF e
<1> QED BY <1>1, <1>2

LEMMA PathSend ==
    ASSUME NoneApart, NEW d, NEW g, NEW s, Coded(host.shape, Idle(d, g), s), NEW paired
    PROVE  Path(host.shape, Idle(d, g), Send(s, paired), Idle(Mark(d, s, host.shape.sps.frames), TRUE))
<1> DEFINE x == host.shape
           e == Idle(d, g)
           h == [op |-> "h264", view |-> s.view, key |-> s.idr, paired |-> paired, surface |-> 0]
           i == [op |-> "blob", slice |-> s, sps |-> IF s.idr THEN x.sps ELSE None,
                 enough |-> s.idr \/ x.enough]
           z == [op |-> "end"]
           o == Opened(e, h)
           f == [o EXCEPT !.at = "filled", !.slice = s]
           q == Idle(Mark(d, s, x.sps.frames), TRUE)
           lead == Part(i, 1, 2, FALSE)
           rest == Part(i, 2, 2, FALSE)
<1>1. Send(s, paired) = <<Whole(h), lead, rest, Whole(z)>>
  BY Zenon DEF Send
<1>p. ~ lead.last /\ rest.last /\ rest.in = i
  <2> HIDE DEF i
  <2> DEFINE no == FALSE
             one == 1
             two == 2
  <2>1. two \in Nat /\ one \in 1..two /\ two \in 1..two /\ one # two
    OBVIOUS
  <2>2. lead = Part(i, one, two, no) /\ rest = Part(i, two, two, no)
    OBVIOUS
  <2> HIDE DEF no, one, two, lead, rest
  <2>3. ~ Part(i, one, two, no).last /\ Part(i, two, two, no).last /\ Part(i, two, two, no).in = i
    BY <2>1, PartFields
  <2> QED BY <2>2, <2>3
<1> HIDE DEF lead, rest
<1>2. s.view \in {0, 1} /\ s.idr \in BOOLEAN /\ s # None
  BY DEF Coded, OfHost, NoneApart
<1>3. "op" \in DOMAIN h /\ Heads(h) /\ h.view = s.view /\ h.key = s.idr
  BY <1>2 DEF Heads
<1>4. {"op", "slice", "sps"} \subseteq DOMAIN i /\ i.op = "blob" /\ i.slice = s /\ i.sps = IF s.idr THEN x.sps ELSE None
  OBVIOUS
<1>5. Along(x, e, Whole(h), o)
  <2> HIDE DEF h
  <2> QED BY <1>3, AlongOpening
<1>6. /\ DOMAIN o = {"at", "head", "slice", "dpb", "begun"}
      /\ o.at = "opened" /\ o.head = h /\ o.slice = None /\ o.dpb = d /\ o.begun = g
  <2> HIDE DEF h
  <2> QED BY OpenedFields
<1>7. e.dpb = d /\ e.begun = g
  BY IdleFields
<1> HIDE DEF h, i, e, o
<1>8. Along(x, o, lead, o)
  BY <1>p DEF Along
<1>9. Along(x, o, rest, f)
  <2>1. Coded(x, o, s)
    BY <1>6, <1>7, CodedAt DEF e
  <2>2. Bears(x, o, i)
    BY <1>3, <1>4, <1>6, <2>1 DEF Bears
  <2>3. Legal(x, o, i)
    BY <1>4, <1>6, <2>2 DEF Legal, Place
  <2>4. Advance(x, o, i) = f
    BY <1>4 DEF Advance
  <2> HIDE DEF f
  <2> QED BY <1>p, <2>3, <2>4 DEF Along
<1>10. Along(x, f, Whole(z), q)
  <2>1. f.at = "filled" /\ f.slice = s /\ f.dpb = d
    BY <1>6
  <2> HIDE DEF f
  <2>2. Legal(x, f, z)
    BY <2>1 DEF Legal, Place
  <2>3. Advance(x, f, z) = q
    <3>1. z.op = "end"
      OBVIOUS
    <3> HIDE DEF z
    <3>2. Advance(x, f, z) = Idle(Mark(f.dpb, f.slice, x.sps.frames), TRUE)
      BY <1>2, <2>1, <3>1, EndIs
    <3> QED BY <2>1, <3>2
  <2>4. Whole(z).last /\ Whole(z).in = z
    BY WholeFields
  <2> HIDE DEF q, z
  <2> QED BY <2>2, <2>3, <2>4 DEF Along
<1> HIDE DEF f, q, z
<1>11. Path(x, e, <<Whole(h), lead, rest>>, f)
  BY <1>5, <1>8, <1>9, PathThree
<1>12. Path(x, e, Append(<<Whole(h), lead, rest>>, Whole(z)), q)
  BY <1>10, <1>11, PathPush
<1>13. Append(<<Whole(h), lead, rest>>, Whole(z)) = <<Whole(h), lead, rest, Whole(z)>>
  BY TupleFour
<1> QED BY <1>1, <1>12, <1>13 DEF e, q

-----------------------------------------------------------------------------
(* The encoder *)

SliceFields == {"id", "view", "idr", "fn", "read", "name", "marks", "as", "active"}

\* The slice that goes out is the one that was chosen, with its reference.
LEMMA SliceIs ==
    ASSUME NEW h, NEW s, DOMAIN s = SliceFields \cup {"ref"}, NEW z, z = Encode(h, s).slice
    PROVE  /\ DOMAIN z = SliceFields \cup {"ref"}
           /\ \A k \in SliceFields : z[k] = s[k]
           /\ z.ref = IF s.idr THEN 0 ELSE Reference(h.dpb, s)
<1>1. z = [s EXCEPT !.ref = IF s.idr THEN 0 ELSE Reference(h.dpb, s)]
  BY DEF Encode
<1> QED BY <1>1 DEF SliceFields

LEMMA SameMark ==
    ASSUME NEW d, NEW s, NEW z, NEW cap, \A k \in SliceFields : z[k] = s[k]
    PROVE  Mark(d, z, cap) = Mark(d, s, cap)
<1>1. z.idr = s.idr /\ z.marks = s.marks /\ z.id = s.id /\ z.as = s.as /\ z.fn = s.fn
  BY DEF SliceFields
<1> QED BY <1>1, Zenon DEF Mark

LEMMA SameReference ==
    ASSUME NEW d, NEW s, NEW z, \A k \in SliceFields : z[k] = s[k]
    PROVE  Reference(d, z) = Reference(d, s)
<1>1. z.read = s.read /\ z.name = s.name
  BY DEF SliceFields
<1> QED BY <1>1, Zenon DEF Reference

\* What the host may say.
LEMMA KeyframeSays ==
    ASSUME NEW h, NEW view \in {0, 1}, NEW s, s = Keyframe(h, view)
    PROVE  /\ DOMAIN s = SliceFields \cup {"ref"} /\ s.idr = TRUE /\ s.id = h.made + 1
           /\ OfHost(h.shape, s)
<1>1. /\ DOMAIN s = SliceFields \cup {"ref"} /\ s.idr = TRUE /\ s.id = h.made + 1 /\ s.view = view /\ s.fn = 0 /\ s.read = "none"
      /\ s.marks = IF h.shape.main.read = "long" THEN "long" ELSE "short"
  BY DEF Keyframe, SliceFields
<1> QED BY <1>1 DEF OfHost, SliceFields

LEMMA InterSays ==
    ASSUME NEW h, NEW view \in {0, 1}, NEW s \in Says(h, view)
    PROVE  /\ DOMAIN s = SliceFields \cup {"ref"} /\ s.idr = FALSE /\ s.id = h.made + 1 /\ s.fn = h.dpb.prev + 1
           /\ OfHost(h.shape, s)
<1> DEFINE a == Habit(h.shape, view)
           d == h.dpb
           chain == IF d.lt[a.chain] # 0 THEN a.chain ELSE 0
           names == CASE a.read = "long" -> {chain}
                      [] a.read = "relative" -> {d.st[1].fn}
                      [] a.read = "default" -> 1..a.active
<1>1. PICK n \in names : s = [id |-> h.made + 1, view |-> view, idr |-> FALSE, fn |-> d.prev + 1, read |-> a.read,
                              name |-> n, ref |-> 0, marks |-> a.marks, as |-> a.chain, active |-> a.active]
  BY DEF Says
<1>2. a.read = "long" /\ a.chain = 0 => n = 0
  BY DEF names, chain
<1> HIDE DEF names, a, d
<1>3. /\ DOMAIN s = SliceFields \cup {"ref"} /\ s.idr = FALSE /\ s.id = h.made + 1 /\ s.view = view /\ s.fn = d.prev + 1
      /\ s.read = a.read /\ s.name = n /\ s.marks = a.marks /\ s.as = a.chain /\ s.active = a.active
  BY <1>1 DEF SliceFields
<1>4. Habit(h.shape, s.view) = a
  BY <1>3 DEF a
<1>5. OfHost(h.shape, s)
  BY <1>2, <1>3, <1>4 DEF OfHost, SliceFields
<1> QED BY <1>3, <1>5 DEF d

HostFields == {"shape", "dpb", "made", "others"}

\* What a host may say next, and what its encoder makes of it.
Sayable(h, s, g) ==
    /\ DOMAIN h = HostFields /\ DOMAIN s = SliceFields \cup {"ref"} /\ s.idr \in BOOLEAN /\ OfHost(h.shape, s)
    /\ ~ s.idr => g = TRUE /\ s.fn = h.dpb.prev + 1
Encoded(h, s, g, e) ==
    /\ Coded(h.shape, Idle(h.dpb, g), e.slice)
    /\ DOMAIN e.host = DOMAIN h /\ e.host.shape = h.shape /\ e.host.made = s.id
    /\ e.host.dpb = Mark(h.dpb, e.slice, h.shape.sps.frames)

\* A slice as it is coded, and the encoder after it.
LEMMA SliceCoded ==
    ASSUME NEW h, NEW s, NEW g, Sayable(h, s, g), NEW e, e = Encode(h, s)
    PROVE  Encoded(h, s, g, e)
<1>0. /\ DOMAIN h = {"shape", "dpb", "made", "others"} /\ DOMAIN s = SliceFields \cup {"ref"} /\ s.idr \in BOOLEAN
      /\ OfHost(h.shape, s) /\ (~ s.idr => g = TRUE /\ s.fn = h.dpb.prev + 1)
  BY DEF Sayable, HostFields
<1> DEFINE z == e.slice
           i == Idle(h.dpb, g)
<1>1. z = Encode(h, s).slice
  OBVIOUS
<1>2. e.host = [h EXCEPT !.made = s.id, !.dpb = Mark(h.dpb, s, h.shape.sps.frames)]
  BY <1>0 DEF Encode
<1> HIDE DEF z
<1>3. /\ DOMAIN z = SliceFields \cup {"ref"}
      /\ \A k \in SliceFields : z[k] = s[k]
      /\ z.ref = IF s.idr THEN 0 ELSE Reference(h.dpb, s)
  BY <1>0, <1>1, SliceIs
<1>4. i.dpb = h.dpb /\ i.begun = g
  BY IdleFields
<1> HIDE DEF i
<1>5. /\ z.view = s.view /\ z.idr = s.idr /\ z.fn = s.fn /\ z.read = s.read /\ z.name = s.name /\ z.marks = s.marks
      /\ z.as = s.as /\ z.active = s.active
  BY <1>0, <1>3 DEF SliceFields
<1>6. OfHost(h.shape, z)
  <2>1. Habit(h.shape, z.view) = Habit(h.shape, s.view) /\ {"view", "idr"} \subseteq DOMAIN z
    BY <1>3, <1>5 DEF SliceFields
  <2> QED BY <1>0, <1>5, <2>1 DEF OfHost
<1>7. Mark(h.dpb, z, h.shape.sps.frames) = Mark(h.dpb, s, h.shape.sps.frames) /\ Reference(h.dpb, z) = Reference(h.dpb, s)
  BY <1>0, <1>3, SameMark, SameReference
<1>8. Coded(h.shape, i, z)
  BY <1>0, <1>3, <1>4, <1>5, <1>6, <1>7 DEF Coded
<1>9. /\ DOMAIN e.host = DOMAIN h /\ e.host.shape = h.shape /\ e.host.made = s.id
      /\ e.host.dpb = Mark(h.dpb, z, h.shape.sps.frames)
  BY <1>0, <1>2, <1>7
<1> QED BY Zenon, <1>8, <1>9 DEF i, z, Encoded

-----------------------------------------------------------------------------
(* The main views *)

Alike(c, b) ==
    /\ DOMAIN c = BrowserFields /\ c.open = b.open /\ c.data = b.data /\ c.sps = b.sps /\ c.dpb = b.dpb
    /\ c.lost = b.lost

\* Where less may be dropped, what was in step still is.
LEMMA SyncedLater ==
    ASSUME NEW x, NEW live \in BOOLEAN, NEW e, NEW open, NEW rw, NEW b, Synced(x, live, e, open, rw, b),
           NEW now \in BOOLEAN, now => live, NEW w, w.open = rw.open, NEW c, Alike(c, b)
    PROVE  Synced(x, now, e, open, w, c)
<1>0. /\ EncoderOK(e) /\ DOMAIN b = BrowserFields /\ 0 \notin b.lost
      /\ Position(x, live, e, open, b) /\ Picture(x, live, e, b) /\ Rewrites(live, e, rw, b) /\ Agree(x, e, b)
  BY DEF Synced
<1>1. /\ DOMAIN c = BrowserFields /\ c.open = b.open /\ c.data = b.data /\ c.sps = b.sps /\ c.dpb = b.dpb
      /\ c.lost = b.lost
  BY DEF Alike
<1>2. Position(x, now, e, open, c)
  BY <1>0, <1>1 DEF Position
<1>3. Picture(x, now, e, c)
  BY <1>0, <1>1 DEF Picture
<1>4. Rewrites(now, e, w, c)
  BY <1>0, <1>1 DEF Rewrites
<1>5. Agree(x, e, c)
  BY <1>0, <1>1 DEF Agree
<1> QED BY <1>0, <1>1, <1>2, <1>3, <1>4, <1>5 DEF Synced

\* The beginning of a chunk.
LEMMA PipedNone ==
    ASSUME NEW c, Context(c), c.open \in BOOLEAN, c.live /\ ~ c.dropping => ~ c.open,
           DOMAIN c.sps = RewriterFields, c.live => c.sps.gaps = TRUE,
           NEW e, Synced(c.shape, c.live, e, c.open, c.sps, c.browser)
    PROVE  Piped(c, << >>, e)
<1> DEFINE f == DropsTo(c, << >>)
           r == RewritesTo(c, f.out)
           y == SplitsTo(c, r.out)
           b == ShowsTo(c, y.out)
<1>1. f = [open |-> c.open, out |-> << >>]
  <2>1. FoldLeft(classify, [open |-> c.open, out |-> << >>], << >>) = [open |-> c.open, out |-> << >>]
    BY ClassifyNone
  <2> QED BY <2>1 DEF DropsTo
<1>2. f.out = << >> /\ f.open = c.open /\ DOMAIN f = {"open", "out"}
  BY <1>1
<1> HIDE DEF f
<1>3. r = [sps |-> c.sps, out |-> << >>]
  <2>1. FoldLeft(RewriteOne, [sps |-> c.sps, out |-> << >>], << >>) = [sps |-> c.sps, out |-> << >>]
    BY RewriteNone
  <2> QED BY <1>2, <2>1 DEF RewritesTo
<1>4. r.out = << >> /\ r.sps = c.sps /\ DOMAIN r = {"sps", "out"}
  BY <1>3
<1> HIDE DEF r
<1>5. y = [open |-> c.split, out |-> << >>]
  <2>1. FoldLeft(split_one, [open |-> c.split, out |-> << >>], << >>) = [open |-> c.split, out |-> << >>]
    BY SplitNone
  <2> QED BY <1>4, <2>1 DEF SplitsTo
<1>6. y.out = << >>
  BY <1>5
<1> HIDE DEF y
<1>7. b = c.browser
  <2>1. FoldLeft(receive, c.browser, << >>) = c.browser
    BY ReceiveNone
  <2> QED BY <1>6, <2>1 DEF ShowsTo
<1> HIDE DEF b
<1>8. Stages(c, f, r, y, b, e)
  BY <1>2, <1>4, <1>6, <1>7, NoneIsSeq DEF Stages, Rewriting
<1> QED BY <1>8, NoneIsSeq DEF Piped, f, r, y, b

\* Views that may be lost: after a full carry was flushed, or of these hosts.
Lossy ==
    \/ parser.forced
    \/ NoRoom(host.shape) /\ drop.blind
    \/ InferredFirst(host.shape)

\* A chunk leaves the decoder in step, and drops nothing that is not harmless.
LEMMA ForwardSynced ==
    ASSUME NoneApart, MinMain > 0, MinAux > 0, NEW x, x = host.shape, Described(x), Evidence(x, probe),
           NEW p, Dropper(drop, p), drop.state = "dropping" => Harmless(x), DOMAIN sps = RewriterFields,
           NEW e, Synced(x, drop.state # "off", e, drop.open, sps, browser), NEW u, NEW f, Path(x, e, u, f),
           Forward(u), probe'.main \in Nat, probe'.aux \in Nat
    PROVE  \/ InferredFirst(x) \/ (NoRoom(x) /\ drop'.blind)
           \/ /\ Evidence(x, probe') /\ (drop'.state = "dropping" => Harmless(x)) /\ DOMAIN sps' = RewriterFields
              /\ Synced(x, drop'.state # "off", f, drop'.open, sps', browser')
<1> DEFINE s == Instructions(u)
           a == process(s)
           w == [sps EXCEPT !.gaps = wants_frame_num_gaps(a.drop)]
           r == rewrite(w, a.out)
           b == [browser EXCEPT !.told = a.drop.announced]
           y == FoldLeft(split_one, [open |-> split, out |-> <<>>], r.out)
           second == drop.state # "off" /\ other_surface(drop, s)
           pr == IF second THEN probe ELSE FoldLeft(observe, probe, s)
           st == IF second THEN "off" ELSE Decided(drop.state, safety(pr))
           k == IF st = "dropping" THEN filter(drop.open, s) ELSE [open |-> drop.open, out |-> s]
           first == IF drop.state = "off" THEN drop.first ELSE FirstSurface(drop, s)
           blind == drop.blind \/ (st = "dropping" /\ ~ Seen(pr, host.shape))
           said == st = "dropping"
           c == [shape |-> x, live |-> st # "off", dropping |-> st = "dropping",
                 pass |-> w.state = "pass" /\ ~ w.bound /\ ~ w.gaps, open |-> drop.open, sps |-> w,
                 split |-> split, browser |-> b]
<1>1. /\ probe' = a.probe /\ drop' = a.drop /\ sps' = r.sps
      /\ browser' = FoldLeft(receive, b, y.out)
  BY Zenon DEF Forward
<1>2. a = [probe |-> pr, out |-> k.out,
           drop |-> [state |-> st, open |-> k.open, announced |-> said, blind |-> blind, first |-> first]]
  BY Zenon DEF process
<1>3. Evidence(x, pr)
  <2>1. Evidence(x, FoldLeft(observe, probe, s))
    BY ChunkLearns
  <2> QED BY <2>1
<1>4. drop.state \in {"deciding", "dropping", "off"} /\ drop.open \in BOOLEAN /\ (drop.state = "deciding" => drop.open = FALSE)
  BY DEF Dropper
<1>5. /\ st \in {"deciding", "dropping", "off"} /\ (st = "deciding" => drop.state = "deciding")
      /\ (st # "off" => drop.state # "off")
  <2> DEFINE v == safety(pr)
  <2> HIDE DEF v, second
  <2>1. /\ Decided(drop.state, v) \in {"deciding", "dropping", "off"}
        /\ Decided(drop.state, v) = "deciding" => drop.state = "deciding"
        /\ Decided(drop.state, v) = "dropping" => drop.state # "off"
    BY <1>4, DecidedIs
  <2>2. st \in {"off", Decided(drop.state, v)}
    BY DEF v
  <2> HIDE DEF st
  <2> QED BY <2>1, <2>2
<1>6. st = "dropping" => second = FALSE /\ Decided(drop.state, safety(pr)) = "dropping"
  <2> HIDE DEF second, pr
  <2> QED OBVIOUS
<1>7. a.probe = pr /\ a.drop.state = st /\ a.drop.open = k.open /\ a.out = k.out /\ a.drop.blind = blind
  <2> HIDE DEF pr, st, k, first, a, blind, said
  <2> QED BY <1>2
<1>b. st = "dropping" /\ ~ Seen(pr, x) => blind
  <2> HIDE DEF pr, st
  <2> QED BY Zenon
<1>d. drop'.blind = blind
  <2> HIDE DEF a, blind
  <2> QED BY <1>1, <1>7
<1> HIDE DEF a, pr, blind, said
<1>8. ASSUME st = "dropping" PROVE Harmless(x) \/ InferredFirst(x) \/ (NoRoom(x) /\ ~ Seen(pr, x))
  <2>1. pr.main \in Nat /\ pr.aux \in Nat
    BY <1>1, <1>7
  <2>2. Decided(drop.state, safety(pr)) = "dropping"
    BY <1>6, <1>8
  <2> QED BY <1>3, <1>4, <2>1, <2>2, GateHolds
<1> HIDE DEF st, second
<1>l. ASSUME st = "dropping", ~ Harmless(x) PROVE InferredFirst(x) \/ (NoRoom(x) /\ drop'.blind)
  <2>1. InferredFirst(x) \/ (NoRoom(x) /\ ~ Seen(pr, x))
    BY <1>8, <1>l, Zenon
  <2>2. ~ Seen(pr, x) => drop'.blind
    BY <1>b, <1>d, <1>l, Zenon
  <2> QED BY <2>1, <2>2, Zenon
<1> SUFFICES ASSUME st = "dropping" => Harmless(x)
             PROVE  /\ Evidence(x, probe') /\ (drop'.state = "dropping" => Harmless(x)) /\ DOMAIN sps' = RewriterFields
                    /\ Synced(x, drop'.state # "off", f, drop'.open, sps', browser')
  BY <1>l, Zenon
<1>9. w.gaps = (st # "off") /\ DOMAIN w = RewriterFields /\ w.open = sps.open
  BY <1>7 DEF wants_frame_num_gaps, RewriterFields
<1>10. Synced(x, st # "off", e, drop.open, w, b)
  <2> DEFINE n == st # "off"
             l == drop.state # "off"
  <2>1. n \in BOOLEAN /\ l \in BOOLEAN /\ (n => l) /\ Synced(x, l, e, drop.open, sps, browser)
    BY <1>5
  <2>2. Alike(b, browser)
    BY DEF Synced, Alike, BrowserFields
  <2> HIDE DEF w, n, l, b
  <2>3. Synced(x, n, e, drop.open, w, b)
    BY <1>9, <2>1, <2>2, SyncedLater
  <2> QED BY <2>3 DEF n
<1> HIDE DEF w, b
<1>11. /\ c.shape = x /\ c.live = (st # "off") /\ c.dropping = (st = "dropping")
       /\ c.pass = (w.state = "pass" /\ ~ w.bound /\ ~ w.gaps) /\ c.open = drop.open /\ c.sps = w
       /\ c.split = split /\ c.browser = b
  OBVIOUS
<1> HIDE DEF c
<1>12. Context(c)
  BY <1>9, <1>11 DEF Context
<1>13. Piped(c, << >>, e)
  <2>1. c.live /\ ~ c.dropping => ~ c.open
    BY <1>4, <1>5, <1>11
  <2>2. c.live => c.sps.gaps = TRUE
    BY <1>9, <1>11
  <2>3. c.open \in BOOLEAN /\ DOMAIN c.sps = RewriterFields
    BY <1>4, <1>9, <1>11
  <2>4. Synced(c.shape, c.live, e, c.open, c.sps, c.browser)
    BY <1>10, <1>11
  <2> QED BY <1>12, <2>1, <2>2, <2>3, <2>4, PipedNone
<1>14. Piped(c, s, f)
  BY <1>11, <1>12, <1>13, ChunkPiped
<1>15. DropsTo(c, s) = k
  BY <1>11 DEF DropsTo, filter
<1>16. RewritesTo(c, k.out) = r
  BY <1>7, <1>11 DEF RewritesTo, rewrite
<1>17. SplitsTo(c, r.out) = y
  BY <1>11 DEF SplitsTo
<1>18. ShowsTo(c, y.out) = FoldLeft(receive, b, y.out)
  BY <1>11 DEF ShowsTo
<1> HIDE DEF k, r, y, s
<1>19. Stages(c, k, r, y, FoldLeft(receive, b, y.out), f)
  BY <1>14, <1>15, <1>16, <1>17, <1>18 DEF Piped
<1>20. Rewriting(c.live, r) /\ Synced(x, st # "off", f, k.open, r.sps, FoldLeft(receive, b, y.out))
  BY <1>11, <1>19 DEF Stages
<1>21. DOMAIN sps' = RewriterFields
  BY <1>1, <1>20 DEF Rewriting
<1>22. Synced(x, drop'.state # "off", f, drop'.open, sps', browser')
  BY <1>1, <1>7, <1>20
<1> QED BY <1>1, <1>3, <1>7, <1>21, <1>22

LEMMA ForwardBlind ==
    ASSUME NEW sent, Forward(sent), drop.blind
    PROVE  drop'.blind
<1> DEFINE s == Instructions(sent)
           a == process(s)
           second == drop.state # "off" /\ other_surface(drop, s)
           pr == IF second THEN probe ELSE FoldLeft(observe, probe, s)
           st == IF second THEN "off" ELSE Decided(drop.state, safety(pr))
           k == IF st = "dropping" THEN filter(drop.open, s) ELSE [open |-> drop.open, out |-> s]
           first == IF drop.state = "off" THEN drop.first ELSE FirstSurface(drop, s)
           blind == drop.blind \/ (st = "dropping" /\ ~ Seen(pr, host.shape))
           said == st = "dropping"
<1>1. drop' = a.drop
  BY Zenon DEF Forward
<1>2. a = [probe |-> pr, out |-> k.out,
           drop |-> [state |-> st, open |-> k.open, announced |-> said, blind |-> blind, first |-> first]]
  BY Zenon DEF process
<1>3. blind
  OBVIOUS
<1> HIDE DEF a, pr, st, k, first, blind, said
<1>4. drop'.blind = blind
  BY <1>1, <1>2
<1> QED BY <1>3, <1>4, Zenon

\* For some place e of the encoder, what is behind the pump leads from there to
\* where the encoder is, and the browser is in step with e.
InStep(x) ==
    \E e : /\ Path(x, e, carry \o wire, Idle(host.dpb, host.made > 0))
           /\ Synced(x, drop.state # "off", e, drop.open, sps, browser)

MainFollows ==
    /\ DOMAIN sps = RewriterFields
    /\ Evidence(host.shape, probe)
    /\ drop.state = "dropping" => Harmless(host.shape)
    /\ InStep(host.shape)

MainInv ==
    /\ DOMAIN host = HostFields /\ host.made \in Nat /\ host.shape \in Shapes
    /\ Lossy \/ MainFollows

LEMMA MainStart ==
    ASSUME StreamInit
    PROVE  MainInv
<1>1. /\ host \in [shape : Shapes, dpb : {NoPictures}, made : {0}, others : {0}]
      /\ wire = << >> /\ carry = << >> /\ probe = NoEvidence /\ drop \in for_session
      /\ sps = [state |-> "undecided", bound |-> FALSE, gaps |-> FALSE, open |-> FALSE]
      /\ browser = [open |-> None, data |-> <<>>, dpb |-> NoPictures, sps |-> None,
                    told |-> FALSE, torn |-> FALSE, wrongform |-> FALSE, lost |-> {}]
  BY Zenon DEF StreamInit
<1>2. DOMAIN host = HostFields /\ host.made = 0 /\ host.shape \in Shapes /\ host.dpb = NoPictures
  BY <1>1 DEF HostFields
<1>3. drop.state # "dropping" /\ drop.open = FALSE
  BY <1>1 DEF for_session
<1>4. DOMAIN sps = RewriterFields
  BY <1>1 DEF RewriterFields
<1> DEFINE x == host.shape
           e == Idle(NoPictures, FALSE)
           live == drop.state # "off"
<1>5. Evidence(x, probe)
  <2>1. /\ DOMAIN probe = ProbeFields /\ DOMAIN probe.mods = {0, 1} /\ probe.active = 1 /\ probe.main = 0
        /\ probe.aux = 0 /\ probe.mods[0] = {} /\ probe.open = None /\ probe.frames = None
    BY <1>1 DEF NoEvidence, ProbeFields
  <2> QED BY <2>1 DEF Evidence, Learnt
<1>6. Path(x, e, carry \o wire, Idle(host.dpb, host.made > 0))
  <2>1. carry \o wire = << >>
    BY <1>1, NoneJoined
  <2>2. (host.made > 0) = FALSE
    BY <1>2
  <2>3. Idle(host.dpb, host.made > 0) = e
    BY <1>2, <2>2
  <2> QED BY <2>1, <2>3, PathNone
<1>7. Synced(x, live, e, drop.open, sps, browser)
  <2> DEFINE d == NoPictures
  <2>1. Buffer(d) /\ d.prev = 0
    BY DEF Buffer, NoPictures
  <2>2. /\ DOMAIN browser = BrowserFields /\ 0 \notin browser.lost /\ browser.open = None /\ browser.data = << >>
        /\ browser.sps = None /\ browser.dpb = d
    BY <1>1 DEF BrowserFields
  <2>3. e.dpb = d
    BY IdleFields
  <2> HIDE DEF d, e
  <2>4. Agree(x, e, browser)
    <3>1. Buffer(browser.dpb) /\ browser.dpb = e.dpb /\ browser.dpb.prev = 0 /\ e.dpb.prev = 0
      BY <2>1, <2>2, <2>3
    <3>2. browser.dpb.prev <= e.dpb.prev /\ ~ (browser.dpb.prev < e.dpb.prev)
      BY <3>1
    <3>3. browser.dpb.lt[0] = e.dpb.lt[0]
      BY <3>1
    <3> QED BY Zenon, <3>1, <3>2, <3>3 DEF Agree
  <2>5. ~ (live /\ drop.open) /\ live \in BOOLEAN
    BY <1>3
  <2> HIDE DEF live, x
  <2>6. Synced(x, live, Idle(d, FALSE), drop.open, sps, browser)
    <3>1. Agree(x, Idle(d, FALSE), browser)
      BY <2>4 DEF d, e
    <3> QED BY <2>1, <2>2, <2>5, <3>1, IdleSynced
  <2> QED BY <2>6 DEF d, e
<1>8. InStep(host.shape)
  BY <1>6, <1>7 DEF InStep
<1>9. MainFollows
  BY <1>3, <1>4, <1>5, <1>8 DEF MainFollows
<1> QED BY <1>2, <1>9 DEF MainInv

\* guacd writes on.
LEMMA MainSends ==
    ASSUME StreamInv, MainInv, NEW v, wire' = wire \o v, UNCHANGED Pump,
           DOMAIN host' = HostFields, host'.made \in Nat, host'.shape = host.shape,
           Path(host.shape, Idle(host.dpb, host.made > 0), v, Idle(host'.dpb, host'.made > 0))
    PROVE  MainInv'
<1>0. /\ carry' = carry /\ probe' = probe /\ drop' = drop /\ sps' = sps /\ browser' = browser /\ parser' = parser
  BY DEF Pump
<1>l. Lossy => Lossy'
  BY <1>0 DEF Lossy
<1>m. CASE Lossy
  BY <1>l, <1>m DEF MainInv
<1> SUFFICES ASSUME MainFollows PROVE MainFollows'
  BY <1>m DEF MainInv
<1> DEFINE x == host.shape
           f == Idle(host.dpb, host.made > 0)
           g == Idle(host'.dpb, host'.made > 0)
<1>1. PICK e : Path(x, e, carry \o wire, f) /\ Synced(x, drop.state # "off", e, drop.open, sps, browser)
  BY DEF MainFollows, InStep
<1>2. IsSeq(carry) /\ IsSeq(wire) /\ IsSeq(v)
  BY DEF StreamInv, Path
<1>3. Path(x, e, (carry \o wire) \o v, g)
  <2> HIDE DEF x, f, g
  <2>1. Path(x, f, v, g)
    BY DEF x, f, g
  <2> QED BY <1>1, <2>1, PathJoin
<1>4. carry' \o wire' = (carry \o wire) \o v
  BY <1>0, <1>2, JoinAssociative
<1>5. Path(host'.shape, e, carry' \o wire', g)
  BY <1>3, <1>4
<1>6. Synced(host'.shape, drop'.state # "off", e, drop'.open, sps', browser')
  BY <1>0, <1>1
<1>7. InStep(host.shape)'
  <2> HIDE DEF g
  <2> QED BY <1>5, <1>6 DEF InStep, g
<1> QED BY <1>0, <1>7 DEF MainFollows

\* The host encodes a view: a slice that it may say.
Chosen(h, view, idr) == IF idr THEN {Keyframe(h, view)} ELSE Says(h, view)
LEMMA ViewPath ==
    ASSUME NoneApart, NEW h, DOMAIN h = HostFields, h.made \in Nat, h.shape = host.shape, NEW view \in {0, 1},
           NEW idr \in BOOLEAN, h.made = 0 => idr, NEW s \in Chosen(h, view, idr), NEW e, e = Encode(h, s), NEW paired
    PROVE  /\ DOMAIN e.host = HostFields /\ e.host.made = h.made + 1 /\ e.host.shape = h.shape
           /\ Path(host.shape, Idle(h.dpb, h.made > 0), Send(e.slice, paired), Idle(e.host.dpb, e.host.made > 0))
<1> DEFINE g == h.made > 0
           x == h.shape
<1>1. /\ DOMAIN s = SliceFields \cup {"ref"} /\ s.idr = idr /\ s.id = h.made + 1 /\ OfHost(x, s)
      /\ ~ s.idr => s.fn = h.dpb.prev + 1
  <2>1. CASE idr
    BY <2>1, KeyframeSays DEF Chosen
  <2>2. CASE ~ idr
    BY <2>2, InterSays DEF Chosen
  <2> QED BY <2>1, <2>2
<1>2. g \in BOOLEAN /\ (~ s.idr => g = TRUE)
  BY <1>1
<1> HIDE DEF g
<1>3. /\ Coded(x, Idle(h.dpb, g), e.slice)
      /\ DOMAIN e.host = DOMAIN h /\ e.host.shape = h.shape /\ e.host.made = s.id
      /\ e.host.dpb = Mark(h.dpb, e.slice, x.sps.frames)
  <2>1. Sayable(h, s, g)
    BY <1>1, <1>2 DEF Sayable
  <2>2. Encoded(h, s, g, e)
    BY Zenon, <2>1, SliceCoded
  <2> QED BY <2>2 DEF Encoded
<1>4. Path(x, Idle(h.dpb, g), Send(e.slice, paired), Idle(Mark(h.dpb, e.slice, x.sps.frames), TRUE))
  BY <1>3, PathSend
<1>5. (e.host.made > 0) = TRUE
  BY <1>1, <1>3
<1>6. Idle(e.host.dpb, e.host.made > 0) = Idle(Mark(h.dpb, e.slice, x.sps.frames), TRUE)
  BY <1>3, <1>5
<1> QED BY <1>1, <1>3, <1>4, <1>6 DEF g

LEMMA MainSendsView ==
    ASSUME NoneApart, StreamInv, MainInv, NEW view \in {0, 1}, NEW idr \in BOOLEAN, SendView(view, idr)
    PROVE  MainInv'
<1>0. DOMAIN host = HostFields /\ host.made \in Nat
  BY DEF MainInv
<1>1. /\ host.made = 0 => idr
      /\ UNCHANGED Pump
      /\ \E s \in Chosen(host, view, idr) : host' = Encode(host, s).host /\ wire' = wire \o Send(Encode(host, s).slice, FALSE)
  BY DEF SendView, Chosen
<1>2. PICK s \in Chosen(host, view, idr) :
          host' = Encode(host, s).host /\ wire' = wire \o Send(Encode(host, s).slice, FALSE)
  BY <1>1
<1> DEFINE e == Encode(host, s)
           v == Send(e.slice, FALSE)
<1>3. /\ DOMAIN e.host = HostFields /\ e.host.made = host.made + 1 /\ e.host.shape = host.shape
      /\ Path(host.shape, Idle(host.dpb, host.made > 0), v, Idle(e.host.dpb, e.host.made > 0))
  BY <1>0, <1>1, ViewPath
<1>4. host' = e.host /\ wire' = wire \o v
  BY <1>2
<1> HIDE DEF e, v
<1>5. DOMAIN host' = HostFields /\ host'.made \in Nat /\ host'.shape = host.shape
  BY <1>0, <1>3, <1>4
<1>6. Path(host.shape, Idle(host.dpb, host.made > 0), v, Idle(host'.dpb, host'.made > 0))
  BY <1>3, <1>4
<1> QED BY <1>1, <1>4, <1>5, <1>6, MainSends

LEMMA MainSendsPair ==
    ASSUME NoneApart, StreamInv, MainInv, NEW idr \in BOOLEAN, SendPair(idr)
    PROVE  MainInv'
<1>0. DOMAIN host = HostFields /\ host.made \in Nat
  BY DEF MainInv
<1>1. PICK s \in Chosen(host, 0, idr) :
         \E t \in Says(Encode(host, s).host, 1) :
            LET f == Encode(Encode(host, s).host, t) IN
            /\ host' = f.host
            /\ wire' = wire \o Send(Encode(host, s).slice, TRUE) \o Send(f.slice, FALSE)
  BY Zenon DEF SendPair, Chosen
<1>2. UNCHANGED Pump /\ (host.made = 0 => idr)
  BY DEF SendPair
<1> DEFINE e == Encode(host, s)
           v == Send(e.slice, TRUE)
<1>3. PICK t \in Says(e.host, 1) :
            /\ host' = Encode(e.host, t).host
            /\ wire' = wire \o v \o Send(Encode(e.host, t).slice, FALSE)
  BY <1>1
<1> DEFINE f == Encode(e.host, t)
           w == Send(f.slice, FALSE)
<1>4. /\ DOMAIN e.host = HostFields /\ e.host.made = host.made + 1 /\ e.host.shape = host.shape
      /\ Path(host.shape, Idle(host.dpb, host.made > 0), v, Idle(e.host.dpb, e.host.made > 0))
  BY <1>0, <1>2, ViewPath
<1> HIDE DEF e, v
<1>5. /\ DOMAIN f.host = HostFields /\ f.host.made = e.host.made + 1 /\ f.host.shape = e.host.shape
      /\ Path(host.shape, Idle(e.host.dpb, e.host.made > 0), w, Idle(f.host.dpb, f.host.made > 0))
  <2>1. t \in Chosen(e.host, 1, FALSE)
    BY DEF Chosen
  <2>2. e.host.made \in Nat /\ e.host.made # 0
    BY <1>0, <1>4
  <2> DEFINE h == e.host
  <2>3. DOMAIN h = HostFields /\ h.made \in Nat /\ h.shape = host.shape /\ (h.made = 0 => FALSE) /\ t \in Chosen(h, 1, FALSE)
    BY <1>4, <2>1, <2>2
  <2> HIDE DEF h
  <2>4. /\ DOMAIN Encode(h, t).host = HostFields /\ Encode(h, t).host.made = h.made + 1
        /\ Encode(h, t).host.shape = h.shape
        /\ Path(host.shape, Idle(h.dpb, h.made > 0), Send(Encode(h, t).slice, FALSE),
                Idle(Encode(h, t).host.dpb, Encode(h, t).host.made > 0))
    BY <2>3, ViewPath
  <2> QED BY <2>4 DEF h
<1>6. host' = f.host /\ wire' = (wire \o v) \o w
  BY <1>3
<1> HIDE DEF f, w
<1>7. IsSeq(wire) /\ IsSeq(v) /\ IsSeq(w)
  BY <1>4, <1>5 DEF StreamInv, Path
<1>8. wire' = wire \o (v \o w)
  BY <1>6, <1>7, JoinAssociative
<1>9. Path(host.shape, Idle(host.dpb, host.made > 0), v \o w, Idle(f.host.dpb, f.host.made > 0))
  BY <1>4, <1>5, PathJoin
<1>10. DOMAIN host' = HostFields /\ host'.made \in Nat /\ host'.shape = host.shape
  BY <1>0, <1>4, <1>5, <1>6
<1>11. Path(host.shape, Idle(host.dpb, host.made > 0), v \o w, Idle(host'.dpb, host'.made > 0))
  BY <1>6, <1>9
<1> QED BY <1>2, <1>8, <1>10, <1>11, MainSends

LEMMA MainSendsOther ==
    ASSUME StreamInv, MainInv, NEW what \in {"surface", "img", "clipboard", "paste"}, SendOther(what)
    PROVE  MainInv'
<1>0. DOMAIN host = HostFields /\ host.made \in Nat
  BY DEF MainInv
<1>1. host' = [host EXCEPT !.others = host.others + 1] /\ wire' = wire \o Other(what) /\ UNCHANGED Pump
  BY DEF SendOther
<1>2. DOMAIN host' = HostFields /\ host'.made = host.made /\ host'.shape = host.shape /\ host'.dpb = host.dpb
  BY <1>0, <1>1 DEF HostFields
<1>3. Path(host.shape, Idle(host.dpb, host.made > 0), Other(what), Idle(host.dpb, host.made > 0))
  BY PathOther
<1>4. Path(host.shape, Idle(host.dpb, host.made > 0), Other(what), Idle(host'.dpb, host'.made > 0))
  BY <1>2, <1>3
<1> QED BY <1>0, <1>1, <1>2, <1>4, MainSends

\* What a read leaves is what came, behind the instructions that it passes on.
Leaves(c, w, m, c1, w1) == c1 \o w1 = SubSeq(c \o w, m + 1, Len(c \o w))
LEMMA PumpLeaves ==
    ASSUME NEW c, IsSeq(c), NEW w, IsSeq(w), NEW n \in 1..Len(w), NEW r, ReadOf(r, c, w, n), NEW m \in 0..Len(r),
           NEW c1, c1 = SubSeq(r, m + 1, Len(r)), NEW w1, w1 = SubSeq(w, n + 1, Len(w))
    PROVE  Leaves(c, w, m, c1, w1)
<1>1. SubSeq(r, m + 1, Len(r)) \o SubSeq(w, n + 1, Len(w)) = SubSeq(c \o w, m + 1, Len(c \o w))
  BY ReadLeaves, ZenonT(60)
<1> QED BY Zenon, <1>1 DEF Leaves

\* The pump reads.
LEMMA MainReads ==
    ASSUME NoneApart, MinMain > 0, MinAux > 0, \A y \in Shapes : Described(y),
           StreamInv, MainInv, StreamTypeOK', NEW n \in 1..Len(wire), guacd_to_ws(n)
    PROVE  MainInv'
<1> DEFINE u == carry \o wire
           r == carry \o SubSeq(wire, 1, n)
           m == last_instruction_boundary(r)
           sent == SubSeq(r, 1, m)
           x == host.shape
           f == Idle(host.dpb, host.made > 0)
<1>0. IsSeq(carry) /\ IsSeq(wire) /\ DOMAIN parser = {"due", "spliced", "forced"} /\ (parser.forced \/ Undisturbed)
  BY DEF StreamInv
<1>s. /\ wire' = SubSeq(wire, n + 1, Len(wire)) /\ host' = host
      /\ \/ /\ m = 0 /\ carry' = SubSeq(r, m + 1, Len(r))
            /\ UNCHANGED <<probe, drop, sps, split, browser, parser>>
         \/ m # 0 /\ carry' = SubSeq(r, m + 1, Len(r)) /\ Forward(sent)
         \/ FlushFull(SubSeq(r, 1, Len(r)))
  BY ReadStep, Zenon
<1>i. DOMAIN host' = HostFields /\ host'.made \in Nat /\ host'.shape \in Shapes
  BY <1>s DEF MainInv
<1>c. CASE FlushFull(SubSeq(r, 1, Len(r)))
  <2> DEFINE all == SubSeq(r, 1, Len(r))
  <2>1. FlushFull(all)
    BY <1>c
  <2> HIDE DEF all
  <2>2. parser'.forced = TRUE
    BY <1>0, <2>1, FlushParser
  <2> QED BY <1>i, <2>2 DEF MainInv, Lossy
<1>l. CASE Lossy /\ ~ FlushFull(SubSeq(r, 1, Len(r)))
  <2>1. parser.forced => parser'.forced
    BY <1>0, <1>l, <1>s, ForwardParser
  <2>2. drop.blind => drop'.blind
    BY <1>l, <1>s, ForwardBlind
  <2>3. Lossy'
    BY <1>l, <1>s, <2>1, <2>2 DEF Lossy
  <2> QED BY <1>i, <2>3 DEF MainInv
<1> SUFFICES ASSUME MainFollows, ~ Lossy, ~ FlushFull(SubSeq(r, 1, Len(r)))
             PROVE  Lossy' \/ MainFollows'
  BY <1>c, <1>i, <1>l DEF MainInv
<1>1. PICK p \in Place : Pumped(p, u)
  BY <1>0 DEF Lossy, Undisturbed
<1>2. Dropper(drop, p)
  BY <1>1 DEF Pumped
<1>3. /\ wire' = SubSeq(wire, n + 1, Len(wire))
      /\ carry' = SubSeq(r, m + 1, Len(r))
      /\ \/ m = 0 /\ UNCHANGED <<probe, drop, sps, split, browser, parser>>
         \/ m # 0 /\ Forward(sent)
      /\ host' = host
  BY <1>s, Zenon
<1>4. ReadOf(r, carry, wire, n)
  BY <1>0, ReadIs
<1>5. PICK e : Path(x, e, u, f) /\ Synced(x, drop.state # "off", e, drop.open, sps, browser)
  BY DEF MainFollows, InStep
<1>6. /\ DOMAIN host = HostFields /\ host.made \in Nat /\ x \in Shapes /\ Described(x) /\ DOMAIN sps = RewriterFields
      /\ Evidence(x, probe) /\ (drop.state = "dropping" => Harmless(x))
  BY DEF MainInv, MainFollows
<1>7. probe'.main \in Nat /\ probe'.aux \in Nat
  BY BoundsAssumption DEF StreamTypeOK
<1> HIDE DEF r
<1>8. m \in 0..Len(r)
  BY <1>4, BoundaryWithin DEF IsSeq, ReadOf
<1>9. sent = SubSeq(r, 1, m)
  OBVIOUS
<1> HIDE DEF m, sent
<1>10. carry' \o wire' = SubSeq(u, m + 1, Len(u))
  <2>1. carry' = SubSeq(r, m + 1, Len(r)) /\ wire' = SubSeq(wire, n + 1, Len(wire))
    BY <1>3
  <2>2. Leaves(carry, wire, m, carry', wire')
    BY Zenon, <1>0, <1>4, <1>8, <2>1, PumpLeaves
  <2> QED BY <2>2 DEF Leaves
<1> DEFINE v == carry' \o wire'
<1>11. \/ InferredFirst(x) \/ (NoRoom(x) /\ drop'.blind)
       \/ \E d : /\ Path(x, d, v, f) /\ Evidence(x, probe') /\ (drop'.state = "dropping" => Harmless(x))
                 /\ DOMAIN sps' = RewriterFields /\ Synced(x, drop'.state # "off", d, drop'.open, sps', browser')
  <2>1. CASE m = 0
    <3>1. v = u
      <4>1. SubSeq(u, 1, Len(u)) = u
        BY <1>5, SubSeqAll DEF Path
      <4>2. m + 1 = 1
        BY <2>1
      <4> QED BY <1>10, <4>1, <4>2
    <3>2. probe' = probe /\ drop' = drop /\ sps' = sps /\ browser' = browser
      BY <1>3, <2>1
    <3> HIDE DEF u, v, x, f
    <3> QED BY <1>5, <1>6, <3>1, <3>2
  <2>2. CASE m # 0
    <3>1. m \in 1..Len(r) /\ m \in Nat
      BY <1>4, <1>8, <2>2, SeqLen DEF ReadOf
    <3>2. m \in 1..Len(u) /\ SubSeq(r, 1, m) = SubSeq(u, 1, m)
      BY <1>0, <1>4, <3>1, ReadPasses
    <3>3. PICK d : Path(x, e, SubSeq(u, 1, m), d) /\ Path(x, d, SubSeq(u, m + 1, Len(u)), f)
      <4>1. m \in 0..Len(u)
        BY <3>2
      <4> HIDE DEF u, x, f
      <4> QED BY <1>5, <4>1, PathSplit
    <3>4. Path(x, e, sent, d) /\ Path(x, d, v, f)
      BY <1>9, <1>10, <3>2, <3>3
    <3>5. Forward(sent) /\ x = host.shape
      BY <1>3, <2>2
    <3> HIDE DEF u, v, x, f
    <3>6. \/ InferredFirst(x) \/ (NoRoom(x) /\ drop'.blind)
          \/ /\ Evidence(x, probe') /\ (drop'.state = "dropping" => Harmless(x)) /\ DOMAIN sps' = RewriterFields
             /\ Synced(x, drop'.state # "off", d, drop'.open, sps', browser')
      BY <1>2, <1>5, <1>6, <1>7, <3>4, <3>5, ForwardSynced
    <3> QED BY <3>4, <3>6
  <2> QED BY <2>1, <2>2
<1>12. host'.shape = x /\ Idle(host'.dpb, host'.made > 0) = f
  BY <1>3
<1>13. CASE InferredFirst(x) \/ (NoRoom(x) /\ drop'.blind)
  <2> HIDE DEF x
  <2>1. InferredFirst(host'.shape) \/ (NoRoom(host'.shape) /\ drop'.blind)
    BY <1>12, <1>13
  <2> QED BY <2>1 DEF Lossy
<1>14. CASE \E d : /\ Path(x, d, v, f) /\ Evidence(x, probe') /\ (drop'.state = "dropping" => Harmless(x))
                   /\ DOMAIN sps' = RewriterFields /\ Synced(x, drop'.state # "off", d, drop'.open, sps', browser')
  <2> HIDE DEF x, f
  <2>1. InStep(host.shape)'
    BY <1>12, <1>14 DEF InStep
  <2> QED BY <1>12, <1>14, <2>1 DEF MainFollows
<1> QED BY <1>11, <1>13, <1>14

LEMMA MainStep ==
    ASSUME NoneApart, MinMain > 0, MinAux > 0, \A x \in Shapes : Described(x),
           StreamInv, MainInv, StreamTypeOK', [StreamNext]_streamVars
    PROVE  MainInv'
<1>1. ASSUME NEW view \in {0, 1}, NEW idr \in BOOLEAN, SendView(view, idr) PROVE MainInv'
  BY <1>1, MainSendsView
<1>2. ASSUME NEW idr \in BOOLEAN, SendPair(idr) PROVE MainInv'
  BY <1>2, MainSendsPair
<1>3. ASSUME NEW what \in {"surface", "img", "clipboard", "paste"}, SendOther(what) PROVE MainInv'
  BY <1>3, MainSendsOther
<1>4. ASSUME NEW n \in 1..Len(wire), guacd_to_ws(n) PROVE MainInv'
  BY <1>4, MainReads
<1>5. ASSUME UNCHANGED <<host, wire, carry, probe, drop, sps, browser>>, parser.forced => parser'.forced PROVE MainInv'
  <2>1. InStep(host.shape) => InStep(host.shape)'
    BY <1>5 DEF InStep
  <2>2. MainFollows => MainFollows'
    BY <1>5, <2>1 DEF MainFollows
  <2>3. Lossy => Lossy'
    BY <1>5 DEF Lossy
  <2> QED BY <1>5, <2>2, <2>3 DEF MainInv
<1>6. CASE ws_to_guacd
  <2> DEFINE z == parser.spliced \/ parser.due # 0
  <2>1. parser' = [parser EXCEPT !.spliced = z] /\ UNCHANGED <<host, wire, carry, probe, drop, sps, browser>>
    BY <1>6 DEF ws_to_guacd
  <2> HIDE DEF z
  <2>2. parser'.forced = parser.forced
    BY <2>1 DEF StreamInv
  <2> QED BY <1>5, <2>1, <2>2
<1>7. CASE UNCHANGED streamVars
  BY <1>5, <1>7 DEF streamVars
<1> QED BY <1>1, <1>2, <1>3, <1>4, <1>6, <1>7, Zenon DEF StreamNext

\* Whatever the gate decides, and whenever: every main view of any host that is
\* described is predicted, in the browser, from the picture that the host
\* predicted it from, and has room for the frames to infer; but for a host
\* without a spare frame whose headers had not shown it when the gate opened, a
\* host whose default list an inferred frame heads, and after a forced flush.
THEOREM MainViewsKept ==
    ASSUME NoneApart, MinMain > 0, MinAux > 0, \A x \in Shapes : Described(x)
    PROVE  StreamSpec => []MainViewsIntact
<1>1. StreamInit => MainInv
  BY MainStart
<1>2. StreamInv /\ MainInv /\ StreamTypeOK' /\ [StreamNext]_streamVars => MainInv'
  BY MainStep
<1>3. MainInv => MainViewsIntact
  BY DEF MainInv, MainFollows, InStep, Synced, Lossy, MainViewsIntact
<1> QED BY <1>1, <1>2, <1>3, StreamInvariant, StreamTypeCorrect, PTL DEF StreamSpec
=============================================================================
