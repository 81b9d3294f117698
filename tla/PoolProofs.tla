------------------------------ MODULE PoolProofs -------------------------------
(***************************************************************************)
(* Proofs about the two pools behind the sessions: BrowserPool, for every  *)
(* set of calls and all ranges, and VdiPool, for every set of sessions,    *)
(* names and images, with or without a range of ports, and for all of the  *)
(* bounds.                                                                 *)
(***************************************************************************)
EXTENDS BrowserPool, VdiPool, TLAPS

-----------------------------------------------------------------------------
(* BrowserPool *)

\* Where a call may still have a process or a profile directory.
Places ==
    \A b \in Browser :
        /\ b \in xvnc => pc[b] \in {"wait", "settle", "abort", "up", "kill", "killXvnc", "lost"}
        /\ b \in chromium => pc[b] \in {"settle", "up", "kill", "lost"}
        /\ script[b] = "watched" => pc[b] \in {"up", "lost"} /\ port[b] # 0
        /\ b \in profile \ stuck => pc[b] \in {"wait", "settle", "abort", "unwind", "up", "kill",
                                       "killXvnc", "release", "tidy", "lost"}

\* The numbers of the owners are in use, and a call has no port before it
\* asked for one.
OwnersRegistered ==
    /\ \A b \in DisplayOwners : display[b] \in displays
    /\ \A b \in PortOwners : port[b] \in ports
    /\ \A b \in Browser : pc[b] \in {"idle", "display"} => port[b] = 0

\* The numbers of two owners differ.
OwnersDiffer ==
    /\ \A a, b \in DisplayOwners : display[a] = display[b] => a = b
    /\ PortNotShared

\* Every number in use has an owner.
EveryNumberOwned ==
    /\ \A n \in displays : \E b \in DisplayOwners : display[b] = n
    /\ \A n \in ports : \E b \in PortOwners : port[b] = n

Numbers == OwnersRegistered /\ OwnersDiffer /\ EveryNumberOwned

PoolInv == BrowserTypeOK /\ Places /\ Numbers

\* RangeAllocator::allocate returns a free number of the range.
LEMMA LowestIsFree ==
    ASSUME NEW range, NEW used, NEW n \in Lowest(range, used)
    PROVE  n \in range /\ n \notin used
BY DEF Lowest

\* The type invariant is inductive.
LEMMA TypeStep == BrowserTypeOK /\ [BrowserNext]_browserVars => BrowserTypeOK'
<1> SUFFICES ASSUME BrowserTypeOK, [BrowserNext]_browserVars PROVE BrowserTypeOK'
  OBVIOUS
<1> USE DEF BrowserTypeOK, PC, Script, Goto, numbers, processes, files, ReleaseNumbers, RemoveDir
<1>1. CASE UNCHANGED browserVars
  BY <1>1 DEF browserVars
<1>2. ASSUME NEW b \in Browser, AllocateDisplay(b) PROVE BrowserTypeOK'
  BY <1>2, LowestIsFree DEF AllocateDisplay
<1>3. ASSUME NEW b \in Browser, AllocatePort(b) PROVE BrowserTypeOK'
  BY <1>3, LowestIsFree DEF AllocatePort
<1>4. ASSUME NEW b \in Browser, StartXvnc(b) PROVE BrowserTypeOK'
  BY <1>4 DEF StartXvnc
<1>5. ASSUME NEW b \in Browser, StartChromium(b) \/ XvncSilent(b) \/ Settle(b) PROVE BrowserTypeOK'
  BY <1>5 DEF StartChromium, XvncSilent, Settle
<1>6. ASSUME NEW b \in Browser, AbortKill(b) \/ Unwind(b) PROVE BrowserTypeOK'
  BY <1>6 DEF AbortKill, Unwind
<1>7. ASSUME NEW b \in Browser, run_login_script(b) \/ ScriptTimesOut(b) \/ ScriptExits(b) PROVE BrowserTypeOK'
  BY <1>7 DEF run_login_script, ScriptTimesOut, ScriptExits
<1>8. ASSUME NEW b \in Browser, cleanup_browser(b) \/ KillChromium(b) \/ KillXvnc(b) PROVE BrowserTypeOK'
  BY <1>8 DEF cleanup_browser, KillChromium, KillXvnc
<1>9. ASSUME NEW b \in Browser, Release(b) \/ RemoveProfile(b) PROVE BrowserTypeOK'
  BY <1>9 DEF Release, RemoveProfile
<1>10. ASSUME NEW b \in Browser, Drop(b) \/ Dies(b) PROVE BrowserTypeOK'
  BY <1>10 DEF Drop, Dies
<1> QED
  BY <1>1, <1>2, <1>3, <1>4, <1>5, <1>6, <1>7, <1>8, <1>9, <1>10 DEF BrowserNext, SpawnNext, KillNext

\* Where processes and directories may be left is inductive.
LEMMA PlacesStep == BrowserTypeOK /\ BrowserTypeOK' /\ Places /\ [BrowserNext]_browserVars => Places'
<1> SUFFICES ASSUME BrowserTypeOK, BrowserTypeOK', Places, [BrowserNext]_browserVars PROVE Places'
  OBVIOUS
<1> USE DEF BrowserTypeOK, Places, PC, Script, Goto, numbers, processes, files, ReleaseNumbers, RemoveDir
<1>1. CASE UNCHANGED browserVars
  BY <1>1 DEF browserVars
<1>2. ASSUME NEW b \in Browser, AllocateDisplay(b) PROVE Places'
  BY <1>2, LowestIsFree DEF AllocateDisplay
<1>3. ASSUME NEW b \in Browser, AllocatePort(b) PROVE Places'
  BY <1>3, LowestIsFree DEF AllocatePort
<1>4. ASSUME NEW b \in Browser, StartXvnc(b) PROVE Places'
  BY <1>4 DEF StartXvnc
<1>5. ASSUME NEW b \in Browser, StartChromium(b) \/ XvncSilent(b) \/ Settle(b) PROVE Places'
  BY <1>5 DEF StartChromium, XvncSilent, Settle
<1>6. ASSUME NEW b \in Browser, AbortKill(b) \/ Unwind(b) PROVE Places'
  BY <1>6 DEF AbortKill, Unwind
<1>7. ASSUME NEW b \in Browser, run_login_script(b) \/ ScriptTimesOut(b) \/ ScriptExits(b) PROVE Places'
  BY <1>7 DEF run_login_script, ScriptTimesOut, ScriptExits
<1>8. ASSUME NEW b \in Browser, cleanup_browser(b) \/ KillChromium(b) \/ KillXvnc(b) PROVE Places'
  BY <1>8 DEF cleanup_browser, KillChromium, KillXvnc
<1>9. ASSUME NEW b \in Browser, Release(b) \/ RemoveProfile(b) PROVE Places'
  BY <1>9 DEF Release, RemoveProfile
<1>10. ASSUME NEW b \in Browser, Drop(b) \/ Dies(b) PROVE Places'
  BY <1>10 DEF Drop, Dies
<1> QED
  BY <1>1, <1>2, <1>3, <1>4, <1>5, <1>6, <1>7, <1>8, <1>9, <1>10 DEF BrowserNext, SpawnNext, KillNext

-----------------------------------------------------------------------------
(* Numbers and their owners *)

\* A step of a call that keeps its numbers, from one owning place to another
\* or from one that owns nothing to another.
LEMMA KeepStep ==
    ASSUME BrowserTypeOK, Numbers, NEW b \in Browser, NEW l \in PC,
           pc' = [pc EXCEPT ![b] = l], UNCHANGED numbers,
           pc[b] \in HasDisplay <=> l \in HasDisplay,
           pc[b] \in HasPort \/ port[b] = 0 \/ l \notin HasPort,
           l \in HasPort \/ pc[b] \notin HasPort,
           l \in {"idle", "display"} => pc[b] \in {"idle", "display"}
    PROVE  Numbers'
<1>1. DisplayOwners' = DisplayOwners /\ PortOwners' = PortOwners
  BY DEF DisplayOwners, PortOwners, numbers, BrowserTypeOK
<1>2. \A a \in Browser : pc'[a] \in {"idle", "display"} => pc[a] \in {"idle", "display"}
  BY DEF BrowserTypeOK
<1> QED
  BY <1>1, <1>2 DEF Numbers, OwnersRegistered, OwnersDiffer, EveryNumberOwned, PortNotShared, numbers

\* A call that owned its numbers gives both back.
LEMMA ReleaseStep ==
    ASSUME BrowserTypeOK, Numbers, NEW b \in Browser, NEW l \in {"failed", "tidy"},
           pc[b] \in HasPort, pc' = [pc EXCEPT ![b] = l], ReleaseNumbers(b)
    PROVE  Numbers'
<1> USE RangeAssumption DEF ReleaseNumbers, BrowserTypeOK
<1>1. DisplayOwners' = DisplayOwners \ {b} /\ PortOwners' = PortOwners \ {b}
  BY DEF DisplayOwners, PortOwners, HasDisplay, HasPort
<1>2. b \in DisplayOwners /\ (port[b] # 0 => b \in PortOwners)
  BY DEF DisplayOwners, PortOwners, HasDisplay, HasPort
<1>3. \A a \in DisplayOwners \ {b} : display[a] # display[b]
  BY <1>2 DEF Numbers, OwnersDiffer
<1>4. \A a \in PortOwners \ {b} : port[a] # port[b]
  BY <1>2 DEF Numbers, OwnersDiffer, PortNotShared, PortOwners
<1>5. OwnersRegistered'
  BY <1>1, <1>3, <1>4 DEF Numbers, OwnersRegistered
<1>6. OwnersDiffer'
  BY <1>1 DEF Numbers, OwnersDiffer, PortNotShared
<1>7. EveryNumberOwned'
  BY <1>1 DEF Numbers, EveryNumberOwned
<1> QED BY <1>5, <1>6, <1>7 DEF Numbers

\* Allocation gives a number nobody owns; release takes it from its only
\* owner; nothing else touches numbers or owners.
LEMMA NumbersStep == BrowserTypeOK /\ Numbers /\ [BrowserNext]_browserVars => Numbers'
<1> SUFFICES ASSUME BrowserTypeOK, Numbers, [BrowserNext]_browserVars PROVE Numbers'
  OBVIOUS
<1> USE DEF Goto
<1>1. CASE UNCHANGED browserVars
  BY <1>1 DEF browserVars, numbers, Numbers, OwnersRegistered, OwnersDiffer, EveryNumberOwned,
              PortNotShared, DisplayOwners, PortOwners
<1>2. ASSUME NEW b \in Browser, AllocateDisplay(b) PROVE Numbers'
  <2>1. CASE Goto(b, "failed") /\ UNCHANGED <<displays, display>>
    BY <1>2, <2>1, KeepStep DEF AllocateDisplay, numbers, PC, HasDisplay, HasPort
  <2>2. ASSUME NEW n \in Lowest(Display, displays), displays' = displays \cup {n},
               display' = [display EXCEPT ![b] = n], Goto(b, "display")
        PROVE  Numbers'
    <3>1. DisplayOwners' = DisplayOwners \cup {b} /\ PortOwners' = PortOwners /\ b \notin DisplayOwners
      BY <1>2, <2>2 DEF AllocateDisplay, DisplayOwners, PortOwners, HasDisplay, HasPort, BrowserTypeOK
    <3>2. n \notin displays /\ display'[b] = n /\ \A a \in DisplayOwners : display'[a] = display[a]
      BY <2>2, <3>1, LowestIsFree DEF BrowserTypeOK, DisplayOwners
    <3>3. port' = port /\ ports' = ports
      BY <1>2 DEF AllocateDisplay
    <3>4. OwnersRegistered'
      BY <1>2, <2>2, <3>1, <3>2, <3>3 DEF AllocateDisplay, Numbers, OwnersRegistered, BrowserTypeOK
    <3>5. OwnersDiffer'
      BY <3>1, <3>2, <3>3 DEF Numbers, OwnersRegistered, OwnersDiffer, PortNotShared
    <3>6. EveryNumberOwned'
      BY <2>2, <3>1, <3>2, <3>3 DEF Numbers, EveryNumberOwned
    <3> QED BY <3>4, <3>5, <3>6 DEF Numbers
  <2> QED BY <1>2, <2>1, <2>2 DEF AllocateDisplay
<1>3. ASSUME NEW b \in Browser, AllocatePort(b) PROVE Numbers'
  <2>0. pc[b] = "display" /\ port[b] = 0
    BY <1>3 DEF AllocatePort, Numbers, OwnersRegistered
  <2>1. CASE Goto(b, "prepare") /\ UNCHANGED numbers
    BY <2>0, <2>1, KeepStep DEF PC, HasDisplay, HasPort
  <2>2. ASSUME NEW n \in Lowest(Port, ports), ports' = ports \cup {n},
               port' = [port EXCEPT ![b] = n], Goto(b, "prepare"), UNCHANGED <<displays, display>>
        PROVE  Numbers'
    <3>1. n # 0
      BY <2>2, LowestIsFree, RangeAssumption
    <3>2. DisplayOwners' = DisplayOwners /\ PortOwners' = PortOwners \cup {b} /\ b \notin PortOwners
      BY <2>0, <2>2, <3>1 DEF DisplayOwners, PortOwners, HasDisplay, HasPort, BrowserTypeOK
    <3>3. n \notin ports /\ port'[b] = n /\ \A a \in Browser \ {b} : port'[a] = port[a]
      BY <2>2, LowestIsFree DEF BrowserTypeOK
    <3>4. OwnersRegistered'
      BY <2>2, <3>2, <3>3 DEF Numbers, OwnersRegistered, BrowserTypeOK, PortOwners
    <3>5. OwnersDiffer'
      BY <2>2, <3>2, <3>3 DEF Numbers, OwnersRegistered, OwnersDiffer, PortNotShared, PortOwners
    <3>6. EveryNumberOwned'
      BY <2>2, <3>2, <3>3 DEF Numbers, EveryNumberOwned, PortOwners
    <3> QED BY <3>4, <3>5, <3>6 DEF Numbers
  <2>3. CASE displays' = displays \ {display[b]} /\ Goto(b, "failed") /\ UNCHANGED <<ports, display, port>>
    <3>1. DisplayOwners' = DisplayOwners \ {b} /\ PortOwners' = PortOwners /\ b \in DisplayOwners
      BY <2>0, <2>3 DEF DisplayOwners, PortOwners, HasDisplay, HasPort, BrowserTypeOK
    <3>2. \A a \in DisplayOwners \ {b} : display[a] # display[b]
      BY <3>1 DEF Numbers, OwnersDiffer
    <3>3. OwnersRegistered'
      BY <2>3, <3>1, <3>2 DEF Numbers, OwnersRegistered, BrowserTypeOK
    <3>4. OwnersDiffer'
      BY <2>3, <3>1 DEF Numbers, OwnersDiffer, PortNotShared
    <3>5. EveryNumberOwned'
      BY <2>3, <3>1 DEF Numbers, EveryNumberOwned
    <3> QED BY <3>3, <3>4, <3>5 DEF Numbers
  <2> QED BY <1>3, <2>1, <2>2, <2>3 DEF AllocatePort
<1>4. ASSUME NEW b \in Browser, StartXvnc(b) PROVE Numbers'
  <2>1. CASE Goto(b, "wait") /\ UNCHANGED numbers
    BY <1>4, <2>1, KeepStep DEF StartXvnc, PC, HasDisplay, HasPort
  <2>2. CASE ReleaseNumbers(b) /\ Goto(b, "failed")
    BY <1>4, <2>2, ReleaseStep DEF StartXvnc, HasDisplay, HasPort
  <2> QED BY <1>4, <2>1, <2>2 DEF StartXvnc
<1>5. ASSUME NEW b \in Browser,
             \/ StartChromium(b) \/ XvncSilent(b) \/ Settle(b) \/ AbortKill(b)
             \/ cleanup_browser(b) \/ KillChromium(b) \/ KillXvnc(b) \/ RemoveProfile(b) \/ Drop(b)
      PROVE  Numbers'
  BY <1>5, KeepStep DEF StartChromium, XvncSilent, Settle, AbortKill, cleanup_browser, KillChromium,
                        KillXvnc, RemoveProfile, Drop, PC, HasDisplay, HasPort
<1>6. ASSUME NEW b \in Browser, Unwind(b) \/ Release(b) PROVE Numbers'
  BY <1>6, ReleaseStep DEF Unwind, Release, HasDisplay, HasPort
<1>7. ASSUME NEW b \in Browser, run_login_script(b) \/ ScriptTimesOut(b) \/ ScriptExits(b) \/ Dies(b)
      PROVE  Numbers'
  BY <1>7 DEF run_login_script, ScriptTimesOut, ScriptExits, Dies, numbers, Numbers, OwnersRegistered,
              OwnersDiffer, EveryNumberOwned, PortNotShared, DisplayOwners, PortOwners
<1> QED
  BY <1>1, <1>2, <1>3, <1>4, <1>5, <1>6, <1>7 DEF BrowserNext, SpawnNext, KillNext

-----------------------------------------------------------------------------
(* The theorems *)

\* The invariant holds in every state of every behaviour.
LEMMA PoolSafe == BrowserSpec => []PoolInv
<1>1. BrowserInit => PoolInv
  BY DEF BrowserInit, PoolInv, BrowserTypeOK, Places, Numbers, OwnersRegistered, OwnersDiffer, EveryNumberOwned,
         PortNotShared, DisplayOwners, PortOwners, HasDisplay, HasPort, PC, Script
<1>2. PoolInv /\ [BrowserNext]_browserVars => PoolInv'
  BY TypeStep, PlacesStep, NumbersStep DEF PoolInv
<1> QED BY <1>1, <1>2, PTL DEF BrowserSpec

\* Type correctness of the pool.
THEOREM PoolTypeCorrect == BrowserSpec => []BrowserTypeOK
<1>1. PoolInv => BrowserTypeOK
  BY DEF PoolInv
<1> QED BY <1>1, PoolSafe, PTL

\* Through every error path, kill and dropped future of browser.rs, a number
\* is marked in use exactly while some call holds it.
THEOREM NumbersAccounted == BrowserSpec => []Accounted
<1>1. PoolInv => Accounted
  BY DEF PoolInv, Numbers, OwnersRegistered, EveryNumberOwned, Accounted
<1> QED BY <1>1, PoolSafe, PTL

\* No two Xvnc processes run on one display, so guacd is never connected to
\* another session's browser.
THEOREM DisplaysSeparate == BrowserSpec => []DisplayNotShared
<1>1. PoolInv => DisplayNotShared
  <2> SUFFICES ASSUME PoolInv, NEW a \in xvnc, NEW b \in xvnc, display[a] = display[b] PROVE a = b
    BY DEF DisplayNotShared
  <2>1. a \in DisplayOwners /\ b \in DisplayOwners
    BY DEF PoolInv, BrowserTypeOK, Places, DisplayOwners, HasDisplay
  <2> QED BY <2>1 DEF PoolInv, Numbers, OwnersDiffer
<1> QED BY <1>1, PoolSafe, PTL

\* No two browsers hold one CDP port.
THEOREM PortsSeparate == BrowserSpec => []PortNotShared
<1>1. PoolInv => PortNotShared
  BY DEF PoolInv, Numbers, OwnersDiffer
<1> QED BY <1>1, PoolSafe, PTL

\* A login script that is still waited for drives its own session's browser.
LEMMA ScriptsAtHome == BrowserSpec => []ScriptAtHome
<1>1. PoolInv => ScriptAtHome
  <2> SUFFICES ASSUME PoolInv, NEW a \in Browser, NEW b \in PortOwners, script[a] = "watched", port[a] = port[b]
               PROVE  a = b
    BY DEF ScriptAtHome
  <2>1. a \in PortOwners
    BY DEF PoolInv, Places, PortOwners, HasPort, HasDisplay
  <2> QED BY <2>1 DEF PoolInv, Numbers, OwnersDiffer, PortNotShared
<1> QED BY <1>1, PoolSafe, PTL

\* No session is shown the browser of another one, and no login script that is
\* still waited for drives one, for all calls of spawn and all ranges.
THEOREM NumbersSeparate == BrowserSpec => []NumbersNotShared
<1>1. DisplayNotShared /\ PortNotShared /\ ScriptAtHome => NumbersNotShared
  BY DEF NumbersNotShared
<1> QED BY <1>1, DisplaysSeparate, PortsSeparate, ScriptsAtHome, PTL

\* A failed or killed browser leaves no process, and no profile directory but
\* one that could not be removed.
THEOREM FinishedIsClean == BrowserSpec => []NothingLeft
<1>1. PoolInv => NothingLeft
  BY DEF PoolInv, Places, NothingLeft
<1> QED BY <1>1, PoolSafe, PTL

-----------------------------------------------------------------------------
(* VdiPool *)

ReaperType ==
    [at : {"sleep", "scan", "stop", "remove"}, listed : SUBSET Cid, todo : SUBSET Cid,
     cid : Cid \cup {None}]

\* Where a session goes on with a container that it found or made.
Held == {"password", "start", "prepare", "warm", "late", "boot", "booted", "boxed", "ready",
         "live"}

\* Where it knows the container's host port, too.
Ported == Held \ {"boot", "booted"}

\* Where it may yet try another port.
Trying(x) ==
    \/ x.at \in {"inspect", "create", "password", "start", "prepare", "warm", "late"}
    \/ x.at \in {"stop", "remove"} /\ x.then # "over"

\* What is true of a session x, when Docker has the containers b, the last
\* of which is m.  A container that the session knows is one that was made,
\* so that it is never made again with another name or image.  With a range
\* of ports the container has the port that the session was told.
SessionOK(b, m, x) ==
    /\ x \in SessionType
    /\ x.at \in Active => x.name \in Name /\ x.image \in Image
    /\ x.at \in Active \ {"inspect", "create"} => x.cid \in Cid
    /\ x.cid \in Cid => x.cid <= m
    /\ Trying(x) => x.tries < Ports
    /\ x.at \in Held /\ b[x.cid] # None => b[x.cid].name = x.name /\ b[x.cid].image = x.image
    /\ x.at \in Ported => x.port # 0
    /\ x.at \in Ported /\ b[x.cid] # None => (Ranged => b[x.cid].port = x.port)

Types ==
    /\ box \in [Cid -> Container \cup {None}]
    /\ made \in 0..MaxContainers
    /\ sess \in [Session -> SessionType]
    /\ reaper \in ReaperType /\ reaper.todo \subseteq reaper.listed
    /\ reaper.at \in {"stop", "remove"} => reaper.cid \in Cid
    /\ last \in [Cid -> 0..(Timeout + 1) \cup {None}]
    /\ restarts \in 0..MaxRestarts

\* Only what was made exists.
BoxesMade == \A c \in Cid : box[c] # None => c <= made

\* No two containers have one name.
NamesApart ==
    \A c, d \in Cid :
        box[c] # None /\ box[d] # None /\ box[c].name = box[d].name => c = d

VdiInv == Types /\ BoxesMade /\ NamesApart /\ \A s \in Session : SessionOK(box, made, sess[s])

\* A container that is the same to a session.
Alike(w, v) == w.name = v.name /\ w.image = v.image /\ (Ranged => w.port = v.port)

\* What may become of the containers: those that were made keep their name,
\* their image and a port of the range, and do not come back.
Keeps(b, m, d, n) ==
    /\ m <= n
    /\ \A c \in Cid : c <= m /\ d[c] # None => b[c] # None /\ Alike(d[c], b[c])

-----------------------------------------------------------------------------
(* Records *)

Sess(a, n, i, c, p, t, k) ==
    [at |-> a, name |-> n, image |-> i, cid |-> c, port |-> p, then |-> t, tries |-> k]

LEMMA Only ==
    ASSUME NEW x \in SessionType, NEW a
    PROVE  [x EXCEPT !.at = a] = Sess(a, x.name, x.image, x.cid, x.port, x.then, x.tries)
BY DEF SessionType, Sess

LEMMA AtCid ==
    ASSUME NEW x \in SessionType, NEW a, NEW c
    PROVE  [x EXCEPT !.at = a, !.cid = c] = Sess(a, x.name, x.image, c, x.port, x.then, x.tries)
<1> DEFINE y == [x EXCEPT !.at = a]
<1>1. y = Sess(a, x.name, x.image, x.cid, x.port, x.then, x.tries)
  BY Only
<1>2. [Sess(a, x.name, x.image, x.cid, x.port, x.then, x.tries) EXCEPT !.cid = c]
      = Sess(a, x.name, x.image, c, x.port, x.then, x.tries)
  BY DEF Sess
<1> QED BY <1>1, <1>2, Zenon

LEMMA AtPort ==
    ASSUME NEW x \in SessionType, NEW a, NEW p
    PROVE  [x EXCEPT !.at = a, !.port = p] = Sess(a, x.name, x.image, x.cid, p, x.then, x.tries)
<1> DEFINE y == [x EXCEPT !.at = a]
<1>1. y = Sess(a, x.name, x.image, x.cid, x.port, x.then, x.tries)
  BY Only
<1>2. [Sess(a, x.name, x.image, x.cid, x.port, x.then, x.tries) EXCEPT !.port = p]
      = Sess(a, x.name, x.image, x.cid, p, x.then, x.tries)
  BY DEF Sess
<1> QED BY <1>1, <1>2, Zenon

LEMMA AtCidPort ==
    ASSUME NEW s, sess[s] \in SessionType, NEW a, NEW c, NEW p
    PROVE  [sess[s] EXCEPT !.at = a, !.cid = c, !.port = p]
           = Sess(a, sess[s].name, sess[s].image, c, p, sess[s].then, sess[s].tries)
<1> DEFINE x == sess[s]
           y == [x EXCEPT !.at = a, !.cid = c]
<1>1. y = Sess(a, x.name, x.image, c, x.port, x.then, x.tries)
  <2> HIDE DEF x
  <2> QED BY AtCid, Zenon DEF x
<1>2. [Sess(a, x.name, x.image, c, x.port, x.then, x.tries) EXCEPT !.port = p]
      = Sess(a, x.name, x.image, c, p, x.then, x.tries)
  BY DEF Sess
<1>3. [x EXCEPT !.at = a, !.cid = c, !.port = p] = [y EXCEPT !.port = p]
  BY Zenon
<1> HIDE DEF y, x
<1>4. [x EXCEPT !.at = a, !.cid = c, !.port = p] = Sess(a, x.name, x.image, c, p, x.then, x.tries)
  BY <1>1, <1>2, <1>3, Zenon
<1> QED BY <1>4, Zenon DEF x

LEMMA AtTries ==
    ASSUME NEW x \in SessionType, NEW a, NEW k
    PROVE  [x EXCEPT !.at = a, !.tries = k] = Sess(a, x.name, x.image, x.cid, x.port, x.then, k)
<1> DEFINE y == [x EXCEPT !.at = a]
<1>1. y = Sess(a, x.name, x.image, x.cid, x.port, x.then, x.tries)
  BY Only
<1>2. [Sess(a, x.name, x.image, x.cid, x.port, x.then, x.tries) EXCEPT !.tries = k]
      = Sess(a, x.name, x.image, x.cid, x.port, x.then, k)
  BY DEF Sess
<1> QED BY <1>1, <1>2, Zenon

LEMMA AtCidThen ==
    ASSUME NEW s, sess[s] \in SessionType, NEW a, NEW c, NEW t
    PROVE  [sess[s] EXCEPT !.at = a, !.cid = c, !.then = t]
           = Sess(a, sess[s].name, sess[s].image, c, sess[s].port, t, sess[s].tries)
<1> DEFINE x == sess[s]
           y == [x EXCEPT !.at = a, !.cid = c]
<1>1. y = Sess(a, x.name, x.image, c, x.port, x.then, x.tries)
  <2> HIDE DEF x
  <2> QED BY AtCid, Zenon DEF x
<1>2. [Sess(a, x.name, x.image, c, x.port, x.then, x.tries) EXCEPT !.then = t]
      = Sess(a, x.name, x.image, c, x.port, t, x.tries)
  BY DEF Sess
<1>3. [x EXCEPT !.at = a, !.cid = c, !.then = t] = [y EXCEPT !.then = t]
  BY Zenon
<1> HIDE DEF y, x
<1>4. [x EXCEPT !.at = a, !.cid = c, !.then = t] = Sess(a, x.name, x.image, c, x.port, t, x.tries)
  BY <1>1, <1>2, <1>3, Zenon
<1> QED BY <1>4, Zenon DEF x

LEMMA AtCidTries ==
    ASSUME NEW s, sess[s] \in SessionType, NEW a, NEW c
    PROVE  [sess[s] EXCEPT !.at = a, !.cid = c, !.tries = @ + 1]
           = Sess(a, sess[s].name, sess[s].image, c, sess[s].port, sess[s].then, sess[s].tries + 1)
<1> DEFINE x == sess[s]
           y == [x EXCEPT !.at = a, !.cid = c]
           k == x.tries + 1
<1>1. y = Sess(a, x.name, x.image, c, x.port, x.then, x.tries)
  <2> HIDE DEF x
  <2> QED BY AtCid, Zenon DEF x
<1>2. [x EXCEPT !.at = a, !.cid = c, !.tries = @ + 1] = [y EXCEPT !.tries = k]
  BY Zenon
<1> HIDE DEF y, x, k
<1>3. [Sess(a, x.name, x.image, c, x.port, x.then, x.tries) EXCEPT !.tries = k]
      = Sess(a, x.name, x.image, c, x.port, x.then, k)
  BY DEF Sess
<1>4. [x EXCEPT !.at = a, !.cid = c, !.tries = @ + 1] = Sess(a, x.name, x.image, c, x.port, x.then, k)
  BY <1>1, <1>2, <1>3, Zenon
<1> QED BY <1>4, Zenon DEF x, k

LEMMA Begun ==
    ASSUME NEW n, NEW i
    PROVE  [NoSession EXCEPT !.at = "inspect", !.name = n, !.image = i]
           = Sess("inspect", n, i, None, 0, "over", 0)
<1>1. NoSession = Sess("new", None, None, None, 0, "over", 0)
  BY Zenon DEF NoSession, Sess
<1>2. [Sess("new", None, None, None, 0, "over", 0) EXCEPT !.at = "inspect"]
      = Sess("inspect", None, None, None, 0, "over", 0)
  BY DEF Sess
<1>3. [Sess("inspect", None, None, None, 0, "over", 0) EXCEPT !.name = n]
      = Sess("inspect", n, None, None, 0, "over", 0)
  BY DEF Sess
<1>4. [Sess("inspect", n, None, None, 0, "over", 0) EXCEPT !.image = i]
      = Sess("inspect", n, i, None, 0, "over", 0)
  BY DEF Sess
<1>5. [NoSession EXCEPT !.at = "inspect", !.name = n] = Sess("inspect", n, None, None, 0, "over", 0)
  BY <1>1, <1>2, <1>3, Zenon
<1> QED BY <1>4, <1>5, Zenon

LEMMA Ended ==
    [NoSession EXCEPT !.at = "over"] = Sess("over", None, None, None, 0, "over", 0)
BY DEF NoSession, Sess

LEMMA SessType ==
    ASSUME NEW a \in {"new", "over"} \cup Active, NEW n \in Name \cup {None},
           NEW i \in Image \cup {None}, NEW c \in Cid \cup {None}, NEW p \in 0..Ports,
           NEW t \in {"inspect", "create", "over"}, NEW k \in 0..Ports
    PROVE  /\ Sess(a, n, i, c, p, t, k) \in SessionType
           /\ Sess(a, n, i, c, p, t, k).at = a /\ Sess(a, n, i, c, p, t, k).name = n
           /\ Sess(a, n, i, c, p, t, k).image = i /\ Sess(a, n, i, c, p, t, k).cid = c
           /\ Sess(a, n, i, c, p, t, k).port = p
           /\ Sess(a, n, i, c, p, t, k).then = t /\ Sess(a, n, i, c, p, t, k).tries = k
BY DEF Sess, SessionType

\* What the fields of a session hold.
LEMMA SessionFields ==
    ASSUME NEW x \in SessionType
    PROVE  /\ x.at \in {"new", "over"} \cup Active
           /\ x.name \in Name \cup {None} /\ x.image \in Image \cup {None}
           /\ x.cid \in Cid \cup {None} /\ x.then \in {"inspect", "create", "over"}
           /\ x.port \in 0..Ports /\ x.tries \in 0..Ports
BY DEF SessionType

-----------------------------------------------------------------------------
(* Docker *)

Boxes ==
    /\ box \in [Cid -> Container \cup {None}]
    /\ made \in 0..MaxContainers
    /\ BoxesMade /\ NamesApart

\* What a step may do to the containers.
DockerMoves == Boxes' /\ Keeps(box, made, box', made')

LEMMA Bounds ==
    /\ Ports \in Nat /\ Timeout \in Nat /\ MaxContainers \in Nat /\ MaxRestarts \in Nat
    /\ Ports > 0 /\ Ranged \in BOOLEAN
BY BoundsAssumption

LEMMA MadeNat ==
    ASSUME Boxes
    PROVE  made \in Nat /\ made <= MaxContainers
BY Bounds DEF Boxes

LEMMA InvBoxes ==
    ASSUME VdiInv
    PROVE  Boxes
BY Zenon DEF VdiInv, Types, Boxes

LEMMA SameBoxes ==
    ASSUME Boxes, Docker
    PROVE  DockerMoves
<1>1. box' = box /\ made' = made
  BY Zenon DEF Docker
<1>2. made <= made
  BY MadeNat
<1>3. Boxes'
  BY <1>1, Zenon DEF Boxes, BoxesMade, NamesApart
<1>4. Keeps(box, made, box, made)
  BY <1>2, Zenon DEF Keeps, Alike
<1> QED BY <1>1, <1>3, <1>4, Zenon DEF DockerMoves

\* Containers that keep their names, or go.
LEMMA NamesKept ==
    ASSUME Boxes, made' = made, box' \in [Cid -> Container \cup {None}],
           \A c \in Cid : box'[c] # None => box[c] # None /\ box'[c].name = box[c].name
    PROVE  Boxes'
<1>1. BoxesMade'
  BY Zenon DEF Boxes, BoxesMade
<1>2. NamesApart'
  <2> SUFFICES ASSUME NEW c \in Cid, NEW d \in Cid, box'[c] # None, box'[d] # None,
                      box'[c].name = box'[d].name
               PROVE  c = d
    BY Zenon DEF NamesApart
  <2>1. box[c] # None /\ box[d] # None /\ box[c].name = box[d].name
    BY Zenon
  <2> QED BY <2>1, Zenon DEF Boxes, NamesApart
<1> QED BY <1>1, <1>2, Zenon DEF Boxes

\* Containers that are changed one by one, or go.
LEMMA Kept ==
    ASSUME Boxes, made' = made, box' \in [Cid -> Container \cup {None}],
           \A c \in Cid : box'[c] # None => box[c] # None /\ Alike(box'[c], box[c])
    PROVE  DockerMoves
<1>1. made <= made
  BY MadeNat
<1>2. Boxes'
  BY NamesKept, Zenon DEF Alike
<1>3. Keeps(box, made, box', made')
  BY <1>1, Zenon DEF Keeps
<1> QED BY <1>2, <1>3, Zenon DEF DockerMoves

LEMMA AlikeSelf ==
    ASSUME NEW v
    PROVE  Alike(v, v)
BY Zenon DEF Alike

\* One container becomes another that is the same to a session.
LEMMA BoxChanged ==
    ASSUME Boxes, NEW c \in Cid, box[c] # None, NEW w \in Container, Alike(w, box[c]),
           box' = [box EXCEPT ![c] = w], UNCHANGED made
    PROVE  DockerMoves
<1>0. box \in [Cid -> Container \cup {None}] /\ made' = made
  BY Zenon DEF Boxes
<1>1. box' \in [Cid -> Container \cup {None}]
  BY <1>0
<1>2. ASSUME NEW q \in Cid, box'[q] # None
      PROVE  box[q] # None /\ Alike(box'[q], box[q])
  <2>1. CASE q = c
    <3>1. box'[q] = w
      BY <2>1, <1>0
    <3> QED BY <2>1, <3>1, Zenon
  <2>2. CASE q # c
    <3>1. box'[q] = box[q]
      BY <2>2, <1>0
    <3> QED BY <3>1, <1>2, AlikeSelf, Zenon
  <2> QED BY <2>1, <2>2, Zenon
<1> QED BY <1>0, <1>1, <1>2, Kept, Zenon

LEMMA BoxIs ==
    ASSUME Boxes, NEW c \in Cid, box[c] # None
    PROVE  box[c] \in Container
BY DEF Boxes

LEMMA Halted ==
    ASSUME Boxes, NEW c \in Cid, Halt(c), UNCHANGED made
    PROVE  DockerMoves
<1>1. CASE box[c] = None
  <2>1. Docker
    BY <1>1, Zenon DEF Halt, Docker
  <2> QED BY <2>1, SameBoxes, Zenon
<1>2. CASE box[c] # None
  <2> DEFINE w == [box[c] EXCEPT !.running = FALSE]
  <2>1. box[c] \in Container
    BY <1>2, BoxIs, Zenon
  <2>2. w \in Container /\ w.name = box[c].name /\ w.image = box[c].image /\ w.port = box[c].port
    BY <2>1 DEF Container
  <2>3. box' = [box EXCEPT ![c] = w]
    BY <1>2, Zenon DEF Halt
  <2> HIDE DEF w
  <2>4. Alike(w, box[c])
    BY <2>2, Zenon DEF Alike
  <2> QED BY <2>2, <2>3, <2>4, <1>2, BoxChanged, Zenon
<1> QED BY <1>1, <1>2, Zenon

\* Docker gives the container c the host port p, and starts it.
Starts(c, p) ==
    /\ c \in Cid /\ box[c] # None /\ c \notin Running
    /\ p \in 0..Ports /\ (Ranged => p = box[c].port)
    /\ Listening(p) = {}
    /\ box' = [box EXCEPT ![c] = [[box[c] EXCEPT !.running = TRUE] EXCEPT !.port = p]]

LEMMA NamedStarts ==
    ASSUME Boxes, NEW n, StartNamed(n)
    PROVE  UNCHANGED box \/ \E c \in Cid : \E p \in 0..Ports : Starts(c, p)
<1>1. PICK c \in Named(n) :
          \/ UNCHANGED box
          \/ /\ c \notin Running
             /\ \E p \in IF Ranged THEN {box[c].port} ELSE 1..Ports :
                    /\ Listening(p) = {}
                    /\ box' = [box EXCEPT ![c].running = TRUE, ![c].port = p]
  BY Zenon DEF StartNamed
<1>2. c \in Cid /\ box[c] # None
  BY DEF Named, Exists
<1>3. box \in [Cid -> Container \cup {None}]
  BY Zenon DEF Boxes
<1>4. box[c].port \in 0..Ports
  BY <1>2, <1>3 DEF Container
<1>5. ASSUME c \notin Running, NEW p \in IF Ranged THEN {box[c].port} ELSE 1..Ports,
             Listening(p) = {}, box' = [box EXCEPT ![c].running = TRUE, ![c].port = p]
      PROVE  \E d \in Cid : \E q \in 0..Ports : Starts(d, q)
  <2>1. p \in 0..Ports /\ (Ranged => p = box[c].port)
    BY <1>4, <1>5, Bounds
  <2> DEFINE w == [box[c] EXCEPT !.running = TRUE]
  <2>2. box' = [[box EXCEPT ![c] = w] EXCEPT ![c].port = p]
    BY <1>5, Zenon
  <2> HIDE DEF w
  <2> DEFINE d == [box EXCEPT ![c] = w]
  <2>3. d[c] = w
    BY <1>2, <1>3
  <2>4. [d EXCEPT ![c].port = p] = [d EXCEPT ![c] = [d[c] EXCEPT !.port = p]]
    BY Zenon
  <2> DEFINE u == [w EXCEPT !.port = p]
  <2>5. box' = [d EXCEPT ![c] = u]
    BY <2>2, <2>3, <2>4, Zenon
  <2> HIDE DEF u
  <2>6. [d EXCEPT ![c] = u] = [box EXCEPT ![c] = u]
    BY <1>2, <1>3
  <2>7. box' = [box EXCEPT ![c] = u]
    BY <2>5, <2>6, Zenon
  <2>8. Starts(c, p)
    BY <2>1, <2>7, <1>2, <1>5, Zenon DEF Starts, u, w
  <2> QED BY <2>1, <2>8, <1>2, Zenon
<1> QED BY <1>1, <1>5, Zenon

LEMMA Started ==
    ASSUME Boxes, NEW c \in Cid, NEW p \in 0..Ports, Starts(c, p), UNCHANGED made
    PROVE  DockerMoves
<1> DEFINE w == [box[c] EXCEPT !.running = TRUE]
           u == [w EXCEPT !.port = p]
<1>1. /\ box[c] # None /\ (Ranged => p = box[c].port)
      /\ box' = [box EXCEPT ![c] = u]
  BY Zenon DEF Starts
<1>2. box[c] \in Container
  BY <1>1, BoxIs, Zenon
<1>3. w \in Container /\ w.name = box[c].name /\ w.image = box[c].image
  BY <1>2 DEF Container
<1> HIDE DEF w
<1>4. u \in Container /\ u.name = w.name /\ u.image = w.image /\ u.port = p
  BY <1>3 DEF Container
<1> HIDE DEF u
<1>5. Alike(u, box[c])
  BY <1>1, <1>3, <1>4, Zenon DEF Alike
<1> QED BY <1>1, <1>4, <1>5, BoxChanged, Zenon

\* A container is given the password of the session s.
LEMMA PasswordSet ==
    ASSUME Boxes, NEW c \in Cid, box[c] # None, NEW s \in Session,
           box' = [box EXCEPT ![c].pw = s], UNCHANGED made
    PROVE  DockerMoves
<1> DEFINE w == [box[c] EXCEPT !.pw = s]
<1>1. box[c] \in Container
  BY BoxIs, Zenon
<1>2. w \in Container /\ w.name = box[c].name /\ w.image = box[c].image /\ w.port = box[c].port
  BY <1>1 DEF Container
<1>3. box' = [box EXCEPT ![c] = w]
  BY Zenon
<1> HIDE DEF w
<1>4. Alike(w, box[c])
  BY <1>2, Zenon DEF Alike
<1> QED BY <1>2, <1>3, <1>4, BoxChanged, Zenon

LEMMA BoxRemoved ==
    ASSUME Boxes, NEW c \in Cid, box' = [box EXCEPT ![c] = None], UNCHANGED made
    PROVE  DockerMoves
<1>0. box \in [Cid -> Container \cup {None}] /\ made' = made
  BY Zenon DEF Boxes
<1>1. box' \in [Cid -> Container \cup {None}]
  BY <1>0
<1>2. ASSUME NEW q \in Cid, box'[q] # None
      PROVE  box[q] # None /\ Alike(box'[q], box[q])
  <2>1. q # c /\ box'[q] = box[q]
    BY <1>2, <1>0
  <2> QED BY <2>1, <1>2, AlikeSelf, Zenon
<1> QED BY <1>0, <1>1, <1>2, Kept, Zenon

\* The next number is free, and no session knows it.
LEMMA BoxMade ==
    ASSUME Boxes, made < MaxContainers, made' = made + 1, NEW v \in Container,
           Named(v.name) = {}, box' = [box EXCEPT ![made + 1] = v]
    PROVE  DockerMoves /\ made + 1 \in Cid /\ box'[made + 1] = v
<1>0. box \in [Cid -> Container \cup {None}] /\ made \in Nat
  BY MadeNat, Zenon DEF Boxes
<1>1. made + 1 \in Cid /\ made' \in 0..MaxContainers /\ made <= made'
  BY <1>0, Bounds DEF Cid
<1>2. box' \in [Cid -> Container \cup {None}] /\ box'[made + 1] = v
  BY <1>0, <1>1
<1>3. \A c \in Cid : c # made + 1 => box'[c] = box[c]
  BY <1>0, <1>1
<1>4. \A c \in Cid : c <= made => c <= made' /\ c # made + 1
  BY <1>0 DEF Cid
<1>5. made + 1 <= made'
  BY <1>0
<1>6. BoxesMade'
  <2> SUFFICES ASSUME NEW c \in Cid, box'[c] # None PROVE c <= made'
    BY Zenon DEF BoxesMade
  <2>1. CASE c = made + 1
    BY <2>1, <1>5, Zenon
  <2>2. CASE c # made + 1
    BY <2>2, <1>3, <1>4, Zenon DEF Boxes, BoxesMade
  <2> QED BY <2>1, <2>2, Zenon
<1>7. Keeps(box, made, box', made')
  BY <1>1, <1>3, <1>4, Zenon DEF Keeps, Alike
<1>8. \A c \in Cid : box[c] # None => box[c].name # v.name
  BY DEF Named, Exists
<1>9. NamesApart'
  <2> SUFFICES ASSUME NEW c \in Cid, NEW d \in Cid, box'[c] # None, box'[d] # None,
                      box'[c].name = box'[d].name
               PROVE  c = d
    BY Zenon DEF NamesApart
  <2>1. CASE c = made + 1 /\ d = made + 1
    BY <2>1, Zenon
  <2>2. CASE c # made + 1 /\ d # made + 1
    BY <2>2, <1>3, Zenon DEF Boxes, NamesApart
  <2>3. CASE c = made + 1 /\ d # made + 1
    BY <2>3, <1>2, <1>3, <1>8, Zenon
  <2>4. CASE c # made + 1 /\ d = made + 1
    BY <2>4, <1>2, <1>3, <1>8, Zenon
  <2> QED BY <2>1, <2>2, <2>3, <2>4, Zenon
<1> QED BY <1>1, <1>2, <1>6, <1>7, <1>9, Zenon DEF DockerMoves, Boxes

\* After a restart every container may miss the range of ports.
LEMMA RangeLost ==
    ASSUME Boxes, UNCHANGED made,
           box' = [c \in Cid |-> IF box[c] = None THEN None ELSE [box[c] EXCEPT !.port = 0]]
    PROVE  Boxes' /\ \A c \in Cid : box'[c] # None => box'[c].port = 0
<1>0. box \in [Cid -> Container \cup {None}] /\ made' = made
  BY Zenon DEF Boxes
<1>1. ASSUME NEW q \in Cid
      PROVE  /\ box'[q] \in Container \cup {None}
             /\ box'[q] # None =>
                    box[q] # None /\ box'[q].name = box[q].name /\ box'[q].port = 0
  <2>1. CASE box[q] = None
    BY <2>1
  <2>2. CASE box[q] # None
    <3> DEFINE w == [box[q] EXCEPT !.port = 0]
    <3>1. box[q] \in Container /\ 0 \in 0..Ports
      BY <1>0, <2>2, Bounds
    <3>2. w \in Container /\ w.name = box[q].name /\ w.port = 0
      BY <3>1 DEF Container
    <3>3. box'[q] = w
      BY <2>2, Zenon
    <3> HIDE DEF w
    <3> QED BY <2>2, <3>2, <3>3
  <2> QED BY <2>1, <2>2, Zenon
<1> DEFINE P(q) == box[q] # None /\ box'[q].name = box[q].name /\ box'[q].port = 0
<1>2. \A q \in Cid : box'[q] \in Container \cup {None} /\ (box'[q] # None => P(q))
  BY <1>1, Zenon
<1>3. box' = [c \in Cid |-> box'[c]]
  OBVIOUS
<1> HIDE DEF P
<1>4. box' \in [Cid -> Container \cup {None}]
  BY <1>2, <1>3, Zenon
<1> QED BY <1>0, <1>2, <1>4, NamesKept, Zenon DEF P

-----------------------------------------------------------------------------
(* Sessions *)

LEMMA KeptSession ==
    ASSUME NEW b, NEW m \in Nat, NEW d, NEW n \in Nat, NEW x,
           Keeps(b, m, d, n), SessionOK(b, m, x)
    PROVE  SessionOK(d, n, x)
<1>1. x.cid \in Cid => x.cid <= n
  <2>1. m <= n /\ (x.cid \in Cid => x.cid <= m)
    BY Zenon DEF Keeps, SessionOK
  <2> QED BY <2>1 DEF Cid
<1>2. ASSUME x.at \in Held, d[x.cid] # None
      PROVE  d[x.cid].name = x.name /\ d[x.cid].image = x.image
  <2>1. x.at \in Active \ {"inspect", "create"}
    BY <1>2 DEF Held, Active, Starting, Live
  <2>2. x.cid \in Cid /\ x.cid <= m
    BY <2>1, Zenon DEF SessionOK
  <2>3. b[x.cid] # None /\ d[x.cid].name = b[x.cid].name /\ d[x.cid].image = b[x.cid].image
    BY <2>2, <1>2, Zenon DEF Keeps, Alike
  <2> QED BY <2>3, <1>2, Zenon DEF SessionOK
<1>3. ASSUME x.at \in Ported, d[x.cid] # None, Ranged
      PROVE  d[x.cid].port = x.port
  <2>1. x.at \in Active \ {"inspect", "create"}
    BY <1>3 DEF Ported, Held, Active, Starting, Live
  <2>2. x.cid \in Cid /\ x.cid <= m
    BY <2>1, Zenon DEF SessionOK
  <2>3. b[x.cid] # None /\ d[x.cid].port = b[x.cid].port
    BY <2>2, <1>3, Zenon DEF Keeps, Alike
  <2> QED BY <2>3, <1>3, Zenon DEF SessionOK
<1> QED BY <1>1, <1>2, <1>3, Zenon DEF SessionOK

\* A session that has no container is not concerned.
LEMMA NoBoxKept ==
    ASSUME NEW b, NEW m, NEW d, NEW x, SessionOK(b, m, x), x.at = "new"
    PROVE  SessionOK(d, m, x)
<1>1. x.at \notin Held /\ x.at \notin Ported
  BY DEF Held, Ported
<1> QED BY <1>1, Zenon DEF SessionOK

\* The session s becomes x, and the others find their containers as before.
LEMMA Moves ==
    ASSUME VdiInv, DockerMoves, NEW s \in Session, NEW x, Step(s, x),
           SessionOK(box', made', x), Others
    PROVE  VdiInv'
<1>0. Boxes /\ sess \in [Session -> SessionType]
  BY InvBoxes, Zenon DEF VdiInv, Types
<1>1. sess' = [sess EXCEPT ![s] = x] /\ x \in SessionType
  BY Zenon DEF Step, SessionOK
<1>2. sess' \in [Session -> SessionType] /\ sess'[s] = x
      /\ \A r \in Session : r # s => sess'[r] = sess[r]
  BY <1>0, <1>1
<1>3. made \in Nat /\ made' \in Nat
  BY <1>0, MadeNat, Bounds DEF DockerMoves, Boxes
<1>4. ASSUME NEW r \in Session PROVE SessionOK(box', made', sess'[r])
  <2>1. CASE r = s
    BY <2>1, <1>2, Zenon
  <2>2. CASE r # s
    <3>1. SessionOK(box, made, sess[r])
      BY Zenon DEF VdiInv
    <3>2. Keeps(box, made, box', made')
      BY Zenon DEF DockerMoves
    <3>3. SessionOK(box', made', sess[r])
      BY <3>1, <3>2, <1>3, KeptSession
    <3> QED BY <2>2, <3>3, <1>2, Zenon
  <2> QED BY <2>1, <2>2, Zenon
<1>5. Types'
  <2>1. reaper' = reaper /\ last' = last /\ restarts' = restarts
    BY Zenon DEF Others
  <2> QED BY <2>1, <1>2, Zenon DEF VdiInv, Types, DockerMoves, Boxes
<1>6. BoxesMade' /\ NamesApart'
  BY Zenon DEF DockerMoves, Boxes
<1> QED BY <1>4, <1>5, <1>6, Zenon DEF VdiInv

\* As above, when x was right of the containers before the step.
LEMMA Goes ==
    ASSUME VdiInv, DockerMoves, NEW s \in Session, NEW x, Step(s, x),
           SessionOK(box, made, x), Others
    PROVE  VdiInv'
<1>1. made \in Nat /\ made' \in Nat
  BY InvBoxes, MadeNat, Bounds DEF DockerMoves, Boxes
<1>2. Keeps(box, made, box', made')
  BY Zenon DEF DockerMoves
<1>3. SessionOK(box', made', x)
  BY <1>1, <1>2, KeptSession
<1> QED BY <1>3, Moves, Zenon

\* A session with a container.
LEMMA WithBox ==
    ASSUME NEW b, NEW m, NEW a \in Active \ {"inspect", "create"},
           NEW n \in Name, NEW i \in Image, NEW c \in Cid, c <= m, NEW p \in 0..Ports,
           NEW t \in {"inspect", "create", "over"}, NEW k \in 0..Ports,
           \/ k < Ports
           \/ a \in {"boot", "booted", "boxed", "ready", "live"}
           \/ a \in {"stop", "remove"} /\ t = "over",
           a \in Held /\ b[c] # None => b[c].name = n /\ b[c].image = i,
           a \in Ported => p # 0,
           a \in Ported /\ b[c] # None => (Ranged => b[c].port = p)
    PROVE  SessionOK(b, m, Sess(a, n, i, c, p, t, k))
<1> DEFINE x == Sess(a, n, i, c, p, t, k)
<1>0. /\ a \in {"new", "over"} \cup Active /\ n \in Name \cup {None}
      /\ i \in Image \cup {None} /\ c \in Cid \cup {None}
  OBVIOUS
<1>1. /\ x \in SessionType
      /\ x.at = a /\ x.name = n /\ x.image = i /\ x.cid = c /\ x.port = p /\ x.then = t
      /\ x.tries = k
  BY <1>0, SessType, SMT
<1>2. a # "inspect" /\ a # "create"
  OBVIOUS
<1> HIDE DEF x
<1>3. Trying(x) => x.tries < Ports
  BY <1>1, <1>2 DEF Trying
<1>4. SessionOK(b, m, x)
  BY <1>1, <1>3, Zenon DEF SessionOK
<1> QED BY <1>4, Zenon DEF x

\* A session that looks for a container, or makes one.
LEMMA Looking ==
    ASSUME NEW b, NEW m, NEW a \in {"inspect", "create"}, NEW n \in Name, NEW i \in Image,
           NEW c \in Cid \cup {None}, c \in Cid => c <= m, NEW p \in 0..Ports,
           NEW t \in {"inspect", "create", "over"}, NEW k \in 0..Ports, k < Ports
    PROVE  SessionOK(b, m, Sess(a, n, i, c, p, t, k))
<1> DEFINE x == Sess(a, n, i, c, p, t, k)
<1>0. a \in {"new", "over"} \cup Active
  BY DEF Active, Starting
<1>1. /\ x \in SessionType
      /\ x.at = a /\ x.name = n /\ x.image = i /\ x.cid = c /\ x.then = t /\ x.tries = k
  BY SessType, <1>0
<1>2. a \notin Held /\ a \notin Ported /\ a \notin Active \ {"inspect", "create"}
  BY DEF Held, Ported
<1> HIDE DEF x
<1>4. SessionOK(b, m, x)
  BY <1>1, <1>2, Zenon DEF SessionOK
<1> QED BY <1>4, Zenon DEF x

LEMMA OverOK ==
    ASSUME NEW b, NEW m
    PROVE  SessionOK(b, m, Sess("over", None, None, None, 0, "over", 0))
<1> DEFINE x == Sess("over", None, None, None, 0, "over", 0)
<1>0. 0 \in 0..Ports
  BY Bounds
<1>1. x \in SessionType /\ x.at = "over" /\ x.cid = None /\ x.tries = 0
  BY <1>0 DEF Sess, SessionType
<1>2. "over" \notin Held /\ "over" \notin Ported /\ "over" \notin Active
  BY DEF Held, Ported, Active, Starting, Live
<1> HIDE DEF x
<1>3. ~ Trying(x)
  BY <1>1 DEF Trying
<1>4. SessionOK(b, m, x)
  BY <1>1, <1>2, <1>3, NoneAssumption, Zenon DEF SessionOK
<1> QED BY <1>4, Zenon DEF x

LEMMA Ends ==
    ASSUME VdiInv, DockerMoves, NEW s \in Session, End(s), Others
    PROVE  VdiInv'
<1>1. Step(s, Sess("over", None, None, None, 0, "over", 0))
  BY Ended, Zenon DEF End
<1> QED BY <1>1, OverOK, Goes, Zenon

\* What is known of a session that is starting or live.
LEMMA Known ==
    ASSUME VdiInv, NEW s \in Session, sess[s].at \in Active
    PROVE  /\ sess[s] \in SessionType
           /\ sess[s].name \in Name /\ sess[s].image \in Image
           /\ sess[s].cid \in Cid \cup {None}
           /\ sess[s].at \notin {"inspect", "create"} => sess[s].cid \in Cid
           /\ sess[s].cid \in Cid => sess[s].cid <= made
           /\ sess[s].port \in 0..Ports
           /\ sess[s].then \in {"inspect", "create", "over"} /\ sess[s].tries \in 0..Ports
           /\ Trying(sess[s]) => sess[s].tries < Ports
           /\ sess[s].at \in Held /\ box[sess[s].cid] # None =>
                  box[sess[s].cid].name = sess[s].name /\ box[sess[s].cid].image = sess[s].image
           /\ sess[s].at \in Ported => sess[s].port # 0
           /\ sess[s].at \in Ported /\ box[sess[s].cid] # None =>
                  (Ranged => box[sess[s].cid].port = sess[s].port)
<1>1. SessionOK(box, made, sess[s])
  BY Zenon DEF VdiInv
<1> QED BY <1>1, SessionFields, Zenon DEF SessionOK

\* The container goes, and then the session goes on at next.
LEMMA Stops ==
    ASSUME VdiInv, DockerMoves, NEW s \in Session, sess[s].at \in Active,
           NEW c \in Cid, c <= made, NEW next \in {"inspect", "create", "over"},
           next = "over" \/ sess[s].tries < Ports, StopThen(s, c, next), Others
    PROVE  VdiInv'
<1> DEFINE x == Sess("stop", sess[s].name, sess[s].image, c, sess[s].port, next, sess[s].tries)
<1>1. sess[s] \in SessionType /\ sess[s].name \in Name /\ sess[s].image \in Image
      /\ sess[s].port \in 0..Ports /\ sess[s].tries \in 0..Ports
  BY Known, Zenon
<1>2. Step(s, x)
  BY <1>1, AtCidThen, Zenon DEF StopThen
<1>3. "stop" \in Active \ {"inspect", "create"} /\ "stop" \notin Held
      /\ "stop" \notin Ported
  BY DEF Active, Starting, Live, Held, Ported
<1>4. SessionOK(box, made, x)
  BY <1>1, <1>3, WithBox
<1> HIDE DEF x
<1> QED BY <1>2, <1>4, Goes, Zenon

\* The session goes on with the same container.
LEMMA GoesTo ==
    ASSUME VdiInv, DockerMoves, NEW s \in Session,
           sess[s].at \in Active \ {"inspect", "create"},
           NEW a \in Active \ {"inspect", "create"},
           a \in Held => sess[s].at \in Held, a \in Ported => sess[s].at \in Ported,
           \/ sess[s].tries < Ports
           \/ a \in {"boot", "booted", "boxed", "ready", "live"}
           \/ a \in {"stop", "remove"} /\ sess[s].then = "over",
           To(s, a), Others
    PROVE  VdiInv'
<1> DEFINE x == Sess(a, sess[s].name, sess[s].image, sess[s].cid, sess[s].port, sess[s].then,
                     sess[s].tries)
<1>0. sess[s].at \in Active /\ sess[s].at \notin {"inspect", "create"}
  OBVIOUS
<1>1. /\ sess[s] \in SessionType /\ sess[s].name \in Name /\ sess[s].image \in Image
      /\ sess[s].cid \in Cid /\ sess[s].cid <= made
      /\ sess[s].port \in 0..Ports
      /\ sess[s].then \in {"inspect", "create", "over"} /\ sess[s].tries \in 0..Ports
      /\ a \in Held /\ box[sess[s].cid] # None =>
             box[sess[s].cid].name = sess[s].name /\ box[sess[s].cid].image = sess[s].image
      /\ a \in Ported => sess[s].port # 0
      /\ a \in Ported /\ box[sess[s].cid] # None =>
             (Ranged => box[sess[s].cid].port = sess[s].port)
  BY <1>0, Known, Zenon
<1>2. Step(s, x)
  BY <1>1, Only, Zenon DEF To
<1>4. SessionOK(box, made, x)
  BY <1>1, WithBox
<1> HIDE DEF x
<1> QED BY <1>2, <1>4, Goes, Zenon

-----------------------------------------------------------------------------
(* The steps of a session *)

LEMMA Same ==
    ASSUME VdiInv, Docker
    PROVE  DockerMoves
BY InvBoxes, SameBoxes, Zenon

\* A container that has the name was made.
LEMMA NamedMade ==
    ASSUME VdiInv, NEW n, NEW c \in Named(n)
    PROVE  c \in Cid /\ c <= made /\ box[c] # None /\ box[c].name = n
<1>1. c \in Cid /\ box[c] # None /\ box[c].name = n
  BY DEF Named, Exists
<1> QED BY <1>1, Zenon DEF VdiInv, BoxesMade

LEMMA TriesLeft ==
    ASSUME VdiInv, NEW s \in Session,
           sess[s].at \in {"inspect", "create", "password", "start", "prepare", "warm", "late"}
    PROVE  sess[s].at \in Active /\ sess[s].tries < Ports
<1>1. sess[s].at \in Active
  BY DEF Active, Starting
<1>2. Trying(sess[s])
  BY Zenon DEF Trying
<1> QED BY <1>1, <1>2, Known, Zenon

LEMMA CreateSessionKeeps ==
    ASSUME VdiInv, NEW s \in Session, create_session(s)
    PROVE  VdiInv'
<1>0. PICK q \in Asks[s] :
          Step(s, [NoSession EXCEPT !.at = "inspect", !.name = q[1], !.image = q[2]])
  BY Zenon DEF create_session
<1> DEFINE n == q[1]
           i == q[2]
<1>6. n \in Name /\ i \in Image
  <2>1. q \in Name \X Image
    BY BoundsAssumption
  <2> QED BY <2>1
<1>1. Step(s, [NoSession EXCEPT !.at = "inspect", !.name = n, !.image = i])
  BY <1>0, Zenon
<1> HIDE DEF n, i
<1>2. Step(s, Sess("inspect", n, i, None, 0, "over", 0))
  BY <1>1, Begun, Zenon
<1>3. 0 \in 0..Ports /\ 0 < Ports /\ None \notin Cid
  BY Bounds, NoneAssumption
<1>4. SessionOK(box, made, Sess("inspect", n, i, None, 0, "over", 0))
  BY <1>3, <1>6, Looking
<1>5. DockerMoves /\ Others
  BY Same, Zenon DEF create_session
<1> QED BY <1>2, <1>4, <1>5, Goes, Zenon

LEMMA InspectKeeps ==
    ASSUME VdiInv, NEW s \in Session, do_start_or_reuse(s)
    PROVE  VdiInv'
<1>0. sess[s].at = "inspect" /\ DockerMoves /\ Others
  BY Same, Zenon DEF do_start_or_reuse
<1>1. sess[s].at \in Active /\ sess[s].tries < Ports
  BY <1>0, TriesLeft
<1>2. /\ sess[s] \in SessionType /\ sess[s].name \in Name /\ sess[s].image \in Image
      /\ sess[s].cid \in Cid \cup {None} /\ (sess[s].cid \in Cid => sess[s].cid <= made)
      /\ sess[s].port \in 0..Ports
      /\ sess[s].then \in {"inspect", "create", "over"} /\ sess[s].tries \in 0..Ports
  BY <1>1, Known, Zenon
<1>3. ASSUME NEW c \in Named(sess[s].name), Reusable(s, c), box[c].port # 0,
             Step(s, [sess[s] EXCEPT !.at = IF box[c].running THEN "password" ELSE "start",
                                     !.cid = c, !.port = box[c].port])
      PROVE  VdiInv'
  <2>1. /\ c \in Cid /\ c <= made /\ box[c] # None
        /\ box[c].name = sess[s].name /\ box[c].image = sess[s].image
    BY <1>3, NamedMade, Zenon DEF Reusable
  <2>6. box[c].port \in 0..Ports
    <3>1. box[c] \in Container
      BY <2>1, InvBoxes, BoxIs, Zenon
    <3> QED BY <3>1 DEF Container
  <2> DEFINE a == IF box[c].running THEN "password" ELSE "start"
             p == box[c].port
             x == Sess(a, sess[s].name, sess[s].image, c, p, sess[s].then, sess[s].tries)
  <2>2. a \in Active \ {"inspect", "create"}
    BY DEF Active, Starting
  <2>3. Step(s, [sess[s] EXCEPT !.at = a, !.cid = c, !.port = p])
    BY <1>3, Zenon
  <2>7. p \in 0..Ports /\ p # 0 /\ box[c].port = p
    BY <2>6, <1>3, Zenon
  <2> HIDE DEF a, p
  <2>4. Step(s, x)
    BY <2>3, <1>2, AtCidPort, Zenon
  <2>5. SessionOK(box, made, x)
    BY <2>1, <2>2, <2>7, <1>1, <1>2, WithBox
  <2> HIDE DEF x
  <2> QED BY <2>4, <2>5, <1>0, Goes, Zenon
<1>4. ASSUME NEW c \in Named(sess[s].name), StopThen(s, c, "inspect")
      PROVE  VdiInv'
  <2>1. c \in Cid /\ c <= made
    BY NamedMade, Zenon
  <2> QED BY <2>1, <1>4, <1>0, <1>1, Stops
<1>5. ASSUME To(s, "create")
      PROVE  VdiInv'
  <2> DEFINE x == Sess("create", sess[s].name, sess[s].image, sess[s].cid, sess[s].port,
                       sess[s].then, sess[s].tries)
  <2>1. Step(s, x)
    BY <1>5, <1>2, Only, Zenon DEF To
  <2>2. SessionOK(box, made, x)
    BY <1>1, <1>2, Looking
  <2> HIDE DEF x
  <2> QED BY <2>1, <2>2, <1>0, Goes, Zenon
<1> QED BY <1>3, <1>4, <1>5, Zenon DEF do_start_or_reuse

LEMMA PasswordKeeps ==
    ASSUME VdiInv, NEW s \in Session, update_container_password(s)
    PROVE  VdiInv'
<1>0. sess[s].at \in {"password", "late"} /\ Others /\ UNCHANGED made
  BY Zenon DEF update_container_password
<1>8. DockerMoves
  <2>1. CASE UNCHANGED box
    BY <2>1, <1>0, Same, Zenon DEF Docker
  <2>2. ASSUME NEW c \in Named(sess[s].name) \cap Running, box' = [box EXCEPT ![c].pw = s]
        PROVE  DockerMoves
    <3>1. c \in Cid /\ box[c] # None
      BY DEF Named, Exists
    <3> QED BY <3>1, <2>2, <1>0, InvBoxes, PasswordSet, Zenon
  <2> QED BY <2>1, <2>2, Zenon DEF update_container_password
<1>1. sess[s].tries < Ports
  BY <1>0, TriesLeft
<1>2. sess[s].at \in Active \ {"inspect", "create"} /\ sess[s].at \in Held
      /\ sess[s].at \in Ported
  BY <1>0 DEF Active, Starting, Held, Ported
<1>3. ASSUME NEW a \in {"prepare", "ready"}, To(s, a)
      PROVE  VdiInv'
  <2>1. a \in Active \ {"inspect", "create"}
    BY DEF Active, Starting
  <2> QED BY <2>1, <1>0, <1>1, <1>2, <1>3, <1>8, GoesTo, Zenon
<1>4. CASE End(s)
  BY <1>0, <1>4, <1>8, Ends, Zenon
<1>5. CASE To(s, "prepare")
  BY <1>5, <1>3
<1>6. CASE To(s, "ready")
  BY <1>6, <1>3
<1>7. End(s) \/ To(s, "prepare") \/ To(s, "ready")
  BY Zenon DEF update_container_password
<1> QED BY <1>4, <1>5, <1>6, <1>7, Zenon

LEMMA NamedStarted ==
    ASSUME VdiInv, NEW n, StartNamed(n), UNCHANGED made
    PROVE  DockerMoves
<1>1. Boxes
  BY InvBoxes
<1>2. CASE UNCHANGED box
  BY <1>2, Same, Zenon DEF Docker
<1>3. CASE \E c \in Cid : \E p \in 0..Ports : Starts(c, p)
  BY <1>1, <1>3, Started, Zenon
<1> QED BY <1>1, <1>2, <1>3, NamedStarts, Zenon

LEMMA StartKeeps ==
    ASSUME VdiInv, NEW s \in Session, StartStopped(s)
    PROVE  VdiInv'
<1>0. sess[s].at = "start" /\ To(s, "warm") /\ Others
  BY Zenon DEF StartStopped
<1>1. sess[s].tries < Ports
  BY <1>0, TriesLeft
<1>2. /\ sess[s].at \in Active \ {"inspect", "create"} /\ sess[s].at \in Held
      /\ sess[s].at \in Ported /\ "warm" \in Active \ {"inspect", "create"}
  BY <1>0 DEF Active, Starting, Held, Ported
<1>3. DockerMoves
  BY NamedStarted, Zenon DEF StartStopped
<1> QED BY <1>0, <1>1, <1>2, <1>3, GoesTo

LEMMA GiveUpKeeps ==
    ASSUME VdiInv, NEW s \in Session, sess[s].at \in {"start", "prepare", "warm"},
           GiveUp(s), Docker, Others
    PROVE  VdiInv'
<1>0. DockerMoves
  BY Same, Zenon
<1>1. CASE End(s)
  BY <1>0, <1>1, Ends, Zenon
<1>2. CASE StopThen(s, sess[s].cid, "inspect")
  <2>1. sess[s].at \in Active /\ sess[s].tries < Ports
    BY TriesLeft
  <2>2. sess[s].at \notin {"inspect", "create"}
    OBVIOUS
  <2>3. sess[s].cid \in Cid /\ sess[s].cid <= made
    BY <2>1, <2>2, Known, Zenon
  <2> QED BY <1>0, <1>2, <2>1, <2>3, Stops
<1> QED BY <1>1, <1>2, Zenon DEF GiveUp

LEMMA PrepareKeeps ==
    ASSUME VdiInv, NEW s \in Session, prepare_rdp_endpoint(s)
    PROVE  VdiInv'
<1> DEFINE a == IF sess[s].at = "warm" THEN "late" ELSE "ready"
           x == Sess(a, sess[s].name, sess[s].image, sess[s].cid, sess[s].port, sess[s].then, 0)
<1>0. sess[s].at \in {"prepare", "warm", "boxed"} /\ DockerMoves /\ Others
  BY Same, Zenon DEF prepare_rdp_endpoint
<1>1. /\ sess[s].at \in Active /\ sess[s].at \notin {"inspect", "create"}
      /\ sess[s].at \in Held /\ a \in Active \ {"inspect", "create"} /\ sess[s].at \in Ported
  BY <1>0 DEF Active, Starting, Held, Ported
<1>2. /\ sess[s] \in SessionType /\ sess[s].name \in Name /\ sess[s].image \in Image
      /\ sess[s].cid \in Cid /\ sess[s].cid <= made
      /\ sess[s].then \in {"inspect", "create", "over"}
      /\ sess[s].port \in 0..Ports /\ sess[s].port # 0
      /\ box[sess[s].cid] # None =>
             box[sess[s].cid].name = sess[s].name /\ box[sess[s].cid].image = sess[s].image
      /\ box[sess[s].cid] # None => (Ranged => box[sess[s].cid].port = sess[s].port)
  BY <1>1, Known, Zenon
<1>3. Step(s, [sess[s] EXCEPT !.at = a, !.tries = 0])
  BY Zenon DEF prepare_rdp_endpoint
<1> HIDE DEF a
<1>4. Step(s, x)
  <2>0. sess[s] \in SessionType
    BY <1>2
  <2>1. [sess[s] EXCEPT !.at = a, !.tries = 0] = x
    BY <2>0, AtTries, Zenon
  <2> HIDE DEF x
  <2> QED BY <1>3, <2>1, Zenon
<1>5. 0 \in 0..Ports /\ 0 < Ports
  BY Bounds
<1>6. SessionOK(box, made, x)
  BY <1>1, <1>2, <1>5, WithBox, Zenon
<1> HIDE DEF x
<1> QED BY <1>0, <1>4, <1>6, Goes, Zenon

LEMMA CandidatePort ==
    ASSUME NEW n \in Name, NEW k \in 0..Ports
    PROVE  Candidate(n, k) \in 0..Ports
<1>1. Hash[n] \in Nat
  BY BoundsAssumption
<1> DEFINE h == Hash[n] + k
<1>2. h \in Nat
  BY <1>1, Bounds
<1> HIDE DEF h
<1>3. (h % Ports) + 1 \in 0..Ports /\ 0 \in 0..Ports
  BY <1>2, Bounds
<1> QED BY <1>3 DEF Candidate, h

LEMMA CreateKeeps ==
    ASSUME VdiInv, NEW s \in Session, CreateContainer(s)
    PROVE  VdiInv'
<1> DEFINE p == Candidate(sess[s].name, sess[s].tries)
           v == [name |-> sess[s].name, image |-> sess[s].image, running |-> FALSE, pw |-> s,
                 port |-> p]
           c == made + 1
           k == sess[s].tries + 1
           x == Sess("boot", sess[s].name, sess[s].image, c, sess[s].port, sess[s].then, k)
<1>0. /\ sess[s].at = "create" /\ made < MaxContainers /\ made' = made + 1 /\ Others
      /\ box' = [box EXCEPT ![made + 1] = v] /\ Named(sess[s].name) = {}
      /\ Step(s, [sess[s] EXCEPT !.at = "boot", !.cid = c, !.tries = @ + 1])
  BY Zenon DEF CreateContainer
<1>1. sess[s].at \in Active /\ sess[s].tries < Ports
  BY <1>0, TriesLeft
<1>2. /\ sess[s] \in SessionType /\ sess[s].name \in Name /\ sess[s].image \in Image
      /\ sess[s].port \in 0..Ports
      /\ sess[s].then \in {"inspect", "create", "over"} /\ sess[s].tries \in 0..Ports
  BY <1>1, Known, Zenon
<1>10. p \in 0..Ports
  BY <1>2, CandidatePort
<1> HIDE DEF p
<1>3. v \in Container /\ v.name = sess[s].name /\ v.image = sess[s].image
  BY <1>2, <1>10 DEF Container
<1>4. k \in 0..Ports
  BY <1>1, <1>2, Bounds
<1>5. Step(s, x)
  BY <1>0, <1>2, AtCidTries, Zenon
<1> HIDE DEF v
<1>6. DockerMoves /\ c \in Cid /\ box'[c] = v
  BY <1>0, <1>3, InvBoxes, BoxMade, Zenon
<1>7. c <= made'
  BY <1>0, InvBoxes, MadeNat
<1>8. "boot" \in Active \ {"inspect", "create"} /\ "boot" \notin Ported
  BY DEF Active, Starting, Ported
<1> HIDE DEF c, k
<1>9. SessionOK(box', made', x)
  BY <1>2, <1>3, <1>4, <1>6, <1>7, <1>8, WithBox
<1> HIDE DEF x
<1> QED BY <1>0, <1>5, <1>6, <1>9, Moves, Zenon

LEMMA BootKeeps ==
    ASSUME VdiInv, NEW s \in Session, BootContainer(s)
    PROVE  VdiInv'
<1>0. sess[s].at = "boot" /\ Others /\ To(s, "booted")
  BY Zenon DEF BootContainer
<1>1. DockerMoves
  BY NamedStarted, Zenon DEF BootContainer
<1>2. /\ sess[s].at \in Active \ {"inspect", "create"} /\ sess[s].at \in Held
      /\ "booted" \in Active \ {"inspect", "create"} /\ "booted" \notin Ported
  BY <1>0 DEF Active, Starting, Held, Ported
<1> QED BY <1>0, <1>1, <1>2, GoesTo

\* What has the name is the session's own container, if that still exists.
LEMMA InspectNewKeeps ==
    ASSUME VdiInv, NEW s \in Session, InspectNew(s)
    PROVE  VdiInv'
<1>0. sess[s].at = "booted" /\ Others /\ DockerMoves
  BY Same, Zenon DEF InspectNew
<1>1. /\ sess[s].at \in Active /\ sess[s].at \notin {"inspect", "create"} /\ sess[s].at \in Held
      /\ "boxed" \in Active \ {"inspect", "create"}
  BY <1>0 DEF Active, Starting, Held
<1>2. /\ sess[s] \in SessionType /\ sess[s].name \in Name /\ sess[s].image \in Image
      /\ sess[s].cid \in Cid /\ sess[s].cid <= made
      /\ sess[s].then \in {"inspect", "create", "over"} /\ sess[s].tries \in 0..Ports
      /\ box[sess[s].cid] # None =>
             box[sess[s].cid].name = sess[s].name /\ box[sess[s].cid].image = sess[s].image
  BY <1>1, Known, Zenon
<1>3. ASSUME NEW c \in Named(sess[s].name), box[c].port # 0,
             Step(s, [sess[s] EXCEPT !.at = "boxed", !.port = box[c].port])
      PROVE  VdiInv'
  <2>1. c \in Cid /\ box[c] # None /\ box[c].name = sess[s].name
    BY NamedMade, Zenon
  <2>2. box[c].port \in 0..Ports
    <3>1. box[c] \in Container
      BY <2>1, InvBoxes, BoxIs, Zenon
    <3> QED BY <3>1 DEF Container
  <2>3. box[sess[s].cid] # None => sess[s].cid = c
    BY <2>1, <1>2, Zenon DEF VdiInv, NamesApart
  <2> DEFINE p == box[c].port
             x == Sess("boxed", sess[s].name, sess[s].image, sess[s].cid, p, sess[s].then,
                       sess[s].tries)
  <2>4. p \in 0..Ports /\ p # 0 /\ (box[sess[s].cid] # None => box[sess[s].cid].port = p)
    BY <2>2, <2>3, <1>3, Zenon
  <2>5. Step(s, [sess[s] EXCEPT !.at = "boxed", !.port = p])
    BY <1>3, Zenon
  <2> HIDE DEF p
  <2>6. Step(s, x)
    BY <2>5, <1>2, AtPort, Zenon
  <2>7. SessionOK(box, made, x)
    BY <2>4, <1>1, <1>2, WithBox
  <2> HIDE DEF x
  <2> QED BY <2>6, <2>7, <1>0, Goes, Zenon
<1>4. CASE End(s)
  BY <1>0, <1>4, Ends, Zenon
<1> QED BY <1>3, <1>4, Zenon DEF InspectNew

LEMMA BootFailsKeeps ==
    ASSUME VdiInv, NEW s \in Session, BootFails(s)
    PROVE  VdiInv'
<1> DEFINE n == NextPort(s)
<1>0. sess[s].at \in {"boot", "boxed"} /\ DockerMoves /\ Others /\ StopThen(s, sess[s].cid, n)
  BY Same, Zenon DEF BootFails
<1>1. n \in {"inspect", "create", "over"} /\ (n = "over" \/ sess[s].tries < Ports)
  BY DEF NextPort
<1>2. sess[s].at \in Active /\ sess[s].at \notin {"inspect", "create"}
  BY <1>0 DEF Active, Starting
<1>3. sess[s].cid \in Cid /\ sess[s].cid <= made
  BY <1>2, Known, Zenon
<1> HIDE DEF n
<1> QED BY <1>0, <1>1, <1>2, <1>3, Stops

\* A session that removes a container either ends then or has ports left.
LEMMA Removing ==
    ASSUME VdiInv, NEW s \in Session, sess[s].at \in {"stop", "remove"}
    PROVE  /\ sess[s].at \in Active /\ sess[s].at \notin {"inspect", "create"}
           /\ sess[s].cid \in Cid
           /\ sess[s].then # "over" => sess[s].tries < Ports
<1>1. sess[s].at \in Active /\ sess[s].at \notin {"inspect", "create"}
  BY DEF Active, Starting
<1>2. sess[s].then # "over" => Trying(sess[s])
  BY Zenon DEF Trying
<1> QED BY <1>1, <1>2, Known, Zenon

LEMMA StopKeeps ==
    ASSUME VdiInv, NEW s \in Session, StopContainer(s)
    PROVE  VdiInv'
<1>0. sess[s].at = "stop" /\ To(s, "remove") /\ Others /\ UNCHANGED made
  BY Zenon DEF StopContainer
<1>1. /\ sess[s].at \in Active /\ sess[s].at \notin {"inspect", "create"}
      /\ sess[s].cid \in Cid
      /\ sess[s].then # "over" => sess[s].tries < Ports
  BY <1>0, Removing
<1>2. DockerMoves
  <2>1. CASE Halt(sess[s].cid)
    BY <2>1, <1>0, <1>1, InvBoxes, Halted, Zenon
  <2>2. CASE UNCHANGED box
    BY <2>2, <1>0, Same, Zenon DEF Docker
  <2> QED BY <2>1, <2>2, Zenon DEF StopContainer
<1>3. "remove" \in Active \ {"inspect", "create"} /\ "remove" \notin Held
      /\ "remove" \notin Ported
  BY DEF Active, Starting, Held, Ported
<1> QED BY <1>0, <1>1, <1>2, <1>3, GoesTo

LEMMA RemovedKeeps ==
    ASSUME VdiInv, NEW s \in Session, sess[s].at = "remove", DockerMoves, Removed(s), Others
    PROVE  VdiInv'
<1>1. CASE sess[s].then = "over"
  <2>1. End(s)
    BY <1>1, Zenon DEF Removed
  <2> QED BY <2>1, Ends, Zenon
<1>2. CASE sess[s].then # "over"
  <2> DEFINE a == sess[s].then
             x == Sess(a, sess[s].name, sess[s].image, None, sess[s].port, "over", sess[s].tries)
  <2>1. Step(s, [sess[s] EXCEPT !.at = a, !.cid = None, !.then = "over"])
    BY <1>2, Zenon DEF Removed
  <2>2. sess[s].at \in Active /\ sess[s].tries < Ports
    BY <1>2, Removing
  <2>3. /\ sess[s] \in SessionType /\ sess[s].name \in Name /\ sess[s].image \in Image
        /\ a \in {"inspect", "create", "over"} /\ sess[s].tries \in 0..Ports
        /\ sess[s].port \in 0..Ports
    BY <2>2, Known, Zenon
  <2>4. a \in {"inspect", "create"}
    BY <1>2, <2>3
  <2> HIDE DEF a
  <2>5. Step(s, x)
    BY <2>1, <2>3, AtCidThen, Zenon
  <2>6. SessionOK(box, made, x)
    BY <2>2, <2>3, <2>4, Looking, NoneAssumption
  <2> HIDE DEF x
  <2> QED BY <2>5, <2>6, Goes, Zenon
<1> QED BY <1>1, <1>2, Zenon

LEMMA RemoveKeeps ==
    ASSUME VdiInv, NEW s \in Session, RemoveContainer(s)
    PROVE  VdiInv'
<1>0. /\ sess[s].at = "remove" /\ Removed(s) /\ Others
      /\ box' = [box EXCEPT ![sess[s].cid] = None] /\ UNCHANGED made
  BY Zenon DEF RemoveContainer
<1>1. sess[s].cid \in Cid
  BY <1>0, Removing
<1>2. DockerMoves
  BY <1>0, <1>1, InvBoxes, BoxRemoved, Zenon
<1> QED BY <1>0, <1>2, RemovedKeeps, Zenon

LEMMA RegisterKeeps ==
    ASSUME VdiInv, NEW s \in Session, Register(s)
    PROVE  VdiInv'
<1>0. sess[s].at = "ready" /\ To(s, "live") /\ Others /\ DockerMoves
  BY Same, Zenon DEF Register
<1>1. /\ sess[s].at \in Active \ {"inspect", "create"} /\ sess[s].at \in Held
      /\ "live" \in Active \ {"inspect", "create"} /\ sess[s].at \in Ported
  BY <1>0 DEF Active, Starting, Live, Held, Ported
<1> QED BY <1>0, <1>1, GoesTo

LEMMA LogoutKeeps ==
    ASSUME VdiInv, NEW s \in Session, stop_vdi_container(s)
    PROVE  VdiInv'
<1>0. sess[s].at = "live" /\ StopThen(s, sess[s].cid, "over") /\ Others /\ DockerMoves
  BY Same, Zenon DEF stop_vdi_container
<1>1. sess[s].at \in Active /\ sess[s].at \notin {"inspect", "create"}
  BY <1>0 DEF Active, Live
<1>2. sess[s].cid \in Cid /\ sess[s].cid <= made
  BY <1>1, Known, Zenon
<1> QED BY <1>0, <1>1, <1>2, Stops

\* Every step of a session.
LEMMA SessionKeeps ==
    ASSUME VdiInv, NEW s \in Session,
           \/ create_session(s) \/ Handler(s) \/ Register(s) \/ GuacdFails(s)
           \/ Abandon(s) \/ Leave(s) \/ stop_vdi_container(s)
    PROVE  VdiInv'
<1>1. ASSUME End(s), Docker, Others PROVE VdiInv'
  BY <1>1, Same, Ends, Zenon
<1>2. CASE InspectFails(s) \/ CreateFails(s) \/ GuacdFails(s) \/ Leave(s) \/ Abandon(s)
  BY <1>1, <1>2, Zenon DEF InspectFails, CreateFails, GuacdFails, Leave, Abandon
<1>3. CASE StartFails(s) \/ wait_for_ready_times_out(s)
  <2>1. GiveUp(s) /\ Docker /\ Others
        /\ (sess[s].at = "start" \/ sess[s].at \in {"prepare", "warm"})
    BY <1>3, Zenon DEF StartFails, wait_for_ready_times_out
  <2>2. sess[s].at \in {"start", "prepare", "warm"}
    BY <2>1
  <2> QED BY <2>1, <2>2, GiveUpKeeps, Zenon
<1>4. CASE RemoveFails(s)
  <2>1. sess[s].at = "remove" /\ Removed(s) /\ Others /\ DockerMoves
    BY <1>4, Same, Zenon DEF RemoveFails
  <2> QED BY <2>1, RemovedKeeps, Zenon
<1>5. CASE create_session(s) \/ do_start_or_reuse(s) \/ update_container_password(s)
           \/ StartStopped(s) \/ prepare_rdp_endpoint(s)
  BY <1>5, CreateSessionKeeps, InspectKeeps, PasswordKeeps, StartKeeps, PrepareKeeps, Zenon
<1>6. CASE CreateContainer(s) \/ BootContainer(s) \/ InspectNew(s) \/ BootFails(s)
           \/ StopContainer(s)
           \/ RemoveContainer(s) \/ Register(s) \/ stop_vdi_container(s)
  BY <1>6, CreateKeeps, BootKeeps, InspectNewKeeps, BootFailsKeeps, StopKeeps, RemoveKeeps, RegisterKeeps,
     LogoutKeeps, Zenon
<1> QED BY <1>2, <1>3, <1>4, <1>5, <1>6, Zenon DEF Handler

-----------------------------------------------------------------------------
(* The reaper, and the faults *)

Pass4(a, l, t, c) == [at |-> a, listed |-> l, todo |-> t, cid |-> c]

LEMMA PassIs ==
    ASSUME NEW x \in ReaperType
    PROVE  x = Pass4(x.at, x.listed, x.todo, x.cid)
BY DEF ReaperType, Pass4

LEMMA PassAt ==
    ASSUME NEW x \in ReaperType, NEW a
    PROVE  [x EXCEPT !.at = a] = Pass4(a, x.listed, x.todo, x.cid)
BY DEF ReaperType, Pass4

LEMMA PassAtCid ==
    ASSUME NEW x \in ReaperType, NEW a, NEW c
    PROVE  [x EXCEPT !.at = a, !.cid = c] = Pass4(a, x.listed, x.todo, c)
<1>1. [Pass4(a, x.listed, x.todo, x.cid) EXCEPT !.cid = c] = Pass4(a, x.listed, x.todo, c)
  BY DEF Pass4
<1> QED BY <1>1, PassAt, Zenon

LEMMA PassType ==
    ASSUME NEW a \in {"sleep", "scan", "stop", "remove"}, NEW l \in SUBSET Cid,
           NEW t \in SUBSET Cid, NEW c \in Cid \cup {None}
    PROVE  /\ Pass4(a, l, t, c) \in ReaperType
           /\ Pass4(a, l, t, c).at = a /\ Pass4(a, l, t, c).listed = l
           /\ Pass4(a, l, t, c).todo = t /\ Pass4(a, l, t, c).cid = c
BY DEF Pass4, ReaperType

\* What is true of the reaper's pass.
PassOK(x) ==
    /\ x \in ReaperType /\ x.todo \subseteq x.listed
    /\ x.at \in {"stop", "remove"} => x.cid \in Cid

LEMMA PassHolds ==
    ASSUME NEW a \in {"sleep", "scan", "stop", "remove"}, NEW l \in SUBSET Cid,
           NEW t \in SUBSET l, NEW c \in Cid \cup {None},
           a \in {"stop", "remove"} => c \in Cid
    PROVE  PassOK(Pass4(a, l, t, c))
<1> DEFINE x == Pass4(a, l, t, c)
<1>0. t \in SUBSET Cid
  OBVIOUS
<1>1. x \in ReaperType /\ x.at = a /\ x.listed = l /\ x.todo = t /\ x.cid = c
  BY <1>0, PassType
<1> HIDE DEF x
<1>2. PassOK(x)
  BY <1>1 DEF PassOK
<1> QED BY <1>2, Zenon DEF x

LEMMA PassFields ==
    ASSUME VdiInv
    PROVE  /\ reaper \in ReaperType
           /\ reaper.at \in {"sleep", "scan", "stop", "remove"}
           /\ reaper.listed \in SUBSET Cid /\ reaper.todo \in SUBSET reaper.listed
           /\ reaper.cid \in Cid \cup {None}
           /\ reaper.at \in {"stop", "remove"} => reaper.cid \in Cid
<1>1. reaper \in ReaperType /\ reaper.todo \subseteq reaper.listed
      /\ (reaper.at \in {"stop", "remove"} => reaper.cid \in Cid)
  BY Zenon DEF VdiInv, Types
<1> QED BY <1>1 DEF ReaperType

LastType == [Cid -> 0..(Timeout + 1) \cup {None}]

\* A step that leaves the sessions alone.
LEMMA Aside ==
    ASSUME VdiInv, DockerMoves, UNCHANGED <<sess, restarts>>, PassOK(reaper'), last' \in LastType
    PROVE  VdiInv'
<1>0. sess' = sess /\ restarts' = restarts
  BY Zenon
<1>1. made \in Nat /\ made' \in Nat
  BY InvBoxes, MadeNat, Bounds DEF DockerMoves, Boxes
<1>2. ASSUME NEW r \in Session PROVE SessionOK(box', made', sess'[r])
  <2>1. SessionOK(box, made, sess[r]) /\ Keeps(box, made, box', made')
    BY Zenon DEF VdiInv, DockerMoves
  <2>2. SessionOK(box', made', sess[r])
    BY <2>1, <1>1, KeptSession
  <2> QED BY <2>2, <1>0, Zenon
<1>3. Types'
  BY <1>0, Zenon DEF VdiInv, Types, DockerMoves, Boxes, PassOK, LastType
<1>4. BoxesMade' /\ NamesApart'
  BY Zenon DEF DockerMoves, Boxes
<1> QED BY <1>2, <1>3, <1>4, Zenon DEF VdiInv

LEMMA Aged ==
    ASSUME VdiInv,
           last' = [c \in Cid |-> IF last[c] \in 0..Timeout THEN last[c] + 1 ELSE last[c]]
    PROVE  last' \in LastType
<1>1. last \in [Cid -> 0..(Timeout + 1) \cup {None}]
  BY Zenon DEF VdiInv, Types
<1>2. \A n \in 0..Timeout : n + 1 \in 0..(Timeout + 1)
  BY Bounds
<1> QED BY <1>1, <1>2 DEF LastType

LEMMA LastSet ==
    ASSUME VdiInv, NEW c \in Cid, NEW v \in {0, None}, last' = [last EXCEPT ![c] = v]
    PROVE  last' \in LastType
<1>1. last \in [Cid -> 0..(Timeout + 1) \cup {None}]
  BY Zenon DEF VdiInv, Types
<1>2. 0 \in 0..(Timeout + 1)
  BY Bounds
<1> QED BY <1>1, <1>2 DEF LastType

LEMMA NoPassIs == NoPass = Pass4("sleep", {}, {}, None) /\ PassOK(NoPass)
<1>1. NoPass = Pass4("sleep", {}, {}, None)
  BY Zenon DEF NoPass, Pass4
<1>2. PassOK(Pass4("sleep", {}, {}, None))
  BY PassHolds
<1> QED BY <1>1, <1>2, Zenon

LEMMA ListKeeps ==
    ASSUME VdiInv, list_managed_containers_detail
    PROVE  VdiInv'
<1>1. [NoPass EXCEPT !.at = "scan", !.listed = Running, !.todo = Running]
      = Pass4("scan", Running, Running, None)
  <2>1. NoPass = Pass4("sleep", {}, {}, None)
    BY NoPassIs
  <2>2. [Pass4("sleep", {}, {}, None) EXCEPT !.at = "scan"] = Pass4("scan", {}, {}, None)
    BY DEF Pass4
  <2> DEFINE R == Running
  <2> HIDE DEF R
  <2>3. [Pass4("scan", {}, {}, None) EXCEPT !.listed = R] = Pass4("scan", R, {}, None)
    BY DEF Pass4
  <2>4. [Pass4("scan", R, {}, None) EXCEPT !.todo = R] = Pass4("scan", R, R, None)
    BY DEF Pass4
  <2>5. [NoPass EXCEPT !.at = "scan", !.listed = R] = Pass4("scan", R, {}, None)
    BY <2>1, <2>2, <2>3, Zenon
  <2> QED BY <2>4, <2>5, Zenon DEF R
<1>2. reaper' = Pass4("scan", Running, Running, None)
  BY <1>1, Zenon DEF list_managed_containers_detail
<1>3. Running \in SUBSET Cid /\ Running \in SUBSET Running
  BY DEF Running, Exists
<1>4. PassOK(reaper')
  BY <1>2, <1>3, PassHolds
<1>5. last' \in LastType
  BY Aged, Zenon DEF list_managed_containers_detail
<1>6. DockerMoves /\ UNCHANGED <<sess, restarts>>
  BY Same, Zenon DEF list_managed_containers_detail
<1> QED BY <1>4, <1>5, <1>6, Aside, Zenon

LEMMA LastStays ==
    ASSUME VdiInv, UNCHANGED last
    PROVE  last' \in LastType
<1>1. last \in LastType
  BY Zenon DEF VdiInv, Types, LastType
<1> QED BY <1>1, Zenon

LEMMA ListFailsKeeps ==
    ASSUME VdiInv, ListFails
    PROVE  VdiInv'
<1>1. last' \in LastType
  BY Aged, Zenon DEF ListFails
<1>2. DockerMoves /\ UNCHANGED <<sess, restarts>> /\ reaper' = reaper
  BY Same, Zenon DEF ListFails
<1>3. PassOK(reaper)
  BY Zenon DEF VdiInv, Types, PassOK
<1> QED BY <1>1, <1>2, <1>3, Aside, Zenon

LEMMA CheckKeeps ==
    ASSUME VdiInv, Check
    PROVE  VdiInv'
<1>0. reaper.at = "scan" /\ DockerMoves /\ UNCHANGED <<sess, restarts>>
  BY Same, Zenon DEF Check
<1>1. PICK c \in reaper.todo :
          /\ \/ reaper' = [reaper EXCEPT !.todo = @ \ {c}]
             \/ reaper' = [[reaper EXCEPT !.todo = @ \ {c}] EXCEPT !.at = "stop", !.cid = c]
          /\ last' = [last EXCEPT ![c] = 0] \/ UNCHANGED last
  BY Zenon DEF Check, FirstSeen
<1>2. /\ reaper \in ReaperType /\ reaper.listed \in SUBSET Cid
      /\ reaper.todo \in SUBSET reaper.listed /\ reaper.cid \in Cid \cup {None}
  BY PassFields, Zenon
<1>3. c \in Cid /\ reaper.todo \ {c} \in SUBSET reaper.listed /\ reaper.todo \ {c} \in SUBSET Cid
  BY <1>2
<1> DEFINE t == reaper.todo \ {c}
           y == [reaper EXCEPT !.todo = @ \ {c}]
<1>4. y = Pass4("scan", reaper.listed, t, reaper.cid)
  <2>1. reaper = Pass4("scan", reaper.listed, reaper.todo, reaper.cid)
    BY <1>0, <1>2, PassIs, Zenon
  <2>2. y = [reaper EXCEPT !.todo = t]
    BY Zenon
  <2> HIDE DEF t, y
  <2>3. [Pass4("scan", reaper.listed, reaper.todo, reaper.cid) EXCEPT !.todo = t]
        = Pass4("scan", reaper.listed, t, reaper.cid)
    BY DEF Pass4
  <2> QED BY <2>1, <2>2, <2>3, Zenon
<1>5. last' \in LastType
  BY <1>1, <1>3, LastSet, LastStays, Zenon
<1>6. reaper' = y \/ reaper' = [y EXCEPT !.at = "stop", !.cid = c]
  BY <1>1, Zenon
<1>7. PassOK(reaper')
  <2> HIDE DEF t, y
  <2>0. t \in SUBSET reaper.listed /\ t \in SUBSET Cid
    BY <1>3, Zenon DEF t
  <2>1. CASE reaper' = y
    BY <2>0, <2>1, <1>2, <1>4, PassHolds
  <2>2. CASE reaper' = [y EXCEPT !.at = "stop", !.cid = c]
    <3>1. y \in ReaperType /\ y.listed = reaper.listed /\ y.todo = t
      BY <2>0, <1>2, <1>4, PassType
    <3>2. [y EXCEPT !.at = "stop", !.cid = c] = Pass4("stop", y.listed, y.todo, c)
      BY <3>1, PassAtCid, Zenon
    <3>3. reaper' = Pass4("stop", reaper.listed, t, c)
      BY <3>1, <3>2, <2>2, Zenon
    <3> QED BY <2>0, <3>3, <1>2, <1>3, PassHolds
  <2> QED BY <2>1, <2>2, <1>6, Zenon
<1> QED BY <1>0, <1>5, <1>7, Aside, Zenon

LEMMA ReaperStopsKeeps ==
    ASSUME VdiInv, ReaperStops
    PROVE  VdiInv'
<1>0. /\ reaper.at = "stop" /\ reaper' = [reaper EXCEPT !.at = "remove"]
      /\ UNCHANGED made /\ UNCHANGED last /\ UNCHANGED <<sess, restarts>>
  BY Zenon DEF ReaperStops
<1>1. /\ reaper \in ReaperType /\ reaper.listed \in SUBSET Cid
      /\ reaper.todo \in SUBSET reaper.listed /\ reaper.cid \in Cid
  BY <1>0, PassFields
<1>2. DockerMoves
  <2>1. CASE Halt(reaper.cid)
    BY <2>1, <1>0, <1>1, InvBoxes, Halted, Zenon
  <2>2. CASE UNCHANGED box
    BY <2>2, <1>0, Same, Zenon DEF Docker
  <2> QED BY <2>1, <2>2, Zenon DEF ReaperStops
<1>3. reaper' = Pass4("remove", reaper.listed, reaper.todo, reaper.cid)
  BY <1>0, <1>1, PassAt, Zenon
<1>4. PassOK(reaper')
  BY <1>1, <1>3, PassHolds
<1>5. last' \in LastType
  BY <1>0, LastStays, Zenon
<1> QED BY <1>0, <1>2, <1>4, <1>5, Aside, Zenon

LEMMA ForgetKeeps ==
    ASSUME VdiInv, reaper.at = "remove", DockerMoves, Forget
    PROVE  VdiInv'
<1>0. /\ last' = [last EXCEPT ![reaper.cid] = None]
      /\ reaper' = [reaper EXCEPT !.at = "scan", !.cid = None]
      /\ UNCHANGED <<sess, restarts>>
  BY Zenon DEF Forget
<1>1. /\ reaper \in ReaperType /\ reaper.listed \in SUBSET Cid
      /\ reaper.todo \in SUBSET reaper.listed /\ reaper.cid \in Cid
  BY PassFields
<1>2. reaper' = Pass4("scan", reaper.listed, reaper.todo, None)
  BY <1>0, <1>1, PassAtCid, Zenon
<1>3. PassOK(reaper')
  BY <1>1, <1>2, PassHolds
<1>4. last' \in LastType
  BY <1>0, <1>1, LastSet
<1> QED BY <1>0, <1>3, <1>4, Aside, Zenon

LEMMA ReaperRemovesKeeps ==
    ASSUME VdiInv, ReaperRemoves \/ ReaperRemoveFails
    PROVE  VdiInv'
<1>0. reaper.at = "remove" /\ Forget /\ (box' = [box EXCEPT ![reaper.cid] = None] \/ UNCHANGED box)
  BY Zenon DEF ReaperRemoves, ReaperRemoveFails
<1>1. UNCHANGED made
  BY <1>0, Zenon DEF Forget
<1>2. reaper.cid \in Cid
  BY <1>0, PassFields
<1>3. CASE box' = [box EXCEPT ![reaper.cid] = None]
  <2>1. DockerMoves
    BY <1>1, <1>2, <1>3, InvBoxes, BoxRemoved, Zenon
  <2> QED BY <2>1, <1>0, ForgetKeeps, Zenon
<1>4. CASE UNCHANGED box
  <2>1. DockerMoves
    BY <1>1, <1>4, Same, Zenon DEF Docker
  <2> QED BY <2>1, <1>0, ForgetKeeps, Zenon
<1> QED BY <1>0, <1>3, <1>4, Zenon

LEMMA EndPassKeeps ==
    ASSUME VdiInv, EndPass
    PROVE  VdiInv'
<1>0. /\ last' = [c \in Cid |-> IF c \in reaper.listed THEN last[c] ELSE None]
      /\ reaper' = NoPass /\ UNCHANGED <<sess, restarts>> /\ DockerMoves
  BY Same, Zenon DEF EndPass
<1>1. last \in LastType
  BY Zenon DEF VdiInv, Types, LastType
<1>2. last' \in LastType
  BY <1>0, <1>1 DEF LastType
<1>3. PassOK(reaper')
  BY <1>0, NoPassIs, Zenon
<1> QED BY <1>0, <1>2, <1>3, Aside, Zenon

LEMMA DieKeeps ==
    ASSUME VdiInv, Die
    PROVE  VdiInv'
<1>0. /\ UNCHANGED made /\ sess' = sess
      /\ reaper' = reaper /\ last' = last /\ restarts' = restarts
  BY Zenon DEF Die, Others
<1>1. PICK c \in Running : Halt(c)
  BY Zenon DEF Die
<1>2. c \in Cid
  BY DEF Running, Exists
<1>3. DockerMoves
  BY <1>0, <1>1, <1>2, InvBoxes, Halted, Zenon
<1>4. PassOK(reaper) /\ last \in LastType
  BY Zenon DEF VdiInv, Types, PassOK, LastType
<1>5. PassOK(reaper') /\ last' \in LastType /\ UNCHANGED <<sess, restarts>>
  BY <1>0, <1>4, Zenon
<1> QED BY <1>3, <1>5, Aside, Zenon

\* After a restart no session knows a container.
LEMMA RestartKeeps ==
    ASSUME VdiInv, Restart
    PROVE  VdiInv'
<1> DEFINE o == Sess("over", None, None, None, 0, "over", 0)
<1>0. /\ restarts < MaxRestarts /\ restarts' = restarts + 1 /\ UNCHANGED made
      /\ reaper' = NoPass /\ last' = [c \in Cid |-> None]
      /\ sess' = [s \in Session |-> IF sess[s].at = "new" THEN sess[s] ELSE o]
  BY Ended, Zenon DEF Restart
<1>1. Boxes'
  <2>1. CASE UNCHANGED box
    BY <2>1, <1>0, Same, Zenon DEF Docker, DockerMoves
  <2>2. CASE box' = [c \in Cid |-> IF box[c] = None THEN None ELSE [box[c] EXCEPT !.port = 0]]
    BY <2>2, <1>0, InvBoxes, RangeLost, Zenon
  <2> QED BY <2>1, <2>2, Zenon DEF Restart
<1> HIDE DEF o
<1>3. ASSUME NEW r \in Session PROVE SessionOK(box', made', sess'[r])
  <2>1. CASE sess[r].at = "new"
    <3>1. sess'[r] = sess[r]
      BY <1>0, <2>1
    <3>2. SessionOK(box, made, sess[r]) /\ made' = made
      BY <1>0, Zenon DEF VdiInv
    <3>3. SessionOK(box', made', sess[r])
      BY <2>1, <3>2, NoBoxKept, Zenon
    <3> QED BY <3>1, <3>3, Zenon
  <2>2. CASE sess[r].at # "new"
    <3>1. sess'[r] = o
      BY <1>0, <2>2
    <3>2. SessionOK(box', made', o)
      BY OverOK, Zenon DEF o
    <3> QED BY <3>1, <3>2, Zenon
  <2> QED BY <2>1, <2>2, Zenon
<1>4. sess' \in [Session -> SessionType]
  <2>1. \A r \in Session : sess'[r] \in SessionType
    BY <1>3, Zenon DEF SessionOK
  <2>2. sess' = [r \in Session |-> sess'[r]]
    BY <1>0
  <2> QED BY <2>1, <2>2, Zenon
<1>5. restarts' \in 0..MaxRestarts
  <2>1. restarts \in 0..MaxRestarts
    BY Zenon DEF VdiInv, Types
  <2> QED BY <2>1, <1>0, Bounds
<1>6. last' \in LastType
  BY <1>0 DEF LastType
<1>7. Types'
  <2>1. PassOK(NoPass)
    BY NoPassIs
  <2>2. PassOK(reaper')
    BY <2>1, <1>0, Zenon
  <2> QED BY <2>2, <1>1, <1>4, <1>5, <1>6, Zenon DEF Types, Boxes, PassOK, LastType
<1>8. BoxesMade' /\ NamesApart'
  BY <1>1, Zenon DEF Boxes
<1> QED BY <1>3, <1>7, <1>8, Zenon DEF VdiInv

-----------------------------------------------------------------------------
(* The theorems *)

LEMMA InitHolds ==
    ASSUME Init
    PROVE  VdiInv
<1> DEFINE o == Sess("new", None, None, None, 0, "over", 0)
<1>0. NoSession = o
  BY Zenon DEF NoSession, Sess
<1>1. /\ box = [c \in Cid |-> None] /\ made = 0 /\ reaper = NoPass
      /\ last = [c \in Cid |-> None] /\ restarts = 0
  BY Zenon DEF Init
<1>2. sess = [s \in Session |-> o]
  BY <1>0, Zenon DEF Init
<1>3. 0 \in 0..Ports /\ made \in 0..MaxContainers /\ restarts \in 0..MaxRestarts
  BY <1>1, Bounds
<1>4. o \in SessionType /\ o.at = "new" /\ o.cid = None
  <2>1. 0 \in 0..Ports
    BY Bounds
  <2> QED BY <2>1 DEF Sess, SessionType
<1> HIDE DEF o
<1>5. SessionOK(box, made, o)
  <2>1. "new" \notin Held /\ "new" \notin Ported /\ "new" \notin Active
    BY DEF Held, Ported, Active, Starting, Live
  <2>2. ~ Trying(o)
    BY <1>4 DEF Trying
  <2> QED BY <1>4, <2>1, <2>2, NoneAssumption, Zenon DEF SessionOK
<1>6. sess \in [Session -> SessionType] /\ \A s \in Session : sess[s] = o
  BY <1>2, <1>4
<1>7. box \in [Cid -> Container \cup {None}] /\ last \in [Cid -> 0..(Timeout + 1) \cup {None}]
      /\ \A c \in Cid : box[c] = None
  BY <1>1
<1>8. PassOK(reaper)
  BY <1>1, NoPassIs, Zenon
<1>9. Types /\ BoxesMade /\ NamesApart
  BY <1>3, <1>6, <1>7, <1>8, Zenon DEF Types, BoxesMade, NamesApart, PassOK
<1> QED BY <1>5, <1>6, <1>9, Zenon DEF VdiInv

LEMMA NextKeeps ==
    ASSUME VdiInv, [Next]_vars
    PROVE  VdiInv'
<1>1. CASE \E s \in Session : \/ create_session(s) \/ Handler(s) \/ Register(s)
                              \/ GuacdFails(s) \/ Abandon(s) \/ Leave(s) \/ stop_vdi_container(s)
  BY <1>1, SessionKeeps, Zenon
<1>2. CASE Pass
  BY <1>2, ListKeeps, CheckKeeps, ReaperStopsKeeps, ReaperRemovesKeeps, EndPassKeeps, Zenon
     DEF Pass
<1>3. CASE ListFails \/ Die \/ Restart
  BY <1>3, ListFailsKeeps, DieKeeps, RestartKeeps, Zenon
<1>4. CASE UNCHANGED vars
  <2>1. /\ UNCHANGED <<box, made>> /\ UNCHANGED <<sess, restarts>>
        /\ reaper' = reaper /\ last' = last
    BY <1>4, Zenon DEF vars
  <2>2. DockerMoves
    BY <2>1, Same, Zenon DEF Docker
  <2>3. PassOK(reaper) /\ last \in LastType
    BY Zenon DEF VdiInv, Types, PassOK, LastType
  <2> QED BY <2>1, <2>2, <2>3, Aside, Zenon
<1> QED BY <1>1, <1>2, <1>3, <1>4, Zenon DEF Next

\* The inductive invariant of vdi.rs: a session's container is one that was
\* made, its ports are counted, and while it holds a container by number
\* that container, if it still exists, has its name and image.
THEOREM VdiInvariant == Spec => []VdiInv
<1>1. Init => VdiInv
  BY InitHolds
<1>2. VdiInv /\ [Next]_vars => VdiInv'
  BY NextKeeps
<1> QED BY <1>1, <1>2, PTL DEF Spec

\* Whatever Docker calls fail and however starts, logouts, reaper and
\* restarts interleave, every record is well formed, no start tries more
\* ports than the range has, and each call about a container has one.
THEOREM VdiTypeCorrect == Spec => []TypeOK
<1>1. VdiInv => TypeOK
  <2> SUFFICES ASSUME VdiInv PROVE TypeOK
    OBVIOUS
  <2>1. ASSUME NEW s \in Session
        PROVE  /\ sess[s].at \in Active => sess[s].name \in Name /\ sess[s].image \in Image
               /\ sess[s].at \in Active \ {"inspect", "create"} => sess[s].cid \in Cid
    <3>1. SessionOK(box, made, sess[s])
      BY Zenon DEF VdiInv
    <3> QED BY <3>1, Zenon DEF SessionOK
  <2>2. /\ reaper.at \in {"sleep", "scan", "stop", "remove"}
        /\ reaper.listed \subseteq Cid /\ reaper.todo \subseteq reaper.listed
        /\ reaper.at \in {"stop", "remove"} => reaper.cid \in Cid
    BY PassFields
  <2> QED BY <2>1, <2>2, Zenon DEF TypeOK, VdiInv, Types
<1> QED BY <1>1, VdiInvariant, PTL

-----------------------------------------------------------------------------
(* Ports and passwords *)

\* With a range, no two containers that run have one port of it.
PortsApart ==
    Ranged => \A c, d \in Running : box[c].port = box[d].port /\ box[c].port # 0 => c = d

\* A container was given its password by a session that is over, or that
\* asked for its name.
Whose(v, x) == x.at = "over" \/ (x.at \in Active /\ v.name = x.name)

PasswordsOwn == \A c \in Cid : box[c] # None => Whose(box[c], sess[box[c].pw])

\* What a step that starts no container leaves running.
NoneStarted ==
    \A c \in Cid : box'[c] # None /\ box'[c].running =>
        \/ box'[c].port = 0
        \/ box[c] # None /\ box[c].running /\ box'[c].port = box[c].port

\* What a step that sets no password leaves of the containers.
NoneGiven ==
    \A c \in Cid : box'[c] # None =>
        box[c] # None /\ box'[c].name = box[c].name /\ box'[c].pw = box[c].pw

Calm == NoneStarted /\ NoneGiven

LEMMA StillBoxes ==
    ASSUME UNCHANGED box
    PROVE  Calm
BY Zenon DEF Calm, NoneStarted, NoneGiven

\* One container becomes w.
LEMMA NoneStartedBy ==
    ASSUME Boxes, NEW c \in Cid, NEW w, box' = [box EXCEPT ![c] = w],
           w # None /\ w.running =>
               w.port = 0 \/ (box[c] # None /\ box[c].running /\ w.port = box[c].port)
    PROVE  NoneStarted
<1>1. box'[c] = w /\ \A q \in Cid : q # c => box'[q] = box[q]
  BY DEF Boxes
<1> QED BY <1>1, Zenon DEF NoneStarted

LEMMA NoneGivenBy ==
    ASSUME Boxes, NEW c \in Cid, NEW w, box' = [box EXCEPT ![c] = w],
           w # None => box[c] # None /\ w.name = box[c].name /\ w.pw = box[c].pw
    PROVE  NoneGiven
<1>1. box'[c] = w /\ \A q \in Cid : q # c => box'[q] = box[q]
  BY DEF Boxes
<1> QED BY <1>1, Zenon DEF NoneGiven

LEMMA RemovedCalm ==
    ASSUME Boxes, NEW c \in Cid, box' = [box EXCEPT ![c] = None]
    PROVE  Calm
BY NoneStartedBy, NoneGivenBy, Zenon DEF Calm

LEMMA HaltCalm ==
    ASSUME Boxes, NEW c \in Cid, Halt(c)
    PROVE  Calm
<1>1. CASE box[c] = None
  BY <1>1, StillBoxes, Zenon DEF Halt
<1>2. CASE box[c] # None
  <2> DEFINE w == [box[c] EXCEPT !.running = FALSE]
  <2>1. box[c] \in Container
    BY <1>2, BoxIs, Zenon
  <2>2. w.name = box[c].name /\ w.pw = box[c].pw /\ ~ w.running
    BY <2>1 DEF Container
  <2>3. box' = [box EXCEPT ![c] = w]
    BY <1>2, Zenon DEF Halt
  <2> HIDE DEF w
  <2> QED BY <2>2, <2>3, <1>2, NoneStartedBy, NoneGivenBy, Zenon DEF Calm
<1> QED BY <1>1, <1>2, Zenon

LEMMA RangeLostCalm ==
    ASSUME Boxes,
           box' = [c \in Cid |-> IF box[c] = None THEN None ELSE [box[c] EXCEPT !.port = 0]]
    PROVE  Calm
<1>1. ASSUME NEW c \in Cid, box'[c] # None
      PROVE  /\ box'[c].port = 0
             /\ box[c] # None /\ box'[c].name = box[c].name /\ box'[c].pw = box[c].pw
  <2>1. box[c] # None /\ box'[c] = [box[c] EXCEPT !.port = 0]
    BY <1>1
  <2>2. box[c] \in Container
    BY <2>1, BoxIs, Zenon
  <2> DEFINE v == box[c]
             w == [v EXCEPT !.port = 0]
  <2>3. v \in Container /\ box'[c] = w
    BY <2>1, <2>2, Zenon
  <2> HIDE DEF v
  <2>4. w.port = 0 /\ w.name = v.name /\ w.pw = v.pw
    BY <2>3 DEF Container
  <2> QED BY <2>1, <2>3, <2>4, Zenon DEF v
<1> QED BY <1>1, Zenon DEF Calm, NoneStarted, NoneGiven

\* A container is started where no other answers.
LEMMA StartsApart ==
    ASSUME Boxes, PortsApart, NEW c \in Cid, NEW p \in 0..Ports, Starts(c, p)
    PROVE  PortsApart' /\ NoneGiven
<1> DEFINE w == [box[c] EXCEPT !.running = TRUE]
           u == [w EXCEPT !.port = p]
<1>1. box[c] # None /\ c \notin Running /\ Listening(p) = {} /\ box' = [box EXCEPT ![c] = u]
  BY Zenon DEF Starts
<1>2. box[c] \in Container
  BY <1>1, BoxIs, Zenon
<1>3. w \in Container /\ w.name = box[c].name /\ w.pw = box[c].pw
  BY <1>2 DEF Container
<1> HIDE DEF w
<1>4. u.name = w.name /\ u.pw = w.pw /\ u.port = p
  BY <1>3 DEF Container
<1> HIDE DEF u
<1>5. NoneGiven
  BY <1>1, <1>3, <1>4, NoneGivenBy, Zenon
<1>6. box'[c] = u /\ \A q \in Cid : q # c => box'[q] = box[q]
  BY <1>1 DEF Boxes
<1>7. \A q \in Running' : q \in Cid /\ box'[q] # None /\ box'[q].running
  BY DEF Running, Exists
<1>8. ASSUME NEW q \in Running', q # c
      PROVE  q \in Running /\ box'[q].port = box[q].port /\ box[q].port # p
  <2>1. q \in Cid /\ box'[q] = box[q] /\ box[q] # None /\ box[q].running
    BY <1>6, <1>7, <1>8, Zenon
  <2>2. q \in Running
    BY <2>1 DEF Running, Exists
  <2>3. box[q].port # p
    BY <2>2, <1>1 DEF Listening
  <2> QED BY <2>1, <2>2, <2>3, Zenon
<1>9. PortsApart'
  <2> SUFFICES ASSUME Ranged, NEW d \in Running', NEW e \in Running', box'[d].port = box'[e].port,
                      box'[d].port # 0
               PROVE  d = e
    BY Zenon DEF PortsApart
  <2>1. CASE d = c /\ e = c
    BY <2>1, Zenon
  <2>2. CASE d = c /\ e # c
    BY <2>2, <1>4, <1>6, <1>8, Zenon
  <2>3. CASE d # c /\ e = c
    BY <2>3, <1>4, <1>6, <1>8, Zenon
  <2>4. CASE d # c /\ e # c
    BY <2>4, <1>8, Zenon DEF PortsApart
  <2> QED BY <2>1, <2>2, <2>3, <2>4, Zenon
<1> QED BY <1>5, <1>9, Zenon

LEMMA PortsStayApart ==
    ASSUME PortsApart, NoneStarted
    PROVE  PortsApart'
<1> SUFFICES ASSUME Ranged, NEW d \in Running', NEW e \in Running', box'[d].port = box'[e].port,
                    box'[d].port # 0
             PROVE  d = e
  BY Zenon DEF PortsApart
<1>1. \A q \in Running' : q \in Cid /\ box'[q] # None /\ box'[q].running
  BY DEF Running, Exists
<1>2. ASSUME NEW q \in Running', box'[q].port # 0
      PROVE  q \in Running /\ box'[q].port = box[q].port
  <2>1. q \in Cid /\ box[q] # None /\ box[q].running /\ box'[q].port = box[q].port
    BY <1>1, <1>2, Zenon DEF NoneStarted
  <2> QED BY <2>1 DEF Running, Exists
<1> QED BY <1>2, Zenon DEF PortsApart

-----------------------------------------------------------------------------
(* Who has given a password *)

\* The session s goes on under its name, or is over.
NameKept(s) ==
    \E x : Step(s, x) /\ (x.at = "over" \/ (x.at # "new" /\ x.name = sess[s].name))

LEMMA NameKeptBy ==
    ASSUME NEW s, NEW x, Step(s, x), x.at # "new", x.name = sess[s].name
    PROVE  NameKept(s)
BY Zenon DEF NameKept

LEMMA EndKept ==
    ASSUME NEW s, End(s)
    PROVE  NameKept(s)
<1> DEFINE x == Sess("over", None, None, None, 0, "over", 0)
<1>1. Step(s, x)
  BY Ended, Zenon DEF End
<1>2. x.at = "over"
  BY DEF Sess
<1> HIDE DEF x
<1> QED BY <1>1, <1>2, Zenon DEF NameKept

LEMMA SessKept ==
    ASSUME NEW s, NEW a, a # "new", NEW c, NEW p, NEW th, NEW k,
           Step(s, Sess(a, sess[s].name, sess[s].image, c, p, th, k))
    PROVE  NameKept(s)
<1> DEFINE x == Sess(a, sess[s].name, sess[s].image, c, p, th, k)
<1>1. x.at = a /\ x.name = sess[s].name
  BY DEF Sess
<1> HIDE DEF x
<1> QED BY <1>1, NameKeptBy, Zenon DEF x

LEMMA ToKept ==
    ASSUME NEW s, sess[s] \in SessionType, NEW a, a # "new", To(s, a)
    PROVE  NameKept(s)
<1>1. Step(s, Sess(a, sess[s].name, sess[s].image, sess[s].cid, sess[s].port, sess[s].then,
                   sess[s].tries))
  BY Only, Zenon DEF To
<1> QED BY <1>1, SessKept, Zenon

LEMMA StopKept ==
    ASSUME NEW s, sess[s] \in SessionType, NEW c, NEW next, StopThen(s, c, next)
    PROVE  NameKept(s)
<1>1. Step(s, Sess("stop", sess[s].name, sess[s].image, c, sess[s].port, next, sess[s].tries))
  BY AtCidThen, Zenon DEF StopThen
<1>2. "stop" # "new"
  OBVIOUS
<1> QED BY <1>1, <1>2, SessKept, Zenon

\* Every step of a session that has begun.
Proceeds(s) ==
    \/ Handler(s) \/ Register(s) \/ GuacdFails(s) \/ Abandon(s) \/ Leave(s)
    \/ stop_vdi_container(s)

LEMMA BegunIsActive ==
    ASSUME NEW s \in Session, Proceeds(s)
    PROVE  sess[s].at \in Active
<1>1. CASE Handler(s)
  <2>1. sess[s].at \in Starting
    <3>1. sess[s].at \in {"inspect", "password", "late", "start", "prepare", "warm", "boxed",
                          "create", "boot", "booted", "stop", "remove"}
      BY <1>1 DEF Handler, do_start_or_reuse, InspectFails, update_container_password,
         StartStopped, StartFails, prepare_rdp_endpoint, wait_for_ready_times_out,
         CreateContainer, CreateFails, BootContainer, InspectNew, BootFails,
         StopContainer, RemoveContainer, RemoveFails
    <3> QED BY <3>1 DEF Starting
  <2> QED BY <2>1 DEF Active
<1>2. CASE Register(s) \/ GuacdFails(s) \/ Abandon(s) \/ Leave(s) \/ stop_vdi_container(s)
  <2>1. sess[s].at \in {"ready", "live"} \cup Starting
    BY <1>2 DEF Register, GuacdFails, Abandon, Leave, stop_vdi_container, Live
  <2> QED BY <2>1 DEF Active, Live
<1> QED BY <1>1, <1>2, Zenon DEF Proceeds

LEMMA RemovedKept ==
    ASSUME VdiInv, NEW s \in Session, sess[s].at = "remove", Removed(s)
    PROVE  NameKept(s)
<1>1. CASE sess[s].then = "over"
  <2>1. End(s)
    BY <1>1, Zenon DEF Removed
  <2> QED BY <2>1, EndKept, Zenon
<1>2. CASE sess[s].then # "over"
  <2> DEFINE a == sess[s].then
  <2>1. Step(s, [sess[s] EXCEPT !.at = a, !.cid = None, !.then = "over"])
    BY <1>2, Zenon DEF Removed
  <2>2. sess[s] \in SessionType /\ a \in {"inspect", "create", "over"}
    BY SessionFields, Zenon DEF VdiInv, Types
  <2>3. a # "new"
    BY <2>2
  <2> HIDE DEF a
  <2>4. Step(s, Sess(a, sess[s].name, sess[s].image, None, sess[s].port, "over", sess[s].tries))
    BY <2>1, <2>2, AtCidThen, Zenon
  <2> QED BY <2>3, <2>4, SessKept, Zenon
<1> QED BY <1>1, <1>2, Zenon

LEMMA NamesAreKept ==
    ASSUME VdiInv, NEW s \in Session, Proceeds(s)
    PROVE  NameKept(s)
<1>0. sess[s] \in SessionType
  BY Zenon DEF VdiInv, Types
<1>1. CASE InspectFails(s) \/ CreateFails(s) \/ GuacdFails(s) \/ Leave(s) \/ Abandon(s)
  BY <1>1, EndKept, Zenon DEF InspectFails, CreateFails, GuacdFails, Leave, Abandon
<1>2. CASE StartFails(s) \/ wait_for_ready_times_out(s) \/ BootFails(s) \/ stop_vdi_container(s)
  <2>1. End(s) \/ \E c, n : StopThen(s, c, n)
    BY <1>2, Zenon DEF StartFails, wait_for_ready_times_out, BootFails, stop_vdi_container, GiveUp
  <2> QED BY <2>1, <1>0, EndKept, StopKept, Zenon
<1>3. CASE RemoveContainer(s) \/ RemoveFails(s)
  BY <1>3, RemovedKept, Zenon DEF RemoveContainer, RemoveFails
<1>4. CASE update_container_password(s) \/ StartStopped(s) \/ BootContainer(s)
           \/ StopContainer(s) \/ Register(s)
  <2>1. \/ End(s) \/ To(s, "prepare") \/ To(s, "ready") \/ To(s, "warm") \/ To(s, "booted")
        \/ To(s, "remove") \/ To(s, "live")
    BY <1>4, Zenon DEF update_container_password, StartStopped, BootContainer, StopContainer,
       Register
  <2>2. /\ "prepare" # "new" /\ "ready" # "new" /\ "warm" # "new" /\ "booted" # "new"
        /\ "remove" # "new" /\ "live" # "new"
    OBVIOUS
  <2> QED BY <2>1, <2>2, <1>0, EndKept, ToKept, Zenon
<1>5. CASE do_start_or_reuse(s)
  <2>1. \/ \E c, p, a : a \in {"password", "start"}
               /\ Step(s, [sess[s] EXCEPT !.at = a, !.cid = c, !.port = p])
        \/ \E c : StopThen(s, c, "inspect")
        \/ To(s, "create")
    <3>1. \/ \E c : Step(s, [sess[s] EXCEPT !.at = IF box[c].running THEN "password" ELSE "start",
                                              !.cid = c, !.port = box[c].port])
          \/ \E c : StopThen(s, c, "inspect")
          \/ To(s, "create")
      BY <1>5, Zenon DEF do_start_or_reuse
    <3>2. ASSUME NEW c,
                 Step(s, [sess[s] EXCEPT !.at = IF box[c].running THEN "password" ELSE "start",
                                         !.cid = c, !.port = box[c].port])
          PROVE  \E d, p, a : a \in {"password", "start"}
                     /\ Step(s, [sess[s] EXCEPT !.at = a, !.cid = d, !.port = p])
      <4> DEFINE a == IF box[c].running THEN "password" ELSE "start"
      <4>1. a \in {"password", "start"}
        OBVIOUS
      <4>2. Step(s, [sess[s] EXCEPT !.at = a, !.cid = c, !.port = box[c].port])
        BY <3>2, Zenon
      <4> HIDE DEF a
      <4> QED BY <4>1, <4>2, Zenon
    <3> QED BY <3>1, <3>2, Zenon
  <2>2. ASSUME NEW c, NEW p, NEW a \in {"password", "start"},
               Step(s, [sess[s] EXCEPT !.at = a, !.cid = c, !.port = p])
        PROVE  NameKept(s)
    <3>1. Step(s, Sess(a, sess[s].name, sess[s].image, c, p, sess[s].then, sess[s].tries))
      BY <2>2, <1>0, AtCidPort, Zenon
    <3>2. a # "new"
      OBVIOUS
    <3> QED BY <3>1, <3>2, SessKept, Zenon
  <2>3. "create" # "new"
    OBVIOUS
  <2> QED BY <2>1, <2>2, <2>3, <1>0, StopKept, ToKept, Zenon
<1>6. CASE prepare_rdp_endpoint(s)
  <2> DEFINE a == IF sess[s].at = "warm" THEN "late" ELSE "ready"
  <2>1. a # "new"
    OBVIOUS
  <2>2. Step(s, [sess[s] EXCEPT !.at = a, !.tries = 0])
    BY <1>6, Zenon DEF prepare_rdp_endpoint
  <2> HIDE DEF a
  <2>3. Step(s, Sess(a, sess[s].name, sess[s].image, sess[s].cid, sess[s].port, sess[s].then, 0))
    BY <2>2, <1>0, AtTries, Zenon
  <2> QED BY <2>1, <2>3, SessKept, Zenon
<1>7. CASE CreateContainer(s)
  <2>1. Step(s, [sess[s] EXCEPT !.at = "boot", !.cid = made + 1, !.tries = @ + 1])
    BY <1>7, Zenon DEF CreateContainer
  <2>2. Step(s, Sess("boot", sess[s].name, sess[s].image, made + 1, sess[s].port, sess[s].then,
                     sess[s].tries + 1))
    BY <2>1, <1>0, AtCidTries, Zenon
  <2>3. "boot" # "new"
    OBVIOUS
  <2> QED BY <2>2, <2>3, SessKept, Zenon
<1>8. CASE InspectNew(s)
  <2>1. ASSUME NEW p, Step(s, [sess[s] EXCEPT !.at = "boxed", !.port = p])
        PROVE  NameKept(s)
    <3>1. Step(s, Sess("boxed", sess[s].name, sess[s].image, sess[s].cid, p, sess[s].then,
                       sess[s].tries))
      BY <2>1, <1>0, AtPort, Zenon
    <3>2. "boxed" # "new"
      OBVIOUS
    <3> QED BY <3>1, <3>2, SessKept, Zenon
  <2> QED BY <1>8, <2>1, EndKept, Zenon DEF InspectNew
<1> QED BY <1>1, <1>2, <1>3, <1>4, <1>5, <1>6, <1>7, <1>8, Zenon DEF Proceeds, Handler

\* What becomes of each session in a step.
SessionsGo ==
    \A r \in Session :
        \/ sess'[r] = sess[r]
        \/ sess[r].at = "new"
        \/ sess'[r].at = "over"
        \/ sess[r].at \in Active /\ sess'[r].at \in Active /\ sess'[r].name = sess[r].name

LEMMA StepGoes ==
    ASSUME VdiInv, VdiInv', NEW s \in Session, \E x : Step(s, x),
           (NameKept(s) /\ sess[s].at \in Active) \/ sess[s].at = "new"
    PROVE  SessionsGo
<1>0. sess \in [Session -> SessionType] /\ sess' \in [Session -> SessionType]
  BY Zenon DEF VdiInv, Types
<1>1. PICK x : /\ Step(s, x)
               /\ \/ sess[s].at = "new" \/ x.at = "over"
                  \/ sess[s].at \in Active /\ x.at # "new" /\ x.name = sess[s].name
  BY Zenon DEF NameKept
<1>2. sess' = [sess EXCEPT ![s] = x]
  BY <1>1, Zenon DEF Step
<1>3. sess'[s] = x /\ \A r \in Session : r # s => sess'[r] = sess[r]
  BY <1>0, <1>2
<1>4. x.at \in {"new", "over"} \cup Active
  BY <1>0, <1>3, SessionFields, Zenon
<1>5. x.at # "new" => x.at = "over" \/ x.at \in Active
  BY <1>4
<1> QED BY <1>1, <1>3, <1>5, Zenon DEF SessionsGo

LEMMA PasswordsStay ==
    ASSUME VdiInv, PasswordsOwn, SessionsGo,
           \A c \in Cid : box'[c] # None =>
               \/ box[c] # None /\ box'[c].name = box[c].name /\ box'[c].pw = box[c].pw
               \/ \E s \in Session : /\ box'[c].pw = s /\ sess'[s].at \in Active
                                     /\ box'[c].name = sess'[s].name
    PROVE  PasswordsOwn'
<1> SUFFICES ASSUME NEW c \in Cid, box'[c] # None
             PROVE  Whose(box'[c], sess'[box'[c].pw])
  BY Zenon DEF PasswordsOwn
<1>1. CASE box[c] # None /\ box'[c].name = box[c].name /\ box'[c].pw = box[c].pw
  <2>1. Whose(box[c], sess[box[c].pw])
    BY <1>1, Zenon DEF PasswordsOwn
  <2>2. box[c].pw \in Session
    <3>1. box[c] \in Container
      BY <1>1, InvBoxes, BoxIs, Zenon
    <3> QED BY <3>1 DEF Container
  <2> DEFINE r == box[c].pw
  <2>3. r \in Session /\ box'[c].pw = r /\ Whose(box[c], sess[r]) /\ box'[c].name = box[c].name
    BY <2>1, <2>2, <1>1, Zenon
  <2> HIDE DEF r
  <2>4. \/ sess'[r] = sess[r]
        \/ sess[r].at = "new"
        \/ sess'[r].at = "over"
        \/ sess[r].at \in Active /\ sess'[r].at \in Active /\ sess'[r].name = sess[r].name
    BY <2>3, Zenon DEF SessionsGo
  <2>5. sess[r].at = "over" \/ (sess[r].at \in Active /\ box[c].name = sess[r].name)
    BY <2>3, Zenon DEF Whose
  <2>6. "new" # "over" /\ "new" \notin Active /\ "over" \notin Active
    BY DEF Active, Starting, Live
  <2> QED BY <2>3, <2>4, <2>5, <2>6, Zenon DEF Whose
<1>2. CASE \E s \in Session : box'[c].pw = s /\ sess'[s].at \in Active /\ box'[c].name = sess'[s].name
  BY <1>2, Zenon DEF Whose
<1> QED BY <1>1, <1>2, Zenon

-----------------------------------------------------------------------------
(* The right desktop *)

DesktopInv == VdiInv /\ PortsApart /\ PasswordsOwn

LEMMA CreateSets ==
    ASSUME VdiInv, VdiInv', NEW s \in Session, CreateContainer(s)
    PROVE  /\ NoneStarted
           /\ \A c \in Cid : box'[c] # None =>
                  \/ box[c] # None /\ box'[c].name = box[c].name /\ box'[c].pw = box[c].pw
                  \/ /\ box'[c].pw = s /\ sess'[s].at \in Active
                     /\ box'[c].name = sess'[s].name
<1> DEFINE p == Candidate(sess[s].name, sess[s].tries)
           v == [name |-> sess[s].name, image |-> sess[s].image, running |-> FALSE, pw |-> s,
                 port |-> p]
           x == Sess("boot", sess[s].name, sess[s].image, made + 1, sess[s].port, sess[s].then,
                     sess[s].tries + 1)
<1>0. Boxes /\ sess \in [Session -> SessionType] /\ sess[s] \in SessionType
  BY InvBoxes, Zenon DEF VdiInv, Types
<1>1. /\ made < MaxContainers /\ box' = [box EXCEPT ![made + 1] = v]
      /\ Step(s, [sess[s] EXCEPT !.at = "boot", !.cid = made + 1, !.tries = @ + 1])
  BY Zenon DEF CreateContainer
<1>2. Step(s, x)
  BY <1>0, <1>1, AtCidTries, Zenon
<1>3. made + 1 \in Cid
  BY <1>0, <1>1, MadeNat, Bounds DEF Cid
<1> HIDE DEF p
<1>4. ~ v.running /\ v.pw = s /\ v.name = sess[s].name
  OBVIOUS
<1> HIDE DEF v
<1>5. NoneStarted
  BY <1>0, <1>1, <1>3, <1>4, NoneStartedBy, Zenon
<1>6. x.at \in Active /\ x.name = sess[s].name
  BY DEF Sess, Active, Starting
<1> HIDE DEF x
<1>7. sess'[s] = x
  BY <1>0, <1>2 DEF Step
<1>8. box'[made + 1] = v /\ \A q \in Cid : q # made + 1 => box'[q] = box[q]
  BY <1>0, <1>1, <1>3 DEF Boxes
<1> QED BY <1>4, <1>5, <1>6, <1>7, <1>8, Zenon

LEMMA PasswordSets ==
    ASSUME VdiInv, VdiInv', NEW s \in Session, update_container_password(s)
    PROVE  /\ NoneStarted
           /\ \A c \in Cid : box'[c] # None =>
                  \/ box[c] # None /\ box'[c].name = box[c].name /\ box'[c].pw = box[c].pw
                  \/ /\ box'[c].pw = s /\ sess'[s].at \in Active
                     /\ box'[c].name = sess'[s].name
<1>0. Boxes /\ sess \in [Session -> SessionType] /\ sess[s] \in SessionType
  BY InvBoxes, Zenon DEF VdiInv, Types
<1>1. CASE UNCHANGED box
  BY <1>1, StillBoxes, Zenon DEF Calm, NoneStarted, NoneGiven
<1>2. ASSUME NEW c \in Named(sess[s].name) \cap Running, box' = [box EXCEPT ![c].pw = s],
             NEW a \in {"prepare", "ready"}, To(s, a)
      PROVE  /\ NoneStarted
             /\ \A d \in Cid : box'[d] # None =>
                    \/ box[d] # None /\ box'[d].name = box[d].name /\ box'[d].pw = box[d].pw
                    \/ /\ box'[d].pw = s /\ sess'[s].at \in Active
                       /\ box'[d].name = sess'[s].name
  <2>1. c \in Cid /\ box[c] # None /\ box[c].name = sess[s].name /\ box[c].running
    BY DEF Named, Exists, Running
  <2>2. box[c] \in Container
    BY <2>1, <1>0, BoxIs, Zenon
  <2> DEFINE v == box[c]
             w == [v EXCEPT !.pw = s]
             x == Sess(a, sess[s].name, sess[s].image, sess[s].cid, sess[s].port, sess[s].then,
                       sess[s].tries)
  <2>3. box' = [box EXCEPT ![c] = w] /\ v \in Container
    BY <1>2, <2>2, Zenon
  <2>4. box[c] # None /\ v = box[c]
    BY <2>1, Zenon
  <2> HIDE DEF v
  <2>5. w.name = v.name /\ w.port = v.port /\ w.pw = s
    BY <2>3 DEF Container
  <2>6. w.running = v.running
    BY <2>3 DEF Container
  <2> HIDE DEF w
  <2>7. NoneStarted
    BY <2>1, <2>3, <2>4, <2>5, <2>6, <1>0, NoneStartedBy, Zenon
  <2>8. Step(s, x)
    BY <1>0, <1>2, Only, Zenon DEF To
  <2>9. x.at \in Active /\ x.name = sess[s].name
    BY DEF Sess, Active, Starting
  <2> HIDE DEF x
  <2>10. sess'[s] = x
    BY <1>0, <2>8 DEF Step
  <2>11. box'[c] = w /\ \A q \in Cid : q # c => box'[q] = box[q]
    BY <2>1, <2>3, <1>0 DEF Boxes
  <2> QED BY <2>1, <2>4, <2>5, <2>7, <2>9, <2>10, <2>11, Zenon
<1>3. \/ UNCHANGED box
      \/ \E c \in Named(sess[s].name) \cap Running : /\ box' = [box EXCEPT ![c].pw = s]
                                                     /\ To(s, "prepare") \/ To(s, "ready")
  BY Zenon DEF update_container_password
<1> QED BY <1>1, <1>2, <1>3, SMT

\* What the steps of a session do to the containers, but for those two.
LEMMA SessionBoxes ==
    ASSUME VdiInv, PortsApart, NEW s \in Session, Proceeds(s),
           ~ CreateContainer(s), ~ update_container_password(s)
    PROVE  PortsApart' /\ NoneGiven
<1>0. Boxes
  BY InvBoxes
<1>1. CASE StartStopped(s) \/ BootContainer(s)
  <2>1. StartNamed(sess[s].name)
    BY <1>1, Zenon DEF StartStopped, BootContainer
  <2>2. UNCHANGED box \/ \E c \in Cid : \E p \in 0..Ports : Starts(c, p)
    BY <2>1, <1>0, NamedStarts, Zenon
  <2> QED BY <2>2, <1>0, StartsApart, StillBoxes, PortsStayApart, Zenon DEF Calm
<1>2. ASSUME ~ StartStopped(s), ~ BootContainer(s)
      PROVE  Calm
  <2>1. CASE StopContainer(s) \/ RemoveContainer(s)
    <3>1. sess[s].at \in {"stop", "remove"}
      BY <2>1 DEF StopContainer, RemoveContainer
    <3>2. sess[s].cid \in Cid
      BY <3>1, Removing, Zenon
    <3>3. Halt(sess[s].cid) \/ UNCHANGED box \/ box' = [box EXCEPT ![sess[s].cid] = None]
      BY <2>1, Zenon DEF StopContainer, RemoveContainer
    <3> QED BY <3>2, <3>3, <1>0, HaltCalm, RemovedCalm, StillBoxes, Zenon
  <2>2. CASE ~ (StopContainer(s) \/ RemoveContainer(s))
    <3>1. Docker
      BY <1>2, <2>2, Zenon DEF Proceeds, Handler, do_start_or_reuse, InspectFails, StartFails,
         prepare_rdp_endpoint, wait_for_ready_times_out, CreateFails, InspectNew, BootFails,
         RemoveFails, Register, GuacdFails, Abandon, Leave, stop_vdi_container
    <3> QED BY <3>1, StillBoxes, Zenon DEF Docker
  <2> QED BY <2>1, <2>2, Zenon
<1> QED BY <1>1, <1>2, PortsStayApart, Zenon DEF Calm

LEMMA SessionDesktop ==
    ASSUME DesktopInv, VdiInv', NEW s \in Session, Proceeds(s)
    PROVE  PortsApart' /\ PasswordsOwn'
<1>0. VdiInv /\ PortsApart /\ PasswordsOwn
  BY Zenon DEF DesktopInv
<1>1. NameKept(s) /\ sess[s].at \in Active
  BY <1>0, NamesAreKept, BegunIsActive, Zenon
<1>2. SessionsGo
  BY <1>0, <1>1, StepGoes, Zenon DEF NameKept
<1>3. CASE CreateContainer(s) \/ update_container_password(s)
  <2>1. /\ NoneStarted
        /\ \A c \in Cid : box'[c] # None =>
                  \/ box[c] # None /\ box'[c].name = box[c].name /\ box'[c].pw = box[c].pw
                  \/ /\ box'[c].pw = s /\ sess'[s].at \in Active
                     /\ box'[c].name = sess'[s].name
    BY <1>0, <1>3, CreateSets, PasswordSets, Zenon
  <2> QED BY <2>1, <1>0, <1>2, PortsStayApart, PasswordsStay, Zenon
<1>4. CASE ~ (CreateContainer(s) \/ update_container_password(s))
  <2>1. PortsApart' /\ NoneGiven
    BY <1>0, <1>4, SessionBoxes, Zenon
  <2> QED BY <2>1, <1>0, <1>2, PasswordsStay, Zenon DEF NoneGiven
<1> QED BY <1>3, <1>4, Zenon

LEMMA OtherDesktop ==
    ASSUME DesktopInv, Calm, SessionsGo
    PROVE  PortsApart' /\ PasswordsOwn'
BY PortsStayApart, PasswordsStay, Zenon DEF DesktopInv, Calm, NoneGiven

LEMMA StillGo ==
    ASSUME UNCHANGED sess
    PROVE  SessionsGo
BY Zenon DEF SessionsGo

LEMMA DesktopKept ==
    ASSUME DesktopInv, [Next]_vars
    PROVE  DesktopInv'
<1>0. VdiInv /\ Boxes
  BY InvBoxes, Zenon DEF DesktopInv
<1>1. VdiInv'
  BY <1>0, NextKeeps, Zenon
<1>2. ASSUME NEW s \in Session, Proceeds(s)
      PROVE  PortsApart' /\ PasswordsOwn'
  BY <1>1, <1>2, SessionDesktop, Zenon
<1>3. ASSUME NEW s \in Session, create_session(s)
      PROVE  PortsApart' /\ PasswordsOwn'
  <2>1. sess[s].at = "new" /\ (\E x : Step(s, x)) /\ Docker
    BY <1>3, Zenon DEF create_session
  <2>2. SessionsGo
    BY <2>1, <1>0, <1>1, StepGoes, Zenon
  <2> QED BY <2>1, <2>2, StillBoxes, OtherDesktop, Zenon DEF Docker
<1>4. CASE Pass \/ ListFails \/ Die \/ UNCHANGED vars
  <2>1. UNCHANGED sess
    BY <1>4, Zenon DEF Pass, list_managed_containers_detail, Check, ReaperStops, ReaperRemoves,
       ReaperRemoveFails, EndPass, Forget, ListFails, Die, vars
  <2>2. Calm
    <3>1. CASE ReaperStops \/ ReaperRemoves
      <4>1. reaper.at \in {"stop", "remove"}
        BY <3>1 DEF ReaperStops, ReaperRemoves
      <4>2. reaper.cid \in Cid
        BY <4>1, <1>0, PassFields, Zenon
      <4>3. Halt(reaper.cid) \/ UNCHANGED box \/ box' = [box EXCEPT ![reaper.cid] = None]
        BY <3>1, Zenon DEF ReaperStops, ReaperRemoves
      <4> QED BY <4>2, <4>3, <1>0, HaltCalm, RemovedCalm, StillBoxes, Zenon
    <3>2. CASE Die
      <4>1. PICK c \in Running : Halt(c)
        BY <3>2, Zenon DEF Die
      <4>2. c \in Cid
        BY DEF Running, Exists
      <4> QED BY <4>1, <4>2, <1>0, HaltCalm, Zenon
    <3>3. CASE ~ (ReaperStops \/ ReaperRemoves \/ Die)
      <4>1. UNCHANGED box
        BY <1>4, <3>3, Zenon DEF Pass, list_managed_containers_detail, Check, ReaperRemoveFails,
           EndPass, ListFails, Docker, vars
      <4> QED BY <4>1, StillBoxes, Zenon
    <3> QED BY <3>1, <3>2, <3>3, Zenon
  <2> QED BY <2>1, <2>2, <1>1, StillGo, OtherDesktop, Zenon DEF DesktopInv
<1>5. CASE Restart
  <2>1. Calm
    BY <1>0, <1>5, StillBoxes, RangeLostCalm, Zenon DEF Restart
  <2>2. SessionsGo
    <3> DEFINE o == Sess("over", None, None, None, 0, "over", 0)
    <3>1. sess' = [s \in Session |-> IF sess[s].at = "new" THEN sess[s] ELSE o]
      BY <1>5, Ended, Zenon DEF Restart
    <3>2. o.at = "over"
      BY DEF Sess
    <3> HIDE DEF o
    <3>3. \A r \in Session : sess'[r] = sess[r] \/ sess'[r] = o
      BY <3>1
    <3> QED BY <3>2, <3>3, Zenon DEF SessionsGo
  <2> QED BY <2>1, <2>2, <1>1, OtherDesktop, Zenon DEF DesktopInv
<1>6. \/ \E s \in Session : create_session(s) \/ Proceeds(s)
      \/ Pass \/ ListFails \/ Die \/ Restart \/ UNCHANGED vars
  BY Zenon DEF Next, Proceeds
<1> QED BY <1>1, <1>2, <1>3, <1>4, <1>5, <1>6, Zenon DEF DesktopInv

\* While the container that start_or_reuse gave a session runs, it alone
\* answers at the session's port, with the name and the image asked for; and
\* whoever answers there and takes the session's password is of that name,
\* however containers were replaced, started again or removed meanwhile by
\* other sessions, the reaper or a restart of the gateway.
THEOREM RightDesktopGiven == Spec => []RightDesktop
<1>1. Init => DesktopInv
  <2> SUFFICES ASSUME Init PROVE DesktopInv
    OBVIOUS
  <2>1. \A c \in Cid : box[c] = None
    BY DEF Init
  <2>2. Running = {}
    BY <2>1 DEF Running, Exists
  <2> QED BY <2>1, <2>2, InitHolds DEF DesktopInv, PortsApart, PasswordsOwn
<1>2. DesktopInv /\ [Next]_vars => DesktopInv'
  BY DesktopKept
<1>3. DesktopInv => RightDesktop
  <2> SUFFICES ASSUME DesktopInv, NEW s \in Session, sess[s].at = "ready",
                      NEW c \in Listening(sess[s].port)
               PROVE  /\ Ranged /\ sess[s].cid \in Running =>
                             /\ c = sess[s].cid
                             /\ box[c].name = sess[s].name /\ box[c].image = sess[s].image
                      /\ box[c].pw = s => box[c].name = sess[s].name
    BY Zenon DEF RightDesktop
  <2>0. VdiInv /\ PortsApart /\ PasswordsOwn
    BY Zenon DEF DesktopInv
  <2>1. c \in Running /\ c \in Cid /\ box[c] # None /\ box[c].port = sess[s].port
    BY DEF Listening, Running, Exists
  <2>2. sess[s].at \in Held /\ sess[s].at \in Ported /\ sess[s].at \in Active
        /\ sess[s].at # "over"
    BY DEF Ported, Held, Active
  <2>3. SessionOK(box, made, sess[s])
    BY <2>0, Zenon DEF VdiInv
  <2>4. box[c].pw = s => box[c].name = sess[s].name
    BY <2>0, <2>1, <2>2, Zenon DEF PasswordsOwn, Whose
  <2>5. ASSUME Ranged, sess[s].cid \in Running
        PROVE  /\ c = sess[s].cid
               /\ box[c].name = sess[s].name /\ box[c].image = sess[s].image
    <3>1. box[sess[s].cid] # None
      BY <2>5 DEF Running, Exists
    <3>2. /\ box[sess[s].cid].port = sess[s].port /\ sess[s].port # 0
          /\ box[sess[s].cid].name = sess[s].name /\ box[sess[s].cid].image = sess[s].image
      BY <3>1, <2>2, <2>3, <2>5, Zenon DEF SessionOK
    <3>3. c = sess[s].cid
      BY <3>2, <2>0, <2>1, <2>5, Zenon DEF PortsApart
    <3> QED BY <3>2, <3>3, Zenon
  <2> QED BY <2>4, <2>5, Zenon
<1> QED BY <1>1, <1>2, <1>3, PTL DEF Spec
=============================================================================
