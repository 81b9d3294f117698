----------------------------- MODULE BrowserPool -----------------------------
(***************************************************************************)
(* The browsers of web sessions (browser.rs: RangeAllocator,               *)
(* BrowserManager; session.rs: cleanup_browser): X display numbers and CDP *)
(* ports from two fixed ranges, an Xvnc and a Chromium process per         *)
(* session, and the login script that drives Chromium through its port.    *)
(*                                                                         *)
(* A member of Browser is one call of spawn and what comes of it.  A step  *)
(* is what a call does between two awaits, or between two uses of an       *)
(* allocator.  The callers are HTTP handlers and background tasks; the     *)
(* future of an HTTP handler is dropped when its client goes away.         *)
(* Processes are external: each may fail to start, and die at any time.    *)
(***************************************************************************)
EXTENDS Naturals

CONSTANTS
    Browser,  \* calls of spawn
    Display,  \* display_range_start..display_range_end
    Port      \* cdp_port_range_start..cdp_port_range_end

ASSUME RangeAssumption == Display \subseteq Nat \ {0} /\ Port \subseteq Nat \ {0}

VARIABLES
    displays,  \* display_allocator.in_use
    ports,     \* cdp_allocator.in_use
    pc,        \* where each call of spawn, or the session that owns its result, is
    display,   \* the number each call allocated, 0 before
    port,      \* cdp_port, 0 for None
    xvnc,      \* calls whose Xvnc process runs
    chromium,  \* calls whose Chromium process runs
    profile,   \* calls whose profile directory exists
    stuck,     \* calls whose remove_dir_all failed
    script     \* the login script of each call

numbers == <<displays, ports, display, port>>
files == <<profile, stuck>>
processes == <<xvnc, chromium, files>>
browserVars == <<numbers, pc, processes, script>>

PC == {"idle", "display", "prepare", "wait", "settle", "abort", "unwind", "failed",
       "up", "kill", "killXvnc", "release", "tidy", "done", "lost"}
\* A script's process is watched by its task, or runs on after the task ended.
Script == {"none", "watched", "stray", "ended"}

\* Where a call's numbers are taken; a dropped call never gives them back.
HasDisplay == {"display", "prepare", "wait", "settle", "abort", "unwind", "up", "kill",
               "killXvnc", "release", "lost"}
HasPort == HasDisplay \ {"display"}
DisplayOwners == {b \in Browser : pc[b] \in HasDisplay}
PortOwners == {b \in Browser : pc[b] \in HasPort /\ port[b] # 0}

BrowserInit ==
    /\ displays = {} /\ ports = {}
    /\ pc = [b \in Browser |-> "idle"]
    /\ display = [b \in Browser |-> 0]
    /\ port = [b \in Browser |-> 0]
    /\ xvnc = {} /\ chromium = {} /\ profile = {} /\ stuck = {}
    /\ script = [b \in Browser |-> "none"]

Goto(b, l) == pc' = [pc EXCEPT ![b] = l]

\* RangeAllocator::allocate: the lowest free number, if there is one.
Lowest(range, used) == {n \in range \ used : \A m \in range \ used : n <= m}

\* Mutant: the port is forgotten.
ReleaseDisplayOnly(b) == displays' = displays \ {display[b]} /\ UNCHANGED <<ports, display, port>>

\* Both numbers go back, as on every error path and at the end of kill.
ReleaseNumbers(b) ==
    /\ displays' = displays \ {display[b]}
    /\ ports' = ports \ {port[b]}
    /\ UNCHANGED <<display, port>>

\* remove_dir_all(profile_dir): its failure is ignored, or logged.
RemoveDir(b) ==
    \/ profile' = profile \ {b} /\ UNCHANGED stuck
    \/ profile' = profile /\ stuck' = stuck \cup {b}

-----------------------------------------------------------------------------
(* BrowserManager::spawn *)

AllocateDisplay(b) ==
    /\ pc[b] = "idle"
    /\ \/ \E n \in Lowest(Display, displays) :
             /\ displays' = displays \cup {n}
             /\ display' = [display EXCEPT ![b] = n]
             /\ Goto(b, "display")
       \/ /\ Lowest(Display, displays) = {}
          /\ Goto(b, "failed")
          /\ UNCHANGED <<displays, display>>
    /\ UNCHANGED <<ports, port, processes, script>>

\* Only a session with a login script needs a port; without one left the
\* display goes back.
AllocatePort(b) ==
    /\ pc[b] = "display"
    /\ \/ Goto(b, "prepare") /\ UNCHANGED numbers
       \/ \E n \in Lowest(Port, ports) :
             /\ ports' = ports \cup {n}
             /\ port' = [port EXCEPT ![b] = n]
             /\ Goto(b, "prepare")
             /\ UNCHANGED <<displays, display>>
       \/ /\ Lowest(Port, ports) = {}
          /\ displays' = displays \ {display[b]}
          /\ Goto(b, "failed")
          /\ UNCHANGED <<ports, display, port>>
    /\ UNCHANGED <<processes, script>>

\* The profile directory and Xvnc.  Without Xvnc the directory is removed again.
StartXvnc(b) ==
    /\ pc[b] = "prepare"
    /\ \/ /\ profile' = profile \cup {b}
          /\ xvnc' = xvnc \cup {b}
          /\ Goto(b, "wait")
          /\ UNCHANGED <<numbers, stuck>>
       \/ /\ ReleaseNumbers(b)
          /\ Goto(b, "failed")
          /\ \/ UNCHANGED files
             \/ profile' = profile \cup {b} /\ stuck' = stuck \cup {b}
          /\ UNCHANGED xvnc
    /\ UNCHANGED <<chromium, script>>

\* The VNC port answers and Chromium is started, or cannot be.
StartChromium(b) ==
    /\ pc[b] = "wait"
    /\ b \in xvnc
    /\ \/ chromium' = chromium \cup {b} /\ Goto(b, "settle")
       \/ Goto(b, "abort") /\ UNCHANGED chromium
    /\ UNCHANGED <<numbers, xvnc, files, script>>

\* No answer for 2 seconds.
XvncSilent(b) ==
    /\ pc[b] = "wait"
    /\ Goto(b, "abort")
    /\ UNCHANGED <<numbers, processes, script>>

\* After 500 ms, has Chromium exited already?  (If that cannot be told, the
\* session goes on.)
Settle(b) ==
    /\ pc[b] = "settle"
    /\ \/ b \notin chromium /\ Goto(b, "abort")
       \/ Goto(b, "up")
    /\ UNCHANGED <<numbers, processes, script>>

\* The common end of the late error paths: kill Xvnc and wait for it, then
\* release the numbers and remove the profile.
AbortKill(b) ==
    /\ pc[b] = "abort"
    /\ xvnc' = xvnc \ {b}
    /\ Goto(b, "unwind")
    /\ UNCHANGED <<numbers, chromium, files, script>>

UnwindKeepsProfile(b) == \* mutant
    /\ pc[b] = "unwind"
    /\ ReleaseNumbers(b)
    /\ Goto(b, "failed")
    /\ UNCHANGED <<processes, script>>

Unwind(b) ==
    /\ pc[b] = "unwind"
    /\ ReleaseNumbers(b)
    /\ RemoveDir(b)
    /\ Goto(b, "failed")
    /\ UNCHANGED <<xvnc, chromium, script>>

-----------------------------------------------------------------------------
(* The login script *)

\* create_session runs it once, when there is a port; its process may fail to
\* start.
run_login_script(b) ==
    /\ pc[b] = "up"
    /\ port[b] # 0
    /\ script[b] = "none"
    /\ \E started \in {"watched", "ended"} : script' = [script EXCEPT ![b] = started]
    /\ UNCHANGED <<numbers, pc, processes>>

\* The task gives up after login_script_timeout_secs.  It drops the Child,
\* which was made without kill_on_drop: the process runs on.
ScriptTimesOut(b) ==
    /\ script[b] = "watched"
    /\ script' = [script EXCEPT ![b] = "stray"]
    /\ UNCHANGED <<numbers, pc, processes>>

\* The script's process exits by itself.
ScriptExits(b) ==
    /\ script[b] \in {"watched", "stray"}
    /\ script' = [script EXCEPT ![b] = "ended"]
    /\ UNCHANGED <<numbers, pc, processes>>

-----------------------------------------------------------------------------
(* cleanup_browser and BrowserManager::kill *)

\* The session ends (or its guacd connection failed): the script's task is
\* aborted, which drops its Child as a timeout does.  browser_session becomes
\* None with the session locked, so this happens once.
cleanup_browser(b) ==
    /\ pc[b] = "up"
    /\ Goto(b, "kill")
    /\ script' = [script EXCEPT ![b] = IF @ = "watched" THEN "stray" ELSE @]
    /\ UNCHANGED <<numbers, processes>>

\* Child::kill waits for the process to be gone.
KillChromium(b) ==
    /\ pc[b] = "kill"
    /\ chromium' = chromium \ {b}
    /\ Goto(b, "killXvnc")
    /\ UNCHANGED <<numbers, xvnc, files, script>>

\* Mutant: only a signal is sent, nobody waits for the exit.
KillXvncNoWait(b) ==
    /\ pc[b] = "killXvnc"
    /\ Goto(b, "release")
    /\ UNCHANGED <<numbers, processes, script>>

KillXvnc(b) ==
    /\ pc[b] = "killXvnc"
    /\ xvnc' = xvnc \ {b}
    /\ Goto(b, "release")
    /\ UNCHANGED <<numbers, chromium, files, script>>

Release(b) ==
    /\ pc[b] = "release"
    /\ ReleaseNumbers(b)
    /\ Goto(b, "tidy")
    /\ UNCHANGED <<processes, script>>

\* A blocking task of its own removes the profile directory.
RemoveProfile(b) ==
    /\ pc[b] = "tidy"
    /\ RemoveDir(b)
    /\ Goto(b, "done")
    /\ UNCHANGED <<numbers, xvnc, chromium, script>>

\* The future of the HTTP handler that runs spawn, owns its result before the
\* session is in the map, or runs kill for a DELETE, is dropped at an await.
\* Neither Child has kill_on_drop and nothing releases the numbers.
Drop(b) ==
    /\ pc[b] \in {"wait", "settle", "abort", "up", "kill", "killXvnc"}
    /\ Goto(b, "lost")
    /\ UNCHANGED <<numbers, processes, script>>

\* A process dies by itself.
Dies(b) ==
    /\ \/ b \in xvnc /\ xvnc' = xvnc \ {b} /\ UNCHANGED chromium
       \/ b \in chromium /\ chromium' = chromium \ {b} /\ UNCHANGED xvnc
    /\ UNCHANGED <<numbers, pc, files, script>>

SpawnNext(b) ==
    \/ AllocateDisplay(b) \/ AllocatePort(b) \/ StartXvnc(b) \/ StartChromium(b)
    \/ XvncSilent(b) \/ Settle(b) \/ AbortKill(b) \/ Unwind(b)

KillNext(b) == KillChromium(b) \/ KillXvnc(b) \/ Release(b) \/ RemoveProfile(b)

BrowserNext == \E b \in Browser :
    \/ SpawnNext(b) \/ cleanup_browser(b) \/ KillNext(b)
    \/ run_login_script(b) \/ ScriptTimesOut(b) \/ ScriptExits(b)
    \/ Drop(b) \/ Dies(b)

BrowserSpec == BrowserInit /\ [][BrowserNext]_browserVars

-----------------------------------------------------------------------------
(* Properties *)

BrowserTypeOK ==
    /\ displays \subseteq Display /\ ports \subseteq Port
    /\ pc \in [Browser -> PC]
    /\ display \in [Browser -> Display \cup {0}]
    /\ port \in [Browser -> Port \cup {0}]
    /\ xvnc \subseteq Browser /\ chromium \subseteq Browser
    /\ profile \subseteq Browser /\ stuck \subseteq Browser
    /\ script \in [Browser -> Script]

\* The numbers marked in use are exactly those of the calls that still hold
\* them, through every error path of spawn and kill: none is lost but by a
\* dropped future, none is free while someone uses it.
Accounted ==
    /\ displays = {display[b] : b \in DisplayOwners}
    /\ ports = {port[b] : b \in PortOwners}

\* Two Xvnc processes never share a display: 5900 + display is where guacd
\* connects, so the loser of such a race would show its user the winner's
\* browser.  A number is therefore freed only after its Xvnc is gone.
DisplayNotShared == \A a, b \in xvnc : display[a] = display[b] => a = b

\* Two browsers never hold one CDP port.
PortNotShared == \A a, b \in PortOwners : port[a] = port[b] => a = b

\* A login script whose task still watches it has the port to itself.  One that
\* outlives its task does not: its port may be another browser's by then.
ScriptAtHome ==
    \A a \in Browser, b \in PortOwners : script[a] = "watched" /\ port[a] = port[b] => a = b

\* Together: no session is shown the browser of another one, no two browsers
\* listen on one CDP port, and no login script that is still waited for
\* (create_session, run_login_script) drives another session's browser.
NumbersNotShared == DisplayNotShared /\ PortNotShared /\ ScriptAtHome

\* A call that failed, or was killed, leaves no process behind, and its profile
\* directory (with its saved passwords) only if remove_dir_all failed.
NothingLeft ==
    \A b \in Browser : pc[b] \in {"failed", "done"} =>
        b \notin xvnc \cup chromium /\ (b \in profile => b \in stuck)
=============================================================================
