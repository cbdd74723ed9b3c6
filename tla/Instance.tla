------------------------------ MODULE Instance ------------------------------
(***************************************************************************)
(* The service process from its launch to its end (__main__.py): the       *)
(* kernel lock that keeps it single (pidfile.py), the port file by which   *)
(* a second launch and the Settings window find it (gui/settings/ipc.py),  *)
(* the tray's request for the window (gui/tray.py), and the pre-warmed     *)
(* Settings process that shows it (_SettingsLauncher, gui/settings/        *)
(* window.py and lockfile.py).                                             *)
(***************************************************************************)
EXTENDS Integers, Sequences

CONSTANTS
    Launches,   \* the processes started as `sayzo-agent service`, in this order
    Kids,       \* bound: Settings processes spawned, in this order
    MaxDeaths   \* bound: deaths of services and of Settings processes

ASSUME InstanceAssumption ==
    /\ Launches \subseteq Nat \ {0} /\ Kids \subseteq Nat \ {0}
    /\ MaxDeaths \in Nat

VARIABLES
    posix,      \* the lock is a flock on the pid file, or a mutex of Windows
    at,         \* of a launch: how far its life is
    step,       \* of a launch that stops: the next step of its shutdown
    holders,    \* launches with a handle of the mutex, or with the flock
    fd,         \* posix: the inode of the pid file a launch has open
    inode,      \* posix: the inode the path names, 0 when it was unlinked
    listening,  \* launches whose IPC server accepts connections
    port,       \* ipc.port: the launch whose port it holds, 0 when absent
    clicked,    \* settings_event
    proc,       \* _SettingsLauncher._proc: a Settings process, 0 for None
    kid,        \* of a Settings process: unborn, spawned, running, over
    parent,     \* the launch that spawned it
    toShow,     \* Settings processes with an unread show in their input
    owed,       \* history: launches with an unanswered request for the window
    unheard,    \* history: a command or a spawn for that request was lost
    deaths

lockVars == <<posix, holders, fd, inode>>
ipcVars == <<listening, port>>
askVars == <<clicked, owed, unheard>>
kidVars == <<proc, kid, parent, toShow>>
instanceVars == <<at, step, lockVars, ipcVars, askVars, kidVars, deaths>>

(* The lock is released by a step of the shutdown.                          *)
ShutdownLockFirst == <<"settings", "unlock", "unlink", "ipc", "port">>
Shutdown == <<"settings", "ipc", "port", "unlock", "unlink">>
Starting == {"locked", "booting", "bound", "ported"}
Primary(p) == \/ at[p] \in Starting \cup {"serving"}
              \/ at[p] = "stopping" /\ \E i \in step[p] .. 5 : Shutdown[i] = "unlock"
Alive(p) == at[p] \notin {"unborn", "over"}
Living(k) == kid[k] \in {"spawned", "running"}

InstanceTypeOK ==
    /\ at \in [Launches -> Starting \cup {"unborn", "opened", "beaten", "turned", "serving",
                                          "stopping", "over"}]
    /\ step \in [Launches -> 1 .. 6]
    /\ holders \cup listening \cup clicked \cup owed \cup unheard \subseteq Launches
    /\ port \in Launches \cup {0}
    /\ proc \in [Launches -> Kids \cup {0}]
    /\ kid \in [Kids -> {"unborn", "spawned", "running", "over"}]
    /\ \A k \in Kids : Living(k) => parent[k] \in Launches

InstanceInit ==
    /\ posix \in BOOLEAN
    /\ at = [p \in Launches |-> "unborn"] /\ step = [p \in Launches |-> 1]
    /\ fd = [p \in Launches |-> 0] /\ proc = [p \in Launches |-> 0]
    /\ holders = {} /\ inode = 0 /\ listening = {} /\ port = 0
    /\ clicked = {} /\ owed = {} /\ unheard = {} /\ toShow = {} /\ deaths = 0
    /\ kid = [k \in Kids |-> "unborn"] /\ parent = [k \in Kids |-> 0]

-----------------------------------------------------------------------------
(* CreateMutexW always yields a handle; whoever finds the object existing    *)
(* has lost, and its handle keeps the object alive until it is closed.       *)
IsNext(p) == at[p] = "unborn" /\ \A q \in Launches : q < p => at[q] # "unborn"
AnswersIPC == listening # {}
Exists == holders # {}

CreatesMutex(p) ==
    /\ ~posix /\ IsNext(p)
    /\ holders' = holders \cup {p}
    /\ at' = [at EXCEPT ![p] = IF Exists THEN "beaten" ELSE "locked"]
    /\ UNCHANGED <<posix, step, fd, inode, ipcVars, askVars, kidVars, deaths>>

ClosesHandle(p) ==
    /\ at[p] = "beaten"
    /\ holders' = holders \ {p}
    /\ at' = [at EXCEPT ![p] = "turned"]
    /\ UNCHANGED <<posix, step, fd, inode, ipcVars, askVars, kidVars, deaths>>

(* os.open with O_CREAT; inode p is the one that p makes, -p the one that    *)
(* p's write_text makes when the path was unlinked before its flock.         *)
OpensPidFile(p) ==
    /\ posix /\ IsNext(p)
    /\ at' = [at EXCEPT ![p] = "opened"]
    /\ inode' = IF inode = 0 THEN p ELSE inode
    /\ fd' = [fd EXCEPT ![p] = inode']
    /\ UNCHANGED <<posix, step, holders, ipcVars, askVars, kidVars, deaths>>

Flocks(p) ==
    /\ at[p] = "opened"
    /\ IF \E q \in holders : fd[q] = fd[p]
         THEN /\ at' = [at EXCEPT ![p] = "turned"]
              /\ fd' = [fd EXCEPT ![p] = 0]
              /\ UNCHANGED <<holders, inode>>
         ELSE /\ at' = [at EXCEPT ![p] = "locked"]
              /\ holders' = holders \cup {p}
              /\ inode' = IF inode = 0 THEN -p ELSE inode
              /\ UNCHANGED fd
    /\ UNCHANGED <<posix, step, ipcVars, askVars, kidVars, deaths>>

(* A request for the window: the tray's menu, or OPEN_SETTINGS.              *)
Requested(p) == /\ clicked' = clicked \cup {p}
                /\ owed' = owed \cup {p}
                /\ unheard' = unheard \ {p}

(* The loser asks the primary for its window; call_quiet lets it go when the *)
(* port file is missing or nobody listens there.                             *)
HandsOver(p) ==
    /\ at[p] = "turned"
    /\ at' = [at EXCEPT ![p] = "over"]
    /\ IF port \in listening THEN Requested(port) ELSE UNCHANGED askVars
    /\ UNCHANGED <<step, lockVars, ipcVars, kidVars, deaths>>

-----------------------------------------------------------------------------
(* The wait for an installer's lock is bounded; then the tray is painted.    *)
Boots(p) ==
    /\ at[p] = "locked"
    /\ at' = [at EXCEPT ![p] = "booting"]
    /\ UNCHANGED <<step, lockVars, ipcVars, askVars, kidVars, deaths>>

(* IPCServer.start: bound first, the port written after; when the server     *)
(* fails to start the agent goes on without one.                             *)
Binds(p) ==
    /\ at[p] = "booting"
    /\ \/ at' = [at EXCEPT ![p] = "bound"] /\ listening' = listening \cup {p}
       \/ at' = [at EXCEPT ![p] = "ported"] /\ UNCHANGED listening
    /\ UNCHANGED <<step, lockVars, port, askVars, kidVars, deaths>>

WritesPort(p) ==
    /\ at[p] = "bound"
    /\ at' = [at EXCEPT ![p] = "ported"]
    /\ port' = p
    /\ UNCHANGED <<step, lockVars, listening, askVars, kidVars, deaths>>

(* _SettingsLauncher.start, with the command written next; it may fail.      *)
Spawned(p, command) ==
    \/ \E k \in Kids :
         /\ kid[k] = "unborn" /\ \A j \in Kids : j < k => kid[j] # "unborn"
         /\ kid' = [kid EXCEPT ![k] = "spawned"]
         /\ parent' = [parent EXCEPT ![k] = p]
         /\ toShow' = toShow \cup {k : c \in command}
         /\ proc' = [proc EXCEPT ![p] = k]
         /\ UNCHANGED unheard
    \/ /\ proc' = [proc EXCEPT ![p] = 0]
       /\ unheard' = unheard \cup {p : c \in command}
       /\ UNCHANGED <<kid, parent, toShow>>

Serves(p) ==
    /\ at[p] = "ported"
    /\ at' = [at EXCEPT ![p] = "serving"]
    /\ Spawned(p, {})
    /\ UNCHANGED <<step, lockVars, ipcVars, clicked, owed, deaths>>

TrayClicked(p) ==
    /\ at[p] \in {"booting", "serving", "stopping"}
    /\ Requested(p)
    /\ UNCHANGED <<at, step, lockVars, ipcVars, kidVars, deaths>>

-----------------------------------------------------------------------------
(* A quit from the tray, from Settings or from the system.                   *)
Stopped(p) ==
    /\ at[p] = "serving"
    /\ at' = [at EXCEPT ![p] = "stopping"]
    /\ UNCHANGED <<step, lockVars, ipcVars, askVars, kidVars, deaths>>

(* A round of _tray_bridge and the show it starts: a Settings process that   *)
(* died is replaced.  The round that was asleep when the agent was stopped   *)
(* still runs, though the Settings process may have been told to quit.       *)
OnlyIfNone(p) == proc[p] = 0
Replaces(p) == proc[p] = 0 \/ ~Living(proc[p])

BridgeShows(p) ==
    /\ at[p] \in {"serving", "stopping"} /\ p \in clicked
    /\ clicked' = clicked \ {p}
    /\ IF Replaces(p) THEN Spawned(p, {"show"})
       ELSE /\ toShow' = toShow \cup {k \in {proc[p]} : Living(k)}
            /\ UNCHANGED <<proc, kid, parent, unheard>>
    /\ UNCHANGED <<at, step, lockVars, ipcVars, owed, deaths>>

(* The steps of the shutdown, in the order of `finally`.                     *)
StopStep(p, s) == /\ at[p] = "stopping" /\ step[p] <= 5 /\ Shutdown[step[p]] = s
                  /\ step' = [step EXCEPT ![p] = @ + 1]

(* quit: the process is told, waited for, terminated, killed.                *)
QuitsSettings(p) ==
    /\ StopStep(p, "settings")
    /\ kid' = [k \in Kids |-> IF k = proc[p] /\ Living(k) THEN "over" ELSE kid[k]]
    /\ proc' = [proc EXCEPT ![p] = 0]
    /\ UNCHANGED <<at, parent, toShow, lockVars, ipcVars, askVars, deaths>>

StopsServer(p) ==
    /\ StopStep(p, "ipc")
    /\ listening' = listening \ {p}
    /\ UNCHANGED <<at, port, lockVars, askVars, kidVars, deaths>>

UnlinksPort(p) ==
    /\ StopStep(p, "port")
    /\ port' = 0
    /\ UNCHANGED <<at, listening, lockVars, askVars, kidVars, deaths>>

(* remove_pid: the lock is released, and then the path is unlinked, whatever *)
(* file it names by now.                                                     *)
Unlocks(p) ==
    /\ StopStep(p, "unlock")
    /\ holders' = holders \ {p}
    /\ fd' = [fd EXCEPT ![p] = 0]
    /\ UNCHANGED <<posix, at, inode, ipcVars, askVars, kidVars, deaths>>

UnlinksPidFile(p) ==
    /\ StopStep(p, "unlink")
    /\ inode' = 0
    /\ UNCHANGED <<posix, at, holders, fd, ipcVars, askVars, kidVars, deaths>>

(* The process is gone; the kernel closes what it had open.                  *)
Leaves(p) ==
    /\ at' = [at EXCEPT ![p] = "over"] /\ step' = [step EXCEPT ![p] = 1]
    /\ holders' = holders \ {p} /\ fd' = [fd EXCEPT ![p] = 0]
    /\ listening' = listening \ {p}
    /\ clicked' = clicked \ {p} /\ owed' = owed \ {p} /\ unheard' = unheard \ {p}
    /\ proc' = [proc EXCEPT ![p] = 0]
    /\ UNCHANGED <<posix, inode, port, kid, parent, toShow>>

Ends(p) == at[p] = "stopping" /\ step[p] = 6 /\ Leaves(p) /\ UNCHANGED deaths
Dies(p) == Alive(p) /\ deaths < MaxDeaths /\ Leaves(p) /\ deaths' = deaths + 1

-----------------------------------------------------------------------------
(* A Settings process ends, and what it had not read with it.                *)
KidEnds(k) ==
    /\ kid' = [kid EXCEPT ![k] = "over"]
    /\ toShow' = toShow \ {k}
    /\ unheard' = unheard \cup {p \in Launches : Alive(p) /\ parent[k] = p /\ k \in toShow}
    /\ UNCHANGED <<at, step, proc, parent, clicked, owed, lockVars, ipcVars>>

(* SettingsLock: one that finds another alive, perhaps of a service that is  *)
(* gone, exits at once.                                                      *)
Another == \E j \in Kids : kid[j] = "running"

KidStarts(k) ==
    /\ kid[k] = "spawned" /\ ~Another
    /\ kid' = [kid EXCEPT ![k] = "running"]
    /\ UNCHANGED <<at, step, proc, parent, toShow, lockVars, ipcVars, askVars, deaths>>

KidFindsAnother(k) == kid[k] = "spawned" /\ Another /\ KidEnds(k) /\ UNCHANGED deaths

(* show waits, for a bounded time, until the page can be called; the user's  *)
(* X hides the window and changes nothing here.                              *)
KidShows(k) ==
    /\ kid[k] = "running" /\ k \in toShow
    /\ toShow' = toShow \ {k}
    /\ owed' = owed \ {parent[k]}
    /\ UNCHANGED <<at, step, clicked, unheard, proc, kid, parent, lockVars, ipcVars, deaths>>

(* The end of its input counts as quit, once the commands before it are done. *)
NeverEnds(k) == FALSE
InputEnded(k) == ~Alive(parent[k])

KidQuits(k) ==
    /\ kid[k] = "running" /\ k \notin toShow /\ InputEnded(k)
    /\ KidEnds(k) /\ UNCHANGED deaths

KidDies(k) == Living(k) /\ deaths < MaxDeaths /\ KidEnds(k) /\ deaths' = deaths + 1

-----------------------------------------------------------------------------
Bridge(p) == Boots(p) \/ Binds(p) \/ WritesPort(p) \/ Serves(p) \/ BridgeShows(p)
StopsOn(p) == QuitsSettings(p) \/ StopsServer(p) \/ UnlinksPort(p) \/ Unlocks(p)
              \/ UnlinksPidFile(p) \/ Ends(p)
KidRuns(k) == KidStarts(k) \/ KidFindsAnother(k) \/ KidShows(k) \/ KidQuits(k)

InstanceNext ==
    \/ \E p \in Launches :
         \/ CreatesMutex(p) \/ ClosesHandle(p) \/ OpensPidFile(p) \/ Flocks(p) \/ HandsOver(p)
         \/ Bridge(p) \/ TrayClicked(p) \/ Stopped(p) \/ StopsOn(p) \/ Dies(p)
    \/ \E k \in Kids : KidRuns(k) \/ KidDies(k)

-----------------------------------------------------------------------------
(* With the mutex at most one service runs from its start to the release of  *)
(* the lock, whatever the order in which launches, ends and deaths come.      *)
Single == \A p, q \in Launches : Primary(p) /\ Primary(q) => p = q
OnePrimary == ~posix => Single

(* The same of the flock, which pidfile.py:234 says of both: refuted with     *)
(* three launches, because the path is unlinked after the lock is released.    *)
OneFlockPrimary == posix => Single

(* A service that has an IPC server and has written its port is the one the  *)
(* port file names: neither a predecessor that is still ending nor a stale   *)
(* file hides it.                                                            *)
PortNamesPrimary ==
    \A p \in listening : at[p] \in {"ported", "serving"} => port = p

(* A request for the Settings window, from the tray or a second launch, is    *)
(* answered by the window, unless the service stops or a process of the       *)
(* window took the request with it.                                           *)
ClickIsAnswered ==
    \A p \in Launches : p \in owed ~> p \notin owed \/ p \in unheard \/ at[p] = "stopping"

(* No Settings process outlives its service for ever, not even one that a     *)
(* late click made the stopping service spawn again, or that was told nothing. *)
OrphansEnd ==
    \A k \in Kids : Living(k) /\ ~Alive(parent[k]) ~> ~Living(k)
=============================================================================
