--------------------------- MODULE ArmController ---------------------------
(***************************************************************************)
(* The armed-only capture state machine: sayzo_agent/arm/controller.py     *)
(* with the parts of the conversation detector and of the capture streams  *)
(* its transitions touch.                                                  *)
(*                                                                         *)
(* Everything runs on one asyncio loop, so the code between two awaits is  *)
(* one atomic step.  A coroutine is a process; its record says at which    *)
(* await it is suspended.  What the user, the meeting app, the audio       *)
(* helper and the clock do is nondeterministic: a timer may fire at any    *)
(* time.                                                                   *)
(***************************************************************************)
EXTENDS Naturals, FiniteSets

CONSTANTS
  Tasks,        \* slots for the short-lived coroutines (tray, hotkey, pill, ...)
  Watcher,      \* the whitelist watcher coroutine
  Apps,         \* whitelisted meeting apps (app_key)
  MaxArms,      \* bound on the number of arms explored
  Suspending,   \* TRUE: SystemCapture.start/stop await (system_mac.py);
                \* FALSE: they do not (system_win.py, endpoint scope)
  ConfirmStop,  \* cfg.confirm_hotkey_stop
  None          \* no task

ArmIds == 1..MaxArms
CheckinTask(n) == <<"checkin", n>>
EndedTask(n)   == <<"ended", n>>
Checkins == {CheckinTask(n) : n \in ArmIds}
Endeds   == {EndedTask(n) : n \in ArmIds}
Procs    == Tasks \cup {Watcher} \cup Checkins \cup Endeds

ASSUME MaxArmsAssumption == MaxArms \in Nat
ASSUME FlagAssumption    == Suspending \in BOOLEAN /\ ConfirmStop \in BOOLEAN
ASSUME NamesAssumption ==
  /\ Watcher \notin Tasks /\ None \notin Tasks \cup {Watcher}
  /\ (Checkins \cup Endeds) \cap (Tasks \cup {Watcher, None}) = {}
  /\ Apps \cap {"hotkey", "none", "arm", "disarm", "kept"} = {}

Reasons == Apps \cup {"hotkey", "none"}  \* an app stands for a whitelist arm
Jobs    == {"idle", "tray", "hotkey", "pill", "pending", "shutdown", "watch", "checkin", "ended"}
Answers == {"yes", "no", "timeout"}

\* free: not running; start: scheduled, not begun; sleep: asyncio.sleep;
\* snap: awaiting a mic-holder snapshot; ask: awaiting a consent toast;
\* spawn, probe: inside sys.start; stop, rollback: inside the sys.stop of
\* _disarm_internal, of the failure path of _arm_internal; teardown: inside
\* stop(), after its disarm.
Points == {"free", "start", "sleep", "snap", "ask", "spawn", "probe", "stop", "rollback", "teardown"}

Coroutine == [at   : Points,
              job  : Jobs,
              want : Reasons \cup {"arm", "disarm", "kept"}, \* its question, or arm reason
              mine : 0..MaxArms,                \* its arm, or the helper it waits for
              ans  : Answers \cup {"none"}]     \* the answer its toast already has

VARIABLES
  state, reason,    \* ArmController.state (with armed_event), _reason
  arms,             \* arms begun so far: the identity of the current one
  det, sess,        \* detector state; the arm that opened its session, 0 if none
  voiced,           \* the session's silence clock has been started
  micRef, mics,     \* MicCapture._stream; every open input stream
  tapRef, taps,     \* SystemCapture._proc (_thread); every live helper
  termed,           \* the live helpers sent SIGTERM
  pill,             \* a capture pill is up
  checkin, meeting, \* _checkin_task, _meeting_ended_task
  hkFut,            \* the task whose future is _hotkey_confirmation_yes
  trayBusy,         \* _tray_transition_in_flight
  stopped,          \* arm.stop(): not called, _stop set, listeners gone
  co                \* the coroutines

armVars  == <<state, reason, arms>>
sessVars == <<det, sess, voiced>>
capVars  == <<micRef, mics, tapRef, taps, termed>>
refVars  == <<pill, checkin, meeting>>
vars == <<armVars, sessVars, capVars, refVars, hkFut, trayBusy, stopped, co>>

TypeOK ==
  /\ state \in {"disarmed", "armed"} /\ reason \in Reasons
  /\ arms \in 0..MaxArms
  /\ det \in {"idle", "open", "pending"} /\ sess \in 0..MaxArms /\ voiced \in BOOLEAN
  /\ micRef \in 0..MaxArms /\ mics \subseteq ArmIds
  /\ tapRef \in 0..MaxArms /\ taps \subseteq ArmIds /\ termed \subseteq taps
  /\ pill \in BOOLEAN
  /\ checkin \in Checkins \cup {None} /\ meeting \in Endeds \cup {None}
  /\ hkFut \in Tasks \cup {None}
  /\ trayBusy \in BOOLEAN /\ stopped \in {"no", "stopping", "down"}
  /\ co \in [Procs -> Coroutine]

Resting == [at |-> "free", job |-> "idle", want |-> "none", mine |-> 0, ans |-> "none"]

Init ==
  /\ state = "disarmed" /\ reason = "none" /\ arms = 0
  /\ det = "idle" /\ sess = 0 /\ voiced = FALSE
  /\ micRef = 0 /\ mics = {} /\ tapRef = 0 /\ taps = {} /\ termed = {}
  /\ pill = FALSE /\ checkin = None /\ meeting = None
  /\ hkFut = None /\ trayBusy = FALSE /\ stopped = "no"
  /\ co = [p \in Procs |-> IF p = Watcher THEN [Resting EXCEPT !.at = "sleep", !.job = "watch"]
                                          ELSE Resting]

----------------------------------------------------------------------------
(* Coroutine bookkeeping *)

Free(t) == t \in Tasks /\ co[t].at = "free"
Is(t, at, job) == co[t].at = at /\ co[t].job = job

Suspended(at, job, want, mine) == [at |-> at, job |-> job, want |-> want, mine |-> mine, ans |-> "none"]
Go(t, c) == co' = [co EXCEPT ![t] = c]

\* The coroutine of job j once the _arm_internal or _disarm_internal it
\* awaited has returned: the watcher polls on, stop() goes on, others end.
Returned(j) == CASE j = "watch"    -> Suspended("sleep", j, "none", 0)
                 [] j = "shutdown" -> Suspended("teardown", j, "none", 0)
                 [] OTHER          -> Resting
Return(t) == Go(t, Returned(co[t].job))

\* Mutant: the flag is cleared at the transition's first await.
TrayFlagEarly(j, suspends) == trayBusy' = IF j = "tray" THEN FALSE ELSE trayBusy

\* The tray flag is cleared in a finally, whatever the transition did.
TrayFlag(j, suspends) == trayBusy' = IF j = "tray" THEN suspends ELSE trayBusy

----------------------------------------------------------------------------
(* Session and streams *)

\* commit_close() of whatever session is held: its buffers are handed over.
CommitClose == det' = "idle" /\ sess' = 0 /\ voiced' = FALSE

\* revert_close(): only from PENDING_CLOSE; both silence clocks restart.
RevertClose ==
  IF det = "pending" THEN det' = "open" /\ voiced' = TRUE /\ UNCHANGED sess
                     ELSE UNCHANGED sessVars

\* mic.stop() of stream ref among the streams open.
StopMic(ref, open) == micRef' = 0 /\ mics' = open \ {ref}

\* sys.stop() up to its first await: the helper is signalled and waited for.
\* Without an await, or with nothing running, the reference is dropped at once.
StopAwaits == Suspending /\ tapRef \in taps
StopSys ==
  IF StopAwaits THEN termed' = termed \cup {tapRef} /\ UNCHANGED <<tapRef, taps>>
                ELSE tapRef' = 0 /\ taps' = taps \ {tapRef} /\ termed' = termed \ {tapRef}

----------------------------------------------------------------------------
(* _disarm_internal, called by coroutine t for job j *)

\* Mutant: the meeting-ended task is not cancelled.
DisarmKeepsWatching(t, j) ==
  IF state = "disarmed"
  THEN /\ Go(t, Returned(j)) /\ TrayFlag(j, FALSE)
       /\ UNCHANGED <<armVars, capVars, refVars>>
  ELSE /\ state' = "disarmed" /\ reason' = "none" /\ UNCHANGED arms
       /\ checkin' = None /\ meeting' = None /\ pill' = FALSE
       /\ StopMic(micRef, mics) /\ StopSys
       /\ co' = [p \in Procs |-> IF p = t THEN Returned(j)
                                 ELSE IF p = checkin THEN Resting ELSE co[p]]
       /\ TrayFlag(j, FALSE)

\* t may be one of the two tasks it cancels: its sys.stop() then ends at the
\* first await with a CancelledError that no handler there catches.
DisarmInternal(t, j) ==
  LET cancelled == {checkin, meeting} \ {None}
      waits     == StopAwaits /\ t \notin cancelled
  IN IF state = "disarmed"
     THEN /\ Go(t, Returned(j)) /\ TrayFlag(j, FALSE)
          /\ UNCHANGED <<armVars, capVars, refVars>>
     ELSE /\ state' = "disarmed" /\ reason' = "none" /\ UNCHANGED arms
          /\ checkin' = None /\ meeting' = None
          /\ pill' = FALSE
          /\ StopMic(micRef, mics) /\ StopSys
          /\ co' = [p \in Procs |->
                      IF p = t THEN IF waits THEN Suspended("stop", j, "none", tapRef) ELSE Returned(j)
                      ELSE IF p \in cancelled THEN Resting ELSE co[p]]
          /\ TrayFlag(j, waits)

\* The whole call: a session held is flushed and committed first.
Disarm(t, j) ==
  /\ DisarmInternal(t, j)
  /\ IF state = "armed" THEN CommitClose ELSE UNCHANGED sessVars

----------------------------------------------------------------------------
(* _arm_internal, called by coroutine t for job j with reason r *)

\* Streams are up (arm n): pill, check-in task, meeting-ended task.  The
\* state is not read again here.  show_recording_indicator decides the pill.
ArmStarted(t, j, n, r) ==
  LET started == {CheckinTask(n)} \cup (IF r \in Apps THEN {EndedTask(n)} ELSE {})
  IN
  /\ \E show \in BOOLEAN : pill' = (pill \/ show)
  /\ checkin' = CheckinTask(n)
  /\ meeting' = IF r \in Apps THEN EndedTask(n) ELSE meeting
  /\ co' = [p \in Procs |->
              IF p = t THEN Returned(j)
              ELSE IF p \in started THEN Suspended("sleep", p[1], "none", n) ELSE co[p]]
  /\ TrayFlag(j, FALSE)

\* Mutant: a failed start does not stop the microphone.
RollbackKeepsMic(t, j, ref, open, st, rs) ==
  /\ micRef' = ref /\ mics' = open /\ StopSys
  /\ Go(t, IF StopAwaits THEN Suspended("rollback", j, "none", tapRef) ELSE Returned(j))
  /\ state' = IF StopAwaits THEN st ELSE "disarmed"
  /\ reason' = IF StopAwaits THEN rs ELSE "none"
  /\ TrayFlag(j, StopAwaits)
  /\ UNCHANGED refVars

\* A stream failed to open; the mic was left as ref among the open ones, the
\* state as st and rs.  The flip is undone only after both stops returned.
Rollback(t, j, ref, open, st, rs) ==
  /\ StopMic(ref, open) /\ StopSys
  /\ Go(t, IF StopAwaits THEN Suspended("rollback", j, "none", tapRef) ELSE Returned(j))
  /\ state' = IF StopAwaits THEN st ELSE "disarmed"
  /\ reason' = IF StopAwaits THEN rs ELSE "none"
  /\ TrayFlag(j, StopAwaits)
  /\ UNCHANGED refVars

\* Mutant: the session is labelled with the next arm.
OpenSessionAhead(n) ==
  IF det = "idle" THEN det' = "open" /\ sess' = n + 1 /\ voiced' = FALSE
                  ELSE UNCHANGED sessVars

\* reset_per_source_streams() raises unless IDLE, and then the open is skipped.
OpenSession(n) ==
  IF det = "idle" THEN det' = "open" /\ sess' = n /\ voiced' = FALSE
                  ELSE UNCHANGED sessVars

ArmInternal(t, j, r) ==
  LET n == arms + 1 IN
  \/ \* already ARMED, or refused by the account gate
     /\ Go(t, Returned(j)) /\ TrayFlag(j, FALSE)
     /\ UNCHANGED <<armVars, sessVars, capVars, refVars>>
  \/ /\ state = "disarmed" /\ arms < MaxArms
     /\ OpenSession(n) /\ arms' = n
     /\ \/ \* mic.start() failed, or sys.start() did before any await
           \E opened \in BOOLEAN :
             Rollback(t, j, IF opened THEN n ELSE micRef,
                      IF opened THEN mics \cup {n} ELSE mics, "armed", r)
        \/ /\ state' = "armed" /\ reason' = r
           /\ micRef' = n /\ mics' = mics \cup {n}
           /\ IF Suspending
              THEN /\ Go(t, Suspended("spawn", j, r, n)) /\ TrayFlag(j, TRUE)
                   /\ UNCHANGED <<tapRef, taps, termed, refVars>>
              ELSE /\ tapRef' = n /\ taps' = taps \cup {n} /\ UNCHANGED termed
                   /\ ArmStarted(t, j, n, r)

\* The helper process exists, or could not be created.
SysSpawned(t) ==
  LET n == co[t].mine IN
  /\ co[t].at = "spawn"
  /\ \/ /\ tapRef' = n /\ taps' = taps \cup {n}
        /\ Go(t, [co[t] EXCEPT !.at = "probe"])
        /\ UNCHANGED <<state, reason, micRef, mics, termed, refVars, trayBusy>>
     \/ Rollback(t, co[t].job, micRef, mics, state, reason)
  /\ UNCHANGED <<arms, sessVars, hkFut, stopped>>

\* Two seconds later: still alive means started; an early exit raises.
SysProbed(t) ==
  /\ co[t].at = "probe"
  /\ IF co[t].mine \in taps
     THEN /\ ArmStarted(t, co[t].job, co[t].mine, co[t].want)
          /\ UNCHANGED <<state, reason, capVars>>
     ELSE Rollback(t, co[t].job, micRef, mics, state, reason)
  /\ UNCHANGED <<arms, sessVars, hkFut, stopped>>

----------------------------------------------------------------------------
(* sys.stop() after its await *)

\* It returns to its caller; _arm_internal then undoes the state flip.
StopReturns(t) ==
  /\ IF co[t].at = "rollback" THEN state' = "disarmed" /\ reason' = "none"
                              ELSE UNCHANGED <<state, reason>>
  /\ Return(t) /\ TrayFlag(co[t].job, FALSE)

\* The awaited helper is gone: the reference is dropped, whatever it is by now.
SysStopped(t) ==
  /\ co[t].at \in {"stop", "rollback"} /\ co[t].mine \notin taps
  /\ tapRef' = 0
  /\ StopReturns(t)
  /\ UNCHANGED <<arms, sessVars, micRef, mics, taps, termed, refVars, hkFut, stopped>>

\* Mutant: at the timeout it waits again instead of killing.
SysStopWaitsAgain(t) ==
  /\ co[t].at \in {"stop", "rollback"} /\ co[t].mine \in taps
  /\ UNCHANGED vars

\* SIGTERM did not take within two seconds: kill, then wait for, whatever the
\* reference is by now; with none left the call fails and nothing is dropped.
SysStopTimeout(t) ==
  /\ co[t].at \in {"stop", "rollback"} /\ co[t].mine \in taps
  /\ \/ /\ tapRef # 0
        /\ taps' = taps \ {tapRef} /\ termed' = termed \ {tapRef}
        /\ Go(t, [co[t] EXCEPT !.mine = tapRef])
        /\ UNCHANGED <<state, reason, trayBusy>>
     \/ /\ tapRef = 0
        /\ StopReturns(t)
        /\ UNCHANGED <<taps, termed>>
  /\ UNCHANGED <<arms, sessVars, micRef, mics, tapRef, refVars, hkFut, stopped>>

\* A helper ends: after SIGTERM, refused by the OS, or crashed.
TapExits ==
  /\ \E p \in taps : taps' = taps \ {p} /\ termed' = termed \ {p}
  /\ UNCHANGED <<armVars, sessVars, micRef, mics, tapRef, refVars, hkFut, trayBusy, stopped, co>>

----------------------------------------------------------------------------
(* Audio: voiced frames while armed; joint silence *)

\* A VAD segment of an open stream: starts or restarts the silence clock and
\* takes a pending close back.  (on_segment would open a session when IDLE;
\* the detector is never IDLE here, see ArmedImpliesSession.)
Voice ==
  /\ state = "armed" /\ mics \cup taps # {} /\ det # "idle" /\ stopped = "no"
  /\ det' = "open" /\ voiced' = TRUE
  /\ UNCHANGED <<armVars, sess, capVars, refVars, hkFut, trayBusy, stopped, co>>

\* tick(): silence past joint_silence_close_secs; _on_pending_close schedules
\* its handler.  The ticker does not look at the arm state.
Tick(t) ==
  /\ det = "open" /\ voiced /\ stopped = "no" /\ Free(t)
  /\ det' = "pending"
  /\ Go(t, Suspended("start", "pending", "none", 0))
  /\ UNCHANGED <<armVars, sess, voiced, capVars, refVars, hkFut, trayBusy, stopped>>

----------------------------------------------------------------------------
(* Toasts *)

\* Coroutine t has answer a: one its toast already has, else the user's or,
\* at the toast's timeout, "timeout".
Gets(t, a) == co[t].at = "ask" /\ a \in Answers /\ co[t].ans \in {"none", a}

\* default_on_timeout of the toast each flow shows.
Default(j) == CASE j = "watch" -> "timeout" [] j = "hotkey" -> "no" [] OTHER -> "yes"

\* A superseding toast dismisses every other one, answered by its own default.
Superseded(c) == IF c.at = "ask" /\ c.ans = "none" THEN [c EXCEPT !.ans = Default(c.job)] ELSE c

----------------------------------------------------------------------------
(* arm_from_tray, _on_pill_stop_clicked *)

TrayClick(t) ==
  /\ ~trayBusy /\ Free(t)
  /\ IF state = "armed" THEN Disarm(t, "tray") ELSE ArmInternal(t, "tray", "hotkey")
  /\ UNCHANGED <<hkFut, stopped>>

PillStopClicked(t) ==
  /\ pill /\ state = "armed" /\ Free(t)
  /\ Go(t, Suspended("start", "pill", "none", 0))
  /\ UNCHANGED <<armVars, sessVars, capVars, refVars, hkFut, trayBusy, stopped>>

PillStop(t) ==
  /\ Is(t, "start", "pill")
  /\ Disarm(t, "pill")
  /\ UNCHANGED <<hkFut, stopped>>

----------------------------------------------------------------------------
(* Hotkey *)

\* _on_hotkey_pressed: a press while a confirmation is up is its "Yes" ...
HotkeyDoubleTap ==
  /\ stopped # "down" /\ hkFut # None /\ co[hkFut].ans = "none"
  /\ Go(hkFut, [co[hkFut] EXCEPT !.ans = "yes"])
  /\ UNCHANGED <<armVars, sessVars, capVars, refVars, hkFut, trayBusy, stopped>>

\* ... else a confirmation is shown, superseding every other toast ...
HotkeyAsks(t) ==
  LET question == IF state = "disarmed" THEN "arm" ELSE "disarm" IN
  /\ stopped # "down" /\ (hkFut # None => co[hkFut].ans # "none") /\ Free(t)
  /\ state = "disarmed" \/ ConfirmStop
  /\ hkFut' = t
  /\ co' = [p \in Procs |-> IF p = t THEN Suspended("ask", "hotkey", question, 0)
                                     ELSE Superseded(co[p])]
  /\ UNCHANGED <<armVars, sessVars, capVars, refVars, trayBusy, stopped>>

\* ... else, with no confirmation wanted, it disarms.
HotkeyStops(t) ==
  /\ stopped # "down" /\ (hkFut # None => co[hkFut].ans # "none") /\ Free(t)
  /\ state = "armed" /\ ~ConfirmStop
  /\ Disarm(t, "hotkey")
  /\ UNCHANGED <<hkFut, stopped>>

\* Mutant: the future is cleared on a "Yes" only.
HotkeyKeepsFut(t) ==
  /\ co[t].job = "hotkey"
  /\ \/ Gets(t, "yes") /\ co[t].want = "arm" /\ hkFut' = None /\ ArmInternal(t, "hotkey", "hotkey")
     \/ Gets(t, "yes") /\ co[t].want = "disarm" /\ hkFut' = None /\ Disarm(t, "hotkey")
     \/ /\ \E a \in {"no", "timeout"} : Gets(t, a)
        /\ Return(t)
        /\ UNCHANGED <<hkFut, armVars, sessVars, capVars, refVars, trayBusy>>
  /\ UNCHANGED stopped

\* _race_confirm_with_double_tap returns; its caller acts on the answer.
HotkeyConfirmed(t) ==
  /\ co[t].job = "hotkey" /\ hkFut' = None
  /\ \/ Gets(t, "yes") /\ co[t].want = "arm" /\ ArmInternal(t, "hotkey", "hotkey")
     \/ Gets(t, "yes") /\ co[t].want = "disarm" /\ Disarm(t, "hotkey")
     \/ /\ \E a \in {"no", "timeout"} : Gets(t, a)
        /\ Return(t)
        /\ UNCHANGED <<armVars, sessVars, capVars, refVars, trayBusy>>
  /\ UNCHANGED stopped

----------------------------------------------------------------------------
(* _handle_pending_close *)

PendingBegins(t) ==
  /\ Is(t, "start", "pending")
  /\ Go(t, [co[t] EXCEPT !.at = IF det = "pending" /\ reason \in Apps THEN "snap" ELSE "ask"])
  /\ UNCHANGED <<armVars, sessVars, capVars, refVars, hkFut, trayBusy, stopped>>

\* Mutant: the deferral forgets to revert the close.
PendingDefersOnly(t) ==
  /\ Is(t, "snap", "pending")
  /\ \/ det # "idle" /\ Disarm(t, "pending")
     \/ /\ Return(t)
        /\ UNCHANGED <<armVars, sessVars, capVars, refVars, trayBusy>>
     \/ /\ Go(t, [co[t] EXCEPT !.at = "ask"])
        /\ UNCHANGED <<armVars, sessVars, capVars, refVars, trayBusy>>
  /\ UNCHANGED <<hkFut, stopped>>

\* _arm_app_confirmed_holding: a snapshot that fails or shows nobody says yes.
ConfirmedHolding == BOOLEAN

\* The whitelist gate: does the arm app still hold the mic?
PendingSnapshot(t) ==
  /\ Is(t, "snap", "pending")
  /\ \E holding \in ConfirmedHolding :
       \/ \* the session is idle: abandoned
          holding /\ det # "idle" /\ Disarm(t, "pending")
       \/ \* deferred
          /\ holding /\ RevertClose /\ Return(t)
          /\ UNCHANGED <<armVars, capVars, refVars, trayBusy>>
       \/ /\ ~holding /\ Go(t, [co[t] EXCEPT !.at = "ask"])
          /\ UNCHANGED <<armVars, sessVars, capVars, refVars, trayBusy>>
  /\ UNCHANGED <<hkFut, stopped>>

\* Mutant: the close is committed and the controller stays ARMED.
PendingCommitsOnly(t) ==
  /\ co[t].job = "pending"
  /\ \E a \in Answers :
       /\ Gets(t, a)
       /\ IF det = "pending" /\ a # "no" THEN CommitClose ELSE RevertClose
  /\ Return(t)
  /\ UNCHANGED <<armVars, capVars, refVars, hkFut, trayBusy, stopped>>

PendingAnswered(t) ==
  /\ co[t].job = "pending"
  /\ \E a \in Answers :
       /\ Gets(t, a)
       /\ IF det = "pending" /\ a # "no"
          THEN CommitClose /\ DisarmInternal(t, "pending")
          ELSE /\ RevertClose /\ Return(t)
               /\ UNCHANGED <<armVars, capVars, refVars, trayBusy>>
  /\ UNCHANGED <<hkFut, stopped>>

----------------------------------------------------------------------------
(* _run_whitelist_watcher *)

\* The poll interval is over: snapshots are awaited only while DISARMED.
WatchPolls ==
  /\ co[Watcher].at = "sleep" /\ state = "disarmed" /\ stopped = "no"
  /\ Go(Watcher, Suspended("snap", "watch", "none", 0))
  /\ UNCHANGED <<armVars, sessVars, capVars, refVars, hkFut, trayBusy, stopped>>

\* No match, or the state changed meanwhile: next poll.  A match the account
\* gate lets through: its consent toast.
WatchMatches ==
  /\ co[Watcher].at = "snap"
  /\ \/ Return(Watcher)
     \/ /\ state = "disarmed" /\ stopped = "no"
        /\ \E a \in Apps : Go(Watcher, Suspended("ask", "watch", a, 0))
  /\ UNCHANGED <<armVars, sessVars, capVars, refVars, hkFut, trayBusy, stopped>>

WatchAnswered ==
  /\ \/ Gets(Watcher, "yes") /\ state = "disarmed" /\ ArmInternal(Watcher, "watch", co[Watcher].want)
     \/ /\ \E a \in Answers : Gets(Watcher, a) /\ (a = "yes" => state = "armed")
        /\ Return(Watcher)
        /\ UNCHANGED <<armVars, sessVars, capVars, refVars, trayBusy>>
  /\ UNCHANGED <<hkFut, stopped>>

----------------------------------------------------------------------------
(* _run_checkins *)

\* Awake, at a mark or at the 60 s re-check: leaves unless ARMED.
CheckinWakes(c) ==
  /\ Is(c, "sleep", "checkin")
  /\ Go(c, IF state = "armed" THEN [co[c] EXCEPT !.at = "ask"] ELSE Resting)
  /\ UNCHANGED <<armVars, sessVars, capVars, refVars, hkFut, trayBusy, stopped>>

\* "Wrap up" disarms; anything else goes on to the next mark, if there is one.
CheckinAnswered(c) ==
  /\ co[c].job = "checkin"
  /\ \/ Gets(c, "no") /\ Disarm(c, "checkin")
     \/ /\ \E a \in {"yes", "timeout"} : Gets(c, a)
        /\ \/ Go(c, Suspended("sleep", "checkin", "none", co[c].mine))
           \/ Return(c)
        /\ UNCHANGED <<armVars, sessVars, capVars, refVars, trayBusy>>
  /\ UNCHANGED <<hkFut, stopped>>

----------------------------------------------------------------------------
(* _run_meeting_ended_watcher *)

EndedPolls(m) ==
  /\ Is(m, "sleep", "ended")
  /\ Go(m, [co[m] EXCEPT !.at = "snap"])
  /\ UNCHANGED <<armVars, sessVars, capVars, refVars, hkFut, trayBusy, stopped>>

\* Leaves unless ARMED; the app still holds the mic, or is absent for less
\* than the grace: polls on; absent long enough: the toast, or after a
\* "Keep going" the close without one.
EndedSnapshot(m) ==
  /\ Is(m, "snap", "ended")
  /\ \/ /\ state # "armed" \/ stopped # "no"
        /\ Return(m)
        /\ UNCHANGED <<armVars, sessVars, capVars, refVars, trayBusy>>
     \/ /\ state = "armed" /\ stopped = "no"
        /\ \E next \in {"sleep"} \cup (IF co[m].want = "kept" THEN {} ELSE {"ask"}) :
             Go(m, [co[m] EXCEPT !.at = next])
        /\ UNCHANGED <<armVars, sessVars, capVars, refVars, trayBusy>>
     \/ /\ state = "armed" /\ stopped = "no"
        /\ co[m].want = "kept" /\ Disarm(m, "ended")
  /\ UNCHANGED <<hkFut, stopped>>

EndedAnswered(m) ==
  /\ co[m].job = "ended"
  /\ \/ /\ \E a \in {"yes", "timeout"} : Gets(m, a)
        /\ Disarm(m, "ended")
     \/ /\ Gets(m, "no")
        /\ Go(m, IF state = "armed" /\ stopped = "no"
                 THEN Suspended("sleep", "ended", "kept", co[m].mine) ELSE Resting)
        /\ UNCHANGED <<armVars, sessVars, capVars, refVars, trayBusy>>
  /\ UNCHANGED <<hkFut, stopped>>

----------------------------------------------------------------------------
(* stop(): agent shutdown *)

Shutdown(t) ==
  /\ stopped = "no" /\ stopped' = "stopping" /\ Free(t)
  /\ Disarm(t, "shutdown")
  /\ UNCHANGED hkFut

\* The hotkey is unregistered and the three background tasks are cancelled
\* wherever they are suspended.
Teardown(t) ==
  /\ co[t].at = "teardown"
  /\ stopped' = "down"
  /\ co' = [p \in Procs |-> IF p \in {t, Watcher, checkin, meeting} THEN Resting ELSE co[p]]
  /\ checkin' = None /\ meeting' = None
  /\ UNCHANGED <<armVars, sessVars, capVars, pill, hkFut, trayBusy>>

----------------------------------------------------------------------------
Capture(p) == SysSpawned(p) \/ SysProbed(p) \/ SysStopped(p) \/ SysStopTimeout(p)

Pending(t) == PendingBegins(t) \/ PendingSnapshot(t) \/ PendingAnswered(t)

TaskStep(t) ==
  \/ Tick(t) \/ TrayClick(t) \/ PillStopClicked(t) \/ PillStop(t)
  \/ HotkeyAsks(t) \/ HotkeyStops(t) \/ HotkeyConfirmed(t)
  \/ Pending(t) \/ Shutdown(t)

WatchStep == WatchPolls \/ WatchMatches \/ WatchAnswered
CheckinStep(c) == CheckinWakes(c) \/ CheckinAnswered(c)
EndedStep(m) == EndedPolls(m) \/ EndedSnapshot(m) \/ EndedAnswered(m)

\* stop() goes from its disarm to its teardown without yielding.
Next ==
  \/ \E t \in Tasks : Teardown(t)
  \/ /\ \A t \in Tasks : co[t].at # "teardown"
     /\ \/ Voice \/ TapExits \/ HotkeyDoubleTap \/ WatchStep
        \/ \E t \in Tasks : TaskStep(t)
        \/ \E p \in Procs : Capture(p)
        \/ \E c \in Checkins : CheckinStep(c)
        \/ \E m \in Endeds : EndedStep(m)

Spec == Init /\ [][Next]_vars

\* The loop runs every ready coroutine, a toast answers itself at its timeout,
\* a snapshot returns, and sys.start/stop bound each of their waits.
Fairness ==
  /\ \A t \in Tasks : WF_vars(Pending(t)) /\ WF_vars(PillStop(t))
  /\ \A p \in Procs : WF_vars(Capture(p))

FairSpec == Spec /\ Fairness

----------------------------------------------------------------------------
(* Properties.  "Windows" is Suspending = FALSE, "macOS" is TRUE. *)

\* ARMED implies an open session (app.py, heartbeat): no commit_close of any
\* of the five flows leaves the controller recording into nothing, and so no
\* VAD segment ever opens a session by itself, with no arm behind it.
ArmedImpliesSession == state = "armed" => det # "idle"

\* Windows: the open streams are those of the arm in force, none while
\* DISARMED, whatever start failed and whichever flow disarmed.
StreamsFollowState ==
  /\ mics = {micRef} \ {0} /\ taps \subseteq {tapRef}
  /\ IF state = "armed" THEN micRef = arms ELSE mics \cup taps = {}

\* Windows: a running check-in or meeting-ended task belongs to the arm in
\* force, so no toast about a past recording can close the present one; the
\* pill is up only while recording.
ArmOwnsTasks ==
  /\ \A n \in ArmIds : co[CheckinTask(n)].at # "free" => state = "armed" /\ n = arms
  /\ \A n \in ArmIds : co[EndedTask(n)].at # "free" => state = "armed" /\ n = arms /\ reason \in Apps
  /\ pill => state = "armed"

\* The future a double-tap resolves is that of a confirmation still waiting:
\* a press is never swallowed by a confirmation that is over.
HotkeyFutOwned == hkFut # None => Is(hkFut, "ask", "hotkey")

\* The tray's in-flight flag is up exactly while one tray transition is
\* suspended: a second click can neither slip in nor be locked out for good.
TrayFlagOwned ==
  LET inFlight == {t \in Tasks : co[t].job = "tray"}
  IN Cardinality(inFlight) <= 1 /\ (trayBusy <=> inFlight # {})

\* A pending close is decided, by its toast, by the app or by a voice, however
\* many closes, reverts and re-arms are interleaved with its handler.
PendingResolved == det = "pending" ~> det # "pending"

\* macOS: a tray transition ends whatever the helper does, so the tray menu
\* works again.
TrayReleased == trayBusy ~> ~trayBusy

\* What the sources say and some interleaving of the code does not keep.

\* "When disarmed, the OS-level mic indicator is off -- the process has no open
\* audio streams" (controller.py:6-7), while the agent runs, once no start or
\* stop is in progress and leaving out a helper already told to exit.
NoStreamsWhenDisarmed ==
  state = "disarmed" /\ stopped = "no" /\ (\A p \in Procs : co[p].at \notin {"spawn", "probe", "stop", "rollback"})
    => mics = {} /\ taps \subseteq termed

\* reset_per_source_streams, called by every arm, "must only be called while
\* IDLE" (conversation.py:478).
ResetOnlyWhileIdle == [][arms' # arms => det = "idle"]_vars

\* After arm.stop(), which "force-closes any open session, stops streams,
\* unregisters hotkey, cancels background watchers" (app.py:969-970), no
\* stream is open.
NoStreamsAfterStop == stopped = "down" => mics \cup taps = {}

=============================================================================
