-------------------------------- MODULE Hud --------------------------------
(* The HUD: HudLauncher in the agent (launcher.py), the HUD process            *)
(* (window.py, bridge.py) and the page in it (HudApp.tsx, hud-bridge.ts).      *)
(* Threads of the agent ask the user questions and block; the event loop       *)
(* writes their commands to the process and reads its events; the process may  *)
(* crash, hang or lose its renderer at any point and is respawned a bounded    *)
(* number of times.                                                            *)
EXTENDS Naturals, Sequences, FiniteSets, SequencesExt

CONSTANTS Callers,       \* threads that ask, each blocked in one question at a time
          Default,       \* the default_on_timeout each of them passes
          Superseding,   \* those that pass supersede=True (the hotkey)
          Pausing,       \* those that go through ask_consent_pausing_pill
          MaxRespawns,   \* _MAX_RESPAWNS
          Buffer,        \* _pending_commands_cap: commands kept while the page loads
          MissedPongs,   \* _MISSED_PONGS_BEFORE_KILL
          MaxAsks,       \* bound: questions of each caller
          MaxSessions,   \* bound: recordings
          MaxQuits,      \* bound: calls of quit(), 0 or 1
          MaxFaults      \* bound: crashes, hangs, renderer deaths, failed spawns

Answers == {"yes", "no", "timeout"}

ASSUME HudAssumption ==
  /\ IsFiniteSet(Callers) /\ Default \in [Callers -> Answers]
  /\ Superseding \subseteq Callers /\ Pausing \subseteq Callers
  /\ MaxRespawns \in Nat /\ MissedPongs \in Nat /\ Buffer \in Nat \ {0}
  /\ MaxAsks \in Nat /\ MaxSessions \in Nat /\ MaxQuits \in {0, 1} /\ MaxFaults \in Nat

Requests == Callers \X (1 .. MaxAsks)

VARIABLES
  \* the asking threads
  pc, asks, fut, snapshot,
  pressed,                 \* history: buttons pressed on the open question of each
  \* HudLauncher
  pending,                 \* _pending_cards
  lastPill,                \* _last_pill_params: the session shown, 0 for None
  handle,                  \* _proc is not None
  ready, pings, respawn, count, givenUp, degraded,
  outbox,                  \* coroutines scheduled on the loop, in order
  reader,                  \* the stdout reader runs
  quitting,                \* how far quit() has come
  \* ArmController
  armed, sessions,
  \* the HUD process and its page
  proc, latch, pipe, events, cards, pill, paused, faults

asker    == <<pc, asks, fut, snapshot, pressed>>
ladder   == <<respawn, count, givenUp, degraded>>
arm      == <<armed, sessions>>
page     == <<cards, pill, paused>>
vars == <<pc, asks, fut, snapshot, pressed, pending, lastPill, handle, ready,
          pings, respawn, count, givenUp, degraded, outbox, reader, quitting,
          armed, sessions, proc, latch, pipe, events, cards, pill, paused, faults>>

Cmd(name, x) == [cmd |-> name, arg |-> x]
Commands == [cmd : {"show_card", "hide_card"}, arg : Requests]
            \union [cmd : {"show_pill"}, arg : 1 .. MaxSessions]
            \union {Cmd("hide_pill", 0), Cmd("start", 0)}
Events == [cmd : {"card_response"}, arg : Requests \X Answers]
          \union {Cmd("hud_ready", 0), Cmd("pill_stop_clicked", 0)}

TypeOK ==
  /\ pc \in [Callers -> {"idle", "registering", "sending", "waiting", "restoring",
                         "reshowing"}]
  /\ asks \in [Callers -> 0 .. MaxAsks]
  /\ fut \in [Callers -> Answers \union {"open"}]
  /\ snapshot \in [Callers -> 0 .. MaxSessions]
  /\ pressed \in [Callers -> SUBSET {"yes", "no"}]
  /\ pending \subseteq Requests
  /\ {lastPill, armed, sessions, pill, paused} \subseteq 0 .. MaxSessions
  /\ {handle, ready, givenUp, degraded, reader, latch} \subseteq BOOLEAN
  /\ pings \in 0 .. MissedPongs
  /\ respawn \in {"none", "due", "sleeping"}
  /\ count \in 0 .. MaxRespawns
  /\ quitting \in {"no", "waiting", "done"}
  /\ outbox \in Seq(Commands) /\ pipe \in Seq(Commands) /\ events \in Seq(Events)
  /\ proc \in {"none", "boot", "up", "wedged", "reload", "hung", "dead"}
  /\ cards \in Seq(Requests)
  /\ faults \in 0 .. MaxFaults

Init ==
  /\ pc = [c \in Callers |-> "idle"] /\ asks = [c \in Callers |-> 0]
  /\ fut = [c \in Callers |-> "open"]
  /\ snapshot = [c \in Callers |-> 0] /\ pressed = [c \in Callers |-> {}]
  /\ pending = {} /\ lastPill = 0
  /\ handle = FALSE /\ ready = FALSE /\ pings = 0 /\ reader = FALSE
  /\ respawn = "none" /\ count = 0 /\ givenUp = FALSE /\ degraded = FALSE
  /\ outbox = <<Cmd("start", 0)>>
  /\ quitting = "no"
  /\ armed = 0 /\ sessions = 0
  /\ proc = "none" /\ latch = FALSE /\ pipe = <<>> /\ events = <<>>
  /\ cards = <<>> /\ pill = 0 /\ paused = 0 /\ faults = 0

-----------------------------------------------------------------------------
(* HudLauncher: sending, spawning, the respawn ladder                         *)

\* _send_threadsafe: a coroutine per command, none once given up.
Send(cmds) == outbox' = IF givenUp THEN outbox ELSE outbox \o cmds

Live == handle /\ proc \notin {"none", "dead"}

Request(c) == <<c, asks[c]>>

\* The call is in progress.
Open(c) == pc[c] \in {"registering", "sending", "waiting"}

EnsureRespawn == respawn' = IF givenUp \/ respawn # "none" THEN respawn ELSE "due"

BlankPage == cards' = <<>> /\ pill' = 0 /\ paused' = 0

\* The process ends, however: what it wrote to stdout is still to be read.
Dies == /\ proc' = "dead" /\ pipe' = <<>> /\ BlankPage

Fault == faults < MaxFaults /\ faults' = faults + 1

\* _spawn_locked: nothing for a live process; the reader of the old one is
\* cancelled with what it had not read; a failure leaves no process and no timer.
SpawnLocked ==
  \/ /\ Live
     /\ UNCHANGED <<handle, proc, latch, pipe, page, events, reader, ready, pings, faults>>
  \/ /\ ~Live
     /\ handle' = TRUE /\ proc' = "boot" /\ latch' = FALSE /\ pipe' = <<>> /\ BlankPage
     /\ events' = <<>> /\ reader' = TRUE /\ ready' = FALSE /\ pings' = 0
     /\ UNCHANGED faults
  \/ /\ ~Live /\ Fault
     /\ handle' = FALSE /\ reader' = FALSE /\ events' = <<>>
     /\ UNCHANGED <<proc, latch, pipe, page, ready, pings>>

\* The effect of HudApp.tsx that takes the pill off the page while cards are up.
Settled(cs, shown, kept) ==
  /\ cards' = cs
  /\ IF cs # <<>> /\ shown # 0 /\ kept = 0 THEN pill' = 0 /\ paused' = shown
     ELSE IF cs = <<>> /\ kept # 0 THEN pill' = kept /\ paused' = 0
     ELSE pill' = shown /\ paused' = kept

\* The cards but the one of a request, which is there once at most.
Without(cs, r) ==
  IF r \in ToSet(cs) THEN RemoveAt(cs, CHOOSE i \in DOMAIN cs : cs[i] = r) ELSE cs

\* What the page does with a command.
Handled(m) == \/ m.cmd = "show_card" /\ Settled(Append(cards, m.arg), pill, paused)
              \/ m.cmd = "hide_card" /\ Settled(Without(cards, m.arg), pill, paused)
              \/ m.cmd = "show_pill" /\ Settled(cards, m.arg, paused)
              \/ m.cmd = "hide_pill" /\ Settled(cards, 0, paused)

\* _send_async: to a page that is up at once (a crash on the way would blank the
\* page anyway), into the buffer of a process that is still loading its page,
\* lost on one that hangs or reloads; with no process dropped, and the ladder
\* is started.
Written(m) ==
  \/ /\ Live /\ proc \in {"up", "wedged"} /\ pipe = <<>>
     /\ Handled(m) /\ UNCHANGED <<pipe, respawn>>
  \/ /\ Live /\ (proc = "boot" \/ pipe # <<>>)
     /\ pipe' = Append(
                  IF proc = "boot" /\ Len(pipe) >= Buffer THEN Tail(pipe) ELSE pipe, m)
     /\ UNCHANGED <<page, respawn>>
  \/ /\ Live /\ proc \in {"hung", "reload"} /\ pipe = <<>>
     /\ UNCHANGED <<pipe, page, respawn>>
  \/ /\ ~Live /\ EnsureRespawn /\ UNCHANGED <<pipe, page>>

\* The loop runs the next coroutine that waits for the launcher's lock.
RunCoroutine ==
  /\ outbox # <<>> /\ quitting # "waiting"
  /\ outbox' = Tail(outbox)
  /\ \/ /\ Head(outbox).cmd = "start" /\ ~givenUp
        /\ SpawnLocked /\ UNCHANGED respawn
     \/ /\ Head(outbox).cmd = "start" /\ givenUp
        /\ UNCHANGED <<handle, proc, latch, pipe, page, events, reader, ready, pings,
                       faults, respawn>>
     \/ /\ Head(outbox).cmd # "start"
        /\ Written(Head(outbox))
        /\ UNCHANGED <<handle, proc, latch, events, reader, ready, pings, faults>>
  /\ UNCHANGED <<asker, pending, lastPill, count, givenUp, degraded, quitting, arm>>

\* set_audio_levels, ten times a second while armed: nothing to see unless the
\* process is down.
AudioFrame ==
  /\ armed # 0 /\ ~givenUp /\ ~Live /\ quitting # "waiting" /\ respawn = "none"
  /\ EnsureRespawn
  /\ UNCHANGED <<asker, pending, lastPill, handle, ready, pings, count, givenUp, degraded,
                 outbox, reader, quitting, arm, proc, latch, pipe, events, page, faults>>

\* Mutant: the entries are kept.
StillPending == pending

\* _fail_pending_consents: every open question gets its own caller's default.
Forgotten == {}
FailPending ==
  /\ fut' = [c \in Callers |-> IF Request(c) \in pending /\ fut[c] = "open"
                                 THEN Default[c] ELSE fut[c]]
  /\ pending' = Forgotten

\* _respawn_after_crash up to its sleep; `late` is a window that has run out.
RespawnStarts ==
  /\ respawn = "due"
  /\ \E late \in BOOLEAN :
       LET n == IF late THEN 0 ELSE count
       IN IF n >= MaxRespawns
            THEN /\ givenUp' = TRUE /\ degraded' = TRUE /\ respawn' = "none"
                 /\ count' = n /\ FailPending
            ELSE /\ count' = n + 1 /\ respawn' = "sleeping"
                 /\ UNCHANGED <<givenUp, degraded, fut, pending>>
  /\ UNCHANGED <<pc, asks, snapshot, pressed, lastPill, handle, ready, pings,
                 outbox, reader, quitting, arm, proc, latch, pipe, events, page, faults>>

\* ... and after it.
RespawnWakes ==
  /\ respawn = "sleeping" /\ quitting # "waiting"
  /\ respawn' = "none"
  /\ IF givenUp THEN UNCHANGED <<handle, proc, latch, pipe, page, events, reader, ready,
                                 pings, faults>>
                ELSE SpawnLocked
  /\ UNCHANGED <<asker, pending, lastPill, count, givenUp, degraded, outbox, quitting, arm>>

\* Mutants: nothing is killed; the unanswered pings are not counted.
KillNever == FALSE
PingUncounted == pings

KillDue == pings >= MissedPongs
PingSent == pings + 1

\* One period of the heartbeat: a process that answers is left with no ping
\* outstanding before the next one, a hung one is killed in the end.
Heartbeat ==
  /\ quitting = "no" /\ ~givenUp /\ Live /\ ready /\ proc = "hung"
  /\ IF KillDue
       THEN pings' = 0 /\ Dies
       ELSE pings' = PingSent /\ UNCHANGED <<proc, pipe, page>>
  /\ UNCHANGED <<asker, pending, lastPill, handle, ready, ladder, outbox, reader,
                 quitting, arm, latch, events, faults>>

-----------------------------------------------------------------------------
(* HudLauncher: the stdout reader                                             *)

HidePill == /\ lastPill' = IF givenUp THEN lastPill ELSE 0
            /\ Send(<<Cmd("hide_pill", 0)>>)

\* Mutant: a respawned HUD is left without the pill.
NotReplayed == UNCHANGED outbox

\* The pill of the session is sent again.
Replayed == IF lastPill # 0 THEN Send(<<Cmd("show_pill", lastPill)>>) ELSE UNCHANGED outbox

ReadReady ==
  /\ Head(events).cmd = "hud_ready"
  /\ ready' = TRUE /\ pings' = 0 /\ degraded' = FALSE
  /\ Replayed
  /\ UNCHANGED <<fut, pending, lastPill, armed>>

ReadResponse ==
  /\ Head(events).cmd = "card_response"
  /\ LET r == Head(events).arg[1]
         a == Head(events).arg[2]
     IN /\ pending' = pending \ {r}
        /\ fut' = IF r \in pending /\ fut[r[1]] = "open"
                    THEN [fut EXCEPT ![r[1]] = a] ELSE fut
  /\ UNCHANGED <<ready, pings, degraded, outbox, lastPill, armed>>

\* The stop button disarms whatever session runs by now.
ReadStop ==
  /\ Head(events).cmd = "pill_stop_clicked"
  /\ IF armed # 0 THEN armed' = 0 /\ HidePill
                  ELSE UNCHANGED <<armed, lastPill, outbox>>
  /\ UNCHANGED <<ready, pings, degraded, fut, pending>>

ReadEvent ==
  /\ reader /\ events # <<>>
  /\ events' = Tail(events)
  /\ ReadReady \/ ReadResponse \/ ReadStop
  /\ UNCHANGED <<pc, asks, snapshot, pressed, handle, respawn, count, givenUp,
                 reader, quitting, sessions, proc, latch, pipe, page, faults>>

\* Nothing left to read of a dead process: a crash, unless quit() let go of it.
ReadEof ==
  /\ reader /\ events = <<>> /\ proc = "dead"
  /\ reader' = FALSE
  /\ IF handle THEN EnsureRespawn ELSE UNCHANGED respawn
  /\ UNCHANGED <<asker, pending, lastPill, handle, ready, pings, count, givenUp, degraded,
                 outbox, quitting, arm, proc, latch, pipe, events, page, faults>>

-----------------------------------------------------------------------------
(* ask_consent and ask_consent_pausing_pill, in the thread that asks          *)

others == <<lastPill, handle, ready, pings, ladder, reader, quitting, arm,
            proc, latch, pipe, events, page, faults>>

\* The pill is taken off the page and stays the launcher's; a HUD that was
\* given up answers at once.
Ask(c) ==
  /\ pc[c] = "idle" /\ asks[c] < MaxAsks
  /\ asks' = [asks EXCEPT ![c] = @ + 1]
  /\ IF givenUp
       THEN /\ fut' = [fut EXCEPT ![c] = Default[c]]
            /\ UNCHANGED <<pc, snapshot, outbox>>
       ELSE /\ fut' = [fut EXCEPT ![c] = "open"]
            /\ pc' = [pc EXCEPT ![c] = "registering"]
            /\ snapshot' = [snapshot EXCEPT ![c] = IF c \in Pausing THEN lastPill ELSE 0]
            /\ IF c \in Pausing /\ lastPill # 0 THEN Send(<<Cmd("hide_pill", 0)>>)
                                                ELSE UNCHANGED outbox
  /\ UNCHANGED <<pressed, pending, others>>

\* Mutant: the default of the caller that supersedes.
TheirDefault(c, d) == Default[c]

\* What a question that is superseded is answered with.
OwnDefault(c, d) == Default[d]

\* The hotkey's question first ends every other one and takes its card down.
Register(c) ==
  /\ pc[c] = "registering"
  /\ pc' = [pc EXCEPT ![c] = "sending"]
  /\ IF c \in Superseding
       THEN /\ pending' = {Request(c)}
            /\ fut' = [d \in Callers |-> IF Request(d) \in pending /\ fut[d] = "open"
                                           THEN OwnDefault(c, d) ELSE fut[d]]
            /\ Send([i \in 1 .. Cardinality(pending) |->
                        Cmd("hide_card", SetToSeq(pending)[i])])
       ELSE /\ pending' = pending \union {Request(c)}
            /\ UNCHANGED <<fut, outbox>>
  /\ UNCHANGED <<asks, snapshot, pressed, others>>

\* The thread goes on with its answer: the pausing wrapper restores the pill.
Leave(c, answer) ==
  /\ fut' = [fut EXCEPT ![c] = answer]
  /\ pressed' = [pressed EXCEPT ![c] = {}]
  /\ pc' = [pc EXCEPT ![c] = IF snapshot[c] # 0 THEN "restoring" ELSE "idle"]
  /\ UNCHANGED <<asks, snapshot>>

SendCard(c) ==
  /\ pc[c] = "sending"
  /\ Send(<<Cmd("show_card", Request(c))>>)
  /\ IF givenUp
       THEN pending' = pending \ {Request(c)} /\ Leave(c, Default[c])
       ELSE /\ pc' = [pc EXCEPT ![c] = "waiting"]
            /\ UNCHANGED <<asks, fut, snapshot, pressed, pending>>
  /\ UNCHANGED others

Answered(c) ==
  /\ pc[c] = "waiting" /\ fut[c] # "open"
  /\ Leave(c, fut[c])
  /\ UNCHANGED <<pending, outbox, others>>

\* Three seconds after the card's own countdown could have ended.
TimesOut(c) ==
  /\ pc[c] = "waiting" /\ fut[c] = "open"
  /\ pending' = pending \ {Request(c)}
  /\ Send(<<Cmd("hide_card", Request(c))>>)
  /\ Leave(c, Default[c])
  /\ UNCHANGED others

\* The pill comes back unless it was hidden meanwhile: looked at, then sent.
Restore(c) ==
  /\ pc[c] = "restoring"
  /\ IF lastPill # 0
       THEN pc' = [pc EXCEPT ![c] = "reshowing"] /\ UNCHANGED snapshot
       ELSE pc' = [pc EXCEPT ![c] = "idle"] /\ snapshot' = [snapshot EXCEPT ![c] = 0]
  /\ UNCHANGED <<asks, fut, pressed, pending, outbox, others>>

Reshow(c) ==
  /\ pc[c] = "reshowing"
  /\ pc' = [pc EXCEPT ![c] = "idle"] /\ snapshot' = [snapshot EXCEPT ![c] = 0]
  /\ Send(<<Cmd("show_pill", snapshot[c])>>)
  /\ UNCHANGED <<asks, fut, pressed, pending, others>>

Asking(c) == \/ Register(c) \/ SendCard(c) \/ Answered(c) \/ TimesOut(c)
             \/ Restore(c) \/ Reshow(c)

-----------------------------------------------------------------------------
(* ArmController, as far as the HUD sees it                                   *)

away == <<asker, pending, handle, ready, pings, respawn, reader, quitting, proc, latch,
          pipe, events, page, faults>>

\* _arm_internal: reset_given_up, then show_pill if the streams open.
Arm(ok) ==
  /\ armed = 0 /\ sessions < MaxSessions
  /\ sessions' = sessions + 1
  /\ givenUp' = FALSE
  /\ count' = IF givenUp THEN 0 ELSE count
  /\ outbox' = outbox \o (IF givenUp THEN <<Cmd("start", 0)>> ELSE <<>>)
                      \o (IF ok THEN <<Cmd("show_pill", sessions')>> ELSE <<>>)
  /\ IF ok THEN armed' = sessions' /\ lastPill' = sessions'
           ELSE UNCHANGED <<armed, lastPill>>
  /\ UNCHANGED <<away, degraded>>

Disarm ==
  /\ armed # 0
  /\ armed' = 0
  /\ HidePill
  /\ UNCHANGED <<away, sessions, givenUp, count, degraded>>

-----------------------------------------------------------------------------
(* The HUD process and its page                                               *)

agent == <<asker, pending, lastPill, handle, ready, pings, ladder, outbox, reader,
           quitting, arm>>

\* The channel opens and the page reports itself.
PageReady == /\ proc' = "up" /\ latch' = TRUE
             /\ events' = Append(events, Cmd("hud_ready", 0))
             /\ UNCHANGED faults

\* Three handshakes fail: the page shows what it is told and can say nothing.
HandshakeFails == /\ Fault /\ proc' = "wedged"
                  /\ UNCHANGED <<latch, events>>

Load ==
  /\ proc \in {"boot", "reload"}
  /\ PageReady \/ HandshakeFails
  /\ UNCHANGED <<agent, pipe, page>>

\* _check_ready_watchdog reads a latch that no reload clears.
ReadyWatchdog ==
  /\ proc = "wedged" /\ ~latch
  /\ Dies
  /\ UNCHANGED <<agent, latch, events, faults>>

\* What was buffered while the page loaded reaches it in order.
Flush ==
  /\ pipe # <<>> /\ proc \in {"up", "wedged"}
  /\ pipe' = Tail(pipe)
  /\ Handled(Head(pipe))
  /\ UNCHANGED <<agent, proc, latch, events, faults>>

\* Only a page with its channel can tell the agent.
Emit(e) == events' = IF proc = "up" THEN Append(events, e) ELSE events

CardAnswered(a) ==
  /\ proc \in {"up", "wedged"} /\ cards # <<>>
  /\ LET r == Head(cards) IN
       /\ Settled(Without(cards, r), pill, paused)
       /\ Emit(Cmd("card_response", <<r, a>>))
       /\ pressed' = IF a # "timeout" /\ r = Request(r[1]) /\ Open(r[1])
                       THEN [pressed EXCEPT ![r[1]] = @ \union {a}] ELSE pressed
  /\ UNCHANGED <<pc, asks, fut, snapshot, pending, lastPill, handle, ready, pings,
                 ladder, outbox, reader, quitting, arm, proc, latch, pipe, faults>>

CardExpires == CardAnswered("timeout")
UserAnswers == \E a \in {"yes", "no"} : CardAnswered(a)

StopClicked ==
  /\ proc \in {"up", "wedged"} /\ pill # 0
  /\ Settled(cards, 0, paused)
  /\ Emit(Cmd("pill_stop_clicked", 0))
  /\ UNCHANGED <<agent, proc, latch, pipe, faults>>

\* A first renderer death reloads the page, everything else ends the process.
RendererDies ==
  /\ Fault /\ proc = "up" /\ proc' = "reload" /\ BlankPage
  /\ UNCHANGED <<agent, latch, pipe, events>>

Crash ==
  /\ Fault /\ Live /\ Dies
  /\ UNCHANGED <<agent, latch, events>>

Hang ==
  /\ Fault /\ proc \in {"boot", "up"} /\ proc' = "hung"
  /\ UNCHANGED <<agent, latch, pipe, events, page>>

-----------------------------------------------------------------------------
(* quit(): cancel the timers, let go of the process, reap it with the lock held *)

QuitLocks ==
  /\ quitting = "no" /\ MaxQuits = 1
  /\ quitting' = IF Live THEN "waiting" ELSE "done"
  /\ respawn' = "none" /\ handle' = FALSE
  /\ UNCHANGED <<asker, pending, lastPill, ready, pings, count, givenUp, degraded, outbox,
                 reader, arm, proc, latch, pipe, events, page, faults>>

QuitReaps ==
  /\ quitting = "waiting" /\ quitting' = "done"
  /\ Dies
  /\ UNCHANGED <<asker, pending, lastPill, handle, ready, pings, ladder, outbox, reader,
                 arm, latch, events, faults>>

-----------------------------------------------------------------------------
Next == \/ RunCoroutine \/ AudioFrame \/ RespawnStarts \/ RespawnWakes \/ Heartbeat
        \/ ReadEvent \/ ReadEof
        \/ \E c \in Callers : Ask(c) \/ Asking(c)
        \/ \E ok \in BOOLEAN : Arm(ok)
        \/ Disarm
        \/ Load \/ ReadyWatchdog \/ Flush \/ CardExpires \/ UserAnswers \/ StopClicked
        \/ RendererDies \/ Crash \/ Hang
        \/ QuitLocks \/ QuitReaps

\* The loop, the threads, the timers and a responsive process go on; the user,
\* the faults, new questions and quit() need not come.
Fairness ==
  /\ WF_vars(RunCoroutine) /\ WF_vars(AudioFrame) /\ WF_vars(Heartbeat)
  /\ WF_vars(RespawnStarts) /\ WF_vars(RespawnWakes) /\ WF_vars(ReadEvent) /\ WF_vars(ReadEof)
  /\ WF_vars(Load) /\ WF_vars(ReadyWatchdog) /\ WF_vars(Flush) /\ WF_vars(CardExpires)
  /\ WF_vars(QuitReaps)
  /\ \A c \in Callers : WF_vars(Asking(c))

Spec == Init /\ [][Next]_vars /\ Fairness

-----------------------------------------------------------------------------
(* Properties                                                                 *)

\* Every caller gets what HudConsent promises: one answer, the user's or its own
\* default (ask_consent, launcher.py:884, through crashes, supersession and give-up).
Consent == INSTANCE HudConsent WITH
  asking <- {c \in Callers : Open(c)}, pressed <- pressed,
  result <- [c \in Callers |-> IF Open(c) \/ asks[c] = 0 THEN "none" ELSE fut[c]]
ImplementsConsent == Consent!Spec

\* Nobody waits for a HUD that was given up: an open future in _pending_cards
\* belongs to a thread that is about to see that its command cannot be sent
\* (_fail_pending_consents, launcher.py:675).
NobodyWaitsOnGivenUp ==
  givenUp => \A c \in Callers : Request(c) \in pending => pc[c] = "sending"

OnScreen == pill # 0 \/ paused # 0 \/ cards # <<>>

\* The recording indicator does not vanish mid-meeting: it is put back by hud_ready
\* after any respawn or reload, and by the thread that took it off (launcher.py:542).
PillComesBack ==
  (armed # 0 /\ ~OnScreen) ~> \/ OnScreen \/ armed = 0 \/ givenUp \/ quitting # "no"
                              \/ proc = "wedged" \/ (proc = "hung" /\ ~ready)

\* A HUD that hangs once it has been ready is killed and replaced or given up
\* (_heartbeat_loop, launcher.py:483).
HungIsReplaced == (proc = "hung" /\ ready /\ quitting = "no") ~> (proc # "hung" \/ quitting # "no")

\* "Mirrors the agent's arm state so the user always knows it's running"
\* (controller.py:811): a pill that is on screen while nothing is recorded goes.
PillMirrorsArm == (pill # 0 /\ armed = 0) ~> (pill = 0 \/ armed # 0)
=============================================================================
