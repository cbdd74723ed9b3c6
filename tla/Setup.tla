------------------------------- MODULE Setup -------------------------------
(***************************************************************************)
(* The first-run wizard: the gate of service() that opens it, the pages of *)
(* gui/webui (App.tsx, screens/), the bridge they call (gui/setup/bridge), *)
(* what the files say of a finished setup (detect.py, marker.py), and the  *)
(* macOS permissions a page asks for (mac_permissions.py).  The answers of *)
(* macOS, of the user and of the server are external.  Signing in and the  *)
(* account status are Account's; here a sign-in succeeds or fails.         *)
(***************************************************************************)
EXTENDS Naturals, Sequences

CONSTANTS
    MaxQuits,    \* bound: times the user closes the window, quits or signs out
    MaxMishaps   \* bound: refusals, failed writes, fetches and starts

ASSUME SetupAssumption == {MaxQuits, MaxMishaps} \subseteq Nat

VARIABLES
    mac,        \* the platform: macOS, or Windows
    token,      \* auth.json: none, or good
    says,       \* what the server says of the account: ok, or blocked
    known,      \* account_status.json
    marks,      \* the marker files: onboarded, seen, resume
    saved,      \* the shortcut in user_settings.json
    perm,       \* what macOS has recorded: to ask, yes, no
    sees,       \* the Accessibility bit as this process sees it
    probe,      \* the audio-tap that asks for system audio
    proc,       \* the service: off, gate, window, exiting, agent
    spawn,      \* a relaunched instance has not come to the lock yet
    screen, ui, \* the page, and its state
    signingIn,  \* a sign-in is under way
    news,       \* App's rechecks of the account: none, asking, or the answer
    check,      \* FinishSignup's
    runs,       \* the shortcut the agent was started with
    wanted,     \* history: the shortcut the user last confirmed
    hurried,    \* history: signed in again before the first answer was there
    quits, mishaps

files  == <<token, known, marks, saved>>
system == <<mac, perm, sees, probe>>
page   == <<screen, ui>>
talks  == <<signingIn, news, check>>
past   == <<wanted, hurried>>
bounds == <<quits, mishaps>>
setupVars == <<files, system, page, talks, past, bounds, says, proc, spawn, runs>>

Shortcuts == {"default", "other"}
Walk == IF mac THEN <<"welcome", "microphone", "audio-capture", "accessibility",
                      "shortcut", "indicator", "done">>
        ELSE <<"welcome", "shortcut", "indicator", "done">>
Screens == {"none", "loading", "finish-signup", "welcome", "microphone", "audio-capture",
            "accessibility", "shortcut", "indicator", "done"}
Following == [s \in {Walk[i] : i \in 1 .. Len(Walk) - 1} |->
                Walk[1 + CHOOSE i \in DOMAIN Walk : Walk[i] = s]]
First == Following["welcome"]
Statuses == {"unset", "ok", "blocked"}
Asked == {"mic", "tap"}
PermOf == [s \in {"microphone", "audio-capture"} |-> IF s = "microphone" THEN "mic" ELSE "tap"]

SetupTypeOK ==
    /\ {mac, sees, spawn, signingIn, hurried} \subseteq BOOLEAN
    /\ token \in {"none", "good"} /\ says \in {"ok", "blocked"} /\ known \in Statuses
    /\ marks \subseteq {"onboarded", "seen", "resume"} /\ {saved, runs, wanted} \subseteq Shortcuts
    /\ perm \in [Asked \cup {"trust"} -> {"ask", "yes", "no"}]
    /\ probe \in {"none", "running", "left"}
    /\ proc \in {"off", "gate", "window", "exiting", "agent"}
    /\ screen \in Screens
    /\ ui \in {"idle", "pending", "granted", "denied", "stale", "waiting", "hinted", "trusted", "saving"}
    /\ news \in [1 .. 2 -> {"none", "asking"} \cup Statuses] /\ check \in {"none", "asking"} \cup Statuses

NoPage == /\ screen' = "none" /\ ui' = "idle"
          /\ signingIn' = FALSE /\ news' = [i \in 1 .. 2 |-> "none"] /\ check' = "none"

SetupInit ==
    /\ mac \in BOOLEAN /\ says \in {"ok", "blocked"}
    /\ token = "none" /\ known = "unset" /\ marks = {} /\ saved = "default"
    /\ perm = [p \in Asked \cup {"trust"} |-> IF p = "trust" THEN "no" ELSE "ask"]
    /\ sees = FALSE /\ probe = "none" /\ proc = "off" /\ spawn = FALSE
    /\ screen = "none" /\ ui = "idle" /\ signingIn = FALSE
    /\ news = [i \in 1 .. 2 |-> "none"] /\ check = "none"
    /\ runs = "default" /\ wanted = "default" /\ hurried = FALSE
    /\ quits = 0 /\ mishaps = 0

Mishap == mishaps < MaxMishaps /\ mishaps' = mishaps + 1 /\ UNCHANGED quits
AllWell == UNCHANGED bounds
Leaves == quits < MaxQuits /\ quits' = quits + 1 /\ UNCHANGED mishaps

-----------------------------------------------------------------------------
(* The process and the gate of service()                                     *)

Locked == /\ proc' = "gate" /\ sees' = (perm["trust"] = "yes")

Launch ==
    /\ proc = "off" /\ Locked
    /\ UNCHANGED <<files, page, talks, past, bounds, mac, perm, probe, says, spawn, runs>>

(* The instance that `open -n` started: it does not wait for the lock.       *)
Spawned ==
    /\ spawn /\ spawn' = FALSE
    /\ IF proc = "off" THEN Locked ELSE UNCHANGED <<proc, sees>>
    /\ UNCHANGED <<files, page, talks, past, bounds, mac, perm, probe, says, runs>>

Blocked == known = "blocked"
IsComplete == token # "none" /\ "onboarded" \in marks /\ ~Blocked
FirstLaunch == mac /\ "seen" \notin marks

GateDecides ==
    /\ proc = "gate"
    /\ \E force \in BOOLEAN :
         IF force \/ FirstLaunch \/ ~IsComplete
         THEN /\ \/ proc' = "window" /\ screen' = "loading" /\ AllWell
                 \/ proc' = "off" /\ UNCHANGED screen /\ Mishap  \* the window does not open
              /\ UNCHANGED runs
         ELSE proc' = "agent" /\ runs' = saved /\ UNCHANGED <<screen, bounds>>
    /\ UNCHANGED <<files, system, talks, past, says, spawn, ui>>

(* os._exit: what the window had started goes with it, but not a child.      *)
Exits ==
    /\ NoPage
    /\ probe' = IF probe = "running" THEN "left" ELSE probe

(* open -n comes first, os._exit after it.                                   *)
Relaunches == /\ proc' = "exiting"
              /\ \/ spawn' = TRUE /\ AllWell
                 \/ spawn' = FALSE /\ Mishap

Exited ==
    /\ proc = "exiting" /\ proc' = "off" /\ Exits
    /\ UNCHANGED <<files, past, bounds, mac, perm, sees, says, spawn, runs>>

Open == proc = "window" /\ screen \notin {"none", "loading"}
On(s) == proc = "window" /\ screen = s

(* Cancel, Close, and the X of the window.                                   *)
Closes ==
    /\ proc = "window" /\ proc' = "off" /\ Exits
    /\ \/ ui = "denied" /\ AllWell   \* nothing else is left to press
       \/ Leaves
    /\ UNCHANGED <<files, past, mac, perm, sees, says, spawn, runs>>

-----------------------------------------------------------------------------
(* The first page and the sign-in                                            *)

InitialScreen ==
    IF token = "none" THEN "welcome"
    ELSE IF Blocked THEN "finish-signup"
    ELSE IF IsComplete THEN "done"
    ELSE IF mac /\ "resume" \in marks THEN "accessibility"
    ELSE First

(* get_status takes the resume marker away, if it can.                       *)
Loads ==
    /\ On("loading")
    /\ screen' = InitialScreen
    /\ \/ marks' = marks \ {"resume"} /\ AllWell
       \/ "resume" \in marks /\ UNCHANGED marks /\ Mishap
    /\ UNCHANGED <<system, talks, past, token, known, saved, says, proc, spawn, runs, ui>>

StartsLogin ==
    /\ On("welcome") /\ ~signingIn /\ signingIn' = TRUE
    /\ hurried' = (hurried \/ \E i \in 1 .. 2 : news[i] # "none")
    /\ UNCHANGED <<files, system, page, bounds, news, check, says, proc, spawn, runs, wanted>>

(* login_done reaches App, which asks for the account status.                *)
LoginDone(i) ==
    /\ proc = "window" /\ signingIn /\ signingIn' = FALSE
    /\ news[i] = "none" /\ news' = [news EXCEPT ![i] = "asking"]
    /\ token' = "good"
    /\ UNCHANGED <<system, page, past, bounds, known, marks, saved, check, says, proc, spawn, runs>>

SignInFails ==
    /\ proc = "window" /\ signingIn /\ signingIn' = FALSE /\ Mishap
    /\ UNCHANGED <<files, system, page, past, news, check, says, proc, spawn, runs>>

(* refresh_and_cache, then detect_setup: the answer is what the file says.   *)
StatusFetched ==
    \/ known' = says /\ AllWell
    \/ known' = known /\ Mishap

NewsComes(i) ==
    /\ proc = "window" /\ news[i] = "asking"
    /\ StatusFetched
    /\ news' = [news EXCEPT ![i] = known']
    /\ marks' = marks \ {"resume"}
    /\ UNCHANGED <<system, page, past, signingIn, check, token, saved, says, proc, spawn, runs>>

GoesOn(answer) == First
AfterSignIn(answer) == IF answer = "blocked" THEN "finish-signup" ELSE First

NewsHandled(i) ==
    /\ proc = "window" /\ news[i] \in Statuses
    /\ screen' = AfterSignIn(news[i]) /\ ui' = "idle"
    /\ news' = [news EXCEPT ![i] = "none"]
    /\ UNCHANGED <<files, system, past, bounds, signingIn, check, says, proc, spawn, runs>>

(* FinishSignup's poll and its "Check now", one at a time.                   *)
ChecksAgain ==
    /\ On("finish-signup") /\ check = "none" /\ check' = "asking"
    /\ UNCHANGED <<files, system, page, past, bounds, signingIn, news, says, proc, spawn, runs>>

CheckComes ==
    /\ proc = "window" /\ check = "asking"
    /\ StatusFetched
    /\ check' = known'
    /\ marks' = marks \ {"resume"}
    /\ UNCHANGED <<system, page, past, signingIn, news, token, saved, says, proc, spawn, runs>>

CheckHandled ==
    /\ proc = "window" /\ check \in Statuses /\ check' = "none"
    /\ IF check = "ok" THEN screen' = First /\ ui' = "idle" ELSE UNCHANGED page
    /\ UNCHANGED <<files, system, past, bounds, signingIn, news, says, proc, spawn, runs>>

-----------------------------------------------------------------------------
(* The permissions of macOS                                                  *)

Allows(s) ==
    /\ On(s) /\ s \in DOMAIN PermOf /\ ui = "idle" /\ ui' = "pending"
    /\ probe' = IF s = "audio-capture" THEN "running" ELSE probe
    /\ UNCHANGED <<files, past, bounds, talks, mac, perm, sees, says, proc, spawn, runs, screen>>

(* What a page makes of [granted, stale_tcc_likely].                         *)
PromptShows(granted, stale) ==
    IF granted = "yes" THEN "granted"
    ELSE IF granted = "unknown" THEN "idle"
    ELSE IF stale THEN "stale" ELSE "denied"

Ends(p, after, granted, stale) ==
    /\ perm' = [perm EXCEPT ![p] = after]
    /\ ui' = PromptShows(granted, stale)

(* prompt_microphone reads the status first; a dialog that is not shown is a *)
(* refusal at once, or no answer in time.                                    *)
PromptsMic ==
    \/ perm["mic"] \in {"yes", "no"} /\ Ends("mic", perm["mic"], perm["mic"], FALSE) /\ AllWell
    \/ perm["mic"] = "ask" /\ Ends("mic", "yes", "yes", FALSE) /\ AllWell
    \/ /\ perm["mic"] = "ask" /\ Mishap
       /\ \/ Ends("mic", "no", "no", FALSE)
          \/ Ends("mic", "ask", "unknown", TRUE)

(* prompt_audio_capture learns of a refusal by exit code 77, which comes at  *)
(* once when it is an old one; a helper that fails or hangs says nothing.    *)
PromptsTap ==
    \/ perm["tap"] \in {"yes", "ask"} /\ Ends("tap", "yes", "yes", FALSE) /\ AllWell
    \/ perm["tap"] = "no" /\ Ends("tap", "no", "no", TRUE) /\ AllWell
    \/ /\ perm["tap"] = "ask" /\ Mishap
       /\ \/ Ends("tap", "no", "no", FALSE)
          \/ Ends("tap", "ask", "no", TRUE)
          \/ Ends("tap", "ask", "unknown", FALSE)

PromptEnds ==
    /\ proc = "window" /\ ui = "pending"
    /\ IF screen = "microphone" THEN PromptsMic ELSE PromptsTap
    /\ probe' = IF screen = "audio-capture" THEN "none" ELSE probe
    /\ UNCHANGED <<files, past, talks, mac, sees, says, proc, spawn, runs, screen>>

(* The user turns it on in System Settings.  A running process may not       *)
(* notice that it is trusted now.                                            *)
Enables(p) ==
    /\ mac /\ perm[p] = "no" /\ perm' = [perm EXCEPT ![p] = "yes"]
    /\ IF p = "trust" /\ proc \in {"window", "agent"} THEN sees' \in BOOLEAN ELSE UNCHANGED sees
    /\ UNCHANGED <<files, page, past, bounds, talks, mac, probe, says, proc, spawn, runs>>

(* Reset & Restart: tccutil makes macOS ask again.                           *)
ResetsAndRestarts ==
    /\ proc = "window" /\ ui = "stale" /\ screen \in DOMAIN PermOf
    /\ perm' = [perm EXCEPT ![PermOf[screen]] = "ask"]
    /\ Relaunches
    /\ UNCHANGED <<files, past, talks, mac, sees, probe, says, runs, page>>

OpensSettings ==
    /\ On("accessibility") /\ ui = "idle" /\ ui' = "waiting"
    /\ UNCHANGED <<files, system, past, bounds, talks, says, proc, spawn, runs, screen>>

PollSees ==
    /\ On("accessibility") /\ ui \in {"waiting", "hinted"} /\ sees /\ ui' = "trusted"
    /\ UNCHANGED <<files, system, past, bounds, talks, says, proc, spawn, runs, screen>>

HintRestarted == FALSE      \* each poll starts the ten seconds again
HintDue == ui = "waiting" /\ ~sees
(* The restart is offered after ten seconds of polls that see nothing.       *)
Hinted ==
    /\ On("accessibility") /\ HintDue /\ ui' = "hinted"
    /\ UNCHANGED <<files, system, past, bounds, talks, says, proc, spawn, runs, screen>>

Restarts ==
    /\ On("accessibility") /\ ui = "hinted"
    /\ \E written \in BOOLEAN :
         /\ marks' = IF written THEN marks \cup {"resume"} ELSE marks
         /\ IF written THEN Relaunches ELSE Mishap /\ proc' = "exiting" /\ spawn' = TRUE
    /\ UNCHANGED <<system, page, past, talks, token, known, saved, says, runs>>

-----------------------------------------------------------------------------
(* The walk                                                                  *)

Continues ==
    /\ Open /\ \/ screen \in DOMAIN PermOf /\ ui = "granted"
               \/ screen = "accessibility" /\ ui = "trusted"
    /\ screen' = Following[screen] /\ ui' = "idle"
    /\ UNCHANGED <<files, system, past, bounds, talks, says, proc, spawn, runs>>

(* A shortcut that cannot be saved keeps the page; the recording indicator   *)
(* is a courtesy, and a failure there does not.                              *)
SavesShortcut ==
    /\ On("shortcut")
    /\ \/ \E h \in Shortcuts :
            /\ saved' = h /\ wanted' = h /\ AllWell
            /\ screen' = Following["shortcut"]
       \/ Mishap /\ UNCHANGED <<saved, wanted, screen>>
    /\ UNCHANGED <<system, talks, token, known, marks, says, proc, spawn, runs, ui, hurried>>

SavesIndicator ==
    /\ On("indicator") /\ screen' = "done"
    /\ UNCHANGED <<files, system, past, bounds, talks, says, proc, spawn, runs, ui>>

(* "Got it": the marker, written if it can be, then the end of the window.   *)
Marks ==
    /\ On("done") /\ ui = "idle" /\ ui' = "saving"
    /\ \/ marks' = marks \cup {"onboarded"} /\ AllWell
       \/ UNCHANGED marks /\ Mishap
    /\ UNCHANGED <<system, past, talks, token, known, saved, says, proc, spawn, runs, screen>>

Picked == saved
Finishes ==
    /\ On("done") /\ ui = "saving" /\ proc' = "agent" /\ NoPage
    /\ marks' = marks \cup {"seen"} /\ runs' = Picked
    /\ UNCHANGED <<system, past, bounds, token, known, saved, says, spawn>>

-----------------------------------------------------------------------------
(* The agent, the account and the server                                     *)

AgentQuits ==
    /\ proc = "agent" /\ proc' = "off" /\ Leaves
    /\ token' \in {token, "none"}
    /\ UNCHANGED <<system, page, past, talks, known, marks, saved, says, spawn, runs>>

AgentHears ==
    /\ proc = "agent" /\ token = "good" /\ known # says /\ known' = says
    /\ UNCHANGED <<system, page, past, bounds, talks, token, marks, saved, says, proc, spawn, runs>>

AccountReady ==
    /\ says = "blocked" /\ says' = "ok"
    /\ UNCHANGED <<files, system, page, past, bounds, talks, proc, spawn, runs>>

AccountBlocked ==
    /\ says = "ok" /\ says' = "blocked" /\ Mishap
    /\ UNCHANGED <<files, system, page, past, talks, proc, spawn, runs>>

SetupNext ==
    \/ Launch \/ Spawned \/ GateDecides \/ Exited \/ Closes \/ Loads
    \/ StartsLogin \/ SignInFails \/ ChecksAgain \/ CheckComes \/ CheckHandled
    \/ \E i \in 1 .. 2 : LoginDone(i) \/ NewsComes(i) \/ NewsHandled(i)
    \/ \E s \in DOMAIN PermOf : Allows(s)
    \/ \E p \in DOMAIN perm : Enables(p)
    \/ PromptEnds \/ ResetsAndRestarts \/ OpensSettings \/ PollSees \/ Hinted \/ Restarts
    \/ Continues \/ SavesShortcut \/ SavesIndicator \/ Marks \/ Finishes
    \/ AgentQuits \/ AgentHears \/ AccountReady \/ AccountBlocked

(* A user who goes on: opens the application, signs in, presses what the     *)
(* page offers, turns permissions on and finishes the account on the web.    *)
UserGoesOn ==
    \/ Launch \/ StartsLogin \/ \E s \in DOMAIN PermOf : Allows(s)
    \/ ResetsAndRestarts \/ OpensSettings \/ Restarts \/ Continues
    \/ SavesShortcut \/ SavesIndicator \/ Marks
    \/ proc = "window" /\ ui = "denied" /\ perm[PermOf[screen]] = "yes" /\ Closes
MachineGoesOn ==
    \/ GateDecides \/ Exited \/ Loads \/ PromptEnds \/ PollSees \/ Hinted \/ Finishes
    \/ \E i \in 1 .. 2 : LoginDone(i) \/ NewsComes(i) \/ NewsHandled(i)

-----------------------------------------------------------------------------
(* Whoever comes through the wizard is signed in, with an account that is    *)
(* not known to be blocked, every permission granted, and the agent has the  *)
(* shortcut picked last: however often the window was closed, restarted and  *)
(* resumed on the way.                                                       *)
SetupIsWhole ==
    [][proc = "window" /\ proc' = "agent" =>
         /\ token # "none"
         /\ hurried \/ known # "blocked"
         /\ mac => \A p \in DOMAIN perm : perm[p] = "yes"
         /\ runs' = wanted]_setupVars
=============================================================================
