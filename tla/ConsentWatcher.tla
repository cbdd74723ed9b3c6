--------------------------- MODULE ConsentWatcher ---------------------------
(***************************************************************************)
(* The whitelist watcher of sayzo_agent/arm/controller.py with its         *)
(* _Cooldowns: when an app that holds the microphone is asked about, and   *)
(* how long it is then left alone.  Sessions are those of ArmController,   *)
(* reduced to who armed.  Timers run out at any time.                      *)
(***************************************************************************)
EXTENDS Naturals

CONSTANTS
  Apps,       \* app keys of cfg.detectors
  MaxRefires  \* cfg.consent_timeout_max_refires

ASSUME ConsentAssumption == MaxRefires \in Nat /\ Apps \cap {"none", "user"} = {}

\* The release streak of a suppressed app: it holds the microphone (None in the
\* code), was off it at a poll, has been for the grace period; "no" is no entry.
Streaks == {"no", "held", "off", "ripe"}

NoSnooze == [asks |-> 0, due |-> FALSE, streak |-> "no"]
Sleep == [at |-> "sleep", app |-> "none", answer |-> "none", holding |-> {}, shown |-> {}]
Watch == [at      : {"sleep", "sampled", "ask", "answered"},
          app     : Apps \cup {"none"},
          answer  : {"none", "yes", "no", "timeout"},
          holding : SUBSET Apps,     \* the sample: apps on the microphone
          shown   : SUBSET Apps]     \* and of these, the ones that can be matched

VARIABLES
  holding,   \* apps on the microphone (for a web app, its browser)
  shown,     \* apps whose page is in view; always, for a desktop app
  allowed,   \* the account gate
  armed,     \* none, user (hotkey or tray), or the app of a whitelist arm
  declined,  \* declined_release_at
  snooze,    \* timeout_snooze: questions unanswered, refire_at passed, release streak
  watch,     \* the watcher
  hotkey,    \* the hotkey's own question is on screen
  over       \* history: the app whose question the hotkey's took off the screen

vars == <<holding, shown, allowed, armed, declined, snooze, watch, hotkey, over>>
world == <<holding, shown, allowed>>
cooldowns == <<declined, snooze>>

TypeOK ==
  /\ holding \in SUBSET Apps /\ shown \in SUBSET Apps /\ allowed \in BOOLEAN
  /\ armed \in Apps \cup {"none", "user"}
  /\ declined \in [Apps -> Streaks]
  /\ snooze \in [Apps -> [asks : 0..MaxRefires, due : BOOLEAN, streak : Streaks]]
  /\ watch \in Watch
  /\ hotkey \in BOOLEAN /\ over \in Apps \cup {"none"}

Init ==
  /\ holding = {} /\ shown = Apps /\ allowed = TRUE /\ armed = "none"
  /\ declined = [a \in Apps |-> "no"] /\ snooze = [a \in Apps |-> NoSnooze]
  /\ watch = Sleep /\ hotkey = FALSE /\ over = "none"

----------------------------------------------------------------------------
(* The world *)

MicChanges(a) ==
  /\ holding' = IF a \in holding THEN holding \ {a} ELSE holding \cup {a}
  /\ UNCHANGED <<shown, allowed, armed, cooldowns, watch, hotkey, over>>

PageChanges(a) ==
  /\ shown' = IF a \in shown THEN shown \ {a} ELSE shown \cup {a}
  /\ UNCHANGED <<holding, allowed, armed, cooldowns, watch, hotkey, over>>

AccountChanges ==
  /\ allowed' = ~allowed
  /\ UNCHANGED <<holding, shown, armed, cooldowns, watch, hotkey, over>>

\* decline_release_grace_secs, consent_timeout_refire_delay_secs
GracePasses(a) ==
  /\ \/ declined[a] = "off" /\ declined' = [declined EXCEPT ![a] = "ripe"] /\ UNCHANGED snooze
     \/ snooze[a].streak = "off" /\ snooze' = [snooze EXCEPT ![a].streak = "ripe"] /\ UNCHANGED declined
  /\ UNCHANGED <<world, armed, watch, hotkey, over>>

RefireDue(a) ==
  /\ snooze[a].asks > 0 /\ ~snooze[a].due
  /\ snooze' = [snooze EXCEPT ![a].due = TRUE]
  /\ UNCHANGED <<world, armed, declined, watch, hotkey, over>>

----------------------------------------------------------------------------
(* _Cooldowns *)

\* Mutant: a declined app keeps its pending question.
MarkDeclinedOnly(a) == declined' = [declined EXCEPT ![a] = "held"] /\ UNCHANGED snooze

MarkDeclined(a) ==
  /\ declined' = [declined EXCEPT ![a] = "held"]
  /\ snooze' = [snooze EXCEPT ![a] = NoSnooze]

\* Mutant: one question too many.
MarkTimeoutLate(a) ==
  IF snooze[a].asks > MaxRefires THEN MarkDeclined(a)
  ELSE /\ snooze' = [snooze EXCEPT ![a] = [asks |-> @.asks + 1, due |-> FALSE, streak |-> "held"]]
       /\ UNCHANGED declined

MarkTimeout(a) ==
  IF snooze[a].asks + 1 > MaxRefires THEN MarkDeclined(a)
  ELSE /\ snooze' = [snooze EXCEPT ![a] = [asks |-> @.asks + 1, due |-> FALSE, streak |-> "held"]]
       /\ UNCHANGED declined

ClearSnooze(a) == snooze' = [snooze EXCEPT ![a] = NoSnooze] /\ UNCHANGED declined

\* Mutant: every poll off the microphone starts the streak again.
RestartedStreak(s, on) ==
  IF s = "no" THEN "no" ELSE IF on THEN "held" ELSE "off"

\* tick_session and tick_snooze
Ticked(s, on) ==
  CASE s = "no" -> "no"
    [] s # "no" /\ on -> "held"
    [] s \in {"held", "off"} /\ ~on -> "off"
    [] s = "ripe" /\ ~on -> "no"

TickedSnooze(e, on) ==
  IF Ticked(e.streak, on) = "no" THEN NoSnooze ELSE [e EXCEPT !.streak = Ticked(@, on)]

----------------------------------------------------------------------------
(* The watcher *)

\* Both snapshots are taken off the loop.
PollSamples ==
  /\ watch.at = "sleep" /\ armed = "none"
  /\ watch' = [Sleep EXCEPT !.at = "sampled", !.holding = holding, !.shown = holding \cap shown]
  /\ UNCHANGED <<world, armed, cooldowns, hotkey, over>>

\* Mutant: what is declined is not left out of the match.
MatchableDeclined(a) == snooze'[a].asks = 0 \/ snooze'[a].due

\* Not among suppressed_keys, after the ticks of this poll.
Matchable(a) == declined'[a] = "no" /\ (snooze'[a].asks = 0 \/ snooze'[a].due)

\* Mutant: the first match decides, and if it is suppressed nothing is asked.
AskFirst ==
  IF watch.shown = {} \/ ~allowed THEN watch' = Sleep
  ELSE \E a \in watch.shown :
         watch' = IF Matchable(a) THEN [Sleep EXCEPT !.at = "ask", !.app = a] ELSE Sleep

\* match_whitelist takes the first app there is, by kind, foreground and order.
Ask ==
  LET matches == {a \in watch.shown : Matchable(a)} IN
  IF matches = {} \/ ~allowed THEN watch' = Sleep
  ELSE \E a \in matches : watch' = [Sleep EXCEPT !.at = "ask", !.app = a]

PollActs ==
  /\ watch.at = "sampled"
  /\ IF armed # "none" THEN watch' = Sleep /\ UNCHANGED cooldowns
     ELSE /\ declined' = [a \in Apps |-> Ticked(declined[a], a \in watch.holding)]
          /\ snooze' = [a \in Apps |-> TickedSnooze(snooze[a], a \in watch.holding)]
          /\ Ask
  /\ UNCHANGED <<world, armed, hotkey, over>>

ToastAnswered ==
  /\ watch.at = "ask"
  /\ \E answer \in {"yes", "no", "timeout"} :
       watch' = [watch EXCEPT !.at = "answered", !.answer = answer]
  /\ UNCHANGED <<world, armed, cooldowns, hotkey, over>>

\* The answer is acted on in the state it meets.
WatchActs ==
  /\ watch.at = "answered" /\ watch' = Sleep
  /\ \/ armed # "none" /\ ClearSnooze(watch.app) /\ UNCHANGED armed
     \/ armed = "none" /\ watch.answer = "yes" /\ ClearSnooze(watch.app)
        /\ armed' = IF allowed THEN watch.app ELSE "none"
     \/ armed = "none" /\ watch.answer = "timeout" /\ MarkTimeout(watch.app) /\ UNCHANGED armed
     \/ armed = "none" /\ watch.answer = "no" /\ MarkDeclined(watch.app) /\ UNCHANGED armed
  /\ UNCHANGED <<world, hotkey, over>>

----------------------------------------------------------------------------
(* The other flows of the controller *)

TrayArms ==
  /\ armed = "none" /\ allowed /\ armed' = "user" /\ over' = "none"
  /\ UNCHANGED <<world, cooldowns, watch, hotkey>>

\* The hotkey's question takes the watcher's off the screen, with its default.
HotkeyPressed ==
  /\ armed = "none" /\ ~hotkey /\ hotkey' = TRUE
  /\ IF watch.at = "ask"
     THEN watch' = [watch EXCEPT !.at = "answered", !.answer = "timeout"] /\ over' = watch.app
     ELSE over' = "none" /\ UNCHANGED watch
  /\ UNCHANGED <<world, armed, cooldowns>>

HotkeyAnswered ==
  /\ hotkey /\ hotkey' = FALSE
  /\ \/ armed = "none" /\ allowed /\ armed' = "user" /\ UNCHANGED over
     \/ over' = "none" /\ UNCHANGED armed
  /\ UNCHANGED <<world, cooldowns, watch>>

SessionEnds ==
  /\ armed # "none" /\ armed' = "none" /\ over' = "none"
  /\ IF armed \in Apps THEN MarkDeclined(armed) ELSE UNCHANGED cooldowns
  /\ UNCHANGED <<world, watch, hotkey>>

\* The streams did not start, or an idle session was abandoned: no suppression.
SessionDropped ==
  /\ armed # "none" /\ armed' = "none" /\ over' = "none"
  /\ UNCHANGED <<world, cooldowns, watch, hotkey>>

----------------------------------------------------------------------------
World == \E a \in Apps : MicChanges(a) \/ PageChanges(a)
User == AccountChanges \/ TrayArms \/ HotkeyPressed \/ HotkeyAnswered \/ SessionEnds \/ SessionDropped
Watcher == PollSamples \/ PollActs \/ ToastAnswered \/ WatchActs
Timer(a) == GracePasses(a) \/ RefireDue(a)

Next == World \/ User \/ Watcher \/ \E a \in Apps : Timer(a)

Spec == Init /\ [][Next]_vars

\* The watcher polls, its question times out at the latest, and time passes.
FairSpec == Spec /\ WF_vars(Watcher) /\ \A a \in Apps : WF_vars(Timer(a))

----------------------------------------------------------------------------
(* Properties *)

\* An app is declined or has a question pending, never both (controller.py
\* 146-147), whichever of the watcher and the ending session writes last.
Exclusive == \A a \in Apps : declined[a] # "no" => snooze[a].asks = 0

Mood == [a \in Apps |-> IF declined[a] # "no" THEN "quiet"
                        ELSE IF snooze[a].asks > 0 THEN "later" ELSE "open"]
Unanswered == [a \in Apps |-> snooze[a].asks]
Toast == IF watch.at \in {"ask", "answered"} THEN watch.app ELSE "none"
Policy == INSTANCE ConsentPolicy WITH mood <- Mood, ignored <- Unanswered, toast <- Toast

\* One question at a time, none about an app that was declined or recorded until
\* it has left, and no more than the budget about one that does not answer.
ImplementsPolicy == Policy!Spec

\* An app that stays on the microphone, unsuppressed, is asked about sooner or
\* later: no suppressed app ahead of it in the match hides it.
NoAppIsPassedOver ==
  \A a \in Apps :
    []<>~(/\ a \in holding /\ a \in shown /\ allowed /\ armed = "none"
          /\ declined[a] = "no" /\ snooze[a].asks = 0 /\ watch.app # a)

\* Suppression ends with the meeting: an app that has left for good keeps neither
\* a decline nor a pending question, as long as the watcher can poll.
SuppressionEnds ==
  \A a \in Apps :
    []<>~(a \notin holding /\ armed = "none" /\ (declined[a] # "no" \/ snooze[a].asks > 0))

\* "User armed via hotkey while the toast was up. Drop (clearing the snooze so the
\* stale re-ask doesn't outlive the user's own decision to arm)" (controller.py
\* 1302-1304): once the watcher is done with its question, none is left pending.
ReaskDroppedOnArm ==
  armed = "user" /\ over # "none" /\ watch.at = "sleep" => snooze[over].asks = 0

=============================================================================
