----------------------- MODULE ConsentWatcher_proofs -----------------------
(***************************************************************************)
(* Proofs about ConsentWatcher, for any set of apps and any re-ask budget: *)
(* its types, that no app is both declined and snoozed, and that it        *)
(* implements ConsentPolicy.                                               *)
(***************************************************************************)
EXTENDS ConsentWatcher, TLAPS

\* The app asked about is not declined meanwhile: the one flow that could decline
\* it, the end of its own recording, runs only while the watcher sleeps.
Asking == watch.at \in {"ask", "answered"}
AskedIsOpen == Asking => watch.app \in Apps /\ declined[watch.app] = "no"
ArmedAsleep == armed \in Apps => watch.at = "sleep"

IInv == TypeOK /\ Exclusive /\ AskedIsOpen /\ ArmedAsleep

Snooze == [asks : 0..MaxRefires, due : BOOLEAN, streak : Streaks]

-----------------------------------------------------------------------------
(* Operators *)

LEMMA NoSnoozeType == NoSnooze \in Snooze /\ NoSnooze.asks = 0
BY ConsentAssumption DEF NoSnooze, Snooze, Streaks

LEMMA SleepType == Sleep \in Watch /\ Sleep.at = "sleep" /\ Sleep.app = "none"
BY DEF Sleep, Watch

\* A poll keeps an entry, or drops it.
LEMMA TickedType ==
  ASSUME NEW s \in Streaks, NEW on \in BOOLEAN
  PROVE  Ticked(s, on) \in Streaks /\ (s = "no" => Ticked(s, on) = "no")
BY DEF Ticked, Streaks

LEMMA TickedSnoozeType ==
  ASSUME NEW e \in Snooze, NEW on \in BOOLEAN
  PROVE  /\ TickedSnooze(e, on) \in Snooze
         /\ TickedSnooze(e, on).asks \in {0, e.asks}
<1>1. CASE Ticked(e.streak, on) = "no"
  BY <1>1, NoSnoozeType DEF TickedSnooze
<1>2. CASE Ticked(e.streak, on) # "no"
  <2>1. Ticked(e.streak, on) \in Streaks
    BY TickedType DEF Snooze
  <2>2. TickedSnooze(e, on) = [e EXCEPT !.streak = Ticked(e.streak, on)]
    BY <1>2 DEF TickedSnooze, Snooze
  <2> QED BY <2>1, <2>2 DEF Snooze
<1> QED BY <1>1, <1>2

\* What the three marks do to an app, and to no other.
LEMMA MarkDeclinedStep ==
  ASSUME TypeOK, NEW a \in Apps, MarkDeclined(a)
  PROVE  /\ declined' \in [Apps -> Streaks] /\ declined'[a] = "held"
         /\ snooze' \in [Apps -> Snooze] /\ snooze'[a].asks = 0
         /\ \A b \in Apps \ {a} : declined'[b] = declined[b] /\ snooze'[b] = snooze[b]
BY NoSnoozeType DEF TypeOK, MarkDeclined, Snooze, Streaks

LEMMA ClearSnoozeStep ==
  ASSUME TypeOK, NEW a \in Apps, ClearSnooze(a)
  PROVE  /\ declined' = declined
         /\ snooze' \in [Apps -> Snooze] /\ snooze'[a].asks = 0
         /\ \A b \in Apps \ {a} : snooze'[b] = snooze[b]
BY NoSnoozeType DEF TypeOK, ClearSnooze, Snooze

LEMMA MarkTimeoutStep ==
  ASSUME TypeOK, NEW a \in Apps, MarkTimeout(a), snooze[a].asks < MaxRefires
  PROVE  /\ declined' = declined
         /\ snooze' \in [Apps -> Snooze] /\ snooze'[a].asks = snooze[a].asks + 1
         /\ \A b \in Apps \ {a} : snooze'[b] = snooze[b]
<1> DEFINE n == snooze[a].asks + 1
           e == [asks |-> n, due |-> FALSE, streak |-> "held"]
<1>1. snooze[a].asks \in 0..MaxRefires
  BY DEF TypeOK
<1>2. n \in 0..MaxRefires /\ ~(n > MaxRefires)
  BY <1>1, ConsentAssumption
<1>3. snooze' = [snooze EXCEPT ![a] = e] /\ declined' = declined
  BY <1>2 DEF MarkTimeout, TypeOK
<1> HIDE DEF n
<1>4. e \in Snooze /\ e.asks = n
  BY <1>2 DEF Snooze, Streaks
<1> HIDE DEF e
<1>5. snooze \in [Apps -> Snooze]
  BY DEF TypeOK, Snooze
<1> QED BY <1>3, <1>4, <1>5 DEF n

LEMMA MarkTimeoutLast ==
  ASSUME TypeOK, NEW a \in Apps, MarkTimeout(a), ~(snooze[a].asks < MaxRefires)
  PROVE  MarkDeclined(a)
<1>1. snooze[a].asks \in 0..MaxRefires
  BY DEF TypeOK
<1>2. snooze[a].asks + 1 > MaxRefires
  BY <1>1, ConsentAssumption
<1> QED BY <1>2 DEF MarkTimeout

-----------------------------------------------------------------------------
(* What a step does, in terms of the invariant *)

World0 == holding \in SUBSET Apps /\ shown \in SUBSET Apps /\ allowed \in BOOLEAN
          /\ hotkey \in BOOLEAN /\ over \in Apps \cup {"none"}

LEMMA TypeParts ==
  TypeOK <=> /\ World0 /\ armed \in Apps \cup {"none", "user"}
             /\ declined \in [Apps -> Streaks] /\ snooze \in [Apps -> Snooze] /\ watch \in Watch
BY DEF TypeOK, World0, Snooze

\* A poll only drops entries, and asks about an app that is not declined.
LEMMA PollStep ==
  ASSUME IInv, PollActs
  PROVE  /\ declined' \in [Apps -> Streaks] /\ snooze' \in [Apps -> Snooze] /\ watch' \in Watch
         /\ \A a \in Apps : declined[a] = "no" => declined'[a] = "no"
         /\ \A a \in Apps : snooze'[a].asks \in {0, snooze[a].asks}
         /\ watch' = Sleep \/ /\ watch'.at = "ask" /\ watch'.app \in Apps
                              /\ declined'[watch'.app] = "no"
<1>1. watch \in Watch /\ declined \in [Apps -> Streaks] /\ snooze \in [Apps -> Snooze]
  BY TypeParts DEF IInv
<1>2. CASE armed # "none"
  BY <1>1, <1>2, SleepType DEF PollActs, cooldowns
<1>3. CASE armed = "none"
  <2>1. /\ declined' = [a \in Apps |-> Ticked(declined[a], a \in watch.holding)]
        /\ snooze' = [a \in Apps |-> TickedSnooze(snooze[a], a \in watch.holding)] /\ Ask
    BY <1>3 DEF PollActs
  <2>2. \A a \in Apps : (a \in watch.holding) \in BOOLEAN
    OBVIOUS
  <2>3. declined' \in [Apps -> Streaks] /\ \A a \in Apps : declined[a] = "no" => declined'[a] = "no"
    BY <1>1, <2>1, <2>2, TickedType
  <2>4. snooze' \in [Apps -> Snooze] /\ \A a \in Apps : snooze'[a].asks \in {0, snooze[a].asks}
    BY <1>1, <2>1, <2>2, TickedSnoozeType
  <2>5. CASE watch' = Sleep
    BY <2>3, <2>4, <2>5, SleepType
  <2>6. CASE watch' # Sleep
    <3>1. PICK a \in watch.shown : Matchable(a) /\ watch' = [Sleep EXCEPT !.at = "ask", !.app = a]
      BY <2>1, <2>6 DEF Ask
    <3>2. a \in Apps
      BY <1>1, <3>1 DEF Watch
    <3>3. watch' \in Watch /\ watch'.at = "ask" /\ watch'.app = a
      BY <3>1, <3>2 DEF Sleep, Watch
    <3> QED BY <2>3, <2>4, <3>1, <3>2, <3>3 DEF Matchable
  <2> QED BY <2>5, <2>6
<1> QED BY <1>2, <1>3

\* A step that leaves the cooldowns alone.
LEMMA CalmInv ==
  ASSUME IInv, UNCHANGED cooldowns, World0', watch' \in Watch, armed' \in Apps \cup {"none", "user"},
         Asking' => Asking /\ watch'.app = watch.app, ArmedAsleep'
  PROVE  IInv'
<1>1. TypeOK'
  BY TypeParts DEF IInv, World0, cooldowns, TypeOK, Snooze
<1>2. Exclusive' /\ AskedIsOpen'
  BY DEF IInv, Exclusive, AskedIsOpen, cooldowns
<1> QED BY <1>1, <1>2 DEF IInv

LEMMA PollActsInv == ASSUME IInv, PollActs PROVE IInv'
<1>1. UNCHANGED <<holding, shown, allowed, armed, hotkey, over>>
  BY DEF PollActs, world
<1>2. TypeOK'
  BY <1>1, PollStep, TypeParts DEF IInv, TypeOK, Snooze
<1>3. Exclusive'
  <2> SUFFICES ASSUME NEW a \in Apps, declined'[a] # "no" PROVE snooze'[a].asks = 0
    BY DEF Exclusive
  <2>1. declined[a] # "no"
    BY PollStep
  <2> QED BY <2>1, PollStep DEF IInv, Exclusive
<1>4. AskedIsOpen'
  BY PollStep, SleepType DEF AskedIsOpen, Asking
<1>5. armed \notin Apps
  BY DEF PollActs, IInv, ArmedAsleep
<1>6. ArmedAsleep'
  BY <1>1, <1>5 DEF ArmedAsleep
<1> QED BY <1>2, <1>3, <1>4, <1>6 DEF IInv

\* One app's entries change while the watcher is not asking about it any more.
LEMMA MarkInv ==
  ASSUME IInv, NEW a \in Apps, World0', armed' \in Apps \cup {"none", "user"},
         declined' \in [Apps -> Streaks], snooze' \in [Apps -> Snooze],
         \A b \in Apps \ {a} : declined'[b] = declined[b] /\ snooze'[b].asks = snooze[b].asks,
         declined'[a] = "no" \/ snooze'[a].asks = 0,
         watch' \in Watch, watch'.at \notin {"ask", "answered"}, ArmedAsleep'
  PROVE  IInv'
<1>1. TypeOK'
  BY TypeParts DEF World0, TypeOK, Snooze
<1>2. Exclusive' /\ AskedIsOpen'
  BY DEF IInv, Exclusive, AskedIsOpen, Asking
<1> QED BY <1>1, <1>2 DEF IInv

\* The answer is acted on: what becomes of the app, and of who armed.
LEMMA ActStep ==
  ASSUME IInv, WatchActs
  PROVE  /\ watch.app \in Apps /\ declined[watch.app] = "no"
         /\ armed' \in Apps \cup {"none", "user"} /\ watch' = Sleep
         /\ \/ ClearSnooze(watch.app) \/ MarkDeclined(watch.app)
            \/ MarkTimeout(watch.app) /\ snooze[watch.app].asks < MaxRefires
            \/ MarkTimeout(watch.app) /\ MarkDeclined(watch.app) /\ ~(snooze[watch.app].asks < MaxRefires)
<1>1. watch.app \in Apps /\ declined[watch.app] = "no"
  BY DEF IInv, AskedIsOpen, Asking, WatchActs
<1>2. armed' \in Apps \cup {"none", "user"} /\ watch' = Sleep
  BY <1>1 DEF WatchActs, IInv, TypeOK
<1>3. ClearSnooze(watch.app) \/ MarkDeclined(watch.app) \/ MarkTimeout(watch.app)
  BY DEF WatchActs
<1> QED BY <1>1, <1>2, <1>3, MarkTimeoutLast DEF IInv

LEMMA WatchActsInv == ASSUME IInv, WatchActs PROVE IInv'
<1> DEFINE a == watch.app
<1>1. a \in Apps /\ declined[a] = "no" /\ watch' = Sleep /\ armed' \in Apps \cup {"none", "user"}
  BY ActStep
<1>2. World0'
  BY DEF WatchActs, world, World0, IInv, TypeOK
<1>3. watch' \in Watch /\ watch'.at \notin {"ask", "answered"} /\ ArmedAsleep'
  BY <1>1, SleepType DEF ArmedAsleep
<1>4. /\ declined' \in [Apps -> Streaks] /\ snooze' \in [Apps -> Snooze]
      /\ \A b \in Apps \ {a} : declined'[b] = declined[b] /\ snooze'[b].asks = snooze[b].asks
      /\ declined'[a] = "no" \/ snooze'[a].asks = 0
  <2>1. TypeOK /\ declined \in [Apps -> Streaks]
    BY DEF IInv, TypeOK
  <2>2. CASE ClearSnooze(a)
    BY <1>1, <2>1, <2>2, ClearSnoozeStep
  <2>3. CASE MarkDeclined(a)
    BY <1>1, <2>1, <2>3, MarkDeclinedStep
  <2>4. CASE MarkTimeout(a) /\ snooze[a].asks < MaxRefires
    BY <1>1, <2>1, <2>4, MarkTimeoutStep
  <2> QED BY <2>2, <2>3, <2>4, ActStep
<1> HIDE DEF a
<1> QED BY <1>1, <1>2, <1>3, <1>4, MarkInv

LEMMA SessionEndsInv == ASSUME IInv, SessionEnds PROVE IInv'
<1>1. /\ World0' /\ UNCHANGED watch /\ armed' = "none" /\ ArmedAsleep' /\ watch \in Watch
  BY ConsentAssumption DEF SessionEnds, world, World0, ArmedAsleep, IInv, TypeOK
<1>2. CASE armed \in Apps
  <2>1. MarkDeclined(armed) /\ watch.at = "sleep"
    BY <1>2 DEF SessionEnds, IInv, ArmedAsleep
  <2>2. /\ declined' \in [Apps -> Streaks] /\ snooze' \in [Apps -> Snooze] /\ snooze'[armed].asks = 0
        /\ \A b \in Apps \ {armed} : declined'[b] = declined[b] /\ snooze'[b].asks = snooze[b].asks
    BY <1>2, <2>1, MarkDeclinedStep DEF IInv
  <2> QED BY <1>1, <1>2, <2>1, <2>2, MarkInv
<1>3. CASE armed \notin Apps
  BY <1>1, <1>3, CalmInv DEF SessionEnds, Asking
<1> QED BY <1>2, <1>3

\* Time passes for an app: its entries stay what they are.
LEMMA TimerStep ==
  ASSUME TypeOK, NEW a \in Apps, Timer(a)
  PROVE  /\ declined' \in [Apps -> Streaks] /\ snooze' \in [Apps -> Snooze]
         /\ \A b \in Apps : (declined'[b] = "no" <=> declined[b] = "no") /\ snooze'[b].asks = snooze[b].asks
         /\ UNCHANGED <<world, armed, watch, hotkey, over>>
<1>1. CASE GracePasses(a)
  BY <1>1 DEF GracePasses, TypeOK, Snooze, Streaks
<1>2. CASE RefireDue(a)
  BY <1>2 DEF RefireDue, TypeOK, Snooze, Streaks
<1> QED BY <1>1, <1>2 DEF Timer

LEMMA TimerInv == ASSUME IInv, NEW a \in Apps, Timer(a) PROVE IInv'
<1>1. TypeOK' /\ Exclusive' /\ AskedIsOpen' /\ ArmedAsleep'
  BY TimerStep DEF IInv, TypeOK, Snooze, Exclusive, AskedIsOpen, ArmedAsleep, Asking, world
<1> QED BY <1>1 DEF IInv

\* The steps that leave the cooldowns alone, and what they do to the question.
Calm == World \/ AccountChanges \/ TrayArms \/ HotkeyPressed \/ HotkeyAnswered \/ SessionDropped
        \/ PollSamples \/ ToastAnswered \/ UNCHANGED vars

LEMMA CalmStep ==
  ASSUME IInv, Calm
  PROVE  /\ UNCHANGED cooldowns /\ World0' /\ watch' \in Watch /\ armed' \in Apps \cup {"none", "user"}
         /\ (Asking' <=> Asking) /\ (Asking => watch'.app = watch.app) /\ ArmedAsleep'
<1> USE DEF IInv, TypeOK, World0, ArmedAsleep, Asking, world, cooldowns
<1>1. CASE World
  BY <1>1 DEF World, MicChanges, PageChanges
<1>2. CASE AccountChanges \/ UNCHANGED vars
  BY <1>2 DEF AccountChanges, vars
<1>3. CASE TrayArms \/ HotkeyAnswered \/ SessionDropped
  BY <1>3, ConsentAssumption DEF TrayArms, HotkeyAnswered, SessionDropped
<1>4. CASE HotkeyPressed
  <2>1. CASE watch.at = "ask"
    BY <1>4, <2>1, ConsentAssumption DEF HotkeyPressed, Watch
  <2>2. CASE watch.at # "ask"
    BY <1>4, <2>2, ConsentAssumption DEF HotkeyPressed
  <2> QED BY <2>1, <2>2
<1>5. CASE PollSamples
  <2>1. watch' \in Watch /\ watch'.at = "sampled"
    BY <1>5 DEF PollSamples, Sleep, Watch
  <2> QED BY <1>5, <2>1, ConsentAssumption DEF PollSamples
<1>6. CASE ToastAnswered
  BY <1>6 DEF ToastAnswered, Watch
<1> QED BY <1>1, <1>2, <1>3, <1>4, <1>5, <1>6 DEF Calm

LEMMA NextCases == [Next]_vars => Calm \/ PollActs \/ WatchActs \/ SessionEnds \/ \E a \in Apps : Timer(a)
BY DEF Next, User, Watcher, Calm

LEMMA NextInv == ASSUME IInv, [Next]_vars PROVE IInv'
<1>1. CASE Calm
  BY <1>1, CalmStep, CalmInv
<1> QED BY <1>1, NextCases, PollActsInv, WatchActsInv, SessionEndsInv, TimerInv

LEMMA InitInv == Init => IInv
<1> SUFFICES ASSUME Init PROVE IInv
  OBVIOUS
<1>1. TypeOK
  BY NoSnoozeType, SleepType DEF Init, TypeOK, Snooze, Streaks
<1>2. Exclusive /\ AskedIsOpen /\ ArmedAsleep
  BY NoSnoozeType, SleepType DEF Init, Exclusive, AskedIsOpen, ArmedAsleep, Asking
<1> QED BY <1>1, <1>2 DEF IInv

LEMMA Inductive == Spec => []IInv
<1>1. Init => IInv
  BY InitInv
<1>2. IInv /\ [Next]_vars => IInv'
  BY NextInv
<1> QED BY <1>1, <1>2, PTL DEF Spec

\* Every variable keeps its type; no app is asked about more often than its count
\* of unanswered questions can hold.
THEOREM TypeCorrect == Spec => []TypeOK
<1>1. IInv => TypeOK
  BY DEF IInv
<1> QED BY <1>1, Inductive, PTL

\* declined_release_at and timeout_snooze never hold one app both.
THEOREM NeverBoth == Spec => []Exclusive
<1>1. IInv => Exclusive
  BY DEF IInv
<1> QED BY <1>1, Inductive, PTL

-----------------------------------------------------------------------------
(* The watcher keeps its promises *)

LEMMA InitPolicy == Init => Policy!Init
<1> SUFFICES ASSUME Init PROVE Policy!Init
  OBVIOUS
<1>1. Mood = [a \in Apps |-> "open"] /\ Unanswered = [a \in Apps |-> 0]
  BY NoSnoozeType DEF Init, Mood, Unanswered
<1>2. Toast = "none"
  BY SleepType DEF Init, Toast
<1> QED BY <1>1, <1>2 DEF Policy!Init

\* A step that changes no entry's existence and no question is a stutter.
LEMMA SameMood ==
  ASSUME \A a \in Apps : (declined'[a] = "no" <=> declined[a] = "no") /\ snooze'[a].asks = snooze[a].asks,
         Toast' = Toast
  PROVE  UNCHANGED Policy!vars
BY DEF Policy!vars, Mood, Unanswered

LEMMA PollPolicy == ASSUME IInv, PollActs PROVE Policy!Poll
<1>1. Toast = "none"
  BY DEF Toast, PollActs
<1> DEFINE gone == {a \in Apps : Mood'[a] = "open"}
<1>2. \A a \in Apps : snooze[a].asks \in Nat
  BY ConsentAssumption DEF IInv, TypeOK
<1>3. \A a \in Apps : a \in gone => Unanswered'[a] = 0
  BY <1>2, PollStep DEF Mood, Unanswered
<1>4. \A a \in Apps : a \notin gone => Mood'[a] = Mood[a] /\ Unanswered'[a] = Unanswered[a]
  <2> SUFFICES ASSUME NEW a \in Apps, Mood'[a] # "open"
               PROVE  Mood'[a] = Mood[a] /\ Unanswered'[a] = Unanswered[a]
    OBVIOUS
  <2>1. CASE declined'[a] # "no"
    <3>1. declined[a] # "no" /\ snooze[a].asks = 0
      BY <2>1, PollStep DEF IInv, Exclusive
    <3> QED BY <2>1, <3>1, PollStep DEF Mood, Unanswered
  <2>2. CASE declined'[a] = "no"
    <3>1. snooze'[a].asks > 0
      BY <2>2 DEF Mood
    <3>2. snooze'[a].asks = snooze[a].asks
      BY <3>1, PollStep
    <3>3. declined[a] = "no"
      BY <3>1, <3>2 DEF IInv, Exclusive
    <3> QED BY <2>2, <3>1, <3>2, <3>3 DEF Mood, Unanswered
  <2> QED BY <2>1, <2>2
<1>5. Mood' = [a \in Apps |-> IF a \in gone THEN "open" ELSE Mood[a]]
  BY <1>4 DEF Mood
<1>6. Unanswered' = [a \in Apps |-> IF a \in gone THEN 0 ELSE Unanswered[a]]
  BY <1>3, <1>4 DEF Unanswered
<1>7. Toast' \in {"none"} \cup {a \in Apps : Mood'[a] # "quiet"}
  <2>1. CASE watch' = Sleep
    BY <2>1, SleepType DEF Toast
  <2>2. CASE watch' # Sleep
    <3>1. watch'.at = "ask" /\ watch'.app \in Apps /\ declined'[watch'.app] = "no"
      BY <2>2, PollStep
    <3> QED BY <3>1 DEF Toast, Mood
  <2> QED BY <2>1, <2>2
<1>8. gone \in SUBSET Apps
  OBVIOUS
<1> HIDE DEF gone
<1> QED BY <1>1, <1>5, <1>6, <1>7, <1>8 DEF Policy!Poll

\* The question about app a is settled: one app's entries change.
LEMMA SettlesPolicy ==
  ASSUME NEW a \in Apps, Toast = a, Toast' = "none", NEW m, NEW n,
         Mood'[a] = m, Unanswered'[a] = n,
         \A b \in Apps \ {a} : (declined'[b] = "no" <=> declined[b] = "no") /\ snooze'[b].asks = snooze[b].asks
  PROVE  Policy!Settles(a, m, n)
<1>1. Mood' = [Mood EXCEPT ![a] = m] /\ Unanswered' = [Unanswered EXCEPT ![a] = n]
  BY DEF Mood, Unanswered
<1> QED BY <1>1 DEF Policy!Settles

LEMMA ActPolicy ==
  ASSUME IInv, WatchActs
  PROVE  \E a \in Apps : Policy!Ignored(a) \/ Policy!Armed(a) \/ Policy!Refused(a)
<1> DEFINE a == watch.app
<1>1. a \in Apps /\ declined[a] = "no" /\ TypeOK
  BY ActStep DEF IInv
<1>2. Toast = a /\ Toast' = "none"
  BY ActStep, SleepType DEF Toast, WatchActs
<1>3. Unanswered[a] = snooze[a].asks /\ snooze[a].asks \in Nat
  BY <1>1, ConsentAssumption DEF Unanswered, TypeOK
<1> HIDE DEF a
<1>4. ASSUME MarkDeclined(a) PROVE Policy!Settles(a, "quiet", 0)
  <2>1. Mood'[a] = "quiet" /\ Unanswered'[a] = 0
    BY <1>1, <1>4, MarkDeclinedStep DEF Mood, Unanswered
  <2> QED BY <1>1, <1>2, <1>4, <2>1, MarkDeclinedStep, SettlesPolicy
<1>5. CASE ClearSnooze(a)
  <2>1. Mood'[a] = "open" /\ Unanswered'[a] = 0
    BY <1>1, <1>5, ClearSnoozeStep DEF Mood, Unanswered
  <2>2. Policy!Settles(a, "open", 0)
    BY <1>1, <1>2, <1>5, <2>1, ClearSnoozeStep, SettlesPolicy
  <2> QED BY <1>1, <2>2 DEF Policy!Armed
<1>6. CASE MarkDeclined(a)
  BY <1>1, <1>4, <1>6 DEF Policy!Refused
<1>7. CASE MarkTimeout(a) /\ snooze[a].asks < MaxRefires
  <2>1. declined' = declined /\ snooze'[a].asks = snooze[a].asks + 1
        /\ \A b \in Apps \ {a} : snooze'[b] = snooze[b]
    BY <1>1, <1>7, MarkTimeoutStep
  <2>2. snooze'[a].asks > 0
    BY <1>3, <2>1
  <2>3. Mood'[a] = "later" /\ Unanswered'[a] = Unanswered[a] + 1
    BY <1>1, <1>3, <2>1, <2>2 DEF Mood, Unanswered
  <2>4. Policy!Settles(a, "later", Unanswered[a] + 1)
    BY <1>1, <1>2, <2>1, <2>3, SettlesPolicy
  <2>5. Unanswered[a] < MaxRefires
    BY <1>3, <1>7
  <2> QED BY <1>1, <2>4, <2>5 DEF Policy!Ignored
<1>8. CASE MarkDeclined(a) /\ ~(snooze[a].asks < MaxRefires)
  BY <1>1, <1>3, <1>4, <1>8 DEF Policy!Ignored
<1>9. \/ ClearSnooze(a) \/ MarkDeclined(a)
      \/ MarkTimeout(a) /\ snooze[a].asks < MaxRefires
      \/ MarkDeclined(a) /\ ~(snooze[a].asks < MaxRefires)
  BY ActStep DEF a
<1> QED BY <1>5, <1>6, <1>7, <1>8, <1>9

LEMMA SessionPolicy ==
  ASSUME IInv, SessionEnds
  PROVE  UNCHANGED Policy!vars \/ \E a \in Apps : Policy!Recorded(a)
<1>1. CASE armed \in Apps
  <2>1. Toast = "none" /\ Toast' = "none" /\ MarkDeclined(armed)
    BY <1>1 DEF Toast, IInv, ArmedAsleep, SessionEnds
  <2>2. Mood' = [Mood EXCEPT ![armed] = "quiet"] /\ Unanswered' = [Unanswered EXCEPT ![armed] = 0]
    BY <1>1, <2>1, MarkDeclinedStep DEF Mood, Unanswered, IInv
  <2> QED BY <1>1, <2>1, <2>2 DEF Policy!Recorded
<1>2. CASE armed \notin Apps
  BY <1>2, SameMood DEF SessionEnds, cooldowns, Toast
<1> QED BY <1>1, <1>2

LEMMA NextPolicy == ASSUME IInv, [Next]_vars PROVE [Policy!Next]_(Policy!vars)
<1>1. CASE Calm
  BY <1>1, CalmStep, SameMood DEF cooldowns, Toast, Asking
<1>2. CASE \E a \in Apps : Timer(a)
  BY <1>2, TimerStep, SameMood DEF Toast, IInv
<1>3. CASE PollActs
  BY <1>3, PollPolicy DEF Policy!Next
<1>4. CASE WatchActs
  BY <1>4, ActPolicy DEF Policy!Next
<1>5. CASE SessionEnds
  BY <1>5, SessionPolicy DEF Policy!Next
<1> QED BY <1>1, <1>2, <1>3, <1>4, <1>5, NextCases

\* The watcher implements its policy: one question at a time, none about an app
\* that was declined or recorded until it has left, and at most MaxRefires more
\* about one whose question went unanswered, with whatever the user does meanwhile.
THEOREM Implements == Spec => ImplementsPolicy
<1>1. Init => Policy!Init
  BY InitPolicy
<1>2. IInv /\ [Next]_vars => [Policy!Next]_(Policy!vars)
  BY NextPolicy
<1> QED BY <1>1, <1>2, Inductive, PTL DEF Spec, ImplementsPolicy, Policy!Spec
=============================================================================
