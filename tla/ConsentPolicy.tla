--------------------------- MODULE ConsentPolicy ---------------------------
(***************************************************************************)
(* What the whitelist watcher promises about its questions: one at a time, *)
(* none about an app that is quiet, and no more than MaxRefires further    *)
(* ones about an app whose question went unanswered.  ConsentWatcher       *)
(* implements it.                                                          *)
(***************************************************************************)
EXTENDS Naturals

CONSTANTS Apps, MaxRefires

VARIABLES
  mood,     \* of each app: open to a question, to be asked again later, or quiet
  ignored,  \* how many questions about it went unanswered since it was open
  toast     \* the app the question on screen is about

vars == <<mood, ignored, toast>>

Init ==
  /\ mood = [a \in Apps |-> "open"] /\ ignored = [a \in Apps |-> 0]
  /\ toast = "none"

\* Apps whose meeting is over are open again; then one that is not quiet may be
\* asked about.
Poll ==
  /\ toast = "none"
  /\ \E gone \in SUBSET Apps :
       /\ mood' = [a \in Apps |-> IF a \in gone THEN "open" ELSE mood[a]]
       /\ ignored' = [a \in Apps |-> IF a \in gone THEN 0 ELSE ignored[a]]
  /\ toast' \in {"none"} \cup {a \in Apps : mood'[a] # "quiet"}

\* The question about app a ends, and leaves it in mood m after n unanswered ones.
Settles(a, m, n) ==
  /\ toast = a /\ toast' = "none"
  /\ mood' = [mood EXCEPT ![a] = m] /\ ignored' = [ignored EXCEPT ![a] = n]

Ignored(a) ==
  IF ignored[a] < MaxRefires THEN Settles(a, "later", ignored[a] + 1) ELSE Settles(a, "quiet", 0)

\* Accepted, or overtaken by the user's own arm.
Armed(a) == Settles(a, "open", 0)

Refused(a) == Settles(a, "quiet", 0)

\* The recording of an app's meeting has ended.
Recorded(a) ==
  /\ toast = "none"
  /\ mood' = [mood EXCEPT ![a] = "quiet"] /\ ignored' = [ignored EXCEPT ![a] = 0]
  /\ UNCHANGED toast

Next == Poll \/ \E a \in Apps : Ignored(a) \/ Armed(a) \/ Refused(a) \/ Recorded(a)

Spec == Init /\ [][Next]_vars

=============================================================================
