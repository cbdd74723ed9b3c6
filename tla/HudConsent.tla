----------------------------- MODULE HudConsent -----------------------------
(* What a caller of HudLauncher.ask_consent is promised: the call returns      *)
(* once, with what the user answered on that very card, with "timeout", or     *)
(* with the default that this caller gave, whatever becomes of the HUD.        *)
CONSTANTS Callers,   \* threads that may block in ask_consent, one question each
          Default    \* the default_on_timeout each of them passes

Answers == {"yes", "no", "timeout"}

VARIABLES asking,    \* the callers whose question is open
          pressed,   \* the buttons the user pressed on the open question of each
          result     \* what the last question of each returned

vars == <<asking, pressed, result>>

TypeOK == /\ asking \subseteq Callers
          /\ pressed \in [Callers -> SUBSET {"yes", "no"}]
          /\ result \in [Callers -> Answers \union {"none"}]

Init == /\ asking = {}
        /\ pressed = [c \in Callers |-> {}]
        /\ result = [c \in Callers |-> "none"]

\* A question opens with nothing pressed; one asked of a HUD that was given
\* up is answered on the spot.
Ask(c) == /\ c \notin asking
          /\ asking' = asking \union {c}
          /\ result' = [result EXCEPT ![c] = "none"]
          /\ UNCHANGED pressed

Refused(c) == /\ c \notin asking
              /\ result' = [result EXCEPT ![c] = Default[c]]
              /\ UNCHANGED <<asking, pressed>>

\* The user presses one button of a card, once.
Press(c, a) == /\ c \in asking
               /\ pressed[c] = {}
               /\ pressed' = [pressed EXCEPT ![c] = {a}]
               /\ UNCHANGED <<asking, result>>

Return(c) == /\ c \in asking
             /\ asking' = asking \ {c}
             /\ \E a \in pressed[c] \union {Default[c], "timeout"} :
                  result' = [result EXCEPT ![c] = a]
             /\ pressed' = [pressed EXCEPT ![c] = {}]

Next == \E c \in Callers : \/ Ask(c) \/ Refused(c) \/ Return(c)
                           \/ \E a \in {"yes", "no"} : Press(c, a)

Spec == Init /\ [][Next]_vars /\ \A c \in Callers : WF_vars(Return(c))
=============================================================================
