------------------------------ MODULE Hotkey --------------------------------
(***************************************************************************)
(* The global shortcut: picking one in the Settings window (ShortcutCapture *)
(* and ShortcutPane in gui/webui), saving it (gui/common/hotkey.py), the   *)
(* agent told to rebind over a call that may time out (gui/settings/       *)
(* bridge.py, ipc.py), and its registration with the system (arm/hotkey.py, *)
(* hotkey_mac.py, arm/controller.py).                                      *)
(***************************************************************************)
EXTENDS Naturals, FiniteSets

CONSTANTS
    Combos,     \* key combinations
    Reserved,   \* those validate_binding refuses
    Default,    \* ArmConfig.hotkey
    MaxPicks,   \* bound: combinations pressed
    MaxTroubles \* bound: failed writes, agent stops, combinations other apps take

ASSUME HotkeyAssumption ==
    /\ "none" \notin Combos /\ Reserved \subseteq Combos /\ Default \in Combos \ Reserved
    /\ {MaxPicks, MaxTroubles} \subseteq Nat

VARIABLES
    binding,    \* arm.hotkey in user_settings.json, or the default
    listener,   \* the agent: off, loaded its configuration, serving calls, up, stopping
    configured, \* ArmConfig.hotkey of the running agent
    bound,      \* the combination registered with the system, or none
    taken,      \* combinations the system refuses: parsed wrongly, or another app's
    capturing,  \* the field waits for a combination
    pick,       \* per combination pressed: where it has got to
    line,       \* what the pane says: nothing, saving, saved, error
    amiss,      \* history: the newest save was answered by an error, or a start
                \* could not register the shortcut (which is only logged)
    crossed,    \* history: two saves overlapped, or one came while the agent started
    troubles

hotkeyVars == <<binding, listener, configured, bound, taken, capturing, pick, line, amiss,
                crossed, troubles>>

Picks == 1 .. MaxPicks
Unused == [at |-> "unused", combo |-> Default]
Saving == {"writing", "calling", "asked", "late"}    \* late: asked, but given up on
Settled == \A p \in Picks : pick[p].at \notin Saving

HotkeyTypeOK ==
    /\ {binding, configured} \subseteq Combos /\ bound \in Combos \cup {"none"}
    /\ listener \in {"off", "loaded", "serving", "up", "stopping"}
    /\ taken \subseteq Combos /\ {capturing, amiss, crossed} \subseteq BOOLEAN
    /\ \A p \in Picks : pick[p].at \in Saving \cup {"unused", "validating", "over"}
    /\ line \in {"nothing", "saving", "saved", "error"}

HotkeyInit ==
    /\ binding = Default /\ listener = "off" /\ configured = Default /\ bound = "none"
    /\ taken = {} /\ capturing = FALSE /\ pick = [p \in Picks |-> Unused]
    /\ line = "nothing" /\ amiss = FALSE /\ crossed = FALSE /\ troubles = 0

Trouble == troubles < MaxTroubles /\ troubles' = troubles + 1
Fine == UNCHANGED troubles
Becomes(p, where) == pick' = [pick EXCEPT ![p].at = where]
Answered(p, error) ==
    /\ Becomes(p, "over")
    /\ line' = IF error THEN "error" ELSE "saved"
    /\ amiss' = error

-----------------------------------------------------------------------------
(* The window                                                                *)

StartsCapture ==
    /\ ~capturing /\ capturing' = TRUE
    /\ UNCHANGED <<binding, listener, configured, bound, taken, pick, line, amiss, crossed, troubles>>

Escapes ==
    /\ capturing /\ capturing' = FALSE
    /\ UNCHANGED <<binding, listener, configured, bound, taken, pick, line, amiss, crossed, troubles>>

(* A combination with a modifier; the answer of the bridge is awaited, and   *)
(* neither another combination nor Escape takes this one back.               *)
Presses(p) ==
    /\ capturing /\ pick[p].at = "unused" /\ \A q \in Picks : q < p => pick[q].at # "unused"
    /\ \E c \in Combos : pick' = [pick EXCEPT ![p] = [at |-> "validating", combo |-> c]]
    /\ UNCHANGED <<binding, listener, configured, bound, taken, capturing, line, amiss, crossed, troubles>>

(* validate_binding, and handleChange of the pane.                           *)
Validated(p) ==
    /\ pick[p].at = "validating"
    /\ IF pick[p].combo \in Reserved
         THEN Becomes(p, "over") /\ UNCHANGED <<capturing, line, crossed>>
         ELSE /\ Becomes(p, "writing") /\ capturing' = FALSE /\ line' = "saving"
              /\ crossed' = (crossed \/ ~Settled \/ listener = "loaded")
    /\ UNCHANGED <<binding, listener, configured, bound, taken, amiss, troubles>>

WritesBinding(p) ==
    /\ pick[p].at = "writing"
    /\ \/ /\ binding' = pick[p].combo /\ Becomes(p, "calling") /\ Fine
          /\ UNCHANGED <<line, amiss>>
       \/ Trouble /\ Answered(p, TRUE) /\ UNCHANGED binding
    /\ UNCHANGED <<listener, configured, bound, taken, capturing, crossed>>

(* Nobody to call: the file is enough.                                       *)
CallsAgent(p) ==
    /\ pick[p].at = "calling"
    /\ IF listener \in {"off", "loaded"} THEN Answered(p, FALSE)
       ELSE Becomes(p, "asked") /\ UNCHANGED <<line, amiss>>
    /\ crossed' = (crossed \/ listener = "loaded")
    /\ UNCHANGED <<binding, listener, configured, bound, taken, capturing, troubles>>

(* Five seconds without an answer; the agent still has the request.          *)
CallTimesOut(p) ==
    /\ pick[p].at = "asked"
    /\ Becomes(p, "late") /\ line' = "error" /\ amiss' = TRUE
    /\ UNCHANGED <<binding, listener, configured, bound, taken, capturing, crossed, troubles>>

PaneReopens ==
    /\ Settled /\ line # "nothing"
    /\ line' = "nothing" /\ capturing' = FALSE
    /\ UNCHANGED <<binding, listener, configured, bound, taken, pick, amiss, crossed, troubles>>

-----------------------------------------------------------------------------
(* The agent                                                                 *)

(* register                                                                  *)
Registered(c) == IF c \in taken THEN "none" ELSE c

(* rebind: the old one is given up first, and asked for again when the new   *)
(* one is refused.                                                           *)
Rebound(c) == IF Registered(c) # "none" \/ bound = "none" THEN Registered(c) ELSE Registered(bound)

Swallowed(refusal) == FALSE
Passed(refusal) == refusal

(* REBIND_HOTKEY: before the listener starts and after it stops, an error.   *)
Rebinds(p) ==
    /\ pick[p].at \in {"asked", "late"} /\ listener \in {"serving", "up", "stopping"}
    /\ LET c == pick[p].combo
           refusal == listener # "up" \/ c \in taken IN
       /\ bound' = IF listener = "up" THEN Rebound(c) ELSE bound
       /\ configured' = IF refusal THEN configured ELSE c
       /\ IF pick[p].at = "asked" THEN Answered(p, Passed(refusal))
          ELSE Becomes(p, "over") /\ UNCHANGED <<line, amiss>>
    /\ UNCHANGED <<binding, listener, taken, capturing, crossed, troubles>>

AgentLoads ==
    /\ listener = "off" /\ listener' = "loaded" /\ configured' = binding
    /\ crossed' = (crossed \/ \E p \in Picks : pick[p].at \in {"writing", "calling"})
    /\ UNCHANGED <<binding, bound, taken, capturing, pick, line, amiss, troubles>>

AgentServesCalls ==
    /\ listener = "loaded" /\ listener' = "serving"
    /\ UNCHANGED <<binding, configured, bound, taken, capturing, pick, line, amiss, crossed, troubles>>

(* ArmController.start: a refusal is logged.                                 *)
AgentRegisters ==
    /\ listener = "serving" /\ listener' = "up"
    /\ bound' = Registered(configured)
    /\ amiss' = (amiss \/ bound' = "none")
    /\ UNCHANGED <<binding, configured, taken, capturing, pick, line, crossed, troubles>>

AgentUnregisters ==
    /\ listener = "up" /\ Trouble /\ listener' = "stopping" /\ bound' = "none"
    /\ UNCHANGED <<binding, configured, taken, capturing, pick, line, amiss, crossed>>

(* The process ends: the calls it has not answered fail.                     *)
AgentEnds ==
    /\ listener = "stopping" /\ listener' = "off"
    /\ pick' = [p \in Picks |-> IF pick[p].at \in {"asked", "late"}
                                  THEN [pick[p] EXCEPT !.at = "over"] ELSE pick[p]]
    /\ LET failing == \E p \in Picks : pick[p].at = "asked" IN
       /\ line' = IF failing THEN "error" ELSE line
       /\ amiss' = (amiss \/ failing)
    /\ UNCHANGED <<binding, configured, bound, taken, capturing, crossed, troubles>>

OtherAppTakes ==
    /\ \E c \in Combos \ (taken \cup {bound}) : taken' = taken \cup {c}
    /\ Trouble
    /\ UNCHANGED <<binding, listener, configured, bound, capturing, pick, line, amiss, crossed>>

OtherAppFrees ==
    /\ \E c \in taken : taken' = taken \ {c}
    /\ UNCHANGED <<binding, listener, configured, bound, capturing, pick, line, amiss, crossed, troubles>>

HotkeyNext ==
    \/ StartsCapture \/ Escapes \/ PaneReopens
    \/ \E p \in Picks : \/ Presses(p) \/ Validated(p) \/ WritesBinding(p) \/ CallsAgent(p)
                        \/ CallTimesOut(p) \/ Rebinds(p)
    \/ AgentLoads \/ AgentServesCalls \/ AgentRegisters \/ AgentUnregisters \/ AgentEnds
    \/ OtherAppTakes \/ OtherAppFrees

-----------------------------------------------------------------------------
(* "What the user sees in Settings is exactly what the global hotkey is bound *)
(* to" (gui/common/hotkey.py:29), as far as the code keeps it: the running    *)
(* agent listens on the stored combination, unless the last save said that it *)
(* failed, the start could not register it, or two saves overlapped.          *)
ShortcutIsHonest ==
    listener = "up" /\ Settled /\ ~crossed /\ ~amiss => bound = binding
=============================================================================
