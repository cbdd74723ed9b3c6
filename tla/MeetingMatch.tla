---------------------------- MODULE MeetingMatch ----------------------------
(***************************************************************************)
(* Which listed app is the meeting: who holds the microphone (arm/         *)
(* platform_mac.py, platform_win.py over arm/audio_detect.py), the match   *)
(* of the list against that (arm/detectors.py), and the processes a        *)
(* capture is narrowed to, for a match and for the shortcut (arm/          *)
(* controller.py).  Zoom is a desktop app with a helper process, Loom one  *)
(* that is not shipped, Meet and Chat are sites in the one browser.        *)
(***************************************************************************)
EXTENDS Naturals, Sequences, SequencesExt

CONSTANT MaxEdits       \* bound: changes of the list

ASSUME MeetingMatchAssumption == MaxEdits \in Nat

VARIABLES
    onMac,      \* the platform
    watched,    \* the agent's list of detectors, in order, and those switched off
    now,        \* the microphone and the screen at this moment
    hidden,     \* exclude_app_keys: the apps in cooldown
    edits

matchVars == <<onMac, watched, now, hidden, edits>>

Sites == {"meet", "chat"}
DesktopApps == {"zoom", "loom"}
AppKeys == Sites \cup DesktopApps
Processes == DesktopApps \cup {"zoom.helper", "chrome"}
Shipped == [order |-> <<"zoom", "meet", "chat">>, off |-> {}]

(* A snapshot: the processes that capture, whether a helper's parents can be *)
(* walked, what is in front (a tab, or an app), the tabs shown in windows.   *)
Snapshots == [input : SUBSET Processes, walked : BOOLEAN,
              front : Sites \cup {"blank"} \cup DesktopApps, tabs : SUBSET Sites]
Possible(s) == ~onMac => "zoom.helper" \notin s.input

-----------------------------------------------------------------------------
(* The list                                                                  *)

Listed(list) == ToSet(list.order)
(* An app is on the list once at most.                                       *)
Removed(list, k) == [order |-> RemoveFirst(list.order, k), off |-> list.off \ {k}]
Added(list, k) == [order |-> Append(Removed(list, k).order, k), off |-> list.off \ {k}]
Toggled(list, k) == [list EXCEPT !.off = IF k \in @ THEN @ \ {k} ELSE @ \cup {k}]
Edits(list) == {Removed(list, k) : k \in Listed(list)} \cup {Toggled(list, k) : k \in Listed(list)}
                 \cup {Added(list, k) : k \in AppKeys} \cup {Shipped}
Enabled(list) == Listed(list) \ list.off

(* The first on the list of some apps that are on it.                        *)
FirstOf(list, apps) ==
    LET places == {i \in DOMAIN list.order : list.order[i] \in apps} IN
    IF places = {} THEN "none" ELSE list.order[Min(places)]

-----------------------------------------------------------------------------
(* The holders                                                               *)

(* A helper is the app it belongs to, as far as the parents can be walked.   *)
HolderOf(s, p) == IF p = "zoom.helper" /\ s.walked THEN "zoom" ELSE p
Holders(s) == {HolderOf(s, p) : p \in s.input}
Programs(k) == {k}
(* By process name, by bundle, or by the prefix of a helper's bundle.        *)
Belonging(k) == Programs(k) \cup (IF k = "zoom" THEN {"zoom.helper"} ELSE {})
BrowserHolds(s) == "chrome" \in Holders(s)

AppHolders(k, s) == Belonging(k) \cap Holders(s)

(* match_whitelist: desktop apps before sites, the tab in front before the   *)
(* tabs in the other windows; among these the list's order decides.          *)
Candidates(list, s, without) ==
    LET active == Enabled(list) \ without
        apps == {k \in active \cap DesktopApps : AppHolders(k, s) # {}}
        sites == {k \in active \cap Sites : BrowserHolds(s)}
    IN  IF apps # {} THEN apps
        ELSE IF s.front \in sites THEN {s.front} ELSE sites \cap s.tabs

Match(list, s, without) == FirstOf(list, Candidates(list, s, without))

OwnPids(k, s) == IF k \in DesktopApps THEN Programs(k) \cap Holders(s) ELSE {"chrome"} \cap Holders(s)
(* _pids_for_desktop_holders, _pids_for_browser_holders                      *)
TargetPids(k, s) == IF k \in DesktopApps THEN AppHolders(k, s) ELSE {"chrome"} \cap Holders(s)

(* arm_app_still_holding_mic: the first detector of that key, switched off   *)
(* or not, and a browser is asked for the microphone only.                   *)
StillHolding(k, list, s) ==
    /\ k \in Listed(list)
    /\ IF k \in DesktopApps THEN AppHolders(k, s) # {} ELSE BrowserHolds(s)

-----------------------------------------------------------------------------
(* The shortcut, when the capture is narrowed to one app: on Windows to the  *)
(* listed apps that hold the microphone, on macOS to the listed app in front.*)

(* resolve_pids_for_spec: those that hold it, else all that run.             *)
ResolvedPids(k, s) == IF Programs(k) \cap Holders(s) # {} THEN Programs(k) \cap Holders(s) ELSE {k}

HotkeyScope(list, s) ==
    IF s.input = {} THEN {}
    ELSE IF ~onMac THEN UNION {TargetPids(k, s) : k \in Enabled(list) \cap DesktopApps}
    ELSE UNION {ResolvedPids(k, s) : k \in {s.front} \cap Enabled(list) \cap DesktopApps}

-----------------------------------------------------------------------------

MatchInit ==
    /\ onMac \in BOOLEAN /\ watched = Shipped /\ hidden = {} /\ edits = 0
    /\ now = [input |-> {}, walked |-> TRUE, front |-> "blank", tabs |-> {}]

ListEdited ==
    /\ edits < MaxEdits /\ edits' = edits + 1
    /\ watched' \in Edits(watched)
    /\ UNCHANGED <<onMac, now, hidden>>

CaptureChanges ==
    /\ \E p \in Processes :
         now' = [now EXCEPT !.input = IF p \in @ THEN @ \ {p} ELSE @ \cup {p}]
    /\ Possible(now')
    /\ UNCHANGED <<onMac, watched, hidden, edits>>

ScreenChanges ==
    /\ \/ \E f \in Sites \cup {"blank"} \cup DesktopApps : now' = [now EXCEPT !.front = f]
       \/ \E t \in Sites : now' = [now EXCEPT !.tabs = IF t \in @ THEN @ \ {t} ELSE @ \cup {t}]
       \/ now' = [now EXCEPT !.walked = ~@]
    /\ UNCHANGED <<onMac, watched, hidden, edits>>

CooldownChanges ==
    /\ \E k \in AppKeys : hidden' = IF k \in hidden THEN hidden \ {k} ELSE {k}
    /\ UNCHANGED <<onMac, watched, now, edits>>

MatchNext == ListEdited \/ CaptureChanges \/ ScreenChanges \/ CooldownChanges

MatchTypeOK ==
    /\ onMac \in BOOLEAN /\ now \in Snapshots /\ Possible(now)
    /\ Listed(watched) \subseteq AppKeys /\ watched.off \subseteq Listed(watched)
    /\ hidden \subseteq AppKeys

-----------------------------------------------------------------------------
(* A match is an app that the meeting-ended watcher then finds holding the   *)
(* microphone, whose processes the capture is narrowed to; and an app in     *)
(* cooldown or switched off never keeps another one from being matched, in   *)
(* whatever order the list is.                                               *)
MatchIsHeld ==
    LET k == Match(watched, now, hidden) IN
    IF k # "none"
      THEN /\ k \notin hidden \cup watched.off
           /\ StillHolding(k, watched, now)
           /\ TargetPids(k, now) # {} /\ TargetPids(k, now) \subseteq Holders(now)
      ELSE \A x \in Enabled(watched) \ hidden :
             \/ ~StillHolding(x, watched, now)
             \/ x \in Sites \ (now.tabs \cup {now.front})

(* The shortcut pressed in the call of a matched desktop app, which is in    *)
(* front on macOS, narrows the capture to no less than the consent would     *)
(* have; a helper whose parents cannot be walked is the exception there.     *)
SameMeeting ==
    LET k == Match(watched, now, hidden) IN
    k \in DesktopApps /\ (onMac => now.front = k /\ now.walked) =>
      TargetPids(k, now) \subseteq HotkeyScope(watched, now)

(* What is matched, what is recorded of it, by the consent or by the         *)
(* shortcut, and what the end of the meeting is judged by are one app.       *)
MeetingIsFollowed == MatchIsHeld /\ SameMeeting
=============================================================================
