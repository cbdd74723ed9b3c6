---------------------------- MODULE MeetingApps ----------------------------
(***************************************************************************)
(* The Meeting Apps pane: its edits of the list (gui/settings/bridge.py),  *)
(* which it saves and asks the agent to read again, and the apps suggested *)
(* to add (arm/seen_apps.py), a file that the agent's watcher adds         *)
(* unmatched microphone holders to and the pane takes dismissed ones from: *)
(* both read all of it, change it and write all of it.                     *)
(***************************************************************************)
EXTENDS MeetingMatch

CONSTANTS
    MaxEntries,     \* _MAX_ENTRIES
    MaxClicks,      \* bound: edits and dismissals in the pane
    MaxFailures     \* bound: reads and writes that fail, restarts

ASSUME MeetingAppsAssumption == MaxEntries \in Nat \ {0} /\ {MaxClicks, MaxFailures} \subseteq Nat

VARIABLES
    pane,       \* the window's list; the agent's is watched
    override,   \* arm.detectors in user_settings.json, NoOverride when it is not there
    reload,      \* the window's RELOAD_DETECTORS is under way
    seen,       \* seen_apps.json: entries, the most recent first, and dismissed_keys
    recorded,   \* _recorded_seen of this run of the agent
    agentHas, windowHas,  \* what each has read and changed, and not written yet
    refused,    \* history: apps dismissed, and not added since
    torn,       \* history: a read or write failed, or one came between another's two
    clicks, failures

appsVars == <<pane, override, reload, seen, recorded, agentHas, windowHas, refused, torn,
              clicks, failures>>

NoOverride == [order |-> <<"not there">>, off |-> {}]
EmptyDoc == [entries |-> <<>>, dismissed |-> {}]
NotOpen == [entries |-> <<"not open">>, dismissed |-> {}]
Stored == IF override = NoOverride THEN Shipped ELSE override
OnList(list) == UNION {Programs(k) : k \in Listed(list)}

Fails == failures < MaxFailures /\ failures' = failures + 1
Smooth == UNCHANGED failures
Clicks == clicks < MaxClicks /\ clicks' = clicks + 1

-----------------------------------------------------------------------------
(* seen_apps.py                                                              *)

(* load: what is not dismissed and not on the list.                          *)
Shown(doc, list) == ToSet(doc.entries) \ (doc.dismissed \cup OnList(list))
Suggested == Shown(seen, pane)

(* A document that cannot be read counts as empty.                           *)
Reads(doc) == \/ doc = seen /\ Smooth /\ UNCHANGED torn
              \/ doc = EmptyDoc /\ seen # EmptyDoc /\ Fails /\ torn' = TRUE

Forgetful(doc) == {}
StillDismissed(doc) == doc.dismissed
Newest(k, doc, list) ==
    LET rest == SelectSeq(doc.entries, LAMBDA x : x \in Shown(doc, list) \ {k}) IN
    [entries |-> SubSeq(<<k>> \o rest, 1, IF Len(rest) < MaxEntries THEN 1 + Len(rest) ELSE MaxEntries),
     dismissed |-> StillDismissed(doc)]
Without(k, doc) == [entries |-> SelectSeq(doc.entries, LAMBDA x : x # k),
                    dismissed |-> doc.dismissed \cup {k}]
Again(k, doc) == [entries |-> doc.entries, dismissed |-> doc.dismissed \ {k}]

(* _record_unmatched_holders: a holder that the list or the cooldowns leave   *)
(* unmatched, once in a run of the agent.  On macOS a holder's process_name   *)
(* is its bundle, and BROWSER_PROCESS_NAMES are names of programs.            *)
BrowserNames == IF onMac THEN {} ELSE {"chrome"}
Recordable == {k \in Processes : k = "zoom.helper" => onMac} \ (BrowserNames \cup recorded)

AgentReads ==
    /\ agentHas = NotOpen
    /\ \E k \in Recordable :
         /\ recorded' = recorded \cup {k}
         /\ IF k \in OnList(watched) THEN UNCHANGED <<agentHas, failures, torn>>
            ELSE \E doc \in {seen, EmptyDoc} :
                   /\ Reads(doc)
                   /\ agentHas' = IF k \in doc.dismissed THEN NotOpen ELSE Newest(k, doc, watched)
    /\ UNCHANGED <<pane, override, reload, seen, windowHas, refused, clicks>>

(* _save replaces the file; when it fails nobody is told.                    *)
Saves(doc, others) ==
    \/ seen' = doc /\ Smooth /\ torn' = (torn \/ others # NotOpen)
    \/ UNCHANGED seen /\ Fails /\ torn' = TRUE

AgentWrites ==
    /\ agentHas # NotOpen /\ agentHas' = NotOpen
    /\ Saves(agentHas, windowHas)
    /\ UNCHANGED <<pane, override, reload, recorded, windowHas, refused, clicks>>

Dismisses(k) ==
    /\ windowHas = NotOpen /\ Clicks /\ k \in Suggested
    /\ \E doc \in {seen, EmptyDoc} : Reads(doc) /\ windowHas' = Without(k, doc)
    /\ refused' = refused \cup {k}
    /\ UNCHANGED <<pane, override, reload, seen, recorded, agentHas>>

WindowWrites ==
    /\ windowHas # NotOpen /\ windowHas' = NotOpen
    /\ Saves(windowHas, agentHas)
    /\ UNCHANGED <<pane, override, reload, recorded, agentHas, refused, clicks>>

-----------------------------------------------------------------------------
(* The list                                                                  *)

(* _persist_and_nudge, and reset_detectors, which takes the key away: the    *)
(* window's own list has changed whether or not the file can be written.     *)
Persists(list, there) ==
    /\ pane' = list
    /\ \/ override' = there /\ reload' = TRUE /\ Smooth
       \/ UNCHANGED <<override, reload>> /\ Fails

Toggles(k) ==
    /\ ~reload /\ windowHas = NotOpen /\ Clicks /\ k \in Listed(pane)
    /\ Persists(Toggled(pane, k), Toggled(pane, k))
    /\ UNCHANGED <<seen, recorded, agentHas, windowHas, refused, torn>>

Removes(k) ==
    /\ ~reload /\ windowHas = NotOpen /\ Clicks /\ k \in Listed(pane)
    /\ Persists(Removed(pane, k), Removed(pane, k))
    /\ UNCHANGED <<seen, recorded, agentHas, windowHas, refused, torn>>

(* add_detector: an app that had been dismissed is not any more; the two     *)
(* files are written one after the other.                                    *)
Adds(k) ==
    /\ ~reload /\ windowHas = NotOpen /\ Clicks
    /\ Persists(Added(pane, k), Added(pane, k))
    /\ windowHas' = IF k \in seen.dismissed THEN Again(k, seen) ELSE NotOpen
    /\ refused' = refused \ {k}
    /\ UNCHANGED <<seen, recorded, agentHas, torn>>

Resets ==
    /\ ~reload /\ windowHas = NotOpen /\ Clicks
    /\ Persists(Shipped, NoOverride)
    /\ UNCHANGED <<seen, recorded, agentHas, windowHas, refused, torn>>

(* reload_detectors                                                          *)
AgentReloads ==
    /\ reload /\ reload' = FALSE
    /\ watched' = Stored
    /\ UNCHANGED <<pane, override, seen, recorded, agentHas, windowHas, refused, torn, clicks, failures>>

(* Either process is started again, and reads its list from the file.        *)
AgentStartsAgain ==
    /\ Fails /\ agentHas' = NotOpen /\ recorded' = {} /\ watched' = Stored
    /\ UNCHANGED <<pane, override, reload, seen, windowHas, refused, torn, clicks>>

WindowStartsAgain ==
    /\ Fails /\ windowHas' = NotOpen /\ pane' = Stored /\ reload' = FALSE
    /\ torn' = (torn \/ windowHas # NotOpen)
    /\ UNCHANGED <<override, seen, recorded, agentHas, refused, clicks>>

Suggests ==
    \/ AgentReads \/ AgentWrites \/ WindowWrites \/ Resets \/ WindowStartsAgain
    \/ \E k \in Processes : Dismisses(k)
    \/ \E k \in AppKeys : Toggles(k) \/ Removes(k) \/ Adds(k)

AppsNext ==
    /\ UNCHANGED <<onMac, now, hidden, edits>>
    /\ \/ Suggests /\ UNCHANGED watched
       \/ AgentReloads \/ AgentStartsAgain

AppsInit ==
    /\ pane = Shipped /\ override = NoOverride /\ reload = FALSE
    /\ seen = EmptyDoc /\ recorded = {} /\ agentHas = NotOpen /\ windowHas = NotOpen
    /\ refused = {} /\ torn = FALSE /\ clicks = 0 /\ failures = 0

AppsTypeOK ==
    /\ Listed(pane) \subseteq AppKeys /\ {reload, torn} \subseteq BOOLEAN
    /\ ToSet(seen.entries) \subseteq Processes /\ Len(seen.entries) <= MaxEntries
    /\ seen.dismissed \subseteq Processes /\ {recorded, refused} \subseteq SUBSET Processes

-----------------------------------------------------------------------------
(* "Dismiss is permanent" (seen_apps.py:37): an app that was dismissed is not *)
(* suggested again until the user adds it, whatever is recorded, evicted,     *)
(* added, removed and restarted after it; unless the file could not be read   *)
(* or written, or both processes had it at the same time.                     *)
DismissalSticks == ~torn /\ windowHas = NotOpen => refused \cap Suggested = {}

(* "Browsers are skipped" (controller.py:1822): the pane does not offer a     *)
(* browser as a desktop app.  Refuted on macOS, see BrowserNames.             *)
BrowsersAreSkipped == "chrome" \notin Suggested
=============================================================================
