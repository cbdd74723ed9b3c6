----------------------------- MODULE Recording -----------------------------
(***************************************************************************)
(* What a recording is made of: the two streams from the device to the     *)
(* capture (Pipeline), the shortcut that starts one (Hotkey), the listed   *)
(* app a meeting is matched to and narrowed to (MeetingMatch), and the     *)
(* list of these apps with the suggestions for it (MeetingApps).  No       *)
(* property relates two of these parts, so a behaviour follows one.        *)
(***************************************************************************)
EXTENDS Pipeline, Hotkey, MeetingApps

VARIABLE part       \* the part that this behaviour follows

recordingVars == <<part, pipelineVars, hotkeyVars, matchVars, appsVars>>

In(name, Step) == part = name /\ Step

(* The platform is open where the part looks at it.                          *)
RecordingInit ==
    /\ part \in {"streams", "shortcut", "matching", "suggestions"}
    /\ PipelineInit /\ HotkeyInit /\ MatchInit /\ AppsInit
    /\ part \notin {"matching", "suggestions"} => ~onMac

RecordingNext ==
    /\ UNCHANGED part
    /\ \/ In("streams", PipelineNext) /\ UNCHANGED <<hotkeyVars, matchVars, appsVars>>
       \/ In("shortcut", HotkeyNext) /\ UNCHANGED <<pipelineVars, matchVars, appsVars>>
       \/ In("matching", MatchNext) /\ UNCHANGED <<pipelineVars, hotkeyVars, appsVars>>
       \/ In("suggestions", AppsNext) /\ UNCHANGED <<pipelineVars, hotkeyVars>>

Spec == RecordingInit /\ [][RecordingNext]_recordingVars

RecordingTypeOK == PipelineTypeOK /\ HotkeyTypeOK /\ MatchTypeOK /\ AppsTypeOK
=============================================================================
