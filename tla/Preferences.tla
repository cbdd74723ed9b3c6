---------------------------- MODULE Preferences ----------------------------
(***************************************************************************)
(* user_settings.json (settings_store.py) between two processes: the       *)
(* Settings window, which saves one key and then asks the agent to read it *)
(* (gui/settings/bridge.py), and the agent, which reads the file when it   *)
(* boots and when it is asked (config.load_config, __main__.py) and saves  *)
(* one key itself when a card's "Stop showing these" is pressed            *)
(* (capture_poller.py).  Both write the same temporary file.               *)
(***************************************************************************)
EXTENDS Naturals

CONSTANTS
    Nudged,     \* keys the agent reads again when it is asked to
    ReadAtStart,     \* keys it reads at its start only
    MaxSaves    \* bound: saves begun by the window and by the card

ASSUME PreferencesAssumption == "feedback" \in Nudged /\ Nudged \cap ReadAtStart = {} /\ MaxSaves \in Nat

VARIABLES
    stored,       \* user_settings.json: a document, or torn
    tmp,        \* user_settings.json.tmp: nothing, a document, or torn
    saver,      \* of a process: the save it is at
    reader,      \* off, booting (its configuration is read), serving
    cfg,        \* the values the agent acts on
    chosen,     \* history: the last value saved, of every key
    clash,      \* history: two saves overlapped, or one failed or was cut short
    missed,     \* history: keys saved whose request found the agent booting, or was never sent
    saves

prefVars == <<stored, tmp, saver, reader, cfg, chosen, clash, missed, saves>>

Keys == Nudged \cup ReadAtStart
Values == {"unset", "on", "off"}         \* a key that is absent has its default
Docs == [Keys -> Values]
Empty == [k \in Keys |-> "unset"]
Broken == [k \in Keys |-> "torn"]          \* no document: does not parse, is not there
Absent == [k \in Keys |-> "absent"]
Rest == [at |-> "rest", doc |-> Empty, key |-> "feedback", value |-> "unset", open |-> "none"]
Savers == {"window", "card"}
Quiet == \A s \in Savers : saver[s].at = "rest"

PreferencesTypeOK ==
    /\ stored \in Docs \cup {Broken}
    /\ tmp \in Docs \cup {Broken, Absent}
    /\ \A s \in Savers : saver[s].at \in {"rest", "loaded", "opened", "written", "saved"}
    /\ reader \in {"off", "booting", "serving"}
    /\ cfg \in Docs /\ chosen \in Docs /\ missed \subseteq Keys

PreferencesInit ==
    /\ stored = Empty /\ tmp = Absent /\ reader = "off" /\ cfg = Empty /\ chosen = Empty
    /\ saver = [s \in Savers |-> Rest]
    /\ clash = FALSE /\ missed = {} /\ saves = 0

(* load: a file that does not parse counts as empty.                        *)
Parsed == IF stored = Broken THEN Empty ELSE stored
(* _merge keeps the keys the patch does not name.                           *)
PatchOnly(k, v) == [Empty EXCEPT ![k] = v]
Merged(k, v) == [Parsed EXCEPT ![k] = v]

(* save, or replace without the key when a list is reset to its default.    *)
SaveBegins(s, k, v) ==
    /\ saver[s].at = "rest" /\ saves < MaxSaves
    /\ saver' = [saver EXCEPT ![s] = [Rest EXCEPT !.at = "loaded", !.doc = Merged(k, v),
                                                  !.key = k, !.value = v]]
    /\ chosen' = [chosen EXCEPT ![k] = v]
    /\ clash' = (clash \/ ~Quiet)
    /\ saves' = saves + 1

WindowSaves ==
    /\ \E k \in Keys, v \in Values : SaveBegins("window", k, v)
    /\ UNCHANGED <<stored, tmp, reader, cfg, missed>>

(* _disable_feedback changes the running configuration first.               *)
CardSaves ==
    /\ reader = "serving"
    /\ SaveBegins("card", "feedback", "off")
    /\ cfg' = [cfg EXCEPT !["feedback"] = "off"]
    /\ UNCHANGED <<stored, tmp, reader, missed>>

(* write_text truncates the file of that name, whoever is writing it.       *)
TmpOpened(s) ==
    /\ saver[s].at = "loaded"
    /\ saver' = [saver EXCEPT ![s].at = "opened", ![s].open = "tmp"]
    /\ tmp' = Broken
    /\ UNCHANGED <<stored, reader, cfg, chosen, clash, missed, saves>>

(* The handle follows its file, which another save may have put in place.   *)
TmpWritten(s) ==
    /\ saver[s].at = "opened"
    /\ saver' = [saver EXCEPT ![s].at = "written"]
    /\ tmp'  = IF saver[s].open = "tmp"  THEN saver[s].doc ELSE tmp
    /\ stored' = IF saver[s].open = "disk" THEN saver[s].doc ELSE stored
    /\ UNCHANGED <<reader, cfg, chosen, clash, missed, saves>>

Moved(open) == CASE open = "tmp" -> "disk" [] OTHER -> "none"

(* os.replace; when another save has moved the file it raises.              *)
Replaced(s) ==
    /\ saver[s].at = "written"
    /\ IF tmp = Absent
         THEN saver' = [saver EXCEPT ![s] = Rest] /\ UNCHANGED <<stored, tmp>>
         ELSE /\ stored' = tmp /\ tmp' = Absent
              /\ saver' = [x \in Savers |->
                    IF x # s THEN [saver[x] EXCEPT !.open = Moved(@)]
                    ELSE IF s = "card" THEN Rest ELSE [saver[s] EXCEPT !.at = "saved"]]
    /\ UNCHANGED <<reader, cfg, chosen, clash, missed, saves>>

(* The window's call: the agent loads the file and copies the keys of the   *)
(* request; when nobody serves the call is dropped.                         *)
Updated(k, doc) == [cfg EXCEPT ![k] = IF doc[k] = "unset" THEN @ ELSE doc[k]]
Reread(k, doc) == [cfg EXCEPT ![k] = doc[k]]

AgentAsked ==
    LET k == saver["window"].key IN
    /\ saver["window"].at = "saved"
    /\ saver' = [saver EXCEPT !["window"] = Rest]
    /\ cfg' = IF reader = "serving" /\ k \in Nudged THEN Reread(k, Parsed) ELSE cfg
    /\ missed' = IF reader = "booting" THEN missed \cup {k} ELSE missed
    /\ UNCHANGED <<stored, tmp, reader, chosen, clash, saves>>

AgentBoots ==
    /\ reader = "off"
    /\ reader' = "booting" /\ cfg' = Parsed /\ missed' = {}
    /\ UNCHANGED <<stored, tmp, saver, chosen, clash, saves>>

AgentServes ==
    /\ reader = "booting"
    /\ reader' = "serving"
    /\ UNCHANGED <<stored, tmp, saver, cfg, chosen, clash, missed, saves>>

(* A process ends between any two steps, its save with it.                  *)
SaverEnds(s) ==
    /\ IF s = "card" THEN reader' = "off" ELSE reader' = reader /\ saver[s].at # "rest"
    /\ saver' = [saver EXCEPT ![s] = Rest]
    /\ chosen' = [chosen EXCEPT ![saver[s].key] =
                    IF saver[s].at \in {"rest", "saved"} THEN @ ELSE Parsed[saver[s].key]]
    /\ missed' = IF saver[s].at = "saved" THEN missed \cup {saver[s].key} ELSE missed
    /\ UNCHANGED <<stored, tmp, cfg, clash, saves>>

PreferencesNext ==
    \/ WindowSaves \/ CardSaves \/ AgentAsked \/ AgentBoots \/ AgentServes
    \/ \E s \in Savers : TmpOpened(s) \/ TmpWritten(s) \/ Replaced(s) \/ SaverEnds(s)

-----------------------------------------------------------------------------
(* As long as no two saves overlapped, a choice is never lost: the file is   *)
(* whole at every moment, also when a save is cut short, and once no save is  *)
(* under way every key has the value last chosen for it.                      *)
ChoicesAreKept ==
    ~clash => /\ stored # Broken
              /\ Quiet => stored = chosen

(* Then the serving agent also acts on it, except on what it reads at its    *)
(* start only and on a request that was not sent or came while it booted.    *)
ChoicesAreHeard ==
    ~clash /\ Quiet /\ reader = "serving" =>
        \A k \in Nudged \ missed : cfg[k] = stored[k]
=============================================================================
