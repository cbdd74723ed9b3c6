------------------------------ MODULE Updates ------------------------------
(* Updating the agent: two processes that download a release into one slot    *)
(* (update_stage.py, called by the update check of the service and by the     *)
(* install worker of the Settings window), and the hand-off of the staged     *)
(* release to an installer at quit and at boot (update_apply.py, __main__.py).*)
(* A release is downloaded in Chunks pieces; versions are numbers.            *)
EXTENDS Naturals, FiniteSets

CONSTANTS MaxVersion,   \* bound: releases ever published
          Chunks,       \* pieces of a download
          MaxAttempts,  \* MAX_APPLY_ATTEMPTS
          Unix,         \* an open file can be unlinked and renamed (macOS)
          MaxMishaps     \* bound: crashes, failed writes and spawns

ASSUME UpdatesAssumption ==
  /\ {MaxVersion, Chunks, MaxAttempts} \subseteq Nat \ {0}
  /\ Unix \in BOOLEAN /\ MaxMishaps \in Nat

Versions == 1 .. MaxVersion
NoVersion     == 0
Stagers  == {"agent", "settings"}
Places   == {"partial", "payload"}    \* payload.<ext>.partial, payload.<ext>
Blank    == [i \in 1 .. Chunks |-> NoVersion]

VARIABLES
  advertised,   \* the version of latest.json
  installed,    \* the version on disk
  running,      \* __version__ of the running agent
  service,        \* the service process
  helper,       \* the installer or swap helper runs
  exists, data, \* the two files of the slot: there or not, and their pieces
  manifest,     \* the version in manifest.json
  st,           \* each stager: where it is, its version, its next piece and the
                \* file its handle writes to ("gone": an unlinked one)
  attempts,     \* apply_attempts.json
  flag, marker, \* quit_with_apply.flag, open_settings_after_update.flag
  lastSeen,     \* last_seen_version.txt
  offer,        \* the tray's update offer
  asked,        \* history: where Install was clicked since the agent came up
  mixed,        \* history: two downloads overlapped since the slot was empty
  mishaps

slot  == <<exists, data, manifest, st, mixed>>
notes == <<attempts, flag, marker, lastSeen>>
updateVars  == <<advertised, installed, running, service, helper, exists, data, manifest, st,
           attempts, flag, marker, lastSeen, offer, asked, mixed, mishaps>>

Phases == {"idle", "asking", "writing", "checked", "renamed", "apply"}
Idle   == [at |-> "idle", ver |-> NoVersion, pos |-> 0, file |-> "none"]

UpdatesTypeOK ==
  /\ advertised \in Versions /\ installed \in Versions /\ running \in Versions
  /\ service \in {"down", "up", "quitting"} /\ helper \in BOOLEAN
  /\ exists \subseteq Places
  /\ data \in [Places -> [1 .. Chunks -> {NoVersion} \union Versions]]
  /\ manifest \in {NoVersion} \union Versions
  /\ st \in [Stagers -> [at : Phases, ver : {NoVersion} \union Versions, pos : 0 .. Chunks,
                         file : Places \union {"gone", "none"}]]
  /\ attempts \in [ver : {NoVersion} \union Versions, n : Nat]
  /\ {flag, marker, mixed} \subseteq BOOLEAN
  /\ lastSeen \in {NoVersion} \union Versions /\ offer \in BOOLEAN
  /\ asked \subseteq {"menu", "settings"} /\ mishaps \in 0 .. MaxMishaps

NoAttempts == [ver |-> NoVersion, n |-> 0]

UpdatesInit ==
  /\ advertised = 1 /\ installed = 1 /\ running = 1 /\ service = "down" /\ helper = FALSE
  /\ exists = {} /\ data = [p \in Places |-> Blank] /\ manifest = NoVersion
  /\ st = [s \in Stagers |-> Idle] /\ attempts = NoAttempts
  /\ flag = FALSE /\ marker = FALSE /\ lastSeen = NoVersion /\ offer = FALSE
  /\ asked = {} /\ mixed = FALSE /\ mishaps = 0

Mishap == mishaps < MaxMishaps /\ mishaps' = mishaps + 1

-----------------------------------------------------------------------------
(* The slot                                                                   *)

\* is_newer.
IsNewer(current, candidate) == candidate > current
Newer(current, candidate) == IsNewer(current, candidate)

\* read_staged: both files, whatever the payload holds.
Ready == manifest # NoVersion /\ "payload" \in exists

Held(p, s) == \E t \in Stagers \ {s} : st[t].file = p

\* The files of P that unlink really removes, called by s: Windows keeps a file
\* that another process has open.
Removable(P, s) == {p \in P : Unix \/ ~Held(p, s)}

\* The files after R is unlinked: handles to them write into nothing.
Gone(R) ==
  /\ exists' = exists \ R
  /\ data' = [p \in Places |-> IF p \in R THEN Blank ELSE data[p]]
Orphaned(R) == [t \in Stagers |-> IF st[t].file \in R THEN [st[t] EXCEPT !.file = "gone"]
                                  ELSE st[t]]

\* A stager ends, and unlinks P.
Abandon(s, P) ==
  LET R == Removable(P, s) IN Gone(R) /\ st' = [Orphaned(R) EXCEPT ![s] = Idle]

\* The first statements of download_and_stage, after clear_staged when clear: a
\* stale partial goes, and the connection is opened.
Begin(s, clear) ==
  LET R == Removable(IF clear THEN Places ELSE {"partial"}, s)
  IN /\ Gone(R) /\ manifest' = IF clear THEN NoVersion ELSE manifest
     /\ st' = [Orphaned(R) EXCEPT ![s] = [Idle EXCEPT !.at = "asking", !.ver = advertised]]
     /\ mixed' = (st[CHOOSE t \in Stagers : t # s].at # "idle" \/ (mixed /\ exists' # {}))

\* The server answers, and the partial is opened "wb".
Open(s) ==
  /\ st[s].at = "asking"
  /\ exists' = exists \union {"partial"} /\ data' = [data EXCEPT !["partial"] = Blank]
  /\ st' = [st EXCEPT ![s] = [@ EXCEPT !.at = "writing", !.pos = 1, !.file = "partial"]]
  /\ UNCHANGED <<advertised, installed, running, service, helper, manifest, notes, offer,
                 asked, mixed, mishaps>>

AllOfIt(s) == st[s].pos = Chunks
\* MUTANT: the hash is not compared, and a download cut short passes.
SomeOfIt(s) == TRUE
Complete(s) == AllOfIt(s)

\* A piece arrives. After the last the file is closed and the hash of what came,
\* not of what the file holds, is compared.
Write(s) ==
  /\ st[s].at = "writing"
  /\ data' = IF st[s].file \in Places
               THEN [data EXCEPT ![st[s].file][st[s].pos] = st[s].ver] ELSE data
  /\ st' = [st EXCEPT ![s] = IF Complete(s)
                               THEN [@ EXCEPT !.at = "checked", !.pos = 0, !.file = "none"]
                               ELSE [@ EXCEPT !.pos = st[s].pos + 1]]
  /\ UNCHANGED <<advertised, installed, running, service, helper, exists, manifest, notes,
                 offer, asked, mixed, mishaps>>

\* The connection fails, or the hash does not match.
DownloadFails(s) ==
  /\ st[s].at \in {"asking", "writing"} /\ Abandon(s, {"partial"})
  /\ UNCHANGED <<advertised, installed, running, service, helper, manifest, notes, offer,
                 asked, mixed, mishaps>>

\* partial.replace(final).
Rename(s) ==
  /\ st[s].at = "checked"
  /\ IF "partial" \in Removable(exists, s) /\ (Unix \/ ~Held("payload", s))
       THEN /\ exists' = {"payload"}
            /\ data' = [data EXCEPT !["payload"] = data["partial"], !["partial"] = Blank]
            /\ st' = [t \in Stagers |->
                 IF t = s THEN [st[t] EXCEPT !.at = "renamed"]
                 ELSE [st[t] EXCEPT !.file = CASE @ = "partial" -> "payload"
                                               [] @ = "payload" -> "gone"
                                               [] OTHER -> @]]
       ELSE Abandon(s, {"partial"})
  /\ UNCHANGED <<advertised, installed, running, service, helper, manifest, notes, offer,
                 asked, mixed, mishaps>>

\* The manifest follows the payload; one that cannot be written takes it along.
WriteManifest(s) ==
  /\ st[s].at = "renamed"
  /\ \/ /\ manifest' = st[s].ver
        /\ st' = [st EXCEPT ![s] = IF s = "agent" THEN Idle ELSE [@ EXCEPT !.at = "apply"]]
        /\ offer' = (offer \/ s = "agent") /\ UNCHANGED <<exists, data, mishaps>>
     \/ Mishap /\ Abandon(s, {"payload"}) /\ UNCHANGED <<manifest, offer>>
  /\ UNCHANGED <<advertised, installed, running, service, helper, notes, asked, mixed>>

-----------------------------------------------------------------------------
(* Who downloads, and who asks to install                                     *)

\* _update_check: an offer for a staged release, a download for a new one.
UpdateCheck ==
  /\ service = "up" /\ st["agent"].at = "idle"
  /\ IF Newer(running, advertised)
       THEN IF Ready /\ manifest = advertised
              THEN offer' = TRUE /\ UNCHANGED slot
              ELSE Begin("agent", Ready) /\ UNCHANGED offer
       ELSE offer' = FALSE /\ UNCHANGED slot
  /\ UNCHANGED <<advertised, installed, running, service, helper, notes, asked, mishaps>>

\* install_update_now: the worker installs what is staged, unless latest.json
\* names another release, or downloads what it names.
InstallUpdateNow ==
  /\ service = "up" /\ st["settings"].at = "idle"
  /\ \/ /\ Ready /\ Newer(running, manifest)
        /\ manifest = advertised \/ ~Newer(running, advertised)
        /\ st' = [st EXCEPT !["settings"].at = "apply"]
        /\ UNCHANGED <<exists, data, manifest, mixed>>
     \/ /\ Newer(running, advertised)
        /\ ~(Ready /\ manifest = advertised)
        /\ Begin("settings", Ready /\ Newer(running, manifest))
  /\ UNCHANGED <<advertised, installed, running, service, helper, notes, offer, asked, mishaps>>

\* The flag and the marker are written, then QUIT_AGENT is called: the agent
\* quits, is not there, or does not answer.
SettingsApplies ==
  /\ st["settings"].at = "apply" /\ st' = [st EXCEPT !["settings"] = Idle]
  /\ flag' = TRUE /\ marker' = TRUE /\ asked' = asked \union {"settings"}
  /\ \/ service' = (IF service = "up" THEN "quitting" ELSE service) /\ UNCHANGED mishaps
     \/ service = "up" /\ Mishap /\ UNCHANGED service
  /\ UNCHANGED <<advertised, installed, running, helper, exists, data, manifest, attempts,
                 lastSeen, offer, mixed>>

\* The tray's "Install Sayzo" item or the HUD's "Install now".
InstallClicked ==
  /\ service = "up" /\ offer
  /\ flag' = TRUE /\ asked' = asked \union {"menu"} /\ service' = "quitting"
  /\ UNCHANGED <<advertised, installed, running, helper, slot, attempts, marker, lastSeen,
                 offer, mishaps>>

Quit ==
  /\ service = "up" /\ service' = "quitting"
  /\ UNCHANGED <<advertised, installed, running, helper, slot, notes, offer, asked, mishaps>>

-----------------------------------------------------------------------------
(* Applying                                                                   *)

\* apply_staged_if_newer would hand the stage over to an agent of version v.
Applicable(v) == Ready /\ Newer(v, manifest)

\* _record_apply_attempt: a new version starts a new count.
Counted == [ver |-> manifest, n |-> IF attempts.ver = manifest THEN attempts.n + 1 ELSE 1]
\* MUTANT: the count does not survive the hand-off.
NotCounted == [ver |-> manifest, n |-> 1]
Recorded == Counted

Within(n) == n <= MaxAttempts
\* MUTANT: no cap.
Always(n) == TRUE
MayTry(n) == Within(n)

GivesUp(v) == Applicable(v) /\ ~MayTry(Recorded.n)

\* The helper is started and this process exits at once.
HandOff(v) ==
  /\ Applicable(v) /\ MayTry(Recorded.n)
  /\ attempts' = Recorded /\ helper' = TRUE /\ service' = "down"

\* The service dies: its download stops where it is. The Settings window and its
\* worker end when they see the pipe from the agent close.
NoAgent == [st EXCEPT !["agent"] = Idle]

\* agent.run() returns, the Settings process is stopped, and the stage is applied
\* if the flag asks for it.
QuitEnds ==
  /\ service = "quitting" /\ st' = [s \in Stagers |-> Idle] /\ flag' = FALSE /\ offer' = FALSE
  /\ \/ flag /\ HandOff(running) /\ UNCHANGED <<exists, data, manifest, mishaps>>
     \/ /\ ~(flag /\ Applicable(running)) /\ service' = "down"
        /\ UNCHANGED <<exists, data, manifest, attempts, helper, mishaps>>
     \/ /\ flag /\ Applicable(running) /\ MayTry(Recorded.n) /\ Mishap  \* no spawn
        /\ attempts' = Recorded /\ service' = "down"
        /\ UNCHANGED <<exists, data, manifest, helper>>
     \/ /\ flag /\ GivesUp(running) /\ attempts' = Recorded /\ service' = "down"
        /\ Gone(Places) /\ manifest' = NoVersion /\ UNCHANGED <<helper, mishaps>>
  /\ UNCHANGED <<advertised, installed, running, marker, lastSeen, asked, mixed>>

ClearQuitIntent == FALSE
\* MUTANT: a flag that nobody consumed stays.
LeftAlone == flag
AtBoot == ClearQuitIntent

\* This boot is the first of a newer version.
PostUpgrade(v) == lastSeen # NoVersion /\ Newer(lastSeen, v)

\* take_open_settings_after_update: the marker is used up, whatever this boot is.
TakeMarker == FALSE

\* service() of the installed version, past the kernel lock: the stage is handed
\* over, or cleared after too many attempts or an upgrade, and the agent comes
\* up. A crash while it clears leaves some of the files.
ServiceBoots ==
  /\ service = "down" /\ flag' = AtBoot /\ running' = installed
  /\ \/ /\ HandOff(installed)
        /\ UNCHANGED <<exists, data, manifest, st, marker, lastSeen, asked, mishaps>>
     \/ /\ GivesUp(installed) /\ Mishap /\ attempts' = Recorded /\ service' = "down"
        /\ LET R == Removable({"payload"}, "agent")
           IN Gone(R) /\ st' = Orphaned(R)
        /\ UNCHANGED <<helper, manifest, marker, lastSeen, asked>>
     \/ /\ \/ ~Applicable(installed) /\ UNCHANGED mishaps
           \/ GivesUp(installed) /\ UNCHANGED mishaps
           \/ Applicable(installed) /\ MayTry(Recorded.n) /\ Mishap    \* the spawn raised
        /\ IF GivesUp(installed) \/ PostUpgrade(installed)
             THEN LET R == Removable(Places, "agent")
                  IN Gone(R) /\ st' = Orphaned(R) /\ manifest' = NoVersion
             ELSE UNCHANGED <<exists, data, manifest, st>>
        /\ attempts' = NoAttempts /\ lastSeen' = installed /\ marker' = TakeMarker
        /\ service' = "up" /\ asked' = {} /\ UNCHANGED helper
  /\ UNCHANGED <<advertised, installed, offer, mixed>>

\* The payload the helper opens is a whole release.
Whole(v) == "payload" \in exists /\ \A i \in 1 .. Chunks : data["payload"][i] = v

\* The files are replaced and the agent started again (a Boot). The Windows
\* installer first kills an agent that runs; the macOS script removes the image.
HelperSucceeds ==
  /\ helper /\ helper' = FALSE
  /\ \E v \in Versions : Whole(v) /\ installed' = v
  /\ IF Unix
       THEN /\ Gone({"payload"}) /\ st' = Orphaned({"payload"}) /\ UNCHANGED <<service, offer>>
       ELSE /\ service' = "down" /\ offer' = FALSE /\ st' = NoAgent
            /\ UNCHANGED <<exists, data>>
  /\ UNCHANGED <<advertised, running, manifest, notes, asked, mixed, mishaps>>

HelperFails ==
  /\ helper /\ helper' = FALSE
  /\ UNCHANGED <<advertised, installed, running, service, slot, notes, offer, asked, mishaps>>

-----------------------------------------------------------------------------
(* The world                                                                  *)

Publish ==
  /\ advertised < MaxVersion /\ advertised' = advertised + 1
  /\ UNCHANGED <<installed, running, service, helper, slot, notes, offer, asked, mishaps>>

\* The user installs the advertised release by hand.
InstallByHand ==
  /\ service = "down" /\ ~helper /\ installed < advertised /\ installed' = advertised
  /\ UNCHANGED <<advertised, running, service, helper, slot, notes, offer, asked, mishaps>>

ServiceCrashes ==
  /\ service # "down" /\ Mishap /\ service' = "down" /\ offer' = FALSE /\ st' = NoAgent
  /\ UNCHANGED <<advertised, installed, running, helper, exists, data, manifest, notes,
                 asked, mixed>>

\* The Settings process ends: at once, or when its agent is gone.
SettingsEnds ==
  /\ st["settings"].at # "idle" /\ st' = [st EXCEPT !["settings"] = Idle]
  /\ UNCHANGED <<advertised, installed, running, service, helper, exists, data, manifest,
                 notes, offer, asked, mixed, mishaps>>

Stager(s) == Open(s) \/ Write(s) \/ DownloadFails(s) \/ Rename(s) \/ WriteManifest(s)

UpdatesNext ==
  \/ \E s \in Stagers : Stager(s)
  \/ UpdateCheck \/ InstallUpdateNow \/ SettingsApplies \/ InstallClicked
  \/ Quit \/ QuitEnds \/ ServiceBoots \/ HelperSucceeds \/ HelperFails
  \/ Publish \/ InstallByHand \/ ServiceCrashes \/ SettingsEnds

\* A quit that began ends, and the next logon or click starts the agent again.
\* Nobody has to install, quit or publish; helpers may fail for ever.
UpdatesFairness == WF_updateVars(QuitEnds) /\ WF_updateVars(ServiceBoots)

UpdatesSpec == UpdatesInit /\ [][UpdatesNext]_updateVars /\ UpdatesFairness

-----------------------------------------------------------------------------
(* Properties                                                                 *)

\* Whoever reads the stage as ready reads a whole release (update_stage.py:10),
\* after crashes between the files and failed writes, as long as downloads do
\* not overlap.
ReadyIsWhole == Ready /\ ~mixed => \E v \in Versions : Whole(v)

\* The same without the condition, which update_stage.py:100 says always holds.
StagedIsComplete == Ready => \E v \in Versions : Whole(v)

\* Nor does an update install an older version, whichever stage was left behind
\* when the user installed by hand (update_apply.py:205).
NoDowngrade == [][~mixed => installed' >= installed]_updateVars

\* A quit hands over to the installer only if somebody asked for it since the
\* agent came up; a flag an earlier session left does not count (update_apply.py:69).
PlainQuitInstallsNothing ==
  [][service = "quitting" /\ attempts' # attempts => asked # {}]_updateVars

\* The Settings window comes up by itself after an upgrade only if this upgrade
\* was asked for there (update_apply.py:110).
NoStrayWindow ==
  [][service = "down" /\ service' = "up" /\ PostUpgrade(installed) /\ marker
       => "settings" \in asked]_updateVars

\* However often the helper fails, the agent comes up again (update_apply.py:51).
AgentComesUp == service # "up" ~> service = "up"
=============================================================================
