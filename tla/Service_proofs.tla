--------------------------- MODULE Service_proofs ---------------------------
(***************************************************************************)
(* Proofs about the three parts of Service, for every number of releases,  *)
(* pieces, attempts, settings, launches and Settings processes: what the   *)
(* download slot holds (Updates), what two writers of the settings file    *)
(* keep (Preferences), and that one service runs (Instance).               *)
(***************************************************************************)
EXTENDS Service, TLAPS

(* The download slot (Updates)                                             *)

Handles == [at : Phases, ver : {NoVersion} \cup Versions, pos : 0 .. Chunks,
            file : Places \cup {"gone", "none"}]
Pieces == [1 .. Chunks -> {NoVersion} \cup Versions]
SlotT == /\ exists \subseteq Places /\ data \in [Places -> Pieces]
         /\ st \in [Stagers -> Handles] /\ advertised \in Versions

Loading(s) == st[s].at \in {"asking", "writing", "checked", "renamed"}

\* Only a stager that is writing has a file open, and it knows what it loads.
HandlesFit == \A s \in Stagers :
                /\ st[s].at # "writing" => st[s].file = "none"
                /\ Loading(s) => st[s].ver \in Versions
                /\ st[s].at = "writing" => st[s].pos \in 1 .. Chunks

\* As long as no two downloads overlapped, one stager loads, and nobody has the
\* payload open.
Alone == ~mixed => /\ \A s, t \in Stagers : Loading(s) /\ Loading(t) => s = t
                   /\ \A s \in Stagers : st[s].file # "payload"

\* Then the partial file is the one that it writes, whole up to its next piece.
PartialGrows ==
  ~mixed /\ "partial" \in exists =>
    \A s \in Stagers :
      /\ st[s].at = "writing" =>
           st[s].file = "partial" /\ \A i \in 1 .. Chunks : i < st[s].pos => data["partial"][i] = st[s].ver
      /\ st[s].at = "checked" => \A i \in 1 .. Chunks : data["partial"][i] = st[s].ver

PayloadWhole == ~mixed /\ "payload" \in exists => \E v \in Versions : Whole(v)

SlotInv == SlotT /\ HandlesFit /\ Alone /\ PartialGrows /\ PayloadWhole

LEMMA SlotInvWhole == SlotInv => ReadyIsWhole
BY DEF SlotInv, PayloadWhole, ReadyIsWhole, Ready

LEMMA SlotInit == UpdatesInit => SlotInv
BY UpdatesAssumption
DEF UpdatesInit, SlotInv, SlotT, HandlesFit, Alone, PartialGrows, PayloadWhole, Idle, Handles,
    Pieces, Blank, Loading, Versions, NoVersion, Phases, Places, Stagers

LEMMA IdleHandle ==
  Idle \in Handles /\ Idle.at = "idle" /\ Idle.file = "none" /\ Idle.ver = NoVersion /\ Idle.pos = 0
BY UpdatesAssumption DEF Idle, Handles, Phases, NoVersion

LEMMA OrphanedHandle ==
  ASSUME SlotT, NEW R \in SUBSET Places
  PROVE  /\ Orphaned(R) \in [Stagers -> Handles]
         /\ \A t \in Stagers :
              /\ Orphaned(R)[t].at = st[t].at /\ Orphaned(R)[t].ver = st[t].ver
              /\ Orphaned(R)[t].pos = st[t].pos
              /\ Orphaned(R)[t].file = IF st[t].file \in R THEN "gone" ELSE st[t].file
<1>1. ASSUME NEW t \in Stagers
      PROVE  /\ Orphaned(R)[t] \in Handles
             /\ Orphaned(R)[t].at = st[t].at /\ Orphaned(R)[t].ver = st[t].ver
             /\ Orphaned(R)[t].pos = st[t].pos
             /\ Orphaned(R)[t].file = IF st[t].file \in R THEN "gone" ELSE st[t].file
  <2>1. st[t] \in Handles
    BY DEF SlotT
  <2>2. CASE st[t].file \in R
    <3>1. Orphaned(R)[t] = [st[t] EXCEPT !.file = "gone"]
      BY <2>2 DEF Orphaned
    <3>2. QED
      BY <2>1, <2>2, <3>1 DEF Handles
  <2>3. CASE st[t].file \notin R
    <3>1. Orphaned(R)[t] = st[t]
      BY <2>3 DEF Orphaned
    <3>2. QED
      BY <2>1, <2>3, <3>1
  <2>4. QED
    BY <2>2, <2>3
<1>2. QED
  BY <1>1 DEF Orphaned

\* Files are removed, handles to them orphaned; stagers end, or go on to apply.
LEMMA SlotShrinks ==
  ASSUME SlotInv, NEW R \in SUBSET Places, Gone(R), UNCHANGED mixed, advertised' \in Versions,
         st' \in [Stagers -> Handles],
         \A t \in Stagers : \/ st'[t] = Idle \/ st'[t] = Orphaned(R)[t]
                            \/ (st[t].at \in {"idle", "renamed"} /\ st'[t] = [st[t] EXCEPT !.at = "apply"])
  PROVE  SlotInv'
<1>1. /\ exists' = exists \ R
      /\ \A p \in Places \ R : data'[p] = data[p]
      /\ SlotT'
  BY DEF SlotInv, SlotT, Gone, Blank, Pieces, NoVersion
<1>2. \A t \in Stagers :
        /\ st'[t].at # "writing" => st'[t].file = "none"
        /\ Loading(t)' => /\ Loading(t) /\ st'[t].at = st[t].at /\ st'[t].ver = st[t].ver
                          /\ st'[t].pos = st[t].pos
                          /\ st'[t].file = IF st[t].file \in R THEN "gone" ELSE st[t].file
        /\ st'[t].file = "payload" => st[t].file = "payload"
  <2> SUFFICES ASSUME NEW t \in Stagers
               PROVE  /\ st'[t].at # "writing" => st'[t].file = "none"
                      /\ Loading(t)' => /\ Loading(t) /\ st'[t].at = st[t].at /\ st'[t].ver = st[t].ver
                                        /\ st'[t].pos = st[t].pos
                                        /\ st'[t].file = IF st[t].file \in R THEN "gone" ELSE st[t].file
                      /\ st'[t].file = "payload" => st[t].file = "payload"
    OBVIOUS
  <2>1. CASE st'[t] = Idle
    BY <2>1, IdleHandle DEF Loading
  <2>2. CASE st'[t] = Orphaned(R)[t]
    BY <2>2, OrphanedHandle DEF SlotInv, HandlesFit, Loading, Places
  <2>3. CASE st[t].at \in {"idle", "renamed"} /\ st'[t] = [st[t] EXCEPT !.at = "apply"]
    <3>1. st[t] \in Handles /\ st[t].file = "none"
      BY <2>3 DEF SlotInv, SlotT, HandlesFit
    <3>2. st'[t].at = "apply" /\ st'[t].file = "none"
      BY <2>3, <3>1 DEF Handles
    <3>3. QED
      BY <3>2 DEF Loading
  <2>4. QED
    BY <2>1, <2>2, <2>3
<1>3. HandlesFit' /\ Alone'
  BY <1>2 DEF SlotInv, HandlesFit, Alone, Loading
<1>4. PartialGrows'
  BY <1>1, <1>2 DEF SlotInv, PartialGrows, Loading, Places
<1>5. PayloadWhole'
  BY <1>1 DEF SlotInv, PayloadWhole, Whole, Places
<1>6. QED
  BY <1>1, <1>3, <1>4, <1>5 DEF SlotInv

\* The slot is left alone.
LEMMA SlotUntouched ==
  ASSUME SlotInv, UNCHANGED <<exists, data, st, mixed>>, advertised' \in Versions
  PROVE  SlotInv'
BY DEF SlotInv, SlotT, HandlesFit, Alone, PartialGrows, PayloadWhole, Loading, Whole

\* Removed files, with nobody's state changed but that of s.
LEMMA AbandonInv ==
  ASSUME SlotInv, NEW s \in Stagers, NEW P \in SUBSET Places, Abandon(s, P),
         UNCHANGED <<mixed, advertised>>
  PROVE  SlotInv'
<1> DEFINE R == Removable(P, s)
<1>1. R \in SUBSET Places /\ Gone(R) /\ st' = [Orphaned(R) EXCEPT ![s] = Idle]
  BY DEF Abandon, Removable
<1>2. Orphaned(R) \in [Stagers -> Handles] /\ Idle \in Handles
  BY <1>1, OrphanedHandle, IdleHandle DEF SlotInv
<1>3. st' \in [Stagers -> Handles]
      /\ \A t \in Stagers : st'[t] = Idle \/ st'[t] = Orphaned(R)[t]
  BY <1>1, <1>2
<1> HIDE DEF R
<1>4. QED
  BY <1>1, <1>3, SlotShrinks DEF SlotInv, SlotT

LEMMA BeginInv ==
  ASSUME SlotInv, NEW s \in Stagers, NEW P \in {Places, {"partial"}}, Gone(Removable(P, s)),
         st' = [Orphaned(Removable(P, s)) EXCEPT ![s] = [Idle EXCEPT !.at = "asking", !.ver = advertised]],
         mixed' = (st[CHOOSE t \in Stagers : t # s].at # "idle" \/ (mixed /\ exists' # {})),
         UNCHANGED advertised
  PROVE  SlotInv'
<1> DEFINE R == Removable(P, s)
<1>1. R \subseteq Places /\ exists' = exists \ R /\ \A p \in Places \ R : data'[p] = data[p]
  BY DEF Gone, Removable, Places, SlotInv, SlotT
<1> DEFINE asks == [Idle EXCEPT !.at = "asking", !.ver = advertised]
<1>2. Orphaned(R) \in [Stagers -> Handles]
      /\ asks \in Handles /\ asks.at = "asking" /\ asks.ver = advertised /\ asks.file = "none"
  <2>1. Orphaned(R) \in [Stagers -> Handles]
    BY <1>1, OrphanedHandle DEF SlotInv
  <2>2. advertised \in Versions
    BY DEF SlotInv, SlotT
  <2>3. asks \in Handles /\ asks.at = "asking" /\ asks.ver = advertised /\ asks.file = "none"
    BY <2>2, IdleHandle DEF Handles, Phases
  <2>4. QED
    BY <2>1, <2>3
<1>3. st' \in [Stagers -> Handles]
  BY <1>2
<1>4. SlotT'
  BY <1>1, <1>3 DEF SlotInv, SlotT, Gone, Blank, Pieces, NoVersion
<1>5. \A t \in Stagers \ {s} :
        /\ st'[t].at = st[t].at /\ st'[t].ver = st[t].ver /\ st'[t].pos = st[t].pos
        /\ st[t].at # "writing" => st'[t].file = "none"
        /\ st'[t].file = "payload" => st[t].file = "payload"
  <2>1. \A t \in Stagers \ {s} : st'[t] = Orphaned(R)[t]
    BY <1>2
  <2>2. QED
    BY <1>1, <2>1, OrphanedHandle DEF SlotInv, HandlesFit, Places
<1>6. st'[s].at = "asking" /\ st'[s].ver = advertised /\ st'[s].file = "none"
  BY <1>2
<1>7. HandlesFit'
  BY <1>5, <1>6 DEF SlotInv, SlotT, HandlesFit, Loading
<1>8. ASSUME ~mixed' PROVE (\A t \in Stagers \ {s} : st[t].at = "idle") /\ (~mixed \/ exists' = {})
  <2>1. st[CHOOSE t \in Stagers : t # s].at = "idle" /\ ~(mixed /\ exists' # {})
    BY <1>8, Zenon
  <2>2. \A t \in Stagers \ {s} : t = CHOOSE u \in Stagers : u # s
    BY DEF Stagers
  <2>3. QED
    BY <2>1, <2>2
<1>9. Alone' /\ PartialGrows'
  BY <1>5, <1>6, <1>8 DEF SlotInv, Alone, HandlesFit, PartialGrows, Loading
<1>10. PayloadWhole'
  BY <1>1, <1>8 DEF SlotInv, PayloadWhole, Whole, Places
<1>11. QED
  BY <1>4, <1>7, <1>9, <1>10 DEF SlotInv

LEMMA OpenInv ==
  ASSUME SlotInv, NEW s \in Stagers, Open(s)
  PROVE  SlotInv'
<1>1. /\ exists' = exists \cup {"partial"} /\ data' = [data EXCEPT !["partial"] = Blank]
      /\ st' = [st EXCEPT ![s] = [@ EXCEPT !.at = "writing", !.pos = 1, !.file = "partial"]]
      /\ UNCHANGED <<mixed, advertised>> /\ Loading(s)
  BY DEF Open, Loading
<1>2. SlotT'
  <2>0. st[s] \in Handles /\ 1 \in 0 .. Chunks
    BY UpdatesAssumption DEF SlotInv, SlotT
  <2>1. [st[s] EXCEPT !.at = "writing", !.pos = 1, !.file = "partial"] \in Handles
    BY <2>0 DEF Handles, Phases, Places
  <2>2. st' \in [Stagers -> Handles]
    BY <1>1, <2>1 DEF SlotInv, SlotT
  <2>3. Blank \in Pieces /\ exists' \subseteq Places
    BY <1>1 DEF Blank, Pieces, SlotInv, SlotT, Places
  <2>4. QED
    BY <1>1, <2>2, <2>3 DEF SlotInv, SlotT
<1>3. /\ st'[s].at = "writing" /\ st'[s].pos = 1 /\ st'[s].file = "partial" /\ st'[s].ver = st[s].ver
      /\ \A t \in Stagers \ {s} : st'[t] = st[t]
  BY <1>1 DEF SlotInv, SlotT, Handles
<1>4. HandlesFit' /\ Alone'
  BY <1>1, <1>3, UpdatesAssumption DEF SlotInv, HandlesFit, Alone, Loading
<1>5. PartialGrows'
  BY <1>1, <1>3 DEF SlotInv, PartialGrows, Alone, Loading
<1>6. PayloadWhole'
  BY <1>1 DEF SlotInv, SlotT, PayloadWhole, Whole, Places
<1>7. QED
  BY <1>2, <1>4, <1>5, <1>6 DEF SlotInv

LEMMA WriteInv ==
  ASSUME SlotInv, NEW s \in Stagers, Write(s)
  PROVE  SlotInv'
<1> DEFINE f == st[s].file
<1>1. /\ st[s].at = "writing" /\ Loading(s)
      /\ data' = IF f \in Places THEN [data EXCEPT ![f] = [@ EXCEPT ![st[s].pos] = st[s].ver]] ELSE data
      /\ UNCHANGED <<mixed, advertised, exists>>
  BY DEF Write, Loading
<1>2. st[s] \in Handles /\ st[s].pos \in 1 .. Chunks /\ st[s].ver \in Versions
  BY <1>1 DEF SlotInv, SlotT, HandlesFit
<1>3. /\ st' \in [Stagers -> Handles] /\ st'[s].ver = st[s].ver
      /\ \A t \in Stagers \ {s} : st'[t] = st[t]
      /\ \/ st[s].pos = Chunks /\ st'[s].at = "checked" /\ st'[s].file = "none"
         \/ /\ st[s].pos < Chunks /\ st'[s].at = "writing" /\ st'[s].pos = st[s].pos + 1
            /\ st'[s].file = st[s].file
  <2>1. CASE st[s].pos = Chunks
    <3>1. st' = [st EXCEPT ![s] = [st[s] EXCEPT !.at = "checked", !.pos = 0, !.file = "none"]]
      BY <2>1 DEF Write, Complete, AllOfIt
    <3>2. 0 \in 0 .. Chunks
      BY UpdatesAssumption
    <3>3. [st[s] EXCEPT !.at = "checked", !.pos = 0, !.file = "none"] \in Handles
      BY <1>2, <3>2 DEF Handles, Phases
    <3>4. QED
      BY <1>2, <2>1, <3>1, <3>3 DEF SlotInv, SlotT, Handles
  <2>2. CASE st[s].pos # Chunks
    <3>1. st' = [st EXCEPT ![s] = [st[s] EXCEPT !.pos = st[s].pos + 1]]
      BY <2>2 DEF Write, Complete, AllOfIt
    <3>2. st[s].pos + 1 \in 0 .. Chunks /\ st[s].pos < Chunks
      BY <1>2, <2>2, UpdatesAssumption
    <3>3. QED
      BY <1>1, <1>2, <2>2, <3>1, <3>2 DEF SlotInv, SlotT, Handles, Phases
  <2>3. QED
    BY <2>1, <2>2
<1>4. SlotT'
  BY <1>1, <1>2, <1>3 DEF SlotInv, SlotT, Pieces
<1>5. HandlesFit' /\ Alone'
  BY <1>1, <1>2, <1>3, UpdatesAssumption DEF SlotInv, HandlesFit, Alone, Loading
<1>6. PartialGrows'
  <2> SUFFICES ASSUME ~mixed, "partial" \in exists PROVE PartialGrows'
    BY <1>1 DEF PartialGrows
  <2>1. f = "partial" /\ \A i \in 1 .. Chunks : i < st[s].pos => data["partial"][i] = st[s].ver
    BY <1>1 DEF SlotInv, PartialGrows
  <2>2. \A i \in 1 .. Chunks : data'["partial"][i] = IF i = st[s].pos THEN st[s].ver ELSE data["partial"][i]
    BY <1>1, <1>2, <2>1 DEF SlotInv, SlotT, Pieces, Places
  <2>3. \A t \in Stagers \ {s} : ~Loading(t)
    BY <1>1 DEF SlotInv, Alone
  <2>4. \A i \in 1 .. Chunks : i < st[s].pos + 1 => data'["partial"][i] = st[s].ver
    BY <1>2, <2>1, <2>2, UpdatesAssumption
  <2>5. QED
    BY <1>2, <1>3, <2>1, <2>3, <2>4, UpdatesAssumption DEF PartialGrows, Loading
<1>7. PayloadWhole'
  <2>1. ~mixed => data'["payload"] = data["payload"]
    BY <1>1 DEF SlotInv, SlotT, Alone, Places
  <2>2. QED
    BY <1>1, <2>1 DEF SlotInv, PayloadWhole, Whole
<1>8. QED
  BY <1>4, <1>5, <1>6, <1>7 DEF SlotInv

LEMMA RenameInv ==
  ASSUME SlotInv, NEW s \in Stagers, Rename(s)
  PROVE  SlotInv'
<1>1. st[s].at = "checked" /\ Loading(s) /\ UNCHANGED <<mixed, advertised>>
  BY DEF Rename, Loading
<1>2. CASE Abandon(s, {"partial"})
  BY <1>1, <1>2, AbandonInv DEF Places
<1>3. CASE /\ "partial" \in exists /\ exists' = {"payload"}
           /\ data' = [data EXCEPT !["payload"] = data["partial"], !["partial"] = Blank]
           /\ st' = [t \in Stagers |->
                 IF t = s THEN [st[t] EXCEPT !.at = "renamed"]
                 ELSE [st[t] EXCEPT !.file = CASE @ = "partial" -> "payload"
                                               [] @ = "payload" -> "gone"
                                               [] OTHER -> @]]
  <2>1. /\ st' \in [Stagers -> Handles] /\ st'[s].at = "renamed" /\ st'[s].ver = st[s].ver
        /\ st'[s].file = st[s].file
        /\ \A t \in Stagers \ {s} :
             /\ st'[t].at = st[t].at /\ st'[t].ver = st[t].ver /\ st'[t].pos = st[t].pos
             /\ (st[t].file = "none" => st'[t].file = "none")
    BY <1>3 DEF SlotInv, SlotT, Handles, Phases, Places
  <2>2. SlotT' /\ data'["payload"] = data["partial"]
    BY <1>1, <1>3, <2>1 DEF SlotInv, SlotT, Pieces, Blank, NoVersion, Places
  <2>3. HandlesFit'
    BY <1>1, <2>1 DEF SlotInv, HandlesFit, Loading
  <2>4. Alone' /\ PartialGrows'
    BY <1>1, <1>3, <2>1 DEF SlotInv, Alone, PartialGrows, HandlesFit, Loading
  <2>5. PayloadWhole'
    <3> SUFFICES ASSUME ~mixed PROVE \E v \in Versions : Whole(v)'
      BY <1>1 DEF PayloadWhole
    <3>1. \A i \in 1 .. Chunks : data["partial"][i] = st[s].ver
      BY <1>1, <1>3 DEF SlotInv, PartialGrows
    <3>2. PICK v \in Versions : v = st[s].ver
      BY <1>1 DEF SlotInv, HandlesFit
    <3>3. "payload" \in exists' /\ \A i \in 1 .. Chunks : data'["payload"][i] = v
      BY <1>3, <2>2, <3>1, <3>2
    <3>4. QED
      BY <3>3 DEF Whole
  <2>6. QED
    BY <2>2, <2>3, <2>4, <2>5 DEF SlotInv
<1>4. QED
  BY <1>2, <1>3 DEF Rename, Removable

\* A download of advertised begins, in a slot that is emptied first or not.
LEMMA BeginsInv ==
  ASSUME SlotInv, NEW s \in Stagers, Begin(s, TRUE) \/ Begin(s, FALSE), UNCHANGED advertised
  PROVE  SlotInv'
<1>1. PICK P \in {Places, {"partial"}} :
        /\ Gone(Removable(P, s))
        /\ st' = [Orphaned(Removable(P, s)) EXCEPT ![s] = [Idle EXCEPT !.at = "asking", !.ver = advertised]]
        /\ mixed' = (st[CHOOSE t \in Stagers : t # s].at # "idle" \/ (mixed /\ exists' # {}))
  BY DEF Begin
<1>2. QED
  BY <1>1, BeginInv

LEMMA BeginEither ==
  ASSUME NEW s \in Stagers, Begin(s, Ready) \/ Begin(s, Ready /\ Newer(running, manifest))
  PROVE  Begin(s, TRUE) \/ Begin(s, FALSE)
BY DEF Begin

\* The services and their quits: the slot is emptied or left, handles are closed.
LEMMA ServiceSlotInv ==
  ASSUME SlotInv, QuitEnds \/ ServiceBoots \/ HelperSucceeds \/ ServiceCrashes
  PROVE  SlotInv'
<1>0. UNCHANGED <<mixed, advertised>> /\ advertised \in Versions
  BY DEF QuitEnds, ServiceBoots, HelperSucceeds, ServiceCrashes, SlotInv, SlotT
<1>1. Gone({}) <=> UNCHANGED <<exists, data>>
  BY DEF Gone, SlotInv, SlotT
<1>2. Orphaned({}) = st
  BY DEF Orphaned, SlotInv, SlotT
<1>3. ASSUME NEW R \in SUBSET Places, Gone(R), st' = Orphaned(R) PROVE SlotInv'
  BY <1>0, <1>3, SlotShrinks, OrphanedHandle DEF SlotInv
<1>4. CASE UNCHANGED <<exists, data, st>>
  BY <1>0, <1>4, SlotUntouched
<1>5. CASE QuitEnds
  <2>1. st' = [s \in Stagers |-> Idle]
    BY <1>5 DEF QuitEnds
  <2>2. Gone({}) \/ Gone(Places)
    BY <1>1, <1>5 DEF QuitEnds
  <2>3. QED
    BY <1>0, <2>1, <2>2, SlotShrinks, IdleHandle
<1>6. CASE ServiceBoots
  <2>1. \/ UNCHANGED <<exists, data, st>>
        \/ \E R \in SUBSET Places : Gone(R) /\ st' = Orphaned(R)
    BY <1>6 DEF ServiceBoots, Removable, Places
  <2>2. QED
    BY <1>3, <1>4, <2>1
<1>7. ASSUME st' = NoAgent, UNCHANGED <<exists, data>> PROVE SlotInv'
  <2>1. st' \in [Stagers -> Handles] /\ \A t \in Stagers : st'[t] = Idle \/ st'[t] = Orphaned({})[t]
    BY <1>2, <1>7, IdleHandle DEF NoAgent, SlotInv, SlotT
  <2>2. QED
    BY <1>0, <1>1, <1>7, <2>1, SlotShrinks
<1>8. CASE HelperSucceeds
  <2>1. \/ Gone({"payload"}) /\ st' = Orphaned({"payload"})
        \/ st' = NoAgent /\ UNCHANGED <<exists, data>>
    BY <1>8 DEF HelperSucceeds
  <2>2. QED
    BY <1>3, <1>7, <2>1 DEF Places
<1>9. CASE ServiceCrashes
  BY <1>7, <1>9 DEF ServiceCrashes
<1>10. QED
  BY <1>5, <1>6, <1>8, <1>9

\* A stager that is idle, or has its payload, goes on to the hand-off, or ends.
LEMMA StagerSlotInv ==
  ASSUME SlotInv, NEW s \in Stagers, UNCHANGED <<exists, data, mixed, advertised>>,
         \/ st' = [st EXCEPT ![s] = Idle]
         \/ st[s].at \in {"idle", "renamed"} /\ st' = [st EXCEPT ![s] = [st[s] EXCEPT !.at = "apply"]]
  PROVE  SlotInv'
<1>1. Gone({}) /\ Orphaned({}) = st /\ advertised' \in Versions /\ {} \in SUBSET Places
  BY DEF Gone, Orphaned, SlotInv, SlotT
<1>2. [st[s] EXCEPT !.at = "apply"] \in Handles
  BY DEF SlotInv, SlotT, Handles, Phases
<1>3. /\ st' \in [Stagers -> Handles]
      /\ \A t \in Stagers :
           \/ st'[t] = Idle \/ st'[t] = Orphaned({})[t]
           \/ (st[t].at \in {"idle", "renamed"} /\ st'[t] = [st[t] EXCEPT !.at = "apply"])
  BY <1>1, <1>2, IdleHandle DEF SlotInv, SlotT
<1>4. QED
  BY <1>1, <1>3, SlotShrinks

LEMMA SlotNext == SlotInv /\ [UpdatesNext]_updateVars => SlotInv'
<1> SUFFICES ASSUME SlotInv, [UpdatesNext]_updateVars PROVE SlotInv'
  OBVIOUS
<1>0. advertised \in Versions
  BY DEF SlotInv, SlotT
<1>1. CASE UNCHANGED updateVars
  BY <1>0, <1>1, SlotUntouched DEF updateVars
<1>2. ASSUME NEW s \in Stagers, Stager(s)
      PROVE  SlotInv'
  <2>1. CASE Open(s) \/ Write(s) \/ Rename(s)
    BY <2>1, OpenInv, WriteInv, RenameInv
  <2>2. CASE DownloadFails(s)
    BY <2>2, AbandonInv DEF DownloadFails, Places
  <2>3. CASE WriteManifest(s)
    <3>1. CASE Abandon(s, {"payload"})
      BY <2>3, <3>1, AbandonInv DEF WriteManifest, Places
    <3>2. CASE /\ st' = [st EXCEPT ![s] = IF s = "agent" THEN Idle ELSE [@ EXCEPT !.at = "apply"]]
               /\ UNCHANGED <<exists, data>>
      BY <2>3, <3>2, StagerSlotInv DEF WriteManifest
    <3>3. QED
      BY <2>3, <3>1, <3>2 DEF WriteManifest
  <2>4. QED
    BY <1>2, <2>1, <2>2, <2>3 DEF Stager
<1>3. CASE UpdateCheck
  <2>1. UNCHANGED slot \/ Begin("agent", Ready)
    BY <1>3 DEF UpdateCheck
  <2>2. UNCHANGED advertised /\ "agent" \in Stagers
    BY <1>3 DEF UpdateCheck, Stagers
  <2>3. QED
    BY <1>0, <2>1, <2>2, SlotUntouched, BeginEither, BeginsInv DEF slot
<1>4. CASE InstallUpdateNow
  <2>1. UNCHANGED advertised /\ "settings" \in Stagers /\ st["settings"].at = "idle"
    BY <1>4 DEF InstallUpdateNow, Stagers
  <2>2. CASE Begin("settings", Ready /\ Newer(running, manifest))
    BY <2>1, <2>2, BeginEither, BeginsInv
  <2>3. CASE /\ st' = [st EXCEPT !["settings"].at = "apply"]
             /\ UNCHANGED <<exists, data, manifest, mixed>>
    BY <2>1, <2>3, StagerSlotInv
  <2>4. QED
    BY <1>4, <2>2, <2>3 DEF InstallUpdateNow
<1>5. CASE SettingsApplies \/ SettingsEnds
  BY <1>5, StagerSlotInv DEF SettingsApplies, SettingsEnds, Stagers
<1>6. CASE InstallClicked \/ Quit \/ HelperFails \/ InstallByHand
  BY <1>0, <1>6, SlotUntouched DEF InstallClicked, Quit, HelperFails, InstallByHand, slot
<1>7. CASE Publish
  <2>1. advertised' \in Versions
    BY <1>0, <1>7, UpdatesAssumption DEF Publish, Versions
  <2>2. QED
    BY <1>7, <2>1, SlotUntouched DEF Publish, slot
<1>8. CASE QuitEnds \/ ServiceBoots \/ HelperSucceeds \/ ServiceCrashes
  BY <1>8, ServiceSlotInv
<1>9. QED
  BY <1>1, <1>2, <1>3, <1>4, <1>5, <1>6, <1>7, <1>8 DEF UpdatesNext

-----------------------------------------------------------------------------
(* What was asked for (Updates)                                            *)

\* The flag and the marker are there only while it is known who asked for them.
FlagIsAsked == flag => asked # {}
MarkerIsAsked == marker => "settings" \in asked
AskInv == FlagIsAsked /\ MarkerIsAsked

LEMMA AskInit == UpdatesInit => AskInv
BY Zenon DEF UpdatesInit, AskInv, FlagIsAsked, MarkerIsAsked

LEMMA AskNext == AskInv /\ [UpdatesNext]_updateVars => AskInv'
<1> SUFFICES ASSUME AskInv, [UpdatesNext]_updateVars PROVE AskInv'
  OBVIOUS
<1>1. CASE UNCHANGED <<flag, marker, asked>>
  BY <1>1 DEF AskInv, FlagIsAsked, MarkerIsAsked
<1>2. CASE SettingsApplies
  <2>1. "settings" \in asked'
    BY <1>2 DEF SettingsApplies
  <2>2. QED
    BY <2>1 DEF AskInv, FlagIsAsked, MarkerIsAsked
<1>3. CASE InstallClicked
  <2>1. asked' = asked \cup {"menu"} /\ marker' = marker
    BY <1>3 DEF InstallClicked
  <2>2. QED
    BY <2>1 DEF AskInv, FlagIsAsked, MarkerIsAsked
<1>4. CASE QuitEnds
  <2>1. ~flag' /\ UNCHANGED <<marker, asked>>
    BY <1>4 DEF QuitEnds
  <2>2. QED
    BY <2>1 DEF AskInv, FlagIsAsked, MarkerIsAsked
<1>5. CASE ServiceBoots
  <2>1. ~flag' /\ (UNCHANGED <<marker, asked>> \/ ~marker')
    BY <1>5 DEF ServiceBoots, AtBoot, ClearQuitIntent, TakeMarker
  <2>2. QED
    BY <2>1 DEF AskInv, FlagIsAsked, MarkerIsAsked
<1>6. QED
  BY <1>1, <1>2, <1>3, <1>4, <1>5
  DEF UpdatesNext, updateVars, notes, Stager, Open, Write, DownloadFails, Rename, WriteManifest,
      UpdateCheck, InstallUpdateNow, Quit, HelperSucceeds, HelperFails, Publish, InstallByHand,
      ServiceCrashes, SettingsEnds

\* Attempts are recorded by a quit only for the flag.
LEMMA QuitRecords ==
  ASSUME AskInv, [UpdatesNext]_updateVars, service = "quitting", attempts' # attempts
  PROVE  asked # {}
<1>1. QuitEnds
  BY DEF UpdatesNext, updateVars, notes, Stager, Open, Write, DownloadFails, Rename, WriteManifest,
      UpdateCheck, InstallUpdateNow, Quit, HelperSucceeds, HelperFails, Publish, InstallByHand,
      ServiceCrashes, SettingsEnds, SettingsApplies, InstallClicked, ServiceBoots
<1>2. flag
  BY <1>1 DEF QuitEnds
<1>3. QED
  BY <1>2 DEF AskInv, FlagIsAsked

-----------------------------------------------------------------------------
(* The settings file (Preferences)                                         *)

SaverT == [at : {"rest", "loaded", "opened", "written", "saved"}, doc : Docs, key : Keys,
           value : Values, open : {"none", "tmp", "disk"}]
PrefT == /\ stored \in Docs \cup {Broken} /\ tmp \in Docs \cup {Broken, Absent}
         /\ saver \in [Savers -> SaverT] /\ reader \in {"off", "booting", "serving"}
         /\ cfg \in Docs /\ chosen \in Docs /\ missed \subseteq Keys

\* A save that has not put its document in place yet.
Mid(s) == saver[s].at \in {"loaded", "opened", "written"}

\* The card saves in the serving agent, and what it saves the agent already does.
CardServes == /\ saver["card"].at # "rest" => Mid("card") /\ reader = "serving"
              /\ Mid("card") => saver["card"].key = "feedback" /\ saver["card"].doc["feedback"] = "off"

\* As long as no two saves overlapped, one save is under way; it will put every
\* choice in place, and until then the file lacks the one it is about.
OneSave == ~clash => /\ \A s, t \in Savers : saver[s].at # "rest" /\ saver[t].at # "rest" => s = t
                     /\ stored \in Docs
SaveIsWhole ==
  ~clash => \A s \in Savers :
    /\ Mid(s) => /\ saver[s].doc = chosen
                 /\ \A k \in Keys : k # saver[s].key => stored[k] = chosen[k]
    /\ saver[s].at = "opened" => saver[s].open = "tmp"
    /\ saver[s].at = "written" => tmp = saver[s].doc
Settled == ~clash /\ (\A s \in Savers : ~Mid(s)) => stored = chosen

\* What the agent acts on, once its configuration is read.
Heard ==
  ~clash /\ reader # "off" => \A k \in Nudged \ missed :
     \/ cfg[k] = stored[k]
     \/ saver["window"].at = "saved" /\ saver["window"].key = k
     \/ Mid("card") /\ k = "feedback"
CardActs == ~clash /\ Mid("card") => cfg["feedback"] = "off"

PrefInv == /\ PrefT /\ CardServes /\ OneSave /\ SaveIsWhole /\ Settled /\ Heard /\ CardActs

LEMMA DocFacts ==
  /\ Empty \in Docs /\ Broken \notin Docs /\ Absent \notin Docs /\ Absent # Broken
  /\ "feedback" \in Keys
  /\ \A d \in Docs, k \in Keys, v \in Values : [d EXCEPT ![k] = v] \in Docs
<1>1. "feedback" \in Keys
  BY PreferencesAssumption DEF Keys
<1>2. Empty \in Docs
  BY DEF Empty, Docs, Values
<1>3. Broken["feedback"] = "torn" /\ Absent["feedback"] = "absent"
  BY <1>1 DEF Broken, Absent
<1>4. \A d \in Docs : d["feedback"] \in {"unset", "on", "off"}
  BY <1>1 DEF Docs, Values
<1>5. Broken \notin Docs /\ Absent \notin Docs /\ Absent # Broken
  BY <1>3, <1>4
<1>6. \A d \in Docs, k \in Keys, v \in Values : [d EXCEPT ![k] = v] \in Docs
  BY DEF Docs
<1>7. QED
  BY <1>1, <1>2, <1>5, <1>6

LEMMA RestT ==
  Rest \in SaverT /\ Rest.at = "rest" /\ Rest.key = "feedback" /\ Rest.open = "none"
BY DocFacts DEF Rest, SaverT, Values

LEMMA ParsedT == PrefT => Parsed \in Docs /\ (stored \in Docs => Parsed = stored)
BY DocFacts DEF PrefT, Parsed

LEMMA PrefInvKept == PrefInv => ChoicesAreKept /\ ChoicesAreHeard
<1> SUFFICES ASSUME PrefInv, ~clash PROVE ChoicesAreKept /\ ChoicesAreHeard
  BY DEF ChoicesAreKept, ChoicesAreHeard
<1>1. stored # Broken
  BY DocFacts DEF PrefInv, OneSave
<1>2. Quiet => stored = chosen
  BY DEF PrefInv, Settled, Mid, Quiet
<1>3. Quiet /\ reader = "serving" => \A k \in Nudged \ missed : cfg[k] = stored[k]
  BY DEF PrefInv, Heard, Mid, Quiet, Savers
<1>4. QED
  BY <1>1, <1>2, <1>3 DEF ChoicesAreKept, ChoicesAreHeard

LEMMA PrefInit == PreferencesInit => PrefInv
<1> SUFFICES ASSUME PreferencesInit PROVE PrefInv
  OBVIOUS
<1>1. PrefT /\ \A s \in Savers : saver[s] = Rest
  BY DocFacts, RestT DEF PreferencesInit, PrefT
<1>2. \A s \in Savers : saver[s].at = "rest" /\ ~Mid(s)
  BY <1>1, RestT DEF Mid
<1>3. "card" \in Savers
  BY DEF Savers
<1>4. QED
  BY <1>1, <1>2, <1>3, DocFacts
  DEF PreferencesInit, PrefInv, CardServes, OneSave, SaveIsWhole, Settled, Heard, CardActs

\* A save begins: what it will write is what was chosen.
LEMMA SaveBeginsInv ==
  ASSUME PrefInv, NEW s \in Savers, NEW k \in Keys, NEW v \in Values, SaveBegins(s, k, v),
         UNCHANGED <<stored, tmp, reader, missed>>,
         \/ s = "window" /\ cfg' = cfg
         \/ s = "card" /\ k = "feedback" /\ v = "off" /\ reader = "serving"
            /\ cfg' = [cfg EXCEPT !["feedback"] = "off"]
  PROVE  PrefInv'
<1> DEFINE r == [Rest EXCEPT !.at = "loaded", !.doc = Merged(k, v), !.key = k, !.value = v]
<1>1. Merged(k, v) \in Docs /\ (stored \in Docs => Merged(k, v) = [stored EXCEPT ![k] = v])
  BY ParsedT, DocFacts DEF PrefInv, Merged
<1>2. r \in SaverT /\ r.at = "loaded" /\ r.doc = Merged(k, v) /\ r.key = k /\ r.open = "none"
  BY <1>1, RestT DEF SaverT
<1>3. saver' = [saver EXCEPT ![s] = r] /\ saver[s].at = "rest" /\ chosen' = [chosen EXCEPT ![k] = v]
  BY DEF SaveBegins
<1> HIDE DEF r
<1>4. saver'[s] = r /\ \A t \in Savers \ {s} : saver'[t] = saver[t]
  BY <1>3 DEF PrefInv, PrefT
<1>5. PrefT'
  BY <1>2, <1>3, DocFacts DEF PrefInv, PrefT, Values
<1>6. CardServes'
  BY <1>1, <1>2, <1>4, ParsedT, DocFacts DEF PrefInv, PrefT, CardServes, Mid, Savers, Merged, Docs
<1>7. ~clash' => ~clash /\ Quiet
  BY Zenon DEF SaveBegins
<1>8. SUFFICES ASSUME ~clash, Quiet PROVE PrefInv'
  BY <1>5, <1>6, <1>7 DEF PrefInv, OneSave, SaveIsWhole, Settled, Heard, CardActs
<1>9. stored = chosen /\ stored \in Docs /\ \A t \in Savers : saver[t].at = "rest"
  BY <1>8 DEF PrefInv, Settled, Mid, Quiet, OneSave
<1>10. chosen' = Merged(k, v) /\ \A j \in Keys : j # k => stored[j] = chosen'[j]
  BY <1>1, <1>3, <1>9 DEF Docs
<1>11. OneSave' /\ SaveIsWhole' /\ Settled'
  BY <1>2, <1>4, <1>9, <1>10 DEF OneSave, SaveIsWhole, Settled, Mid
<1>12. Heard'
  <2>1. \A j \in Nudged \ missed : reader # "off" => cfg[j] = stored[j]
    BY <1>8, <1>9 DEF PrefInv, Heard, Mid, Savers
  <2>2. CASE s = "window"
    BY <1>2, <1>4, <2>1, <2>2 DEF Heard
  <2>3. CASE s = "card"
    <3>1. \A j \in Keys : j # "feedback" => cfg'[j] = cfg[j]
      BY <2>3 DEF PrefInv, PrefT, Docs
    <3>2. QED
      BY <1>2, <1>4, <2>1, <2>3, <3>1 DEF Heard, Mid, Keys
  <2>4. QED
    BY <2>2, <2>3 DEF Savers
<1>13. CardActs'
  BY <1>2, <1>4, <1>9, DocFacts DEF PrefInv, PrefT, CardActs, Mid, Savers, Docs
<1>14. QED
  BY <1>5, <1>6, <1>11, <1>12, <1>13 DEF PrefInv

\* The temporary file is opened, and written.
LEMMA TmpInv ==
  ASSUME PrefInv, NEW s \in Savers, TmpOpened(s) \/ TmpWritten(s)
  PROVE  PrefInv'
<1>1. /\ UNCHANGED <<reader, cfg, chosen, clash, missed>> /\ Mid(s)
      /\ saver' \in [Savers -> SaverT]
      /\ \A t \in Savers \ {s} : saver'[t] = saver[t]
      /\ saver'[s].doc = saver[s].doc /\ saver'[s].key = saver[s].key
      /\ \/ TmpOpened(s) /\ saver'[s].at = "opened" /\ saver'[s].open = "tmp"
         \/ TmpWritten(s) /\ saver[s].at = "opened" /\ saver'[s].at = "written"
            /\ saver'[s].open = saver[s].open
  BY DEF TmpOpened, TmpWritten, PrefInv, PrefT, SaverT, Mid
<1>2. /\ stored' \in Docs \cup {Broken} /\ tmp' \in Docs \cup {Broken, Absent}
      /\ saver[s].doc \in Docs
  BY <1>1 DEF TmpOpened, TmpWritten, PrefInv, PrefT, SaverT
<1>3. ~clash => /\ stored' = stored
                /\ TmpWritten(s) => tmp' = saver[s].doc
  BY <1>1 DEF TmpOpened, TmpWritten, PrefInv, SaveIsWhole
<1>4. \A t \in Savers : Mid(t)' <=> Mid(t)
  BY <1>1 DEF Mid
<1>5. \A t \in Savers : (saver'[t].at = "rest" <=> saver[t].at = "rest")
                        /\ saver'[t].doc = saver[t].doc /\ saver'[t].key = saver[t].key
                        /\ (saver'[t].at = "saved" <=> saver[t].at = "saved")
  BY <1>1 DEF Mid
<1>6. PrefT' /\ CardServes'
  BY <1>1, <1>2, <1>4, <1>5 DEF PrefInv, PrefT, CardServes, Savers
<1>7. OneSave' /\ Settled' /\ CardActs' /\ Heard'
  BY <1>1, <1>3, <1>4, <1>5 DEF PrefInv, OneSave, Settled, CardActs, Heard, Savers
<1>8. SaveIsWhole'
  <2>1. ~clash => \A t \in Savers \ {s} : saver[t].at = "rest"
    BY <1>1 DEF PrefInv, OneSave, Mid
  <2>2. QED
    BY <1>1, <1>3, <1>4, <1>5, <2>1 DEF PrefInv, SaveIsWhole
<1>9. QED
  BY <1>6, <1>7, <1>8 DEF PrefInv


\* The document is put in place, or another save has taken the file away.
LEMMA ReplacedInv ==
  ASSUME PrefInv, NEW s \in Savers, Replaced(s)
  PROVE  PrefInv'
<1>1. /\ saver[s].at = "written" /\ Mid(s) /\ UNCHANGED <<reader, cfg, chosen, clash, missed>>
      /\ saver[s] \in SaverT
  BY DEF Replaced, Mid, PrefInv, PrefT
<1>2. CASE tmp = Absent
  <2>1. saver' = [saver EXCEPT ![s] = Rest] /\ UNCHANGED <<stored, tmp>>
    BY <1>2 DEF Replaced
  <2>2. clash
    <3>1. ~clash => tmp \in Docs
      BY <1>1 DEF PrefInv, SaveIsWhole, SaverT
    <3>2. QED
      BY <1>2, <3>1, DocFacts
  <2>3. PrefT'
    BY <1>1, <2>1, RestT DEF PrefInv, PrefT
  <2>4. CardServes'
    BY <1>1, <2>1, RestT DEF PrefInv, PrefT, CardServes, Mid, Savers
  <2>5. QED
    BY <1>1, <2>2, <2>3, <2>4
    DEF PrefInv, OneSave, SaveIsWhole, Settled, Heard, CardActs
<1>3. CASE tmp # Absent
  <2>1. /\ stored' = tmp /\ tmp' = Absent
        /\ saver' = [x \in Savers |->
              IF x # s THEN [saver[x] EXCEPT !.open = Moved(@)]
              ELSE IF s = "card" THEN Rest ELSE [saver[s] EXCEPT !.at = "saved"]]
    BY <1>3 DEF Replaced
  <2>2. \A x \in Savers \ {s} : /\ saver'[x] \in SaverT /\ saver'[x].at = saver[x].at
                                /\ saver'[x].doc = saver[x].doc /\ saver'[x].key = saver[x].key
    BY <2>1 DEF PrefInv, PrefT, SaverT, Moved
  <2>3. /\ saver'[s] \in SaverT /\ ~Mid(s)'
        /\ s = "card" => saver'[s].at = "rest"
        /\ s = "window" => saver'[s].at = "saved" /\ saver'[s].key = saver[s].key
    BY <1>1, <2>1, RestT DEF SaverT, Mid, Savers
  <2>4. PrefT'
    BY <1>1, <1>3, <2>1, <2>2, <2>3 DEF PrefInv, PrefT
  <2>5. CardServes'
    BY <1>1, <2>2, <2>3 DEF PrefInv, CardServes, Mid, Savers
  <2>6. SUFFICES ASSUME ~clash
                 PROVE OneSave' /\ SaveIsWhole' /\ Settled' /\ Heard' /\ CardActs'
    BY <1>1, <2>4, <2>5 DEF PrefInv, OneSave, SaveIsWhole, Settled, Heard, CardActs
  <2>7. \A x \in Savers \ {s} : saver[x].at = "rest" /\ saver'[x].at = "rest"
    BY <1>1, <2>2, <2>6 DEF PrefInv, OneSave, Mid
  <2>8. stored' = chosen /\ stored' = saver[s].doc /\ stored' \in Docs
    BY <1>1, <2>1, <2>6 DEF PrefInv, SaveIsWhole, SaverT
  <2>9. OneSave' /\ SaveIsWhole' /\ Settled' /\ CardActs'
    BY <1>1, <2>3, <2>7, <2>8 DEF OneSave, SaveIsWhole, Settled, CardActs, Mid, Savers
  <2>10. Heard'
    <3>1. \A k \in Keys : k # saver[s].key => stored'[k] = stored[k]
      BY <1>1, <2>6, <2>8 DEF PrefInv, SaveIsWhole
    <3>2. CASE s = "window"
      BY <1>1, <2>3, <2>6, <2>7, <3>1, <3>2 DEF PrefInv, Heard, Mid, Savers, Keys
    <3>3. CASE s = "card"
      <4>1. saver[s].key = "feedback" /\ stored'["feedback"] = "off" /\ cfg["feedback"] = "off"
        BY <1>1, <2>6, <2>8, <3>3 DEF PrefInv, CardServes, CardActs
      <4>2. saver["window"].at = "rest"
        BY <2>7, <3>3 DEF Savers
      <4>3. QED
        BY <1>1, <2>6, <3>1, <4>1, <4>2 DEF PrefInv, Heard, Keys
    <3>4. QED
      BY <3>2, <3>3 DEF Savers
  <2>11. QED
    BY <2>9, <2>10
<1>4. QED
  BY <1>2, <1>3

\* The agent is asked to read the file again.
LEMMA AskedInv ==
  ASSUME PrefInv, AgentAsked
  PROVE  PrefInv'
<1> DEFINE k == saver["window"].key
<1>1. /\ saver["window"].at = "saved" /\ saver' = [saver EXCEPT !["window"] = Rest]
      /\ UNCHANGED <<stored, tmp, reader, chosen, clash>>
      /\ cfg' = (IF reader = "serving" /\ k \in Nudged THEN Reread(k, Parsed) ELSE cfg)
      /\ missed' = (IF reader = "booting" THEN missed \cup {k} ELSE missed)
      /\ k \in Keys
  BY DEF AgentAsked, PrefInv, PrefT, SaverT, Savers
<1>2. Parsed \in Docs /\ Reread(k, Parsed) \in Docs
  BY <1>1, ParsedT DEF PrefInv, Reread, PrefT, Docs
<1>3. PrefT'
  BY <1>1, <1>2, RestT DEF PrefInv, PrefT
<1>4. saver'["window"].at = "rest" /\ saver'["card"] = saver["card"]
  BY <1>1, RestT DEF PrefInv, PrefT, Savers
<1>5. CardServes'
  BY <1>1, <1>4 DEF PrefInv, CardServes, Mid
<1>6. SUFFICES ASSUME ~clash
               PROVE OneSave' /\ SaveIsWhole' /\ Settled' /\ Heard' /\ CardActs'
  BY <1>1, <1>3, <1>5 DEF PrefInv, OneSave, SaveIsWhole, Settled, Heard, CardActs
<1>7. saver["card"].at = "rest" /\ stored = chosen /\ stored \in Docs
  BY <1>1, <1>6 DEF PrefInv, OneSave, Settled, Mid, Savers
<1>8. OneSave' /\ SaveIsWhole' /\ Settled' /\ CardActs'
  BY <1>1, <1>4, <1>7 DEF OneSave, SaveIsWhole, Settled, CardActs, Mid, Savers
<1>9. Heard'
  <2>1. \A j \in Nudged \ missed : reader # "off" /\ j # k => cfg[j] = stored[j]
    BY <1>1, <1>6, <1>7 DEF PrefInv, Heard, Mid
  <2>2. \A j \in Keys : j # k => cfg'[j] = cfg[j]
    BY <1>1 DEF Reread, PrefInv, PrefT, Docs
  <2>3. k \in Nudged /\ reader = "serving" => cfg'[k] = stored[k]
    BY <1>1, <1>7, ParsedT DEF Reread, PrefInv, PrefT, Docs
  <2>4. QED
    BY <1>1, <2>1, <2>2, <2>3 DEF Heard, PrefInv, PrefT, Keys
<1>10. QED
  BY <1>8, <1>9

\* The agent starts.
LEMMA StartsInvPref ==
  ASSUME PrefInv, AgentBoots \/ AgentServes
  PROVE  PrefInv'
<1>1. CASE AgentBoots
  <2>1. reader = "off" /\ reader' = "booting" /\ cfg' = Parsed /\ missed' = {}
        /\ UNCHANGED <<stored, tmp, saver, chosen, clash>>
    BY <1>1 DEF AgentBoots
  <2>2. PrefT' /\ (stored \in Docs => cfg' = stored)
    BY <2>1, ParsedT DEF PrefInv, PrefT
  <2>3. saver["card"].at = "rest"
    BY <2>1 DEF PrefInv, CardServes
  <2>4. QED
    BY <2>1, <2>2, <2>3
    DEF PrefInv, CardServes, OneSave, SaveIsWhole, Settled, Heard, CardActs, Mid
<1>2. CASE AgentServes
  BY <1>2
  DEF AgentServes, PrefInv, PrefT, CardServes, OneSave, SaveIsWhole, Settled, Heard, CardActs, Mid
<1>3. QED
  BY <1>1, <1>2

\* A process ends: what its save had not put in place was not chosen after all.
LEMMA EndsInv ==
  ASSUME PrefInv, NEW s \in Savers, SaverEnds(s)
  PROVE  PrefInv'
<1> DEFINE k == saver[s].key
<1>1. /\ IF s = "card" THEN reader' = "off" ELSE reader' = reader
      /\ saver' = [saver EXCEPT ![s] = Rest]
      /\ chosen' = [chosen EXCEPT ![k] = IF saver[s].at \in {"rest", "saved"} THEN @ ELSE Parsed[k]]
      /\ missed' = (IF saver[s].at = "saved" THEN missed \cup {k} ELSE missed)
      /\ UNCHANGED <<stored, tmp, cfg, clash>>
      /\ saver[s] \in SaverT /\ k \in Keys
  BY DEF SaverEnds, PrefInv, PrefT, SaverT
<1>2. Parsed \in Docs /\ Parsed[k] \in Values /\ (stored \in Docs => Parsed = stored)
  BY <1>1, ParsedT DEF PrefInv, Docs
<1>3. PrefT'
  BY <1>1, <1>2, RestT DEF PrefInv, PrefT, Docs
<1>4. saver'[s].at = "rest" /\ ~Mid(s)' /\ \A t \in Savers \ {s} : saver'[t] = saver[t]
  BY <1>1, RestT DEF PrefInv, PrefT, Mid
<1>5. CardServes'
  BY <1>1, <1>4 DEF PrefInv, CardServes, Mid, Savers
<1>6. SUFFICES ASSUME ~clash
               PROVE OneSave' /\ SaveIsWhole' /\ Settled' /\ Heard' /\ CardActs'
  BY <1>1, <1>3, <1>5 DEF PrefInv, OneSave, SaveIsWhole, Settled, Heard, CardActs
<1>7. stored \in Docs /\ Parsed = stored
  BY <1>2, <1>6 DEF PrefInv, OneSave
<1>8. CASE saver[s].at = "rest"
  <2>1. chosen' = chosen /\ missed' = missed
    BY <1>1, <1>8 DEF PrefInv, PrefT, Docs
  <2>2. \A t \in Savers : /\ Mid(t)' = Mid(t) /\ saver'[t].at = saver[t].at
                          /\ Mid(t) \/ saver[t].at = "saved" => saver'[t] = saver[t]
    BY <1>4, <1>8 DEF Mid
  <2>3. OneSave' /\ SaveIsWhole' /\ Settled'
    BY <1>1, <2>1, <2>2 DEF PrefInv, OneSave, SaveIsWhole, Settled, Mid
  <2>4. Heard' /\ CardActs'
    BY <1>1, <2>1, <2>2 DEF PrefInv, Heard, CardActs, Mid, Savers
  <2>5. QED
    BY <2>3, <2>4
<1>9. CASE saver[s].at # "rest"
  <2>1. \A t \in Savers : saver'[t].at = "rest"
    BY <1>4, <1>6, <1>9 DEF PrefInv, OneSave
  <2>2. chosen' = stored
    <3>1. \A j \in Keys : j # k => chosen[j] = stored[j]
      BY <1>1, <1>6, <1>9, <2>1, <1>4 DEF PrefInv, PrefT, OneSave, SaveIsWhole, Settled, Mid, SaverT
    <3>2. saver[s].at = "saved" => chosen = stored
      BY <1>6, <1>9 DEF PrefInv, OneSave, Settled, Mid
    <3>3. \A j \in Keys : chosen'[j] = stored[j]
      BY <1>1, <1>7, <1>9, <3>1, <3>2 DEF PrefInv, PrefT, Docs
    <3>4. QED
      BY <1>3, <1>7, <3>3 DEF PrefT, Docs
  <2>3. OneSave' /\ SaveIsWhole' /\ Settled' /\ CardActs'
    BY <1>1, <1>7, <2>1, <2>2 DEF OneSave, SaveIsWhole, Settled, CardActs, Mid, Savers
  <2>4. Heard'
    BY <1>1, <1>6, <1>9 DEF PrefInv, Heard, OneSave, Mid, Savers
  <2>5. QED
    BY <2>3, <2>4
<1>10. QED
  BY <1>8, <1>9

LEMMA PrefNext == PrefInv /\ [PreferencesNext]_prefVars => PrefInv'
<1> SUFFICES ASSUME PrefInv, [PreferencesNext]_prefVars PROVE PrefInv'
  OBVIOUS
<1>1. CASE UNCHANGED prefVars
  BY <1>1
  DEF prefVars, PrefInv, PrefT, CardServes, OneSave, SaveIsWhole, Settled, Heard, CardActs, Mid
<1>2. CASE WindowSaves
  BY <1>2, SaveBeginsInv DEF WindowSaves, Savers
<1>3. CASE CardSaves
  BY <1>3, SaveBeginsInv, DocFacts DEF CardSaves, Savers, Values
<1>4. CASE AgentAsked
  BY <1>4, AskedInv
<1>5. CASE AgentBoots \/ AgentServes
  BY <1>5, StartsInvPref
<1>6. ASSUME NEW s \in Savers, TmpOpened(s) \/ TmpWritten(s) \/ Replaced(s) \/ SaverEnds(s)
      PROVE  PrefInv'
  BY <1>6, TmpInv, ReplacedInv, EndsInv
<1>7. QED
  BY <1>1, <1>2, <1>3, <1>4, <1>5, <1>6 DEF PreferencesNext

-----------------------------------------------------------------------------

(* One service (Instance)                                                  *)

Lives == Starting \cup {"unborn", "opened", "beaten", "turned", "serving", "stopping", "over"}
LifeT == at \in [Launches -> Lives] /\ step \in [Launches -> 1 .. 6]

\* A service keeps its handle of the mutex from its start to the release, and a
\* mutex is not a file that is opened first.
MutexHeld == ~posix => /\ \A p \in Launches : at[p] # "opened"
                       /\ \A p \in Launches : Primary(p) => p \in holders

\* Who accepts connections has bound its server; the port file names it.
Bound == \A p \in listening : p \in Launches /\ at[p] \in {"bound", "ported", "serving", "stopping"}
PortHeld == ~posix => PortNamesPrimary

LockInv == LifeT /\ MutexHeld /\ OnePrimary /\ Bound /\ PortHeld

LEMMA UnlockAhead ==
  ASSUME NEW n \in 1 .. 6
  PROVE  (\E i \in n .. 5 : Shutdown[i] = "unlock") <=> n =< 4
<1>1. Shutdown[4] = "unlock" /\ Shutdown[5] # "unlock"
  BY DEF Shutdown
<1>2. CASE n =< 4
  BY <1>1, <1>2
<1>3. CASE n > 4
  <2>1. \A i \in n .. 5 : i = 5
    BY <1>3
  <2>2. QED
    BY <1>1, <1>3, <2>1
<1>4. QED
  BY <1>2, <1>3

LEMMA PrimaryMeans ==
  ASSUME LifeT, NEW p \in Launches
  PROVE  Primary(p) <=> \/ at[p] \in Starting \cup {"serving"}
                        \/ at[p] = "stopping" /\ step[p] =< 4
BY UnlockAhead DEF Primary, LifeT

LEMMA PrimaryMeansNext ==
  ASSUME LifeT', NEW p \in Launches
  PROVE  Primary(p)' <=> \/ at'[p] \in Starting \cup {"serving"}
                         \/ at'[p] = "stopping" /\ step'[p] =< 4
<1>1. step'[p] \in 1 .. 6
  BY DEF LifeT
<1>2. (\E i \in step'[p] .. 5 : Shutdown[i] = "unlock") <=> step'[p] =< 4
  BY <1>1, UnlockAhead
<1>3. QED
  BY <1>2 DEF Primary

LEMMA LockInit == InstanceInit => LockInv
<1> SUFFICES ASSUME InstanceInit PROVE LockInv
  OBVIOUS
<1>1. LifeT /\ \A p \in Launches : at[p] = "unborn"
  BY DEF InstanceInit, LifeT, Lives
<1>2. \A p \in Launches : ~Primary(p)
  BY <1>1, PrimaryMeans DEF Starting
<1>3. listening = {}
  BY DEF InstanceInit
<1>4. QED
  BY <1>1, <1>2, <1>3
  DEF LockInv, MutexHeld, OnePrimary, Single, Bound, PortHeld, PortNamesPrimary

\* No service begins: nobody becomes the one that runs, whoever runs keeps the lock,
\* and the port file changes only by the one that it is about.
LEMMA NoneBegins ==
  ASSUME LockInv, LifeT', UNCHANGED posix,
         \A q \in Launches : at[q] # "opened" => at'[q] # "opened",
         ~posix => \A q \in Launches : Primary(q)' => Primary(q) /\ q \in holders',
         listening' \subseteq listening, port' = port,
         \A q \in listening' : at'[q] \in {"bound", "ported", "serving", "stopping"}
                               /\ (at'[q] \in {"ported", "serving"} => at[q] \in {"ported", "serving"})
  PROVE  LockInv'
BY DEF LockInv, MutexHeld, OnePrimary, Single, Bound, PortHeld, PortNamesPrimary

\* One launch goes from one point of its life to another.
LEMMA MovesInv ==
  ASSUME LockInv, NEW p \in Launches, NEW to \in Lives \ {"opened"},
         at' = [at EXCEPT ![p] = to], UNCHANGED <<step, posix, holders, port, listening>>,
         \/ to \notin Starting \cup {"serving", "stopping"} /\ p \notin listening
         \/ Primary(p) /\ to # "ported"
            /\ (p \in listening => to \in {"serving", "stopping"} /\ at[p] \in {"ported", "serving"})
  PROVE  LockInv'
<1>1. LifeT' /\ at'[p] = to /\ \A q \in Launches \ {p} : at'[q] = at[q]
  BY DEF LockInv, LifeT
<1>2. \A q \in Launches \ {p} : Primary(q)' <=> Primary(q)
  BY <1>1, PrimaryMeans, PrimaryMeansNext DEF LockInv
<1>3. Primary(p)' => Primary(p)
  BY <1>1, PrimaryMeansNext
<1>4. QED
  BY <1>1, <1>2, <1>3, NoneBegins DEF LockInv, MutexHeld, Bound

\* Nothing of the lock, the port and the lives is touched.
LEMMA LockUntouched ==
  ASSUME LockInv, UNCHANGED <<at, step, posix, holders, port, listening>>
  PROVE  LockInv'
BY DEF LockInv, LifeT, MutexHeld, OnePrimary, Single, Bound, PortHeld, PortNamesPrimary, Primary

\* The mutex of Windows: the one that finds it is no service, the one that makes it is alone.
LEMMA CreatesInv ==
  ASSUME LockInv, NEW p \in Launches, CreatesMutex(p)
  PROVE  LockInv'
<1>1. /\ ~posix /\ posix' = posix /\ at[p] = "unborn" /\ holders' = holders \cup {p}
      /\ at' = [at EXCEPT ![p] = IF holders # {} THEN "beaten" ELSE "locked"]
      /\ UNCHANGED <<step, listening, port>>
  BY DEF CreatesMutex, IsNext, Exists, ipcVars
<1>2. LifeT' /\ \A q \in Launches \ {p} : at'[q] = at[q]
  BY <1>1 DEF LockInv, LifeT, Lives, Starting
<1>3. \A q \in Launches \ {p} : Primary(q)' <=> Primary(q)
  BY <1>1, <1>2, PrimaryMeans, PrimaryMeansNext DEF LockInv
<1>4. p \notin listening
  BY <1>1 DEF LockInv, Bound
<1>5. CASE holders # {}
  <2>1. at'[p] = "beaten"
    BY <1>1, <1>5 DEF LockInv, LifeT
  <2>2. ~Primary(p)'
    BY <1>2, <2>1, PrimaryMeansNext DEF Starting
  <2>3. QED
    BY <1>1, <1>2, <1>3, <1>4, <2>1, <2>2, NoneBegins DEF LockInv, MutexHeld, Bound
<1>6. CASE holders = {}
  <2>1. at'[p] = "locked"
    BY <1>1, <1>6 DEF LockInv, LifeT
  <2>2. \A q \in Launches : ~Primary(q)
    BY <1>1, <1>6 DEF LockInv, MutexHeld
  <2>3. MutexHeld' /\ OnePrimary'
    BY <1>1, <1>2, <1>3, <2>1, <2>2 DEF LockInv, MutexHeld, OnePrimary, Single
  <2>4. Bound' /\ PortHeld'
    BY <1>1, <1>2, <1>4, <2>1 DEF LockInv, Bound, PortHeld, PortNamesPrimary
  <2>5. QED
    BY <1>2, <2>3, <2>4 DEF LockInv
<1>7. QED
  BY <1>5, <1>6

\* The losers, and the locks of a pid file, of which MutexHeld says nothing.
LEMMA LosersInv ==
  ASSUME LockInv, NEW p \in Launches, ClosesHandle(p) \/ OpensPidFile(p) \/ Flocks(p) \/ HandsOver(p)
  PROVE  LockInv'
<1>1. UNCHANGED <<posix, step, listening, port>>
  BY DEF ClosesHandle, OpensPidFile, Flocks, HandsOver, ipcVars, lockVars
<1>2. p \notin listening
  BY DEF LockInv, Bound, ClosesHandle, OpensPidFile, Flocks, HandsOver, IsNext
<1>3. CASE ClosesHandle(p) \/ HandsOver(p)
  <2>1. PICK to \in {"turned", "over"} :
          at' = [at EXCEPT ![p] = to] /\ (holders' = holders \/ holders' = holders \ {p})
    BY <1>3 DEF ClosesHandle, HandsOver, lockVars
  <2>2. LifeT' /\ at'[p] = to /\ \A q \in Launches \ {p} : at'[q] = at[q]
    BY <1>1, <2>1 DEF LockInv, LifeT, Lives
  <2>3. ~Primary(p)'
    BY <2>2, PrimaryMeansNext DEF Starting
  <2>4. \A q \in Launches \ {p} : Primary(q)' <=> Primary(q)
    BY <1>1, <2>2, PrimaryMeans, PrimaryMeansNext DEF LockInv
  <2>5. QED
    BY <1>1, <1>2, <2>1, <2>2, <2>3, <2>4, NoneBegins DEF LockInv, MutexHeld, Bound
<1>4. CASE OpensPidFile(p) \/ Flocks(p)
  <2>1. posix /\ posix'
    BY <1>1, <1>4 DEF OpensPidFile, Flocks, LockInv, MutexHeld
  <2>2. PICK to \in Lives : at' = [at EXCEPT ![p] = to]
    BY <1>4 DEF OpensPidFile, Flocks, Lives, Starting
  <2>3. LifeT' /\ \A q \in Launches \ {p} : at'[q] = at[q]
    BY <1>1, <2>2 DEF LockInv, LifeT
  <2>4. QED
    BY <1>1, <1>2, <2>1, <2>3 DEF LockInv, MutexHeld, OnePrimary, Bound, PortHeld
<1>5. QED
  BY <1>3, <1>4

\* The service comes up.
LEMMA BridgeInv ==
  ASSUME LockInv, NEW p \in Launches, Bridge(p)
  PROVE  LockInv'
<1>1. CASE Boots(p) \/ Serves(p)
  <2>1. PICK to \in {"booting", "serving"} :
          /\ at' = [at EXCEPT ![p] = to] /\ UNCHANGED <<step, posix, holders, listening, port>>
          /\ at[p] = "locked" \/ (at[p] = "ported" /\ to = "serving")
    BY <1>1 DEF Boots, Serves, lockVars, ipcVars
  <2>2. Primary(p) /\ (p \in listening => at[p] = "ported")
    BY <2>1, PrimaryMeans DEF LockInv, Bound, Starting
  <2>3. QED
    BY <2>1, <2>2, MovesInv DEF Lives, Starting
<1>2. CASE Binds(p) \/ WritesPort(p)
  <2>1. /\ UNCHANGED <<step, posix, holders>> /\ at[p] \in {"booting", "bound"}
        /\ \/ at[p] = "booting" /\ at' = [at EXCEPT ![p] = "bound"]
              /\ listening' = listening \cup {p} /\ port' = port
           \/ at[p] = "booting" /\ at' = [at EXCEPT ![p] = "ported"] /\ UNCHANGED <<listening, port>>
           \/ at' = [at EXCEPT ![p] = "ported"] /\ listening' = listening /\ port' = p
    BY <1>2 DEF Binds, WritesPort, lockVars
  <2>2. LifeT' /\ at'[p] \in {"bound", "ported"} /\ \A q \in Launches \ {p} : at'[q] = at[q]
    BY <2>1 DEF LockInv, LifeT, Lives, Starting
  <2>3. \A q \in Launches : Primary(q)' <=> Primary(q)
    BY <2>1, <2>2, PrimaryMeans, PrimaryMeansNext DEF LockInv, Starting
  <2>4. Primary(p)
    BY <2>1, PrimaryMeans DEF LockInv, Starting
  <2>5. MutexHeld' /\ OnePrimary'
    BY <2>1, <2>2, <2>3 DEF LockInv, MutexHeld, OnePrimary, Single
  <2>6. Bound'
    BY <2>1, <2>2 DEF LockInv, Bound
  <2>7. ~posix => \A q \in Launches \ {p} : at[q] \notin {"ported", "serving"}
    BY <2>4, PrimaryMeans DEF LockInv, OnePrimary, Single, Starting
  <2>8. at[p] = "booting" => p \notin listening
    BY DEF LockInv, Bound
  <2>9. PortHeld'
    <3> SUFFICES ASSUME ~posix, NEW q \in listening', at'[q] \in {"ported", "serving"}
                 PROVE  port' = q
      BY <2>1 DEF PortHeld, PortNamesPrimary
    <3>1. q \in Launches
      BY <2>6 DEF Bound
    <3>2. q = p
      BY <2>2, <2>7, <3>1
    <3>3. QED
      BY <2>1, <2>2, <2>8, <3>2 DEF LockInv, LifeT
  <2>10. QED
    BY <2>2, <2>5, <2>6, <2>9 DEF LockInv
<1>3. CASE BridgeShows(p)
  BY <1>3, LockUntouched DEF BridgeShows, lockVars, ipcVars
<1>4. QED
  BY <1>1, <1>2, <1>3 DEF Bridge

\* The service stops, step by step.
LEMMA StopsInv ==
  ASSUME LockInv, NEW p \in Launches,
         \/ QuitsSettings(p) \/ StopsServer(p) \/ UnlinksPort(p) \/ Unlocks(p) \/ UnlinksPidFile(p)
  PROVE  LockInv'
<1>1. /\ at[p] = "stopping" /\ step[p] =< 5 /\ step' = [step EXCEPT ![p] = step[p] + 1]
      /\ UNCHANGED <<at, posix>>
      /\ holders' = holders \/ (holders' = holders \ {p} /\ Shutdown[step[p]] = "unlock")
      /\ listening' = listening \/ listening' = listening \ {p}
      /\ port' = port \/ (port' = 0 /\ Shutdown[step[p]] = "port")
  BY DEF QuitsSettings, StopsServer, UnlinksPort, Unlocks, UnlinksPidFile, StopStep, lockVars, ipcVars
<1>2. step[p] \in 1 .. 6
  BY DEF LockInv, LifeT
<1>3. LifeT' /\ step'[p] = step[p] + 1 /\ \A q \in Launches \ {p} : step'[q] = step[q]
  BY <1>1, <1>2 DEF LockInv, LifeT
<1>4. \A q \in Launches : Primary(q)' => Primary(q)
  BY <1>1, <1>2, <1>3, PrimaryMeans, PrimaryMeansNext DEF LockInv
<1>5. Shutdown[step[p]] = "unlock" => step[p] = 4
  BY <1>1, <1>2 DEF Shutdown
<1>6. Shutdown[step[p]] = "port" => step[p] = 3
  BY <1>1, <1>2 DEF Shutdown
<1>7. Primary(p)' => holders' = holders
  BY <1>1, <1>2, <1>3, <1>5, PrimaryMeansNext DEF Starting
<1>8. ~posix => \A q \in Launches : Primary(q)' => q \in holders'
  BY <1>1, <1>4, <1>7 DEF LockInv, MutexHeld
<1>9. CASE port' = port
  BY <1>1, <1>3, <1>4, <1>8, <1>9, NoneBegins DEF LockInv, Bound
<1>10. CASE port' = 0 /\ Shutdown[step[p]] = "port"
  <2>1. Primary(p)
    BY <1>1, <1>6, <1>10, PrimaryMeans DEF LockInv
  <2>2. ~posix => \A q \in Launches : at[q] \notin {"ported", "serving"}
    BY <1>1, <2>1, PrimaryMeans DEF LockInv, OnePrimary, Single, Starting
  <2>3. MutexHeld' /\ OnePrimary'
    BY <1>1, <1>4, <1>8 DEF LockInv, MutexHeld, OnePrimary, Single
  <2>4. Bound' /\ PortHeld'
    BY <1>1, <2>2 DEF LockInv, Bound, PortHeld, PortNamesPrimary
  <2>5. QED
    BY <1>3, <2>3, <2>4 DEF LockInv
<1>11. QED
  BY <1>1, <1>9, <1>10

LEMMA LeavesInv ==
  ASSUME LockInv, NEW p \in Launches, Leaves(p)
  PROVE  LockInv'
<1>1. /\ at' = [at EXCEPT ![p] = "over"] /\ step' = [step EXCEPT ![p] = 1]
      /\ holders' = holders \ {p} /\ listening' = listening \ {p} /\ UNCHANGED <<posix, port>>
  BY DEF Leaves
<1>2. /\ LifeT' /\ at'[p] = "over"
      /\ \A q \in Launches \ {p} : at'[q] = at[q] /\ step'[q] = step[q]
  BY <1>1 DEF LockInv, LifeT, Lives
<1>3. ~Primary(p)' /\ \A q \in Launches \ {p} : Primary(q)' <=> Primary(q)
  BY <1>2, PrimaryMeans, PrimaryMeansNext DEF LockInv, Starting
<1>4. QED
  BY <1>1, <1>2, <1>3, NoneBegins DEF LockInv, MutexHeld, Bound

LEMMA LockNext == LockInv /\ [InstanceNext]_instanceVars => LockInv'
<1> SUFFICES ASSUME LockInv, [InstanceNext]_instanceVars PROVE LockInv'
  OBVIOUS
<1>1. CASE UNCHANGED instanceVars
  BY <1>1, LockUntouched DEF instanceVars, lockVars, ipcVars
<1>2. ASSUME NEW p \in Launches,
             \/ CreatesMutex(p) \/ ClosesHandle(p) \/ OpensPidFile(p) \/ Flocks(p) \/ HandsOver(p)
             \/ Bridge(p) \/ TrayClicked(p) \/ Stopped(p) \/ StopsOn(p) \/ Dies(p)
      PROVE  LockInv'
  <2>1. CASE TrayClicked(p)
    BY <2>1, LockUntouched DEF TrayClicked, lockVars, ipcVars
  <2>2. CASE Stopped(p)
    <3>1. Primary(p) /\ at[p] = "serving"
      BY <2>2, PrimaryMeans DEF Stopped, LockInv
    <3>2. QED
      BY <2>2, <3>1, MovesInv DEF Stopped, lockVars, ipcVars, Lives
  <2>3. CASE Ends(p) \/ Dies(p)
    BY <2>3, LeavesInv DEF Ends, Dies
  <2>4. QED
    BY <1>2, <2>1, <2>2, <2>3, CreatesInv, LosersInv, BridgeInv, StopsInv DEF StopsOn
<1>3. ASSUME NEW k \in Kids, KidRuns(k) \/ KidDies(k)
      PROVE  LockInv'
  BY <1>3, LockUntouched
  DEF KidRuns, KidDies, KidStarts, KidFindsAnother, KidShows, KidQuits, KidEnds, lockVars, ipcVars
<1>4. QED
  BY <1>1, <1>2, <1>3 DEF InstanceNext

-----------------------------------------------------------------------------
(* The theorems                                                            *)

LEMMA ServiceStep ==
  ASSUME [ServiceNext]_serviceVars
  PROVE  /\ [UpdatesNext]_updateVars
         /\ [PreferencesNext]_prefVars
         /\ [InstanceNext]_instanceVars
BY DEF ServiceNext, serviceVars, In

(* Whoever reads the stage as ready reads a whole release, as long as no two *)
(* downloads overlapped (update_stage.py:10), for every length of a release. *)
THEOREM StageIsWhole == Spec => []ReadyIsWhole
<1>1. ServiceInit => SlotInv
  BY SlotInit DEF ServiceInit
<1>2. SlotInv /\ [ServiceNext]_serviceVars => SlotInv'
  BY SlotNext, ServiceStep
<1>3. QED
  BY <1>1, <1>2, SlotInvWhole, PTL DEF Spec

(* A quit hands over to the installer only if somebody asked for it since    *)
(* the agent came up (update_apply.py:69).                                   *)
THEOREM QuitsArePlain == Spec => PlainQuitInstallsNothing
<1>1. ServiceInit => AskInv
  BY AskInit DEF ServiceInit
<1>2. AskInv /\ [ServiceNext]_serviceVars => AskInv'
  BY AskNext, ServiceStep
<1>3. AskInv /\ [ServiceNext]_serviceVars
        => [service = "quitting" /\ attempts' # attempts => asked # {}]_updateVars
  BY QuitRecords, ServiceStep
<1>4. QED
  BY <1>1, <1>2, <1>3, PTL DEF Spec, PlainQuitInstallsNothing

LEMMA PreferencesInvariance == Spec => []PrefInv
<1>1. ServiceInit => PrefInv
  BY PrefInit DEF ServiceInit
<1>2. PrefInv /\ [ServiceNext]_serviceVars => PrefInv'
  BY PrefNext, ServiceStep
<1>3. QED
  BY <1>1, <1>2, PTL DEF Spec

(* As long as no two saves overlapped, the settings file is whole at every   *)
(* moment and no choice is lost (settings_store.py), for any set of keys.    *)
THEOREM SettingsKept == Spec => []ChoicesAreKept
BY PreferencesInvariance, PrefInvKept, PTL

(* Then the serving agent acts on what it is asked to read (__main__.py).    *)
THEOREM SettingsHeard == Spec => []ChoicesAreHeard
BY PreferencesInvariance, PrefInvKept, PTL

LEMMA LockInvariance == Spec => []LockInv
<1>1. ServiceInit => LockInv
  BY LockInit DEF ServiceInit
<1>2. LockInv /\ [ServiceNext]_serviceVars => LockInv'
  BY LockNext, ServiceStep
<1>3. QED
  BY <1>1, <1>2, PTL DEF Spec

(* With the mutex of Windows at most one service runs, for any number of     *)
(* launches, ends and deaths (pidfile.py:234).                               *)
THEOREM MutexIsSingle == Spec => []OnePrimary
<1>1. LockInv => OnePrimary
  BY DEF LockInv
<1>2. QED
  BY <1>1, LockInvariance, PTL

(* Then the port file names the service that is up with its server           *)
(* (gui/settings/ipc.py): a predecessor's shutdown, whose step before the    *)
(* release removes the file, does not hide it.                               *)
THEOREM PortIsFound == Spec => [](~posix => PortNamesPrimary)
<1>1. LockInv => (~posix => PortNamesPrimary)
  BY DEF LockInv, PortHeld
<1>2. QED
  BY <1>1, LockInvariance, PTL
=============================================================================
