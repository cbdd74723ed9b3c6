----------------------- MODULE ArmController_proofs -----------------------
(***************************************************************************)
(* Proofs about ArmController, for every set of tasks and apps, every      *)
(* bound on the arms, both backends and both settings of the hotkey.       *)
(***************************************************************************)
EXTENDS ArmController, TLAPS

ArmT  == state \in {"disarmed", "armed"} /\ reason \in Reasons /\ arms \in 0..MaxArms
SessT == det \in {"idle", "open", "pending"} /\ sess \in 0..MaxArms /\ voiced \in BOOLEAN
CapT  == /\ micRef \in 0..MaxArms /\ mics \subseteq ArmIds
         /\ tapRef \in 0..MaxArms /\ taps \subseteq ArmIds /\ termed \subseteq taps
RefT  == /\ pill \in BOOLEAN
         /\ checkin \in Checkins \cup {None} /\ meeting \in Endeds \cup {None}
FlagT == hkFut \in Tasks \cup {None} /\ trayBusy \in BOOLEAN /\ stopped \in {"no", "stopping", "down"}

\* Only the watcher arms for an app: what its toast asks about is one.  What
\* is being spawned is the helper of an arm.
CoT   == /\ co \in [Procs -> Coroutine]
         /\ co[Watcher].at = "ask" => co[Watcher].want \in Apps
         /\ \A p \in Procs : co[p].at = "spawn" => co[p].mine \in ArmIds

\* The inductive invariant.
IInv == ArmT /\ SessT /\ CapT /\ RefT /\ FlagT /\ CoT /\ ArmedImpliesSession

LEMMA InvTypeOK == IInv => TypeOK
BY DEF IInv, ArmT, SessT, CapT, RefT, FlagT, CoT, TypeOK

-----------------------------------------------------------------------------
(* Coroutine records *)

Wants == Reasons \cup {"arm", "disarm", "kept"}

LEMMA SuspendedType ==
  ASSUME NEW at \in Points, NEW job \in Jobs, NEW want \in Wants, NEW mine \in 0..MaxArms
  PROVE  /\ Suspended(at, job, want, mine) \in Coroutine
         /\ Suspended(at, job, want, mine).at = at
         /\ Suspended(at, job, want, mine).want = want
         /\ Suspended(at, job, want, mine).mine = mine
BY DEF Suspended, Coroutine, Wants, Answers

LEMMA RestingType == Resting \in Coroutine /\ Resting.at = "free"
BY MaxArmsAssumption DEF Resting, Coroutine, Points, Jobs, Reasons, Answers

LEMMA ReturnedType ==
  ASSUME NEW j \in Jobs
  PROVE  Returned(j) \in Coroutine /\ Returned(j).at \notin {"ask", "spawn"}
BY RestingType, MaxArmsAssumption
   DEF Returned, Resting, Suspended, Coroutine, Points, Jobs, Reasons, Answers

LEMMA GoType ==
  ASSUME CoT, NEW t \in Procs, NEW c \in Coroutine, Go(t, c),
         t = Watcher /\ c.at = "ask" => c.want \in Apps,
         c.at = "spawn" => c.mine \in ArmIds
  PROVE  CoT'
BY DEF CoT, Go, Procs

LEMMA ProcFacts ==
  /\ Tasks \subseteq Procs /\ Watcher \in Procs
  /\ Checkins \subseteq Procs /\ Endeds \subseteq Procs
  /\ Watcher \notin Tasks \cup Checkins \cup Endeds
BY NamesAssumption DEF Procs

LEMMA FieldTypes ==
  ASSUME CoT, NEW t \in Procs
  PROVE  co[t] \in Coroutine /\ co[t].at \in Points /\ co[t].job \in Jobs
         /\ co[t].want \in Wants /\ co[t].mine \in 0..MaxArms
         /\ (co[t].at = "spawn" => co[t].mine \in ArmIds)
BY DEF CoT, Coroutine, Wants

-----------------------------------------------------------------------------
(* What the shared operators preserve *)

LEMMA CommitCloseType ==
  ASSUME CommitClose
  PROVE  SessT' /\ det' = "idle"
<1>1. voiced' \in BOOLEAN
  BY Zenon DEF CommitClose
<1>2. QED
  BY <1>1, MaxArmsAssumption DEF CommitClose, SessT

LEMMA RevertCloseType ==
  ASSUME SessT, RevertClose
  PROVE  SessT' /\ (det # "idle" => det' # "idle")
BY DEF RevertClose, SessT, sessVars

LEMMA StopStreamsType ==
  ASSUME CapT, NEW ref \in 0..MaxArms, NEW open \in SUBSET ArmIds,
         StopMic(ref, open), StopSys
  PROVE  CapT'
<1>1. micRef' \in 0..MaxArms /\ mics' \subseteq ArmIds
  BY MaxArmsAssumption DEF StopMic
<1>2. CASE StopAwaits
  <2>1. termed' = termed \cup {tapRef} /\ UNCHANGED <<tapRef, taps>> /\ tapRef \in taps
    BY <1>2 DEF StopSys, StopAwaits
  <2>2. termed' \subseteq taps'
    BY <2>1 DEF CapT
  <2>3. QED
    BY <1>1, <2>1, <2>2 DEF CapT
<1>3. CASE ~StopAwaits
  <2>1. tapRef' = 0 /\ taps' = taps \ {tapRef} /\ termed' = termed \ {tapRef}
    BY <1>3 DEF StopSys
  <2>2. QED
    BY <1>1, <2>1, MaxArmsAssumption DEF CapT
<1>4. QED
  BY <1>2, <1>3

LEMMA TrayFlagType ==
  ASSUME FlagT, NEW j, NEW b \in BOOLEAN, TrayFlag(j, b)
  PROVE  trayBusy' \in BOOLEAN
BY DEF FlagT, TrayFlag

LEMMA StopAwaitsBoolean == StopAwaits \in BOOLEAN
BY FlagAssumption DEF StopAwaits

LEMMA DisarmInternalType ==
  ASSUME IInv, NEW t \in Procs, NEW j \in Jobs, DisarmInternal(t, j)
  PROVE  ArmT' /\ CapT' /\ RefT' /\ CoT' /\ trayBusy' \in BOOLEAN /\ state' = "disarmed"
<1>1. CASE state = "disarmed"
  <2>1. CoT'
    BY <1>1, GoType, ReturnedType DEF DisarmInternal, IInv
  <2>2. trayBusy' \in BOOLEAN
    BY <1>1, TrayFlagType DEF DisarmInternal, IInv
  <2>3. QED
    BY <1>1, <2>1, <2>2
    DEF DisarmInternal, IInv, ArmT, CapT, RefT, armVars, capVars, refVars
<1>2. CASE state # "disarmed"
  <2> DEFINE cancelled == {checkin, meeting} \ {None}
             waits == StopAwaits /\ t \notin cancelled
             mine == IF waits THEN Suspended("stop", j, "none", tapRef) ELSE Returned(j)
  <2>1. mine \in Coroutine /\ mine.at \notin {"ask", "spawn"}
    BY SuspendedType, ReturnedType DEF IInv, CapT, Points, Wants, Reasons
  <2>2. co' = [p \in Procs |-> IF p = t THEN mine
                               ELSE IF p \in cancelled THEN Resting ELSE co[p]]
    BY <1>2 DEF DisarmInternal
  <2>3. CoT'
    <3> HIDE DEF mine, cancelled
    <3> QED BY <2>1, <2>2, RestingType, ProcFacts DEF CoT, IInv
  <2>4. CapT'
    BY <1>2, StopStreamsType DEF DisarmInternal, IInv, CapT
  <2>5. waits \in BOOLEAN
    BY StopAwaitsBoolean
  <2>6. trayBusy' \in BOOLEAN
    <3>1. TrayFlag(j, waits)
      BY <1>2 DEF DisarmInternal
    <3> HIDE DEF waits
    <3>2. QED
      BY <2>5, <3>1, TrayFlagType DEF IInv
  <2>7. QED
    BY <1>2, <2>3, <2>4, <2>6 DEF DisarmInternal, IInv, ArmT, RefT, Reasons
<1>3. QED
  BY <1>1, <1>2

LEMMA DisarmType ==
  ASSUME IInv, NEW t \in Procs, NEW j \in Jobs, Disarm(t, j)
  PROVE  /\ ArmT' /\ SessT' /\ CapT' /\ RefT' /\ CoT' /\ trayBusy' \in BOOLEAN
         /\ state' = "disarmed"
<1>1. DisarmInternal(t, j)
  BY DEF Disarm
<1>2. SessT'
  BY CommitCloseType DEF Disarm, IInv, SessT, sessVars
<1>3. QED
  BY <1>1, <1>2, DisarmInternalType

LEMMA ArmStartedType ==
  ASSUME FlagT, RefT, CoT, NEW t \in Procs, NEW j \in Jobs, NEW n \in ArmIds, NEW r,
         ArmStarted(t, j, n, r)
  PROVE  RefT' /\ CoT' /\ trayBusy' \in BOOLEAN
<1> DEFINE started == {CheckinTask(n)} \cup (IF r \in Apps THEN {EndedTask(n)} ELSE {})
<1>1. \A p \in started : p[1] \in {"checkin", "ended"} /\ p # Watcher
  BY ProcFacts DEF CheckinTask, EndedTask, Checkins, Endeds
<1>2. \A p \in started : /\ Suspended("sleep", p[1], "none", n) \in Coroutine
                         /\ Suspended("sleep", p[1], "none", n).at = "sleep"
  <2>1. "sleep" \in Points /\ "none" \in Wants /\ n \in 0..MaxArms
    BY MaxArmsAssumption DEF ArmIds, Points, Wants, Reasons
  <2>2. \A j2 \in Jobs : /\ Suspended("sleep", j2, "none", n) \in Coroutine
                         /\ Suspended("sleep", j2, "none", n).at = "sleep"
    BY <2>1, SuspendedType
  <2>3. \A p \in started : p[1] \in Jobs
    BY <1>1 DEF Jobs
  <2>4. QED
    BY <2>2, <2>3
<1>3. co' = [p \in Procs |->
               IF p = t THEN Returned(j)
               ELSE IF p \in started THEN Suspended("sleep", p[1], "none", n) ELSE co[p]]
  BY DEF ArmStarted
<1>4. CoT'
  <2> HIDE DEF started
  <2> QED BY <1>1, <1>2, <1>3, ReturnedType, ProcFacts DEF CoT
<1>5. RefT'
  BY DEF ArmStarted, RefT, Checkins, Endeds
<1>6. trayBusy' \in BOOLEAN
  BY TrayFlagType DEF ArmStarted
<1>7. QED
  BY <1>4, <1>5, <1>6

LEMMA RollbackType ==
  ASSUME CapT, FlagT, RefT, CoT, NEW t \in Procs, NEW j \in Jobs,
         NEW ref \in 0..MaxArms, NEW open \in SUBSET ArmIds,
         NEW st \in {"disarmed", "armed"}, NEW rs \in Reasons,
         Rollback(t, j, ref, open, st, rs)
  PROVE  /\ CapT' /\ RefT' /\ CoT' /\ trayBusy' \in BOOLEAN
         /\ state' \in {"disarmed", st} /\ reason' \in Reasons
<1> DEFINE c == IF StopAwaits THEN Suspended("rollback", j, "none", tapRef) ELSE Returned(j)
<1>1. c \in Coroutine /\ c.at \notin {"ask", "spawn"}
  BY SuspendedType, ReturnedType DEF CapT, Points, Wants, Reasons
<1>2. CoT'
  <2>1. Go(t, c)
    BY DEF Rollback
  <2> HIDE DEF c
  <2>2. QED
    BY <1>1, <2>1, GoType
<1>3. CapT'
  BY StopStreamsType DEF Rollback
<1>4. trayBusy' \in BOOLEAN
  BY TrayFlagType, StopAwaitsBoolean DEF Rollback
<1>5. RefT'
  BY DEF Rollback, RefT, refVars
<1>6. state' \in {"disarmed", st} /\ reason' \in Reasons
  BY DEF Rollback, Reasons
<1>7. QED
  BY <1>2, <1>3, <1>4, <1>5, <1>6

\* OpenSession leaves a session held whatever it found: the step from IDLE
\* opens one, and a session already held stays.
LEMMA OpenSessionType ==
  ASSUME SessT, NEW n \in 0..MaxArms, OpenSession(n)
  PROVE  SessT' /\ det' # "idle"
<1>1. CASE det = "idle"
  <2>1. voiced' \in BOOLEAN
    BY <1>1, Zenon DEF OpenSession
  <2>2. QED
    BY <1>1, <2>1 DEF OpenSession, SessT
<1>2. CASE det # "idle"
  BY <1>2 DEF OpenSession, SessT, sessVars
<1>3. QED
  BY <1>1, <1>2

LEMMA ArmInternalType ==
  ASSUME IInv, NEW t \in Procs, NEW j \in Jobs, NEW r \in Reasons, ArmInternal(t, j, r)
  PROVE  /\ ArmT' /\ SessT' /\ CapT' /\ RefT' /\ CoT' /\ trayBusy' \in BOOLEAN
         /\ ArmedImpliesSession'
<1> DEFINE n == arms + 1
<1> USE DEF IInv
<1>1. CASE /\ Go(t, Returned(j)) /\ TrayFlag(j, FALSE)
           /\ UNCHANGED <<armVars, sessVars, capVars, refVars>>
  <2>1. CoT'
    BY <1>1, GoType, ReturnedType
  <2>2. trayBusy' \in BOOLEAN
    BY <1>1, TrayFlagType
  <2>3. QED
    BY <1>1, <2>1, <2>2
    DEF ArmT, SessT, CapT, RefT, armVars, sessVars, capVars, refVars, ArmedImpliesSession
<1>2. ASSUME state = "disarmed", arms < MaxArms, OpenSession(n), arms' = n
      PROVE  n \in ArmIds /\ n \in 0..MaxArms /\ arms' \in 0..MaxArms /\ SessT' /\ det' # "idle"
  <2>1. n \in ArmIds /\ n \in 0..MaxArms
    BY <1>2, MaxArmsAssumption DEF ArmT, ArmIds
  <2>2. SessT' /\ det' # "idle"
    BY <1>2, <2>1, OpenSessionType
  <2>3. QED
    BY <1>2, <2>1, <2>2
<1>3. ASSUME state = "disarmed", arms < MaxArms, OpenSession(n), arms' = n,
             NEW opened \in BOOLEAN,
             Rollback(t, j, IF opened THEN n ELSE micRef,
                      IF opened THEN mics \cup {n} ELSE mics, "armed", r)
      PROVE  /\ ArmT' /\ SessT' /\ CapT' /\ RefT' /\ CoT' /\ trayBusy' \in BOOLEAN
             /\ ArmedImpliesSession'
  <2>1. /\ n \in ArmIds /\ n \in 0..MaxArms /\ arms' \in 0..MaxArms
        /\ SessT' /\ det' # "idle"
    BY <1>2, <1>3
  <2> DEFINE ref == IF opened THEN n ELSE micRef
             open == IF opened THEN mics \cup {n} ELSE mics
  <2>2. ref \in 0..MaxArms /\ open \in SUBSET ArmIds
    BY <2>1 DEF CapT
  <2>3. Rollback(t, j, ref, open, "armed", r)
    BY <1>3
  <2> HIDE DEF ref, open
  <2>4. /\ CapT' /\ RefT' /\ CoT' /\ trayBusy' \in BOOLEAN
        /\ state' \in {"disarmed", "armed"} /\ reason' \in Reasons
    BY <2>2, <2>3, RollbackType
  <2>5. QED
    BY <2>1, <2>4 DEF ArmT, ArmedImpliesSession
<1>4. ASSUME state = "disarmed", arms < MaxArms, OpenSession(n), arms' = n,
             state' = "armed", reason' = r, micRef' = n, mics' = mics \cup {n},
             Suspending, Go(t, Suspended("spawn", j, r, n)), TrayFlag(j, TRUE),
             UNCHANGED <<tapRef, taps, termed, refVars>>
      PROVE  /\ ArmT' /\ SessT' /\ CapT' /\ RefT' /\ CoT' /\ trayBusy' \in BOOLEAN
             /\ ArmedImpliesSession'
  <2>1. /\ n \in ArmIds /\ n \in 0..MaxArms /\ arms' \in 0..MaxArms
        /\ SessT' /\ det' # "idle"
    BY <1>2, <1>4
  <2>2. Suspended("spawn", j, r, n) \in Coroutine /\ Suspended("spawn", j, r, n).mine = n
    <3>1. "spawn" \in Points /\ r \in Wants
      BY DEF Points, Wants
    <3>2. QED
      BY <2>1, <3>1, SuspendedType
  <2>3. CoT'
    BY <1>4, <2>1, <2>2, NamesAssumption, GoType, ProcFacts DEF Suspended
  <2>4. trayBusy' \in BOOLEAN
    BY <1>4, TrayFlagType
  <2>5. CapT' /\ RefT'
    BY <1>4, <2>1 DEF CapT, RefT, refVars
  <2>6. QED
    BY <1>4, <2>1, <2>3, <2>4, <2>5 DEF ArmT, ArmedImpliesSession
<1>5. ASSUME state = "disarmed", arms < MaxArms, OpenSession(n), arms' = n,
             state' = "armed", reason' = r, micRef' = n, mics' = mics \cup {n},
             tapRef' = n, taps' = taps \cup {n}, UNCHANGED termed, ArmStarted(t, j, n, r)
      PROVE  /\ ArmT' /\ SessT' /\ CapT' /\ RefT' /\ CoT' /\ trayBusy' \in BOOLEAN
             /\ ArmedImpliesSession'
  <2>1. /\ n \in ArmIds /\ n \in 0..MaxArms /\ arms' \in 0..MaxArms
        /\ SessT' /\ det' # "idle"
    BY <1>2, <1>5
  <2>2. RefT' /\ CoT' /\ trayBusy' \in BOOLEAN
    BY <1>5, <2>1, ArmStartedType
  <2>3. CapT'
    BY <1>5, <2>1 DEF CapT
  <2>4. QED
    BY <1>5, <2>1, <2>2, <2>3 DEF ArmT, ArmedImpliesSession
<1>6. QED
  BY <1>1, <1>3, <1>4, <1>5 DEF ArmInternal

-----------------------------------------------------------------------------
(* Every step preserves the invariant *)

LEMMA InitInv == Init => IInv
<1> SUFFICES ASSUME Init PROVE IInv
  OBVIOUS
<1>1. CoT
  <2>1. \A p \in Procs : co[p] \in Coroutine /\ co[p].at \notin {"ask", "spawn"}
    <3>1. [Resting EXCEPT !.at = "sleep", !.job = "watch"] \in Coroutine
      BY RestingType DEF Coroutine, Points, Jobs
    <3>2. [Resting EXCEPT !.at = "sleep", !.job = "watch"].at = "sleep"
      BY RestingType DEF Coroutine
    <3>3. QED
      BY <3>1, <3>2, RestingType DEF Init
  <2>2. co = [p \in Procs |-> co[p]]
    BY DEF Init
  <2>3. QED
    BY <2>1, <2>2, ProcFacts DEF CoT
<1>2. voiced \in BOOLEAN /\ pill \in BOOLEAN /\ trayBusy \in BOOLEAN
  BY Zenon DEF Init
<1>3. QED
  BY <1>1, <1>2, MaxArmsAssumption
  DEF Init, IInv, ArmT, SessT, CapT, RefT, FlagT, Reasons, ArmedImpliesSession

\* A step that only moves one coroutine on.
LEMMA MoveInv ==
  ASSUME IInv, NEW t \in Procs, NEW c \in Coroutine, Go(t, c),
         t = Watcher /\ c.at = "ask" => c.want \in Apps,
         c.at = "spawn" => c.mine \in ArmIds,
         UNCHANGED <<armVars, sessVars, capVars, refVars, hkFut, trayBusy, stopped>>
  PROVE  IInv'
<1>1. CoT'
  BY GoType DEF IInv
<1>2. QED
  BY <1>1 DEF IInv, ArmT, SessT, CapT, RefT, FlagT, ArmedImpliesSession,
              armVars, sessVars, capVars, refVars

\* A coroutine that disarms, or that tries to arm, and touches nothing else.
LEMMA DisarmInv ==
  ASSUME IInv, NEW t \in Procs, NEW j \in Jobs, Disarm(t, j),
         hkFut' \in Tasks \cup {None}, stopped' \in {"no", "stopping", "down"}
  PROVE  IInv'
BY DisarmType DEF IInv, FlagT, ArmedImpliesSession

LEMMA ArmInv ==
  ASSUME IInv, NEW t \in Procs, NEW j \in Jobs, NEW r \in Reasons, ArmInternal(t, j, r),
         hkFut' \in Tasks \cup {None}, stopped' \in {"no", "stopping", "down"}
  PROVE  IInv'
BY ArmInternalType DEF IInv, FlagT

\* A coroutine that returns to its caller having changed nothing.
LEMMA ReturnInv ==
  ASSUME IInv, NEW t \in Procs, Return(t),
         UNCHANGED <<armVars, sessVars, capVars, refVars, trayBusy>>,
         hkFut' \in Tasks \cup {None}, stopped' \in {"no", "stopping", "down"}
  PROVE  IInv'
<1>1. CoT'
  BY FieldTypes, ReturnedType, GoType DEF IInv, Return
<1>2. QED
  BY <1>1 DEF IInv, ArmT, SessT, CapT, RefT, FlagT, ArmedImpliesSession,
              armVars, sessVars, capVars, refVars

\* A coroutine t other than the watcher moved to another point of its job.
LEMMA AtType ==
  ASSUME CoT, NEW t \in Procs, NEW pt \in Points
  PROVE  /\ [co[t] EXCEPT !.at = pt] \in Coroutine
         /\ [co[t] EXCEPT !.at = pt].at = pt
<1>1. co[t] \in Coroutine
  BY FieldTypes
<1>2. QED
  BY <1>1 DEF Coroutine

LEMMA SysSpawnedInv ==
  ASSUME IInv, NEW t \in Procs, SysSpawned(t)
  PROVE  IInv'
<1> DEFINE n == co[t].mine
<1>1. co[t].job \in Jobs /\ n \in 0..MaxArms /\ (co[t].at = "spawn" => n \in ArmIds)
  BY FieldTypes DEF IInv
<1>2. CASE Rollback(t, co[t].job, micRef, mics, state, reason)
  <2>1. CapT' /\ RefT' /\ CoT' /\ trayBusy' \in BOOLEAN
        /\ state' \in {"disarmed", state} /\ reason' \in Reasons
    BY <1>1, <1>2, RollbackType DEF IInv, ArmT, CapT
  <2>2. QED
    BY <2>1 DEF SysSpawned, IInv, ArmT, SessT, FlagT, sessVars, ArmedImpliesSession
<1>3. CASE /\ tapRef' = n /\ taps' = taps \cup {n}
           /\ Go(t, [co[t] EXCEPT !.at = "probe"])
           /\ UNCHANGED <<state, reason, micRef, mics, termed, refVars, trayBusy>>
  <2>1. CoT'
    <3>1. "probe" \in Points
      BY DEF Points
    <3>2. QED
      BY <1>3, <3>1, AtType, GoType DEF IInv
  <2>2. QED
    BY <1>1, <1>3, <2>1
    DEF SysSpawned, IInv, ArmT, SessT, CapT, RefT, FlagT, sessVars, refVars, ArmedImpliesSession
<1>4. QED
  BY <1>2, <1>3 DEF SysSpawned

LEMMA SysProbedInv ==
  ASSUME IInv, NEW t \in Procs, SysProbed(t)
  PROVE  IInv'
<1>1. co[t].job \in Jobs /\ co[t].mine \in 0..MaxArms
  BY FieldTypes DEF IInv
<1>2. CASE Rollback(t, co[t].job, micRef, mics, state, reason)
  <2>1. CapT' /\ RefT' /\ CoT' /\ trayBusy' \in BOOLEAN
        /\ state' \in {"disarmed", state} /\ reason' \in Reasons
    BY <1>1, <1>2, RollbackType DEF IInv, ArmT, CapT
  <2>2. QED
    BY <2>1 DEF SysProbed, IInv, ArmT, SessT, FlagT, sessVars, ArmedImpliesSession
<1>3. ASSUME ArmStarted(t, co[t].job, co[t].mine, co[t].want), UNCHANGED <<state, reason, capVars>>,
             co[t].mine \in ArmIds
      PROVE  IInv'
  <2>1. RefT' /\ CoT' /\ trayBusy' \in BOOLEAN
    BY <1>1, <1>3, ArmStartedType DEF IInv
  <2>2. QED
    BY <1>3, <2>1
    DEF SysProbed, IInv, ArmT, SessT, CapT, FlagT, sessVars, capVars, ArmedImpliesSession
<1>4. QED
  BY <1>2, <1>3 DEF SysProbed, IInv, CapT

LEMMA StopReturnsType ==
  ASSUME IInv, NEW t \in Procs, StopReturns(t)
  PROVE  /\ CoT' /\ trayBusy' \in BOOLEAN
         /\ state' \in {"disarmed", state} /\ reason' \in Reasons
<1>1. CoT'
  BY FieldTypes, ReturnedType, GoType DEF IInv, StopReturns, Return
<1>2. trayBusy' \in BOOLEAN
  BY TrayFlagType DEF StopReturns, IInv
<1>3. QED
  BY <1>1, <1>2 DEF StopReturns, IInv, ArmT, Reasons

LEMMA SysStoppedInv ==
  ASSUME IInv, NEW t \in Procs, SysStopped(t)
  PROVE  IInv'
<1>1. /\ CoT' /\ trayBusy' \in BOOLEAN
      /\ state' \in {"disarmed", state} /\ reason' \in Reasons
  BY StopReturnsType DEF SysStopped
<1>2. QED
  BY <1>1, MaxArmsAssumption
  DEF SysStopped, IInv, ArmT, SessT, CapT, RefT, FlagT, sessVars, refVars, ArmedImpliesSession

LEMMA SysStopTimeoutInv ==
  ASSUME IInv, NEW t \in Procs, SysStopTimeout(t)
  PROVE  IInv'
<1>1. CASE StopReturns(t) /\ UNCHANGED <<taps, termed>>
  <2>1. /\ CoT' /\ trayBusy' \in BOOLEAN
        /\ state' \in {"disarmed", state} /\ reason' \in Reasons
    BY <1>1, StopReturnsType
  <2>2. QED
    BY <1>1, <2>1
    DEF SysStopTimeout, IInv, ArmT, SessT, CapT, RefT, FlagT, sessVars, refVars, ArmedImpliesSession
<1>2. CASE /\ taps' = taps \ {tapRef} /\ termed' = termed \ {tapRef}
           /\ Go(t, [co[t] EXCEPT !.mine = tapRef])
           /\ UNCHANGED <<state, reason, trayBusy>>
  <2>1. co[t] \in Coroutine /\ tapRef \in 0..MaxArms /\ co[t].at \in {"stop", "rollback"}
    BY FieldTypes DEF IInv, CapT, SysStopTimeout
  <2>2. /\ [co[t] EXCEPT !.mine = tapRef] \in Coroutine
        /\ [co[t] EXCEPT !.mine = tapRef].at = co[t].at
    BY <2>1 DEF Coroutine
  <2>3. CoT'
    BY <1>2, <2>1, <2>2, GoType DEF IInv
  <2>4. QED
    BY <1>2, <2>3
    DEF SysStopTimeout, IInv, ArmT, SessT, CapT, RefT, FlagT, sessVars, refVars, ArmedImpliesSession
<1>3. QED
  BY <1>1, <1>2 DEF SysStopTimeout

LEMMA CaptureInv ==
  ASSUME IInv, NEW p \in Procs, Capture(p)
  PROVE  IInv'
BY SysSpawnedInv, SysProbedInv, SysStoppedInv, SysStopTimeoutInv DEF Capture

LEMMA TapExitsInv == IInv /\ TapExits => IInv'
BY DEF TapExits, IInv, ArmT, SessT, CapT, RefT, FlagT, CoT, armVars, sessVars, refVars,
       ArmedImpliesSession

LEMMA VoiceInv == IInv /\ Voice => IInv'
<1> SUFFICES ASSUME IInv, Voice PROVE IInv'
  OBVIOUS
<1>1. voiced' \in BOOLEAN
  BY Zenon DEF Voice
<1>2. QED
  BY <1>1 DEF Voice, IInv, ArmT, SessT, CapT, RefT, FlagT, CoT, armVars, capVars, refVars,
              ArmedImpliesSession

\* A coroutine of Tasks starts, or one moves to another await of its job.
LEMMA MoveTo ==
  ASSUME IInv, NEW t \in Procs,
         NEW pt \in Points \ {"spawn"}, NEW j \in Jobs, NEW w \in Wants, NEW m \in 0..MaxArms,
         Go(t, Suspended(pt, j, w, m)), t = Watcher /\ pt = "ask" => w \in Apps,
         UNCHANGED <<armVars, sessVars, capVars, refVars, hkFut, trayBusy, stopped>>
  PROVE  IInv'
<1> DEFINE c == Suspended(pt, j, w, m)
<1>1. c \in Coroutine /\ c.at = pt /\ c.want = w
  BY SuspendedType
<1> HIDE DEF c
<1>2. Go(t, c)
  BY DEF c
<1>3. QED
  BY <1>1, <1>2, MoveInv

LEMMA MoveAt ==
  ASSUME IInv, NEW t \in Procs, NEW pt \in Points \ {"spawn"}, t = Watcher => pt # "ask",
         Go(t, [co[t] EXCEPT !.at = pt]),
         UNCHANGED <<armVars, sessVars, capVars, refVars, hkFut, trayBusy, stopped>>
  PROVE  IInv'
<1> DEFINE c == [co[t] EXCEPT !.at = pt]
<1>1. c \in Coroutine /\ c.at = pt
  BY AtType DEF IInv
<1> HIDE DEF c
<1>2. Go(t, c)
  BY DEF c
<1>3. QED
  BY <1>1, <1>2, MoveInv

LEMMA TickInv ==
  ASSUME IInv, NEW t \in Tasks, Tick(t)
  PROVE  IInv'
<1> DEFINE c == Suspended("start", "pending", "none", 0)
<1>1. c \in Coroutine /\ c.at = "start"
  <2>1. "start" \in Points /\ "pending" \in Jobs /\ "none" \in Wants /\ 0 \in 0..MaxArms
    BY MaxArmsAssumption DEF Points, Jobs, Wants, Reasons
  <2>2. QED
    BY <2>1, SuspendedType
<1>2. CoT'
  <2>1. Go(t, c)
    BY DEF Tick
  <2> HIDE DEF c
  <2>2. QED
    BY <1>1, <2>1, GoType, ProcFacts DEF IInv
<1>3. QED
  BY <1>2 DEF Tick, IInv, ArmT, SessT, CapT, RefT, FlagT, armVars, capVars, refVars,
              ArmedImpliesSession

LEMMA TrayPillInv ==
  ASSUME IInv, NEW t \in Tasks, TrayClick(t) \/ PillStopClicked(t) \/ PillStop(t)
  PROVE  IInv'
<1>0. /\ t \in Procs /\ {"tray", "pill"} \subseteq Jobs /\ "hotkey" \in Reasons
      /\ hkFut \in Tasks \cup {None} /\ stopped \in {"no", "stopping", "down"}
  BY ProcFacts DEF Jobs, Reasons, IInv, FlagT
<1>1. CASE TrayClick(t)
  BY <1>0, <1>1, DisarmInv, ArmInv DEF TrayClick
<1>2. CASE PillStopClicked(t)
  <2>1. "start" \in Points \ {"spawn"} /\ "none" \in Wants /\ 0 \in 0..MaxArms
    BY MaxArmsAssumption DEF Points, Wants, Reasons
  <2>2. QED
    BY <1>0, <1>2, <2>1, MoveTo DEF PillStopClicked
<1>3. CASE PillStop(t)
  BY <1>0, <1>3, DisarmInv DEF PillStop
<1>4. QED
  BY <1>1, <1>2, <1>3

LEMMA HotkeyDoubleTapInv == IInv /\ HotkeyDoubleTap => IInv'
<1> SUFFICES ASSUME IInv, HotkeyDoubleTap PROVE IInv'
  OBVIOUS
<1>1. hkFut \in Tasks
  BY DEF HotkeyDoubleTap, IInv, FlagT
<1> DEFINE c == [co[hkFut] EXCEPT !.ans = "yes"]
<1>2. /\ co[hkFut] \in Coroutine /\ hkFut \in Procs /\ hkFut # Watcher
      /\ (co[hkFut].at = "spawn" => co[hkFut].mine \in ArmIds)
  BY <1>1, ProcFacts, FieldTypes DEF IInv
<1>3. c \in Coroutine /\ c.at = co[hkFut].at /\ c.mine = co[hkFut].mine
  BY <1>2 DEF Coroutine, Answers
<1>4. Go(hkFut, c) /\ UNCHANGED <<armVars, sessVars, capVars, refVars, hkFut, trayBusy, stopped>>
  BY DEF HotkeyDoubleTap
<1> HIDE DEF c
<1>5. QED
  BY <1>2, <1>3, <1>4, MoveInv

LEMMA HotkeyAsksInv ==
  ASSUME IInv, NEW t \in Tasks, HotkeyAsks(t)
  PROVE  IInv'
<1> DEFINE question == IF state = "disarmed" THEN "arm" ELSE "disarm"
           c == Suspended("ask", "hotkey", question, 0)
<1>1. c \in Coroutine /\ c.at = "ask"
  <2>1. "ask" \in Points /\ "hotkey" \in Jobs /\ question \in Wants /\ 0 \in 0..MaxArms
    BY MaxArmsAssumption DEF Points, Jobs, Wants
  <2> HIDE DEF question
  <2>2. QED
    BY <2>1, SuspendedType
<1>2. \A r \in Coroutine : /\ Superseded(r) \in Coroutine
                           /\ Superseded(r).at = r.at /\ Superseded(r).want = r.want
                           /\ Superseded(r).mine = r.mine
  <2>1. \A j : Default(j) \in Answers
    BY DEF Default, Answers
  <2>2. QED
    BY <2>1 DEF Superseded, Coroutine
<1>3. co' = [p \in Procs |-> IF p = t THEN c ELSE Superseded(co[p])]
  BY DEF HotkeyAsks
<1>4. CoT'
  <2> HIDE DEF c
  <2> QED BY <1>1, <1>2, <1>3, ProcFacts DEF CoT, IInv
<1>5. QED
  BY <1>4 DEF HotkeyAsks, IInv, ArmT, SessT, CapT, RefT, FlagT, armVars, sessVars, capVars,
              refVars, ArmedImpliesSession

LEMMA HotkeyInv ==
  ASSUME IInv, NEW t \in Tasks, HotkeyStops(t) \/ HotkeyConfirmed(t)
  PROVE  IInv'
<1>0. /\ t \in Procs /\ "hotkey" \in Jobs /\ "hotkey" \in Reasons
      /\ hkFut \in Tasks \cup {None} /\ stopped \in {"no", "stopping", "down"}
  BY ProcFacts DEF Jobs, Reasons, IInv, FlagT
<1>1. CASE HotkeyStops(t)
  BY <1>0, <1>1, DisarmInv DEF HotkeyStops
<1>2. CASE HotkeyConfirmed(t)
  BY <1>0, <1>2, DisarmInv, ArmInv, ReturnInv DEF HotkeyConfirmed
<1>3. QED
  BY <1>1, <1>2

LEMMA PendingInv ==
  ASSUME IInv, NEW t \in Tasks, Pending(t)
  PROVE  IInv'
<1>0. /\ t \in Procs /\ t # Watcher /\ "pending" \in Jobs
      /\ {"snap", "ask"} \subseteq Points \ {"spawn"}
      /\ hkFut \in Tasks \cup {None} /\ stopped \in {"no", "stopping", "down"}
  BY ProcFacts DEF Jobs, Points, IInv, FlagT
<1>1. CASE PendingBegins(t)
  <2>1. PICK pt \in {"snap", "ask"} : Go(t, [co[t] EXCEPT !.at = pt])
    BY <1>1 DEF PendingBegins
  <2>2. QED
    BY <1>0, <1>1, <2>1, MoveAt DEF PendingBegins
\* A reverted close leaves the controller as it was.
<1>2. ASSUME RevertClose, Return(t),
             UNCHANGED <<armVars, capVars, refVars, hkFut, trayBusy, stopped>>
      PROVE  IInv'
  <2>1. CoT'
    BY <1>0, <1>2, FieldTypes, ReturnedType, GoType DEF IInv, Return
  <2>2. SessT' /\ (det # "idle" => det' # "idle")
    BY <1>2, RevertCloseType DEF IInv
  <2>3. QED
    BY <1>2, <2>1, <2>2
    DEF IInv, ArmT, CapT, RefT, FlagT, armVars, capVars, refVars, ArmedImpliesSession
<1>3. CASE PendingSnapshot(t)
  BY <1>0, <1>2, <1>3, DisarmInv, MoveAt DEF PendingSnapshot
<1>4. CASE PendingAnswered(t)
  <2>1. ASSUME CommitClose, DisarmInternal(t, "pending"), UNCHANGED <<hkFut, stopped>>
        PROVE  IInv'
    BY <1>0, <2>1, CommitCloseType, DisarmInternalType DEF IInv, FlagT, ArmedImpliesSession
  <2>2. QED
    BY <1>2, <1>4, <2>1 DEF PendingAnswered
<1>5. QED
  BY <1>1, <1>3, <1>4 DEF Pending

LEMMA ShutdownInv ==
  ASSUME IInv, NEW t \in Tasks, Shutdown(t)
  PROVE  IInv'
<1>1. "shutdown" \in Jobs /\ hkFut \in Tasks \cup {None}
  BY DEF Jobs, IInv, FlagT
<1>2. QED
  BY <1>1, DisarmInv, ProcFacts DEF Shutdown

LEMMA TeardownInv ==
  ASSUME IInv, NEW t \in Tasks, Teardown(t)
  PROVE  IInv'
<1>1. CoT'
  BY RestingType, ProcFacts DEF Teardown, CoT, IInv
<1>2. QED
  BY <1>1 DEF Teardown, IInv, ArmT, SessT, CapT, RefT, FlagT, armVars, sessVars, capVars,
              ArmedImpliesSession

LEMMA WatchInv == IInv /\ WatchStep => IInv'
<1> SUFFICES ASSUME IInv, WatchStep PROVE IInv'
  OBVIOUS
<1>0. /\ Watcher \in Procs /\ "watch" \in Jobs /\ {"snap", "ask"} \subseteq Points \ {"spawn"}
      /\ "none" \in Wants /\ 0 \in 0..MaxArms /\ Apps \subseteq Wants /\ Apps \subseteq Reasons
      /\ hkFut \in Tasks \cup {None} /\ stopped \in {"no", "stopping", "down"}
  BY ProcFacts, MaxArmsAssumption DEF Jobs, Points, Wants, Reasons, IInv, FlagT
<1>1. CASE WatchPolls
  BY <1>0, <1>1, MoveTo DEF WatchPolls
<1>2. CASE WatchMatches
  <2>1. UNCHANGED <<armVars, sessVars, capVars, refVars, hkFut, trayBusy, stopped>>
    BY <1>2 DEF WatchMatches
  <2>2. CASE Return(Watcher)
    BY <1>0, <2>1, <2>2, ReturnInv
  <2>3. CASE \E a \in Apps : Go(Watcher, Suspended("ask", "watch", a, 0))
    BY <1>0, <2>1, <2>3, MoveTo
  <2>4. QED
    BY <1>2, <2>2, <2>3 DEF WatchMatches
<1>3. CASE WatchAnswered
  <2>1. \A a : Gets(Watcher, a) => co[Watcher].want \in Reasons
    BY <1>0 DEF Gets, IInv, CoT
  <2>2. QED
    BY <1>0, <1>3, <2>1, ArmInv, ReturnInv DEF WatchAnswered
<1>4. QED
  BY <1>1, <1>2, <1>3 DEF WatchStep

\* A task of an arm ends.
LEMMA RestInv ==
  ASSUME IInv, NEW t \in Procs, Go(t, Resting),
         UNCHANGED <<armVars, sessVars, capVars, refVars, hkFut, trayBusy, stopped>>
  PROVE  IInv'
BY RestingType, MoveInv

LEMMA CheckinInv ==
  ASSUME IInv, NEW c \in Checkins, CheckinStep(c)
  PROVE  IInv'
<1>0. /\ c \in Procs /\ c # Watcher /\ "checkin" \in Jobs
      /\ {"sleep", "ask"} \subseteq Points \ {"spawn"} /\ "none" \in Wants
      /\ co[c].mine \in 0..MaxArms
      /\ hkFut \in Tasks \cup {None} /\ stopped \in {"no", "stopping", "down"}
  BY ProcFacts, FieldTypes DEF Jobs, Points, Wants, Reasons, IInv, FlagT
<1>1. CASE CheckinWakes(c)
  BY <1>0, <1>1, MoveAt, RestInv DEF CheckinWakes
<1>2. CASE CheckinAnswered(c)
  BY <1>0, <1>2, DisarmInv, MoveTo, ReturnInv DEF CheckinAnswered
<1>3. QED
  BY <1>1, <1>2 DEF CheckinStep

LEMMA EndedInv ==
  ASSUME IInv, NEW m \in Endeds, EndedStep(m)
  PROVE  IInv'
<1>0. /\ m \in Procs /\ m # Watcher /\ "ended" \in Jobs
      /\ {"sleep", "snap", "ask"} \subseteq Points \ {"spawn"} /\ "kept" \in Wants
      /\ co[m].mine \in 0..MaxArms
      /\ hkFut \in Tasks \cup {None} /\ stopped \in {"no", "stopping", "down"}
  BY ProcFacts, FieldTypes DEF Jobs, Points, Wants, IInv, FlagT
<1>1. CASE EndedPolls(m)
  BY <1>0, <1>1, MoveAt DEF EndedPolls
<1>2. CASE EndedSnapshot(m)
  <2>1. ASSUME NEW next \in {"sleep", "ask"}, Go(m, [co[m] EXCEPT !.at = next]),
               UNCHANGED <<armVars, sessVars, capVars, refVars, hkFut, trayBusy, stopped>>
        PROVE  IInv'
    BY <1>0, <2>1, MoveAt
  <2>2. QED
    BY <1>0, <1>2, <2>1, DisarmInv, ReturnInv DEF EndedSnapshot
<1>3. CASE EndedAnswered(m)
  BY <1>0, <1>3, DisarmInv, MoveTo, RestInv DEF EndedAnswered
<1>4. QED
  BY <1>1, <1>2, <1>3 DEF EndedStep

LEMMA TaskInv ==
  ASSUME IInv, NEW t \in Tasks, TaskStep(t)
  PROVE  IInv'
BY TickInv, TrayPillInv, HotkeyAsksInv, HotkeyInv, PendingInv, ShutdownInv DEF TaskStep

LEMMA StutterInv == IInv /\ UNCHANGED vars => IInv'
BY DEF vars, IInv, ArmT, SessT, CapT, RefT, FlagT, CoT, armVars, sessVars, capVars, refVars,
       ArmedImpliesSession

LEMMA NextInv == IInv /\ [Next]_vars => IInv'
<1> SUFFICES ASSUME IInv, Next PROVE IInv'
  BY StutterInv
<1>1. CASE \E t \in Tasks : Teardown(t)
  BY <1>1, TeardownInv
<1>2. CASE Voice \/ TapExits \/ HotkeyDoubleTap \/ WatchStep
  BY <1>2, VoiceInv, TapExitsInv, HotkeyDoubleTapInv, WatchInv
<1>3. CASE \E t \in Tasks : TaskStep(t)
  BY <1>3, TaskInv
<1>4. CASE \E p \in Procs : Capture(p)
  BY <1>4, CaptureInv
<1>5. CASE \E c \in Checkins : CheckinStep(c)
  BY <1>5, CheckinInv
<1>6. CASE \E m \in Endeds : EndedStep(m)
  BY <1>6, EndedInv
<1>7. QED
  BY <1>1, <1>2, <1>3, <1>4, <1>5, <1>6 DEF Next

-----------------------------------------------------------------------------
(* The theorems *)

\* Every variable keeps its type: no flow leaves a coroutine at a point, or a
\* reference to a stream, task or toast, that the code does not have.
THEOREM TypeCorrect == Spec => []TypeOK
<1>1. Init => IInv
  BY InitInv
<1>2. IInv /\ [Next]_vars => IInv'
  BY NextInv
<1>3. IInv => TypeOK
  BY InvTypeOK
<1>4. QED
  BY <1>1, <1>2, <1>3, PTL DEF Spec

\* Whatever the flows, the backend and their interleaving, the controller is
\* never ARMED without a session that the audio goes to.
THEOREM ArmedHasSession == Spec => []ArmedImpliesSession
<1>1. Init => IInv
  BY InitInv
<1>2. IInv /\ [Next]_vars => IInv'
  BY NextInv
<1>3. IInv => ArmedImpliesSession
  BY DEF IInv
<1>4. QED
  BY <1>1, <1>2, <1>3, PTL DEF Spec

-----------------------------------------------------------------------------
(* Windows: the streams follow the state.  sys.start and sys.stop never      *)
(* suspend there, so no coroutine is ever inside them and an arm or a disarm *)
(* is one step.                                                              *)

InCapture == {"spawn", "probe", "stop", "rollback"}
Settled == \A p \in Procs : co[p].at \notin InCapture
WInv == IInv /\ StreamsFollowState /\ Settled

LEMMA NeverAwaits == ~Suspending => ~StopAwaits
BY DEF StopAwaits

LEMMA SettledGo ==
  ASSUME IInv, Settled, NEW t \in Procs, NEW c, Go(t, c), c.at \notin InCapture
  PROVE  Settled'
BY DEF Settled, Go, IInv, CoT

LEMMA ReturnedSettled == \A j : Returned(j).at \notin InCapture
BY DEF Returned, Suspended, Resting, InCapture

LEMMA SuspendedSettled ==
  \A pt, j, w, m : pt \notin InCapture => Suspended(pt, j, w, m).at \notin InCapture
BY DEF Suspended

\* A step that leaves the arm and the streams alone.
LEMMA SameStreams ==
  ASSUME WInv, UNCHANGED <<state, arms, capVars>>
  PROVE  StreamsFollowState'
BY DEF WInv, StreamsFollowState, capVars

LEMMA DisarmStreams ==
  ASSUME WInv, ~Suspending, NEW t \in Procs, NEW j, DisarmInternal(t, j)
  PROVE  StreamsFollowState' /\ Settled'
<1>1. CASE state = "disarmed"
  <2>1. Go(t, Returned(j)) /\ UNCHANGED <<armVars, capVars>>
    BY <1>1 DEF DisarmInternal
  <2>2. QED
    BY <2>1, SameStreams, SettledGo, ReturnedSettled DEF WInv, armVars
<1>2. CASE state # "disarmed"
  <2>1. /\ state' = "disarmed" /\ micRef' = 0 /\ mics' = mics \ {micRef}
        /\ taps' = taps \ {tapRef} /\ tapRef' = 0
    BY <1>2, NeverAwaits DEF DisarmInternal, StopMic, StopSys
  <2>2. StreamsFollowState'
    BY <2>1 DEF WInv, StreamsFollowState
  <2>3. \A p \in Procs : co'[p] \in {Returned(j), Resting, co[p]}
    BY <1>2, NeverAwaits DEF DisarmInternal
  <2>4. Settled'
    BY <2>3, ReturnedSettled, RestingType DEF Settled, WInv, InCapture
  <2>5. QED
    BY <2>2, <2>4
<1>3. QED
  BY <1>1, <1>2

LEMMA ArmStreams ==
  ASSUME WInv, ~Suspending, NEW t \in Procs, NEW j, NEW r, ArmInternal(t, j, r)
  PROVE  StreamsFollowState' /\ Settled'
<1> DEFINE n == arms + 1
<1>0. n # 0
  BY DEF WInv, IInv, ArmT
<1>1. CASE Go(t, Returned(j)) /\ UNCHANGED <<armVars, capVars>>
  BY <1>1, SameStreams, SettledGo, ReturnedSettled DEF WInv, armVars
<1>2. ASSUME state = "disarmed", NEW opened \in BOOLEAN,
             Rollback(t, j, IF opened THEN n ELSE micRef,
                      IF opened THEN mics \cup {n} ELSE mics, "armed", r)
      PROVE  StreamsFollowState' /\ Settled'
  <2>1. Go(t, Returned(j)) /\ state' = "disarmed" /\ micRef' = 0
        /\ tapRef' = 0 /\ taps' = taps \ {tapRef}
    BY <1>2, NeverAwaits DEF Rollback, StopMic, StopSys
  <2>2. mics' = {}
    BY <1>2 DEF Rollback, StopMic, WInv, StreamsFollowState
  <2>3. StreamsFollowState'
    BY <1>2, <2>1, <2>2 DEF WInv, StreamsFollowState
  <2>4. QED
    BY <2>1, <2>3, SettledGo, ReturnedSettled DEF WInv
<1>3. ASSUME state = "disarmed", arms' = n, state' = "armed",
             micRef' = n, mics' = mics \cup {n}, tapRef' = n, taps' = taps \cup {n},
             ArmStarted(t, j, n, r)
      PROVE  StreamsFollowState' /\ Settled'
  <2>1. StreamsFollowState'
    BY <1>0, <1>3 DEF WInv, StreamsFollowState
  <2>2. \A p \in Procs : co'[p] \in {Returned(j), Suspended("sleep", p[1], "none", n), co[p]}
    BY <1>3 DEF ArmStarted
  <2>3. \A p : Suspended("sleep", p[1], "none", n).at \notin InCapture
    BY DEF Suspended, InCapture
  <2>4. Settled'
    BY <2>2, <2>3, ReturnedSettled DEF Settled, WInv
  <2>5. QED
    BY <2>1, <2>4
<1>4. QED
  BY <1>1, <1>2, <1>3 DEF ArmInternal

\* A coroutine moved elsewhere than into the streams, which stay as they are.
LEMMA MoveStreams ==
  ASSUME WInv, NEW t \in Procs, NEW c, Go(t, c), c.at \notin InCapture,
         UNCHANGED <<state, arms, capVars>>
  PROVE  StreamsFollowState' /\ Settled'
BY SameStreams, SettledGo DEF WInv

LEMMA MoveAtStreams ==
  ASSUME WInv, NEW t \in Procs, NEW pt \in Points \ InCapture, Go(t, [co[t] EXCEPT !.at = pt]),
         UNCHANGED <<state, arms, capVars>>
  PROVE  StreamsFollowState' /\ Settled'
BY AtType, MoveStreams DEF WInv, IInv

LEMMA ReturnStreams ==
  ASSUME WInv, NEW t \in Procs, Return(t), UNCHANGED <<state, arms, capVars>>
  PROVE  StreamsFollowState' /\ Settled'
BY MoveStreams, ReturnedSettled DEF Return

LEMMA TaskStreams ==
  ASSUME WInv, ~Suspending, NEW t \in Tasks, TaskStep(t)
  PROVE  StreamsFollowState' /\ Settled'
<1>0. t \in Procs /\ {"start", "snap", "ask"} \subseteq Points \ InCapture
  BY ProcFacts DEF Points, InCapture
<1>1. CASE Tick(t)
  BY <1>0, <1>1, MoveStreams, SuspendedSettled DEF Tick, armVars
<1>2. CASE TrayClick(t)
  BY <1>0, <1>2, DisarmStreams, ArmStreams DEF TrayClick, Disarm
<1>3. CASE PillStopClicked(t)
  BY <1>0, <1>3, MoveStreams, SuspendedSettled DEF PillStopClicked, armVars
<1>4. CASE PillStop(t)
  BY <1>0, <1>4, DisarmStreams DEF PillStop, Disarm
<1>5. CASE HotkeyAsks(t)
  <2>1. UNCHANGED <<state, arms, capVars>>
    BY <1>5 DEF HotkeyAsks, armVars
  <2>2. \A p \in Procs : co'[p].at \in {"ask", co[p].at}
    <3>1. \A p \in Procs : Superseded(co[p]).at = co[p].at
      BY FieldTypes DEF Superseded, Coroutine, WInv, IInv
    <3>2. QED
      BY <1>5, <3>1 DEF HotkeyAsks, Suspended
  <2>3. Settled'
    BY <2>2 DEF Settled, WInv, InCapture
  <2>4. QED
    BY <2>1, <2>3, SameStreams
<1>6. CASE HotkeyStops(t)
  BY <1>0, <1>6, DisarmStreams DEF HotkeyStops, Disarm
<1>7. CASE HotkeyConfirmed(t)
  BY <1>0, <1>7, DisarmStreams, ArmStreams, ReturnStreams DEF HotkeyConfirmed, Disarm, armVars
<1>8. CASE PendingBegins(t)
  <2>1. PICK pt \in {"snap", "ask"} : Go(t, [co[t] EXCEPT !.at = pt])
    BY <1>8 DEF PendingBegins
  <2>2. QED
    BY <1>0, <1>8, <2>1, MoveAtStreams DEF PendingBegins, armVars
<1>9. CASE PendingSnapshot(t)
  BY <1>0, <1>9, DisarmStreams, ReturnStreams, MoveAtStreams DEF PendingSnapshot, Disarm, armVars
<1>10. CASE PendingAnswered(t)
  BY <1>0, <1>10, DisarmStreams, ReturnStreams DEF PendingAnswered, armVars
<1>11. CASE Shutdown(t)
  BY <1>0, <1>11, DisarmStreams DEF Shutdown, Disarm
<1>12. QED
  BY <1>1, <1>2, <1>3, <1>4, <1>5, <1>6, <1>7, <1>8, <1>9, <1>10, <1>11 DEF TaskStep, Pending

LEMMA WatchStreams ==
  ASSUME WInv, ~Suspending, WatchStep
  PROVE  StreamsFollowState' /\ Settled'
<1>0. Watcher \in Procs /\ "snap" \notin InCapture /\ "ask" \notin InCapture
  BY ProcFacts DEF InCapture
<1>1. CASE WatchPolls
  BY <1>0, <1>1, MoveStreams, SuspendedSettled DEF WatchPolls, armVars
<1>2. CASE WatchMatches
  BY <1>0, <1>2, MoveStreams, SuspendedSettled, ReturnStreams DEF WatchMatches, armVars
<1>3. CASE WatchAnswered
  BY <1>0, <1>3, ArmStreams, ReturnStreams DEF WatchAnswered, armVars
<1>4. QED
  BY <1>1, <1>2, <1>3 DEF WatchStep

LEMMA CheckinStreams ==
  ASSUME WInv, ~Suspending, NEW c \in Checkins, CheckinStep(c)
  PROVE  StreamsFollowState' /\ Settled'
<1>0. /\ c \in Procs /\ {"sleep", "ask"} \subseteq Points \ InCapture
      /\ Resting.at \notin InCapture
  BY ProcFacts, RestingType DEF Points, InCapture
<1>1. CASE CheckinWakes(c)
  BY <1>0, <1>1, MoveStreams, MoveAtStreams DEF CheckinWakes, armVars
<1>2. CASE CheckinAnswered(c)
  BY <1>0, <1>2, DisarmStreams, MoveStreams, SuspendedSettled, ReturnStreams
  DEF CheckinAnswered, Disarm, armVars
<1>3. QED
  BY <1>1, <1>2 DEF CheckinStep

LEMMA EndedStreams ==
  ASSUME WInv, ~Suspending, NEW m \in Endeds, EndedStep(m)
  PROVE  StreamsFollowState' /\ Settled'
<1>0. /\ m \in Procs /\ {"sleep", "snap", "ask"} \subseteq Points \ InCapture
      /\ Resting.at \notin InCapture
  BY ProcFacts, RestingType DEF Points, InCapture
<1>1. CASE EndedPolls(m)
  BY <1>0, <1>1, MoveAtStreams DEF EndedPolls, armVars
<1>2. CASE EndedSnapshot(m)
  <2>1. ASSUME NEW next \in {"sleep", "ask"}, Go(m, [co[m] EXCEPT !.at = next]),
               UNCHANGED <<armVars, capVars>>
        PROVE  StreamsFollowState' /\ Settled'
    BY <1>0, <2>1, MoveAtStreams DEF armVars
  <2>2. QED
    BY <1>0, <1>2, <2>1, DisarmStreams, ReturnStreams DEF EndedSnapshot, Disarm, armVars
<1>3. CASE EndedAnswered(m)
  BY <1>0, <1>3, DisarmStreams, MoveStreams, SuspendedSettled DEF EndedAnswered, Disarm, armVars
<1>4. QED
  BY <1>1, <1>2, <1>3 DEF EndedStep

LEMMA OtherStreams ==
  ASSUME WInv, Voice \/ TapExits \/ HotkeyDoubleTap \/ (\E t \in Tasks : Teardown(t))
  PROVE  StreamsFollowState' /\ Settled'
<1>1. CASE Voice
  BY <1>1, SameStreams DEF Voice, WInv, Settled, armVars
<1>2. CASE TapExits
  BY <1>2 DEF TapExits, WInv, StreamsFollowState, Settled, armVars
<1>3. CASE HotkeyDoubleTap
  <2>1. hkFut \in Procs /\ [co[hkFut] EXCEPT !.ans = "yes"].at = co[hkFut].at
    BY <1>3, FieldTypes, ProcFacts DEF HotkeyDoubleTap, Coroutine, WInv, IInv, FlagT
  <2>2. [co[hkFut] EXCEPT !.ans = "yes"].at \notin InCapture
    BY <2>1 DEF WInv, Settled
  <2>3. QED
    BY <1>3, <2>1, <2>2, MoveStreams DEF HotkeyDoubleTap, armVars
<1>4. CASE \E t \in Tasks : Teardown(t)
  BY <1>4, SameStreams, RestingType DEF Teardown, WInv, Settled, armVars, InCapture
<1>5. QED
  BY <1>1, <1>2, <1>3, <1>4

LEMMA WindowsNext ==
  ASSUME ~Suspending, WInv, [Next]_vars
  PROVE  WInv'
<1>1. IInv'
  BY NextInv DEF WInv
<1>2. CASE UNCHANGED vars
  BY <1>1, <1>2, SameStreams DEF vars, WInv, Settled, armVars
<1>3. \A p \in Procs : ~Capture(p)
  BY DEF WInv, Settled, InCapture, Capture, SysSpawned, SysProbed, SysStopped, SysStopTimeout
<1>4. CASE Next
  BY <1>1, <1>3, <1>4, TaskStreams, WatchStreams, CheckinStreams, EndedStreams, OtherStreams
  DEF Next, WInv
<1>5. QED
  BY <1>2, <1>4

LEMMA WindowsInit == Init => WInv
<1>1. Init => StreamsFollowState
  BY DEF Init, StreamsFollowState
<1>2. Init => Settled
  <2>1. ASSUME Init, NEW p \in Procs PROVE co[p].at \in {"sleep", "free"}
    BY <2>1, RestingType DEF Init, Coroutine
  <2>2. QED
    BY <2>1 DEF Settled, InCapture
<1>3. QED
  BY <1>1, <1>2, InitInv DEF WInv

\* Windows: no stream of an arm survives it and none is open while DISARMED,
\* whichever start failed and whichever flow disarmed.
THEOREM WindowsStreams ==
  ASSUME ~Suspending
  PROVE  Spec => []StreamsFollowState
<1>1. Init => WInv
  BY WindowsInit
<1>2. WInv /\ [Next]_vars => WInv'
  BY WindowsNext
<1>3. WInv => StreamsFollowState
  BY DEF WInv
<1>4. QED
  BY <1>1, <1>2, <1>3, PTL DEF Spec

-----------------------------------------------------------------------------
(* Windows: the per-arm tasks belong to the arm in force.  _disarm_internal  *)
(* cancels the two tasks it has references to, so it matters that a running  *)
(* one is one that `checkin` or `meeting` names.                             *)

TaskRefs ==
  /\ \A n \in ArmIds : co[CheckinTask(n)].at # "free" => checkin = CheckinTask(n)
  /\ \A n \in ArmIds : co[EndedTask(n)].at # "free" => meeting = EndedTask(n)
Owned == ArmOwnsTasks /\ TaskRefs
OInv == WInv /\ Owned

ArmTasks == Checkins \cup Endeds

LEMMA ArmTaskFacts ==
  /\ \A n \in ArmIds : CheckinTask(n) \in ArmTasks /\ EndedTask(n) \in ArmTasks
  /\ \A n, m : CheckinTask(n) # EndedTask(m)
  /\ \A n, m : CheckinTask(n) = CheckinTask(m) => n = m
  /\ \A n, m : EndedTask(n) = EndedTask(m) => n = m
  /\ ArmTasks \subseteq Procs
  /\ \A t \in Tasks \cup {Watcher, None} : t \notin ArmTasks
BY NamesAssumption DEF ArmTasks, CheckinTask, EndedTask, Checkins, Endeds, Procs

\* Nothing about the arm changed and no per-arm task started.
LEMMA SameOwners ==
  ASSUME Owned, UNCHANGED <<armVars, refVars>>,
         \A p \in ArmTasks : co'[p].at # "free" => co[p].at # "free"
  PROVE  Owned'
BY ArmTaskFacts DEF Owned, ArmOwnsTasks, TaskRefs, armVars, refVars

LEMMA GoOwners ==
  ASSUME OInv, UNCHANGED <<armVars, refVars>>, NEW t \in Procs, NEW c, Go(t, c),
         t \in ArmTasks /\ c.at # "free" => co[t].at # "free"
  PROVE  Owned'
<1>1. \A p \in ArmTasks : co'[p].at # "free" => co[p].at # "free"
  BY DEF Go
<1>2. QED
  BY <1>1, SameOwners DEF OInv

LEMMA GoAtOwners ==
  ASSUME OInv, UNCHANGED <<armVars, refVars>>, NEW t \in Procs, NEW pt, co[t].at # "free",
         Go(t, [co[t] EXCEPT !.at = pt])
  PROVE  Owned'
BY GoOwners

LEMMA ReturnOwners ==
  ASSUME OInv, UNCHANGED <<armVars, refVars>>, NEW t \in Procs, Return(t),
         t \in ArmTasks => co[t].job \in {"checkin", "ended"}
  PROVE  Owned'
<1>1. \A j \in {"checkin", "ended"} : Returned(j) = Resting
  BY DEF Returned
<1>2. QED
  BY <1>1, GoOwners, RestingType DEF Return

LEMMA DisarmOwners ==
  ASSUME OInv, ~Suspending, NEW t \in Procs, NEW j, DisarmInternal(t, j),
         t \in ArmTasks => j \in {"checkin", "ended"}
  PROVE  Owned'
<1>1. t \in ArmTasks => Returned(j).at = "free"
  BY RestingType DEF Returned
<1>2. CASE state = "disarmed"
  BY <1>1, <1>2, GoOwners DEF DisarmInternal
<1>3. CASE state # "disarmed"
  <2>0. \A p \in Procs : co'[p] = IF p = t THEN Returned(j)
                                  ELSE IF p \in {checkin, meeting} \ {None} THEN Resting ELSE co[p]
    BY <1>3, NeverAwaits DEF DisarmInternal
  <2>1. /\ state' = "disarmed" /\ pill' = FALSE
        /\ \A p \in ArmTasks : co'[p].at = "free" \/ (p \notin {checkin, meeting} /\ co'[p] = co[p])
    BY <1>1, <1>3, <2>0, RestingType, ArmTaskFacts DEF DisarmInternal
  <2>2. \A p \in ArmTasks : co'[p].at = "free"
    <3>1. ASSUME NEW n \in ArmIds
          PROVE  /\ co[CheckinTask(n)].at = "free" \/ CheckinTask(n) = checkin
                 /\ co[EndedTask(n)].at = "free" \/ EndedTask(n) = meeting
      BY DEF OInv, Owned, TaskRefs
    <3>2. QED
      BY <2>1, <3>1 DEF ArmTasks, Checkins, Endeds
  <2>3. QED
    BY <2>1, <2>2, ArmTaskFacts DEF Owned, ArmOwnsTasks, TaskRefs
<1>4. QED
  BY <1>2, <1>3

LEMMA ArmOwners ==
  ASSUME OInv, ~Suspending, NEW t \in Tasks \cup {Watcher}, NEW j, NEW r \in Reasons,
         ArmInternal(t, j, r)
  PROVE  Owned'
<1> DEFINE n == arms + 1
<1>0. t \in Procs /\ t \notin ArmTasks
  BY ArmTaskFacts, ProcFacts
<1>1. CASE Go(t, Returned(j)) /\ UNCHANGED <<armVars, refVars>>
  BY <1>0, <1>1, GoOwners
<1>2. ASSUME state = "disarmed"
      PROVE  /\ \A p \in ArmTasks : co[p].at = "free"
             /\ pill = FALSE
  <2>1. \A m \in ArmIds : co[CheckinTask(m)].at = "free" /\ co[EndedTask(m)].at = "free"
    BY <1>2 DEF OInv, Owned, ArmOwnsTasks
  <2>2. \A p \in ArmTasks : co[p].at = "free"
    BY <2>1 DEF ArmTasks, Checkins, Endeds
  <2>3. pill = FALSE
    BY <1>2 DEF OInv, WInv, IInv, RefT, Owned, ArmOwnsTasks
  <2>4. QED
    BY <2>2, <2>3
<1>3. ASSUME state = "disarmed", NEW ref, NEW open, Rollback(t, j, ref, open, "armed", r)
      PROVE  Owned'
  <2>1. Go(t, Returned(j)) /\ UNCHANGED refVars
    BY <1>3, NeverAwaits DEF Rollback
  <2>2. \A p \in ArmTasks : co'[p].at = "free"
    BY <1>0, <1>2, <1>3, <2>1 DEF Go, OInv, WInv, IInv, CoT
  <2>3. pill' = FALSE
    BY <1>2, <1>3, <2>1 DEF refVars
  <2>4. QED
    BY <2>2, <2>3, ArmTaskFacts DEF Owned, ArmOwnsTasks, TaskRefs
<1>4. ASSUME state = "disarmed", arms' = n, state' = "armed", reason' = r,
             ArmStarted(t, j, n, r)
      PROVE  Owned'
  <2>1. \A p \in ArmTasks : co'[p].at # "free"
                              => p = CheckinTask(n) \/ (r \in Apps /\ p = EndedTask(n))
    BY <1>0, <1>2, <1>4, ArmTaskFacts DEF ArmStarted
  <2>2. checkin' = CheckinTask(n) /\ (r \in Apps => meeting' = EndedTask(n))
    BY <1>4 DEF ArmStarted
  <2>3. QED
    BY <1>4, <2>1, <2>2, ArmTaskFacts DEF Owned, ArmOwnsTasks, TaskRefs
<1>5. QED
  BY <1>1, <1>3, <1>4 DEF ArmInternal

LEMMA TaskOwners ==
  ASSUME OInv, ~Suspending, NEW t \in Tasks, TaskStep(t)
  PROVE  Owned'
<1>0. t \in Procs /\ t \notin ArmTasks /\ "hotkey" \in Reasons
  BY ArmTaskFacts, ProcFacts DEF Reasons
<1>1. CASE Tick(t)
  BY <1>0, <1>1, GoOwners DEF Tick
<1>2. CASE TrayClick(t)
  BY <1>0, <1>2, DisarmOwners, ArmOwners DEF TrayClick, Disarm
<1>3. CASE PillStopClicked(t)
  BY <1>0, <1>3, GoOwners DEF PillStopClicked
<1>4. CASE PillStop(t)
  BY <1>0, <1>4, DisarmOwners DEF PillStop, Disarm
<1>5. CASE HotkeyAsks(t)
  <2>1. \A p \in ArmTasks : co'[p].at = co[p].at
    <3>1. \A p \in Procs : Superseded(co[p]).at = co[p].at
      BY FieldTypes DEF Superseded, Coroutine, OInv, WInv, IInv
    <3>2. QED
      BY <1>0, <1>5, <3>1, ArmTaskFacts DEF HotkeyAsks
  <2>2. QED
    BY <1>5, <2>1, SameOwners DEF HotkeyAsks, OInv
<1>6. CASE HotkeyStops(t)
  BY <1>0, <1>6, DisarmOwners DEF HotkeyStops, Disarm
<1>7. CASE HotkeyConfirmed(t)
  BY <1>0, <1>7, DisarmOwners, ArmOwners, ReturnOwners DEF HotkeyConfirmed, Disarm
<1>8. CASE PendingBegins(t)
  BY <1>0, <1>8, GoOwners DEF PendingBegins
<1>9. CASE PendingSnapshot(t)
  BY <1>0, <1>9, DisarmOwners, ReturnOwners, GoOwners DEF PendingSnapshot, Disarm
<1>10. CASE PendingAnswered(t)
  BY <1>0, <1>10, DisarmOwners, ReturnOwners DEF PendingAnswered
<1>11. CASE Shutdown(t)
  BY <1>0, <1>11, DisarmOwners DEF Shutdown, Disarm
<1>12. QED
  BY <1>1, <1>2, <1>3, <1>4, <1>5, <1>6, <1>7, <1>8, <1>9, <1>10, <1>11 DEF TaskStep, Pending

LEMMA WatchOwners ==
  ASSUME OInv, ~Suspending, WatchStep
  PROVE  Owned'
<1>0. Watcher \in Procs /\ Watcher \notin ArmTasks
  BY ArmTaskFacts, ProcFacts
<1>1. CASE WatchPolls
  BY <1>0, <1>1, GoOwners DEF WatchPolls
<1>2. CASE WatchMatches
  BY <1>0, <1>2, GoOwners, ReturnOwners DEF WatchMatches
<1>3. CASE WatchAnswered
  <2>1. \A a : Gets(Watcher, a) => co[Watcher].want \in Reasons
    BY DEF Gets, OInv, WInv, IInv, CoT, Reasons
  <2>2. QED
    BY <1>0, <1>3, <2>1, ArmOwners, ReturnOwners DEF WatchAnswered
<1>4. QED
  BY <1>1, <1>2, <1>3 DEF WatchStep

LEMMA CheckinOwners ==
  ASSUME OInv, ~Suspending, NEW c \in Checkins, CheckinStep(c)
  PROVE  Owned'
<1>0. c \in Procs
  BY ProcFacts
<1>1. CASE CheckinWakes(c)
  BY <1>0, <1>1, GoOwners, RestingType DEF CheckinWakes, Is
<1>2. CASE CheckinAnswered(c)
  BY <1>0, <1>2, DisarmOwners, GoOwners, ReturnOwners DEF CheckinAnswered, Disarm, Gets
<1>3. QED
  BY <1>1, <1>2 DEF CheckinStep

LEMMA EndedOwners ==
  ASSUME OInv, ~Suspending, NEW m \in Endeds, EndedStep(m)
  PROVE  Owned'
<1>0. m \in Procs
  BY ProcFacts
<1>1. CASE EndedPolls(m)
  BY <1>0, <1>1, GoAtOwners DEF EndedPolls, Is
<1>2. CASE EndedSnapshot(m)
  BY <1>0, <1>2, DisarmOwners, GoAtOwners, ReturnOwners DEF EndedSnapshot, Disarm, Is
<1>3. CASE EndedAnswered(m)
  BY <1>0, <1>3, DisarmOwners, GoOwners, RestingType DEF EndedAnswered, Disarm, Gets
<1>4. QED
  BY <1>1, <1>2, <1>3 DEF EndedStep

LEMMA OtherOwners ==
  ASSUME OInv, Voice \/ TapExits \/ HotkeyDoubleTap \/ (\E t \in Tasks : Teardown(t))
  PROVE  Owned'
<1>1. CASE Voice \/ TapExits
  BY <1>1, SameOwners DEF Voice, TapExits, OInv
<1>2. CASE HotkeyDoubleTap
  <2>1. hkFut \in Procs /\ hkFut \notin ArmTasks
    BY <1>2, ArmTaskFacts, ProcFacts DEF HotkeyDoubleTap, OInv, WInv, IInv, FlagT
  <2>2. QED
    BY <1>2, <2>1, GoOwners DEF HotkeyDoubleTap
<1>3. ASSUME NEW t \in Tasks, Teardown(t)
      PROVE  Owned'
  <2>0. \A p \in Procs : co'[p] = IF p \in {t, Watcher, checkin, meeting} THEN Resting ELSE co[p]
    BY <1>3 DEF Teardown
  <2>1. \A p \in ArmTasks : co'[p].at = "free" \/ (p \notin {checkin, meeting} /\ co'[p] = co[p])
    BY <2>0, RestingType, ArmTaskFacts
  <2>2. \A p \in ArmTasks : co'[p].at = "free"
    <3>1. ASSUME NEW n \in ArmIds
          PROVE  /\ co[CheckinTask(n)].at = "free" \/ CheckinTask(n) = checkin
                 /\ co[EndedTask(n)].at = "free" \/ EndedTask(n) = meeting
      BY DEF OInv, Owned, TaskRefs
    <3>2. QED
      BY <2>1, <3>1 DEF ArmTasks, Checkins, Endeds
  <2>3. (pill => state = "armed") /\ UNCHANGED <<pill, state>>
    BY <1>3 DEF Teardown, OInv, Owned, ArmOwnsTasks, armVars
  <2>4. QED
    BY <2>2, <2>3, ArmTaskFacts DEF Owned, ArmOwnsTasks, TaskRefs
<1>4. QED
  BY <1>1, <1>2, <1>3

LEMMA OwnersNext ==
  ASSUME ~Suspending, OInv, [Next]_vars
  PROVE  OInv'
<1>1. WInv'
  BY WindowsNext DEF OInv
<1>2. CASE UNCHANGED vars
  BY <1>1, <1>2, SameOwners DEF vars, OInv
<1>3. \A p \in Procs : ~Capture(p)
  BY DEF OInv, WInv, Settled, InCapture, Capture, SysSpawned, SysProbed, SysStopped, SysStopTimeout
<1>4. CASE Next
  BY <1>1, <1>3, <1>4, TaskOwners, WatchOwners, CheckinOwners, EndedOwners, OtherOwners
  DEF Next, OInv
<1>5. QED
  BY <1>2, <1>4

\* Windows: a check-in or a meeting-ended watcher of one recording never runs
\* into the next one, and the pill is up only while recording, in whatever
\* order arms, disarms, failed starts and answers come.
THEOREM WindowsTasks ==
  ASSUME ~Suspending
  PROVE  Spec => []ArmOwnsTasks
<1>1. Init => OInv
  <2>1. Init => WInv
    BY WindowsInit
  <2>2. ASSUME Init PROVE Owned
    <3>1. \A p \in ArmTasks : co[p].at = "free" /\ pill = FALSE
      BY <2>2, RestingType, ArmTaskFacts DEF Init
    <3>2. pill = FALSE
      BY <2>2 DEF Init
    <3>3. QED
      BY <3>1, <3>2, ArmTaskFacts DEF Owned, ArmOwnsTasks, TaskRefs
  <2>3. QED
    BY <2>1, <2>2 DEF OInv
<1>2. OInv /\ [Next]_vars => OInv'
  BY OwnersNext
<1>3. OInv => ArmOwnsTasks
  BY DEF OInv, Owned
<1>4. QED
  BY <1>1, <1>2, <1>3, PTL DEF Spec
=============================================================================
