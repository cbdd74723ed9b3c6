------------------------ MODULE UploadRetry_proofs ------------------------
(***************************************************************************)
(* Proofs about UploadRetry, for any number of captures, any budget and    *)
(* attempt limit, and any number of crashes and of requests from Settings. *)
(***************************************************************************)
EXTENDS UploadRetry, TLAPS

\* What an attempt carries along.
Shape(p, r) ==
  /\ r.at \in InAttempt => r.cap \in Captures /\ (p \in Sweeps => r.left > 0)
  /\ r.at \in {"blocked", "handle"} => r.out \in {"credit", "auth"}
  /\ r.at = "result" => r.out \in Outcomes
  /\ \A c \in Captures : p = Live(c) /\ r.at # "off" => r.cap = c

ShapeInv ==
  /\ \A p \in Procs : Shape(p, proc[p])
  /\ ui.at = "read" => ui.cap \in Captures

\* Only an acknowledged POST is about to be recorded as a success; a pause is
\* armed after the record was taken out of in_flight.
ResultInv ==
  \A p \in Procs :
    /\ At(p, "result") /\ proc[p].out = "success" => proc[p].cap \in received
    /\ At(p, "handle") => disk[proc[p].cap].st # "in_flight"

IInv == TypeOK /\ ShapeInv /\ ResultInv /\ OneAttempt /\ UploadedIsReceived /\ InFlightIsReal /\ FlagIsReal

-----------------------------------------------------------------------------
(* Process names and records *)

LEMMA ProcFacts ==
  /\ Startup \in Procs /\ Ticked \in Procs /\ Startup # Ticked
  /\ Sweeps = {Startup, Ticked} /\ Sweeps \cap Lives = {} /\ Sweeps \subseteq Procs
  /\ \A c \in Captures : Live(c) \in Lives /\ Live(c) \in Procs
  /\ \A c, d \in Captures : Live(c) = Live(d) => c = d
  /\ \A p \in Procs : p \in Sweeps \/ \E c \in Captures : p = Live(c)
BY DEF Procs, Sweeps, Lives, Startup, Ticked, Live

LEMMA CapRange == \A c \in Captures : c \in 0..N
BY BoundsAssumption DEF Captures

LEMMA OffType == Off \in Proc /\ Off.at = "off"
BY BoundsAssumption DEF Off, Proc, Points, Outcomes, Captures

LEMMA AbsentType == Absent \in Record
<1>1. 0 \in 0..MaxOther
  BY BoundsAssumption
<1> QED BY <1>1 DEF Absent, Record

LEMMA GoStep ==
  ASSUME proc \in [Procs -> Proc], NEW p \in Procs, NEW r \in Proc, Go(p, r)
  PROVE  /\ proc' \in [Procs -> Proc] /\ proc'[p] = r
         /\ \A q \in Procs : q # p => proc'[q] = proc[q]
BY DEF Go

LEMMA StartedType ==
  ASSUME NEW r \in Record
  PROVE  Started(r) \in Record /\ Started(r).st = "in_flight"
<1> DEFINE n == IF r.tries < MaxOther THEN r.tries + 1 ELSE r.tries
<1>1. n \in 0..MaxOther
  BY BoundsAssumption DEF Record
<1>2. Started(r) = [r EXCEPT !.st = "in_flight", !.due = FALSE, !.tries = n]
  BY DEF Started, Record
<1> HIDE DEF n
<1> QED BY <1>1, <1>2 DEF Record, Statuses

LEMMA AppliedType ==
  ASSUME NEW r \in Record, NEW out \in Outcomes
  PROVE  /\ Applied(r, out) \in Record
         /\ Applied(r, out).st \in Statuses \ {"in_flight"}
         /\ Applied(r, out).st = "uploaded" => out = "success"
BY DEF Applied, Record, Statuses, Outcomes, Failures

-----------------------------------------------------------------------------
(* How a step of one process changes the attempts and the in-flight set *)

\* A process inside an attempt stays in it.
LEMMA AttemptStays ==
  ASSUME OneAttempt, proc \in [Procs -> Proc], NEW p \in Procs, NEW r \in Proc, Go(p, r),
         Attempting(p), r.at \in InAttempt, r.cap = proc[p].cap, UNCHANGED inflight
  PROVE  OneAttempt'
BY GoStep DEF OneAttempt, Attempting

\* A process outside any attempt stays outside.
LEMMA OutsideStays ==
  ASSUME OneAttempt, proc \in [Procs -> Proc], NEW p \in Procs, NEW r \in Proc, Go(p, r),
         ~Attempting(p), r.at \notin InAttempt, UNCHANGED inflight
  PROVE  OneAttempt'
BY GoStep DEF OneAttempt, Attempting

LEMMA AttemptEnters ==
  ASSUME OneAttempt, proc \in [Procs -> Proc], NEW p \in Procs, NEW r \in Proc, Go(p, r),
         ~Attempting(p), r.at \in InAttempt, r.cap \notin inflight,
         inflight' = inflight \cup {r.cap}
  PROVE  OneAttempt'
BY GoStep DEF OneAttempt, Attempting

LEMMA AttemptLeaves ==
  ASSUME OneAttempt, proc \in [Procs -> Proc], NEW p \in Procs, NEW r \in Proc, Go(p, r),
         Attempting(p), r.at \notin InAttempt, inflight' = inflight \ {proc[p].cap}
  PROVE  OneAttempt'
BY GoStep DEF OneAttempt, Attempting

-----------------------------------------------------------------------------
(* How a step preserves the invariant *)

\* The variables that no invariant relates to others.
RestT == /\ credit \in {"none", "ahead", "passed"} /\ auth \in BOOLEAN
         /\ ui \in Settings /\ (ui.at = "read" => ui.cap \in Captures)
         /\ crashes \in 0..MaxCrashes /\ edits \in 0..MaxEdits

\* The flag after process p has moved to r.
FlagStep(p, r) ==
  /\ busy' \in BOOLEAN
  /\ p = Ticked => (busy' <=> r.at # "off")
  /\ p # Ticked => busy' = busy

LEMMA GoFlag ==
  ASSUME FlagIsReal, proc \in [Procs -> Proc], NEW p \in Procs, NEW r \in Proc, Go(p, r), FlagStep(p, r)
  PROVE  FlagIsReal'
BY GoStep, ProcFacts DEF FlagIsReal, FlagStep, At

LEMMA GoShape ==
  ASSUME ShapeInv, proc \in [Procs -> Proc], NEW p \in Procs, NEW r \in Proc, Go(p, r), Shape(p, r)
  PROVE  \A q \in Procs : Shape(q, proc'[q])
BY GoStep DEF ShapeInv

LEMMA TypeParts ==
  ASSUME disk' \in [Captures -> Record], proc' \in [Procs -> Proc], inflight' \subseteq Captures,
         busy' \in BOOLEAN, received' \subseteq Captures, RestT', \A q \in Procs : Shape(q, proc'[q])
  PROVE  TypeOK' /\ ShapeInv'
BY DEF TypeOK, ShapeInv, RestT

\* A step that leaves the files alone and ends no attempt.
LEMMA MoveInv ==
  ASSUME IInv, NEW p \in Procs, NEW r \in Proc, Go(p, r), Shape(p, r), FlagStep(p, r),
         ~At(p, "reconcile"), r.at \notin {"reconcile", "handle"},
         r.at = "result" /\ r.out = "success" => r.cap \in received',
         received \subseteq received', received' \subseteq Captures,
         OneAttempt', inflight \subseteq inflight', inflight' \subseteq Captures,
         UNCHANGED disk, RestT'
  PROVE  IInv'
<1>1. TypeOK' /\ ShapeInv'
  BY GoStep, GoShape, TypeParts DEF IInv, TypeOK, FlagStep
<1>2. ResultInv'
  BY GoStep DEF IInv, TypeOK, ResultInv, At
<1>3. UploadedIsReceived'
  BY DEF IInv, UploadedIsReceived
<1>4. InFlightIsReal'
  BY GoStep, ProcFacts DEF IInv, TypeOK, InFlightIsReal, At
<1>5. FlagIsReal'
  BY GoFlag DEF IInv, TypeOK
<1> QED BY <1>1, <1>2, <1>3, <1>4, <1>5 DEF IInv

\* A step of an attempt on capture c, which goes on or ends.
LEMMA AttemptInv ==
  ASSUME IInv, NEW p \in Procs, NEW r \in Proc, Go(p, r), Shape(p, r), FlagStep(p, r),
         Attempting(p), r.at \notin {"reconcile", "result"},
         NEW c \in Captures, c = proc[p].cap,
         disk' \in [Captures -> Record], \A d \in Captures \ {c} : disk'[d] = disk[d],
         disk'[c].st = "uploaded" => c \in received,
         \/ r.at \in InAttempt /\ r.cap = c /\ UNCHANGED inflight
         \/ r.at \notin InAttempt /\ inflight' = inflight \ {c} /\ disk'[c].st # "in_flight",
         r.at = "handle" => disk'[c].st # "in_flight",
         UNCHANGED received, RestT'
  PROVE  IInv'
<1>1. TypeOK' /\ ShapeInv'
  BY GoStep, GoShape, TypeParts DEF IInv, TypeOK, FlagStep
<1>2. ~At(p, "reconcile")
  BY DEF At, Attempting, InAttempt
<1>3. c \in inflight
  BY DEF IInv, OneAttempt
<1>4. OneAttempt'
  BY AttemptStays, AttemptLeaves DEF IInv, TypeOK
<1>5. ResultInv'
  <2> SUFFICES ASSUME NEW q \in Procs
               PROVE  /\ At(q, "result")' /\ proc'[q].out = "success" => proc'[q].cap \in received'
                      /\ At(q, "handle")' => disk'[proc'[q].cap].st # "in_flight"
    BY DEF ResultInv
  <2>1. CASE q = p
    BY <2>1, GoStep DEF IInv, TypeOK, At, InAttempt
  <2>2. CASE q # p
    <3>1. proc'[q] = proc[q]
      BY <2>2, GoStep DEF IInv, TypeOK
    <3>2. At(q, "handle") => proc[q].cap \in Captures \ {c}
      BY <2>2 DEF IInv, OneAttempt, ShapeInv, Shape, At, Attempting, InAttempt
    <3> QED BY <3>1, <3>2 DEF IInv, ResultInv, At
  <2> QED BY <2>1, <2>2
<1>6. UploadedIsReceived'
  BY DEF IInv, UploadedIsReceived
<1>7. InFlightIsReal'
  BY <1>2, <1>3, GoStep, ProcFacts DEF IInv, TypeOK, InFlightIsReal, At
<1>8. FlagIsReal'
  BY GoFlag DEF IInv, TypeOK
<1> QED BY <1>1, <1>4, <1>5, <1>6, <1>7, <1>8 DEF IInv

\* A step of the clock or of Settings.
LEMMA OutsideInv ==
  ASSUME IInv, UNCHANGED <<proc, inflight, busy, received>>, disk' \in [Captures -> Record],
         \A c \in Captures : disk'[c].st \in {"in_flight", "uploaded"} => disk'[c].st = disk[c].st,
         RestT'
  PROVE  IInv'
<1>1. TypeOK' /\ ShapeInv'
  BY TypeParts DEF IInv, TypeOK, ShapeInv
<1>2. OneAttempt'
  BY DEF IInv, OneAttempt, Attempting
<1>3. ResultInv'
  BY DEF IInv, ResultInv, At, ShapeInv, Shape, InAttempt
<1>4. UploadedIsReceived' /\ InFlightIsReal' /\ FlagIsReal'
  BY DEF IInv, UploadedIsReceived, InFlightIsReal, FlagIsReal, At
<1> QED BY <1>1, <1>2, <1>3, <1>4 DEF IInv

LEMMA FilesType == ASSUME IInv PROVE disk \in [Captures -> Record] /\ \A c \in Captures : disk[c] \in Record
BY DEF IInv, TypeOK

-----------------------------------------------------------------------------
(* Coroutine moves *)

LEMMA ProcFields ==
  ASSUME IInv, NEW p \in Procs
  PROVE  /\ proc \in [Procs -> Proc] /\ proc[p] \in Proc /\ proc[p].at \in Points
         /\ proc[p].cap \in 0..N /\ proc[p].due \subseteq Captures /\ proc[p].left \in 0..PerSweep
         /\ proc[p].out \in Outcomes \cup {"none"} /\ Shape(p, proc[p])
         /\ inflight \subseteq Captures /\ busy \in BOOLEAN /\ received \subseteq Captures
         /\ disk \in [Captures -> Record] /\ RestT
BY DEF IInv, TypeOK, Proc, ShapeInv, RestT

\* Inside an attempt a process has a capture, which is in flight.
LEMMA AttemptFacts ==
  ASSUME IInv, NEW p \in Procs, Attempting(p)
  PROVE  /\ proc[p].cap \in Captures /\ proc[p].cap \in inflight
         /\ p \in Sweeps => proc[p].left > 0
         /\ proc[p].at \notin {"off", "reconcile"}
         /\ p = Ticked => busy
BY ProcFields, ProcFacts DEF IInv, OneAttempt, Shape, Attempting, InAttempt, FlagIsReal, At

LEMMA OffShape == \A p \in Procs : Shape(p, Off)
BY DEF Shape, Off, InAttempt

\* Where a sweep or a live upload is once it has returned.
LEMMA SweepEndsStep ==
  ASSUME IInv, NEW p \in Procs, SweepEnds(p)
  PROVE  Go(p, Off) /\ Off \in Proc /\ Shape(p, Off) /\ FlagStep(p, Off)
BY ProcFields, OffType, OffShape, ProcFacts DEF SweepEnds, FlagStep

\* An attempt returns: where its process is then, and what is in flight.
LEMMA ReturnsStep ==
  ASSUME IInv, NEW p \in Procs, Attempting(p), NEW out, Returns(p, out)
  PROVE  /\ inflight' = inflight \ {proc[p].cap}
         /\ \E r \in Proc : Go(p, r) /\ Shape(p, r) /\ FlagStep(p, r) /\ r.at \in {"off", "next"}
<1>1. CASE p \in Lives \/ out \in {"credit", "auth"}
  BY <1>1, SweepEndsStep, OffType DEF Returns
<1>2. CASE ~(p \in Lives \/ out \in {"credit", "auth"})
  <2> DEFINE r == [proc[p] EXCEPT !.at = "next", !.cap = 0, !.out = "none", !.left = @ - 1]
  <2>1. p \in Sweeps /\ p \notin Lives /\ proc[p].left \in 1..PerSweep
    BY <1>2, AttemptFacts, ProcFields DEF Procs
  <2>a. proc[p].left - 1 \in 0..PerSweep /\ 0 \in 0..N
    BY <2>1, BoundsAssumption
  <2>2. r \in Proc /\ r.at = "next"
    BY <2>a, ProcFields DEF Proc, Points
  <2>3. Go(p, r) /\ UNCHANGED busy
    BY <1>2 DEF Returns
  <2>4. Shape(p, r)
    BY <2>1, <2>2, ProcFacts DEF Shape, InAttempt, Procs, Lives
  <2>5. FlagStep(p, r)
    BY <2>2, <2>3, ProcFields, AttemptFacts DEF FlagStep
  <2> QED BY <1>2, <2>2, <2>3, <2>4, <2>5 DEF Returns
<1> QED BY <1>1, <1>2

-----------------------------------------------------------------------------
(* The initial states *)

LEMMA InitInv == Init => IInv
<1> SUFFICES ASSUME Init PROVE IInv
  OBVIOUS
<1>1. \A p \in Procs : proc[p] = IF p = Startup THEN [Off EXCEPT !.at = "reconcile"] ELSE Off
  BY DEF Init
<1>2. [Off EXCEPT !.at = "reconcile"] \in Proc
  BY OffType DEF Proc, Points
<1>3. \A p \in Procs : proc[p].at \in {"off", "reconcile"} /\ (proc[p].at = "reconcile" => p = Startup)
  BY <1>1, <1>2, OffType DEF Off
<1>4. proc \in [Procs -> Proc]
  BY <1>2, OffType DEF Init
<1>5. disk \in [Captures -> Record] /\ \A c \in Captures : disk[c].st = "none"
  BY BoundsAssumption DEF Init, Absent, Record
<1>6. ui \in Settings /\ ui.at = "idle"
  BY BoundsAssumption DEF Init, Idle, Settings
<1>a. /\ inflight \subseteq Captures /\ received \subseteq Captures
      /\ busy \in BOOLEAN /\ auth \in BOOLEAN /\ credit \in {"none", "ahead", "passed"}
  BY DEF Init
<1>b. crashes \in 0..MaxCrashes /\ edits \in 0..MaxEdits
  BY BoundsAssumption DEF Init
<1>7. TypeOK
  BY <1>4, <1>5, <1>6, <1>a, <1>b DEF TypeOK
<1>8. \A p \in Procs : Shape(p, proc[p])
  BY <1>1, <1>3, ProcFacts, OffShape DEF Shape, InAttempt
<1>9. ShapeInv /\ ResultInv /\ UploadedIsReceived /\ InFlightIsReal
  BY <1>3, <1>5, <1>6, <1>8 DEF ShapeInv, ResultInv, UploadedIsReceived, InFlightIsReal, At
<1>10. OneAttempt
  BY <1>3 DEF Init, OneAttempt, Attempting, InAttempt
<1>11. FlagIsReal
  BY <1>1, OffType, ProcFacts DEF Init, FlagIsReal, At
<1> QED BY <1>7, <1>9, <1>10, <1>11 DEF IInv

-----------------------------------------------------------------------------
(* Steps that leave the files alone *)

LEMMA RestStays ==
  ASSUME IInv, UNCHANGED <<ui, bounded>>,
         \/ UNCHANGED pauseVars
         \/ ReadPause
         \/ credit' \in {"none", "ahead", "passed"} /\ auth' \in BOOLEAN
  PROVE  RestT'
BY DEF IInv, TypeOK, ShapeInv, RestT, ReadPause, pauseVars, bounded

LEMMA GoToStep ==
  ASSUME IInv, NEW p \in Procs, NEW at \in Points, NEW r, r = [proc[p] EXCEPT !.at = at]
  PROVE  /\ r \in Proc /\ r.at = at /\ r.cap = proc[p].cap /\ r.left = proc[p].left
         /\ r.out = proc[p].out /\ r.due = proc[p].due
BY ProcFields DEF Proc

\* A process outside any attempt stays outside.
LEMMA OutsideMove ==
  ASSUME IInv, NEW p \in Procs, NEW r \in Proc, Go(p, r), Shape(p, r), FlagStep(p, r),
         ~Attempting(p), ~At(p, "reconcile"), r.at \notin InAttempt, r.at # "reconcile",
         UNCHANGED <<disk, inflight, received>>, RestT'
  PROVE  IInv'
<1>1. OneAttempt'
  BY OutsideStays, ProcFields DEF IInv
<1>2. r.at \notin {"result", "handle"}
  BY DEF InAttempt
<1> QED BY <1>1, <1>2, MoveInv, ProcFields

LEMMA SweepShape ==
  ASSUME NEW p \in Sweeps, NEW r, r.at \notin InAttempt
  PROVE  Shape(p, r)
BY ProcFacts DEF Shape, InAttempt

LEMMA SweepMove ==
  ASSUME IInv, NEW p \in Sweeps, NEW r \in Proc, Go(p, r),
         ~Attempting(p), ~At(p, "reconcile"), ~At(p, "off"),
         r.at \notin InAttempt \cup {"reconcile", "off"},
         UNCHANGED <<disk, inflight, received, busy>>, RestT'
  PROVE  IInv'
<1>1. FlagStep(p, r)
  BY ProcFields, ProcFacts DEF FlagStep, IInv, FlagIsReal
<1> QED BY <1>1, SweepShape, OutsideMove, ProcFacts

LEMMA SweepOver ==
  ASSUME IInv, NEW p \in Sweeps, SweepEnds(p), ~Attempting(p), ~At(p, "reconcile"),
         UNCHANGED <<disk, inflight, received>>, RestT'
  PROVE  IInv'
BY SweepEndsStep, OffType, OutsideMove, ProcFacts DEF InAttempt

\* An attempt goes on.
LEMMA AttemptMove ==
  ASSUME IInv, NEW p \in Procs, NEW r \in Proc, Go(p, r), Attempting(p),
         r.at \in InAttempt \ {"handle"}, r.cap = proc[p].cap, r.left = proc[p].left,
         r.at = "blocked" => r.out \in {"credit", "auth"},
         r.at = "result" => r.out \in Outcomes,
         r.at = "result" /\ r.out = "success" => r.cap \in received',
         received \subseteq received', received' \subseteq Captures,
         UNCHANGED <<disk, inflight, busy>>, RestT'
  PROVE  IInv'
<1>1. OneAttempt'
  BY AttemptStays, ProcFields DEF IInv
<1>2. Shape(p, r)
  BY AttemptFacts, ProcFields DEF Shape, Attempting, InAttempt
<1>3. FlagStep(p, r)
  BY AttemptFacts, ProcFields DEF FlagStep, InAttempt
<1>4. ~At(p, "reconcile") /\ r.at \notin {"reconcile", "handle"}
  BY AttemptFacts DEF At, InAttempt
<1> QED BY <1>1, <1>2, <1>3, <1>4, MoveInv, ProcFields

-----------------------------------------------------------------------------
(* Sweeps *)

LEMMA SweepPoints ==
  ASSUME NEW p \in Procs, NEW at \in {"clear", "begin", "probe", "collect", "next"}, At(p, at)
  PROVE  ~Attempting(p) /\ ~At(p, "reconcile") /\ ~At(p, "off")
BY DEF At, Attempting, InAttempt

LEMMA SweepProbesInv ==
  ASSUME IInv, NEW p \in Sweeps, SweepProbes(p) \/ TokenIsBack(p) \/ NoToken(p)
  PROVE  IInv'
<1>1. p \in Procs /\ ~Attempting(p) /\ ~At(p, "reconcile") /\ ~At(p, "off")
  BY SweepPoints, ProcFacts DEF SweepProbes, TokenIsBack, NoToken
<1>2. RestT' /\ UNCHANGED <<disk, inflight, received, busy>>
  <2>1. UNCHANGED <<ui, bounded>> /\ credit' = credit /\ auth' \in BOOLEAN
    BY DEF SweepProbes, TokenIsBack, NoToken, pauseVars, IInv, TypeOK
  <2>2. RestT'
    BY <2>1, RestStays DEF IInv, TypeOK
  <2> QED BY <2>2 DEF SweepProbes, TokenIsBack, NoToken
<1>3. PICK at \in {"probe", "collect"} : Go(p, [proc[p] EXCEPT !.at = at])
  BY DEF SweepProbes, TokenIsBack, NoToken, GoTo
<1> DEFINE r == [proc[p] EXCEPT !.at = at]
<1>a. at \in Points
  BY DEF Points
<1>4. r \in Proc /\ r.at = at
  BY <1>1, <1>a, GoToStep
<1>5. r.at \notin InAttempt \cup {"reconcile", "off"}
  BY <1>4 DEF InAttempt
<1>6. Go(p, r)
  BY <1>3
<1> HIDE DEF r
<1> QED BY <1>1, <1>2, <1>4, <1>5, <1>6, SweepMove

LEMMA ClearCreditPauseInv == ASSUME IInv, ClearCreditPause PROVE IInv'
<1>1. Ticked \in Procs /\ ~Attempting(Ticked) /\ ~At(Ticked, "reconcile") /\ ~At(Ticked, "off")
  BY SweepPoints, ProcFacts DEF ClearCreditPause
<1>2. RestT'
  BY RestStays DEF ClearCreditPause, IInv, TypeOK
<1> DEFINE r == [proc[Ticked] EXCEPT !.at = "begin"]
<1>3. r \in Proc /\ r.at = "begin"
  BY <1>1, GoToStep DEF Points
<1>4. Go(Ticked, r) /\ UNCHANGED <<disk, inflight, received, busy>>
  BY DEF ClearCreditPause, GoTo
<1>5. r.at \notin InAttempt \cup {"reconcile", "off"}
  BY <1>3 DEF InAttempt
<1> HIDE DEF r
<1> QED BY <1>1, <1>2, <1>3, <1>4, <1>5, SweepMove, ProcFacts

LEMMA SweepCollectsInv == ASSUME IInv, NEW p \in Sweeps, SweepCollects(p) PROVE IInv'
<1>1. p \in Procs /\ ~Attempting(p) /\ ~At(p, "reconcile") /\ ~At(p, "off")
  BY SweepPoints, ProcFacts DEF SweepCollects
<1>2. RestT' /\ UNCHANGED <<disk, inflight, received>>
  BY RestStays DEF SweepCollects
<1>3. CASE Paused
  BY <1>1, <1>2, <1>3, SweepOver DEF SweepCollects
<1>4. CASE ~Paused
  <2> DEFINE due == {c \in Captures : Due(disk[c])}
             r == [proc[p] EXCEPT !.at = "next", !.left = PerSweep, !.due = due]
  <2>1. due \in SUBSET Captures /\ PerSweep \in 0..PerSweep
    BY BoundsAssumption
  <2>2. Go(p, r) /\ UNCHANGED busy
    BY <1>4 DEF SweepCollects
  <2> HIDE DEF due
  <2>3. r \in Proc /\ r.at = "next"
    BY <1>1, <2>1, ProcFields DEF Proc, Points
  <2>4. r.at \notin InAttempt \cup {"reconcile", "off"}
    BY <2>3 DEF InAttempt
  <2> HIDE DEF r
  <2> QED BY <1>1, <1>2, <2>2, <2>3, <2>4, SweepMove
<1> QED BY <1>3, <1>4

LEMMA SweepStopsInv == ASSUME IInv, NEW p \in Sweeps, SweepStops(p) PROVE IInv'
<1>1. p \in Procs /\ ~Attempting(p) /\ ~At(p, "reconcile")
  BY SweepPoints, ProcFacts DEF SweepStops
<1>2. RestT'
  BY RestStays DEF SweepStops
<1> QED BY <1>1, <1>2, SweepOver DEF SweepStops

LEMMA SweepTriesInv == ASSUME IInv, NEW p \in Sweeps, SweepTries(p) PROVE IInv'
<1>1. p \in Procs /\ ~Attempting(p) /\ ~At(p, "reconcile") /\ ~At(p, "off")
  BY SweepPoints, ProcFacts DEF SweepTries
<1>2. RestT' /\ UNCHANGED <<disk, received, busy>>
  BY RestStays DEF SweepTries
<1>3. PICK c \in proc[p].due :
        IF c \in inflight
        THEN Go(p, [proc[p] EXCEPT !.due = @ \ {c}]) /\ UNCHANGED inflight
        ELSE /\ Go(p, [proc[p] EXCEPT !.due = @ \ {c}, !.at = "gate", !.cap = c])
             /\ inflight' = inflight \cup {c}
  BY DEF SweepTries
<1>4. c \in Captures /\ proc[p].due \ {c} \in SUBSET Captures /\ proc[p].at = "next" /\ proc[p].left > 0
  BY <1>1, ProcFields DEF SweepTries, At
<1>5. CASE c \in inflight
  <2> DEFINE r == [proc[p] EXCEPT !.due = @ \ {c}]
  <2>1. r \in Proc /\ r.at = "next"
    BY <1>1, <1>4, ProcFields DEF Proc
  <2>2. Go(p, r) /\ UNCHANGED inflight
    BY <1>3, <1>5
  <2>3. r.at \notin InAttempt \cup {"reconcile", "off"}
    BY <2>1 DEF InAttempt
  <2> HIDE DEF r
  <2> QED BY <1>1, <1>2, <2>1, <2>2, <2>3, SweepMove
<1>6. CASE c \notin inflight
  <2> DEFINE r == [proc[p] EXCEPT !.due = @ \ {c}, !.at = "gate", !.cap = c]
  <2>1. r \in Proc /\ r.at = "gate" /\ r.cap = c /\ r.left > 0
    BY <1>1, <1>4, ProcFields, CapRange DEF Proc, Points
  <2>2. Go(p, r) /\ inflight' = inflight \cup {c}
    BY <1>3, <1>6
  <2> HIDE DEF r
  <2>3. r.at \in InAttempt
    BY <2>1 DEF InAttempt
  <2>4. OneAttempt'
    BY <1>1, <1>6, <2>1, <2>2, <2>3, AttemptEnters, ProcFields DEF IInv
  <2>5. Shape(p, r)
    BY <1>4, <2>1, ProcFacts DEF Shape
  <2>6. FlagStep(p, r)
    BY <1>1, <1>2, <2>1, ProcFields, ProcFacts DEF FlagStep, IInv, FlagIsReal
  <2>7. inflight \subseteq inflight' /\ inflight' \subseteq Captures
    BY <1>1, <1>4, <2>2, ProcFields
  <2> QED BY <1>1, <1>2, <2>1, <2>2, <2>4, <2>5, <2>6, <2>7, MoveInv, ProcFields
<1> QED BY <1>5, <1>6

\* _sweep_in_progress goes up with its sweep.
LEMMA SweepBegins ==
  ASSUME IInv, NEW at \in {"begin", "clear"}, ~busy, busy' = TRUE, Go(Ticked, [Off EXCEPT !.at = at]),
         UNCHANGED <<disk, inflight, received>>, RestT'
  PROVE  IInv'
<1>1. Ticked \in Procs /\ At(Ticked, "off") /\ ~Attempting(Ticked) /\ ~At(Ticked, "reconcile")
  BY ProcFacts DEF IInv, FlagIsReal, At, Attempting, InAttempt
<1> DEFINE r == [Off EXCEPT !.at = at]
<1>2. r \in Proc /\ r.at = at
  BY OffType DEF Proc, Points
<1>3. Go(Ticked, r)
  OBVIOUS
<1> HIDE DEF r
<1>4. r.at \notin InAttempt /\ r.at # "reconcile"
  BY <1>2 DEF InAttempt
<1>5. FlagStep(Ticked, r)
  BY <1>2 DEF FlagStep
<1> QED BY <1>1, <1>2, <1>3, <1>4, <1>5, SweepShape, OutsideMove, ProcFacts

LEMMA PeriodicSweepInv == ASSUME IInv, PeriodicSweep PROVE IInv'
<1>1. RestT'
  BY RestStays DEF PeriodicSweep
<1> QED BY <1>1, SweepBegins DEF PeriodicSweep

LEMMA UserSweepInv == ASSUME IInv, UserSweep PROVE IInv'
<1>1. Idle \in Settings /\ Idle.at = "idle"
  BY BoundsAssumption DEF Idle, Settings
<1>2. RestT'
  BY <1>1 DEF UserSweep, IInv, TypeOK, RestT, pauseVars, bounded
<1>3. CASE busy
  BY <1>2, <1>3, OutsideInv DEF UserSweep, IInv, TypeOK
<1>4. CASE ~busy
  BY <1>2, <1>4, SweepBegins DEF UserSweep
<1> QED BY <1>3, <1>4

-----------------------------------------------------------------------------
(* The live pipeline *)

LEMMA SessionKeptInv == ASSUME IInv, NEW c \in Captures, SessionKept(c) PROVE IInv'
<1>1. Live(c) \in Procs /\ Live(c) \notin Sweeps /\ ~Attempting(Live(c)) /\ ~At(Live(c), "reconcile")
  BY ProcFacts DEF SessionKept, At, Attempting, InAttempt
<1> DEFINE r == [Off EXCEPT !.at = "write", !.cap = c]
<1>2. r \in Proc /\ r.at = "write" /\ r.cap = c
  BY OffType, CapRange DEF Proc, Points
<1>3. Go(Live(c), r) /\ UNCHANGED <<disk, inflight, received, busy>> /\ RestT'
  BY RestStays DEF SessionKept
<1> HIDE DEF r
<1>4. Shape(Live(c), r) /\ r.at \notin InAttempt
  BY <1>1, <1>2, ProcFacts DEF Shape, InAttempt
<1>5. FlagStep(Live(c), r)
  BY <1>1, <1>3, ProcFields, ProcFacts DEF FlagStep
<1> QED BY <1>1, <1>2, <1>3, <1>4, <1>5, OutsideMove

LEMMA LiveTriesInv == ASSUME IInv, NEW c \in Captures, LiveTries(c) PROVE IInv'
<1>1. /\ Live(c) \in Procs /\ Live(c) \notin Sweeps /\ ~Attempting(Live(c)) /\ ~At(Live(c), "reconcile")
      /\ At(Live(c), "try")
  BY ProcFacts DEF LiveTries, At, Attempting, InAttempt
<1>2. UNCHANGED <<disk, received, busy>> /\ RestT'
  BY RestStays DEF LiveTries
<1>3. CASE c \in inflight
  <2>1. Go(Live(c), Off) /\ UNCHANGED inflight
    BY <1>3 DEF LiveTries
  <2>2. FlagStep(Live(c), Off)
    BY <1>1, <1>2, ProcFields, ProcFacts DEF FlagStep
  <2> QED BY <1>1, <1>2, <2>1, <2>2, OffType, OffShape, OutsideMove DEF InAttempt
<1>4. CASE c \notin inflight
  <2> DEFINE r == [proc[Live(c)] EXCEPT !.at = "start"]
  <2>1. r \in Proc /\ r.at = "start" /\ r.cap = proc[Live(c)].cap
    BY <1>1, GoToStep DEF Points
  <2>2. Go(Live(c), r) /\ inflight' = inflight \cup {c}
    BY <1>4 DEF LiveTries, GoTo
  <2> HIDE DEF r
  <2>3. r.cap = c
    BY <1>1, <2>1, ProcFields DEF Shape, At
  <2>4. r.at \in InAttempt
    BY <2>1 DEF InAttempt
  <2>5. OneAttempt'
    BY <1>1, <1>4, <2>1, <2>2, <2>3, <2>4, AttemptEnters, ProcFields DEF IInv
  <2>6. Shape(Live(c), r)
    BY <1>1, <2>1, <2>3, ProcFacts DEF Shape
  <2>7. FlagStep(Live(c), r)
    BY <1>1, <1>2, ProcFields, ProcFacts DEF FlagStep
  <2>8. inflight \subseteq inflight' /\ inflight' \subseteq Captures
    BY <1>1, <2>2, ProcFields
  <2> QED BY <1>1, <1>2, <2>1, <2>2, <2>3, <2>5, <2>6, <2>7, <2>8, MoveInv, ProcFields
<1> QED BY <1>3, <1>4

\* The capture being written is not in flight and no process but its own has it.
LEMMA SinkWritesInv == ASSUME IInv, NEW c \in Captures, SinkWrites(c) PROVE IInv'
<1> DEFINE p == Live(c)
           r == [proc[p] EXCEPT !.at = "try"]
           rec == [Absent EXCEPT !.st = "pending"]
<1>1. p \in Procs /\ p \notin Sweeps /\ At(p, "write") /\ ~Attempting(p) /\ ~At(p, "reconcile")
  BY ProcFacts DEF SinkWrites, At, Attempting, InAttempt
<1>2. r \in Proc /\ r.at = "try" /\ r.cap = proc[p].cap
  BY <1>1, GoToStep DEF Points
<1>3. Go(p, r) /\ UNCHANGED <<inflight, busy, received>> /\ disk' = [disk EXCEPT ![c] = rec]
  BY DEF SinkWrites, GoTo
<1>4. RestT'
  BY RestStays DEF SinkWrites
<1> HIDE DEF r
<1>e. Absent \in Record
  BY AbsentType
<1>5. rec \in Record /\ rec.st = "pending"
  BY <1>e DEF Record, Statuses
<1> HIDE DEF rec
<1>6. /\ disk' \in [Captures -> Record] /\ disk'[c].st = "pending"
      /\ \A d \in Captures \ {c} : disk'[d] = disk[d]
  BY <1>1, <1>3, <1>5, ProcFields
<1>a. r.cap = c
  BY <1>1, <1>2, ProcFields DEF Shape, At
<1>b. r.at \notin InAttempt
  BY <1>2 DEF InAttempt
<1>c. Shape(p, r)
  BY <1>1, <1>2, <1>a, <1>b, ProcFacts DEF Shape
<1>d. FlagStep(p, r)
  BY <1>1, <1>3, ProcFields, ProcFacts DEF FlagStep
<1> HIDE DEF p
<1>7. Shape(p, r) /\ r.at \notin InAttempt /\ FlagStep(p, r)
  BY <1>b, <1>c, <1>d
<1>8. proc' \in [Procs -> Proc] /\ proc'[p] = r /\ \A q \in Procs : q # p => proc'[q] = proc[q]
  BY <1>1, <1>2, <1>3, GoStep, ProcFields
<1>9. TypeOK' /\ ShapeInv'
  BY <1>1, <1>2, <1>3, <1>4, <1>6, <1>7, <1>8, GoShape, TypeParts, ProcFields DEF IInv
<1>10. OneAttempt'
  BY <1>1, <1>2, <1>3, <1>7, OutsideStays, ProcFields DEF IInv
<1>11. ResultInv'
  BY <1>2, <1>3, <1>6, <1>8 DEF IInv, ResultInv, At, ShapeInv, Shape, InAttempt
<1>12. UploadedIsReceived'
  BY <1>3, <1>6 DEF IInv, UploadedIsReceived
<1>13. InFlightIsReal'
  BY <1>1, <1>3, <1>6, <1>8, ProcFacts DEF IInv, InFlightIsReal, At
<1>14. FlagIsReal'
  BY <1>1, <1>2, <1>3, <1>7, GoFlag, ProcFields DEF IInv
<1> QED BY <1>9, <1>10, <1>11, <1>12, <1>13, <1>14 DEF IInv

-----------------------------------------------------------------------------
(* Attempts *)

LEMMA AttemptGateInv == ASSUME IInv, NEW p \in Procs, AttemptGate(p) PROVE IInv'
<1>1. Attempting(p) /\ RestT' /\ UNCHANGED <<disk, inflight, busy, received>>
  BY RestStays DEF AttemptGate, At, Attempting, InAttempt
<1>2. CASE ~Paused
  <2> DEFINE r == [proc[p] EXCEPT !.at = "start"]
  <2>1. r \in Proc /\ r.at = "start" /\ r.cap = proc[p].cap /\ r.left = proc[p].left
    BY GoToStep DEF Points
  <2>2. Go(p, r)
    BY <1>2 DEF AttemptGate
  <2>3. r.at \in InAttempt \ {"handle"}
    BY <2>1 DEF InAttempt
  <2> HIDE DEF r
  <2> QED BY <1>1, <2>1, <2>2, <2>3, AttemptMove, ProcFields
<1>3. CASE Paused
  <2> DEFINE out == IF credit = "ahead" THEN "credit" ELSE "auth"
             r == [proc[p] EXCEPT !.at = "blocked", !.out = out]
  <2>1. out \in {"credit", "auth"} /\ out \in Outcomes
    BY DEF Outcomes, Failures
  <2>2. Go(p, r)
    BY <1>3 DEF AttemptGate
  <2> HIDE DEF out
  <2>3. r \in Proc /\ r.at = "blocked" /\ r.out = out /\ r.cap = proc[p].cap /\ r.left = proc[p].left
    BY <2>1, ProcFields DEF Proc, Points
  <2>4. r.at \in InAttempt \ {"handle"}
    BY <2>3 DEF InAttempt
  <2> HIDE DEF r
  <2> QED BY <1>1, <2>1, <2>2, <2>3, <2>4, AttemptMove, ProcFields
<1> QED BY <1>2, <1>3

LEMMA PostBeginsInv == ASSUME IInv, NEW p \in Procs, PostBegins(p) PROVE IInv'
<1>1. Attempting(p) /\ RestT' /\ UNCHANGED <<disk, inflight, busy, received>>
  BY RestStays DEF PostBegins, At, Attempting, InAttempt
<1>2. CASE OnDisk(proc[p].cap)
  <2> DEFINE r == [proc[p] EXCEPT !.at = "post"]
  <2>1. r \in Proc /\ r.at = "post" /\ r.cap = proc[p].cap /\ r.left = proc[p].left
    BY GoToStep DEF Points
  <2>2. Go(p, r)
    BY <1>2 DEF PostBegins
  <2>3. r.at \in InAttempt \ {"handle"}
    BY <2>1 DEF InAttempt
  <2> HIDE DEF r
  <2> QED BY <1>1, <2>1, <2>2, <2>3, AttemptMove, ProcFields
<1>3. CASE ~OnDisk(proc[p].cap)
  <2> DEFINE r == [proc[p] EXCEPT !.at = "result", !.out = "other"]
  <2>1. "other" \in Outcomes
    BY DEF Outcomes, Failures
  <2>2. r \in Proc /\ r.at = "result" /\ r.out = "other" /\ r.cap = proc[p].cap /\ r.left = proc[p].left
    BY <2>1, ProcFields DEF Proc, Points
  <2>3. Go(p, r)
    BY <1>3 DEF PostBegins
  <2>4. r.at \in InAttempt \ {"handle"}
    BY <2>2 DEF InAttempt
  <2> HIDE DEF r
  <2> QED BY <1>1, <2>1, <2>2, <2>3, <2>4, AttemptMove, ProcFields
<1> QED BY <1>2, <1>3

\* A POST comes to an end; only an acknowledged one is a success.
LEMMA PostEnds ==
  ASSUME IInv, NEW p \in Procs, At(p, "post"), NEW out \in Outcomes, NEW got,
         got \in {received, received \cup {proc[p].cap}}, received' = got,
         out = "success" => proc[p].cap \in got,
         Go(p, [proc[p] EXCEPT !.at = "result", !.out = out]),
         UNCHANGED <<disk, inflight, busy>>, RestT'
  PROVE  IInv'
<1> DEFINE r == [proc[p] EXCEPT !.at = "result", !.out = out]
<1>1. Attempting(p)
  BY DEF At, Attempting, InAttempt
<1>2. r \in Proc /\ r.at = "result" /\ r.out = out /\ r.cap = proc[p].cap /\ r.left = proc[p].left
  BY ProcFields DEF Proc, Points
<1>3. Go(p, r)
  OBVIOUS
<1>4. r.at \in InAttempt \ {"handle"}
  BY <1>2 DEF InAttempt
<1>5. received \subseteq received' /\ received' \subseteq Captures
  BY <1>1, AttemptFacts, ProcFields
<1> HIDE DEF r
<1> QED BY <1>1, <1>2, <1>3, <1>4, <1>5, AttemptMove

LEMMA PostSucceedsInv == ASSUME IInv, NEW p \in Procs, PostSucceeds(p) PROVE IInv'
<1>1. RestT'
  BY RestStays DEF PostSucceeds
<1>2. "success" \in Outcomes
  BY DEF Outcomes
<1> QED BY <1>1, <1>2, PostEnds DEF PostSucceeds

LEMMA PostFailsInv == ASSUME IInv, NEW p \in Procs, PostFails(p) PROVE IInv'
<1>1. RestT' /\ UNCHANGED <<disk, inflight, busy>> /\ At(p, "post")
  BY RestStays DEF PostFails
<1>2. PICK out \in Answers, got \in BOOLEAN :
        /\ received' = IF got THEN received \cup {proc[p].cap} ELSE received
        /\ Go(p, [proc[p] EXCEPT !.at = "result", !.out = out])
  BY DEF PostFails
<1>3. out \in Outcomes /\ out # "success"
  BY AnswersAssumption DEF Outcomes, Failures
<1> QED BY <1>1, <1>2, <1>3, PostEnds

\* The update raised: the caller gives the attempt up.
LEMMA RaisesInv ==
  ASSUME IInv, NEW p \in Procs, Attempting(p), Raises(p), ~OnDisk(proc[p].cap),
         UNCHANGED <<disk, received>>, RestT'
  PROVE  IInv'
<1> DEFINE c == proc[p].cap
<1>1. Go(p, Off) /\ Shape(p, Off) /\ FlagStep(p, Off) /\ inflight' = inflight \ {c}
  BY SweepEndsStep DEF Raises
<1>2. c \in Captures /\ disk'[c].st \notin {"uploaded", "in_flight"}
  BY AttemptFacts DEF OnDisk, Statuses
<1>3. disk' \in [Captures -> Record] /\ \A d \in Captures \ {c} : disk'[d] = disk[d]
  BY ProcFields
<1>4. Off.at \notin InAttempt \cup {"reconcile", "result", "handle"}
  BY OffType DEF InAttempt
<1> HIDE DEF c
<1> QED BY <1>1, <1>2, <1>3, <1>4, OffType, AttemptInv DEF c

\* The outcome is recorded and the attempt returns.
LEMMA RecordedInv ==
  ASSUME IInv, NEW p \in Procs, Attempting(p), NEW out \in Outcomes, NEW out2, Returns(p, out2),
         OnDisk(proc[p].cap), disk' = [disk EXCEPT ![proc[p].cap] = Applied(@, out)],
         out = "success" => proc[p].cap \in received,
         UNCHANGED received, RestT'
  PROVE  IInv'
<1>1. PICK c : c = proc[p].cap
  OBVIOUS
<1>2. c \in Captures
  BY <1>1, AttemptFacts
<1>3. PICK r \in Proc : Go(p, r) /\ Shape(p, r) /\ FlagStep(p, r) /\ r.at \in {"off", "next"}
  BY ReturnsStep
<1>4. inflight' = inflight \ {c}
  BY <1>1, ReturnsStep
<1>5. /\ Applied(disk[c], out) \in Record
      /\ Applied(disk[c], out).st # "in_flight"
      /\ Applied(disk[c], out).st = "uploaded" => out = "success"
  BY <1>2, AppliedType, ProcFields
<1>6. disk' = [disk EXCEPT ![c] = Applied(disk[c], out)]
  BY <1>1
<1>7. /\ disk' \in [Captures -> Record] /\ disk'[c] = Applied(disk[c], out)
      /\ \A d \in Captures \ {c} : disk'[d] = disk[d]
  BY <1>2, <1>5, <1>6, ProcFields
<1>8. disk'[c].st # "in_flight" /\ (disk'[c].st = "uploaded" => c \in received)
  BY <1>1, <1>5, <1>7
<1>9. r.at \notin InAttempt \cup {"reconcile", "result", "handle"}
  BY <1>3 DEF InAttempt
<1> QED BY <1>1, <1>2, <1>3, <1>4, <1>7, <1>8, <1>9, AttemptInv

LEMMA AttemptBlockedInv == ASSUME IInv, NEW p \in Procs, AttemptBlocked(p) PROVE IInv'
<1>1. Attempting(p) /\ RestT' /\ UNCHANGED received /\ At(p, "blocked")
  BY RestStays DEF AttemptBlocked, At, Attempting, InAttempt
<1>2. proc[p].out \in {"credit", "auth"} /\ proc[p].out \in Outcomes
  BY <1>1, ProcFields DEF Shape, At, Outcomes, Failures
<1>3. CASE OnDisk(proc[p].cap)
  BY <1>1, <1>2, <1>3, RecordedInv DEF AttemptBlocked
<1>4. CASE ~OnDisk(proc[p].cap)
  BY <1>1, <1>4, RaisesInv DEF AttemptBlocked
<1> QED BY <1>3, <1>4

LEMMA AttemptStartsInv == ASSUME IInv, NEW p \in Procs, AttemptStarts(p) PROVE IInv'
<1>1. Attempting(p) /\ RestT' /\ UNCHANGED received
  BY RestStays DEF AttemptStarts, At, Attempting, InAttempt
<1>2. CASE OnDisk(proc[p].cap)
  <2> DEFINE r == [proc[p] EXCEPT !.at = "sem"]
  <2>1. r \in Proc /\ r.at = "sem" /\ r.cap = proc[p].cap /\ r.left = proc[p].left
    BY GoToStep DEF Points
  <2>2. PICK c : c = proc[p].cap
    OBVIOUS
  <2>3. c \in Captures /\ c \in inflight /\ (p \in Sweeps => proc[p].left > 0)
    BY <1>1, <2>2, AttemptFacts
  <2>4. disk' = [disk EXCEPT ![c] = Started(disk[c])] /\ Go(p, r) /\ UNCHANGED <<inflight, busy>>
    BY <1>2, <2>2 DEF AttemptStarts, GoTo
  <2> HIDE DEF r
  <2>5. Started(disk[c]) \in Record /\ Started(disk[c]).st = "in_flight"
    BY <2>3, StartedType, ProcFields
  <2>6. /\ disk' \in [Captures -> Record] /\ disk'[c].st = "in_flight"
        /\ \A d \in Captures \ {c} : disk'[d] = disk[d]
    BY <2>3, <2>4, <2>5, ProcFields
  <2>7. r.at \in InAttempt /\ r.at \notin {"off", "reconcile", "result", "handle", "blocked"}
    BY <2>1 DEF InAttempt
  <2>8. Shape(p, r)
    BY <1>1, <2>1, <2>2, <2>3, <2>7, AttemptFacts, ProcFields DEF Shape
  <2>9. FlagStep(p, r)
    BY <1>1, <2>4, <2>7, AttemptFacts, ProcFields DEF FlagStep
  <2> QED BY <1>1, <2>1, <2>2, <2>3, <2>4, <2>6, <2>7, <2>8, <2>9, AttemptInv
<1>3. CASE ~OnDisk(proc[p].cap)
  BY <1>1, <1>3, RaisesInv DEF AttemptStarts
<1> QED BY <1>2, <1>3

\* A refused capture: its pause is armed next.
LEMMA HandleInv ==
  ASSUME IInv, NEW p \in Procs, At(p, "result"), proc[p].out \in {"credit", "auth"}, OnDisk(proc[p].cap),
         disk' = [disk EXCEPT ![proc[p].cap] = Applied(@, proc[p].out)], GoTo(p, "handle"),
         UNCHANGED <<inflight, busy, received>>, RestT'
  PROVE  IInv'
<1> DEFINE r == [proc[p] EXCEPT !.at = "handle"]
<1>1. r \in Proc /\ r.at = "handle" /\ r.cap = proc[p].cap /\ r.left = proc[p].left /\ r.out = proc[p].out
  BY GoToStep DEF Points
<1>2. Go(p, r) /\ Attempting(p)
  BY DEF GoTo, At, Attempting, InAttempt
<1>3. PICK c, out : c = proc[p].cap /\ out = proc[p].out
  OBVIOUS
<1> HIDE DEF r
<1>4. c \in Captures /\ (p \in Sweeps => proc[p].left > 0)
  BY <1>2, <1>3, AttemptFacts
<1>5. out \in Outcomes /\ out # "success"
  BY <1>3 DEF Outcomes, Failures
<1>6. Applied(disk[c], out) \in Record /\ Applied(disk[c], out).st \notin {"in_flight", "uploaded"}
  BY <1>4, <1>5, AppliedType, ProcFields
<1>7. disk' = [disk EXCEPT ![c] = Applied(disk[c], out)]
  BY <1>3
<1>a. /\ disk' \in [Captures -> Record] /\ disk'[c] = Applied(disk[c], out)
      /\ \A d \in Captures \ {c} : disk'[d] = disk[d]
  BY <1>4, <1>6, <1>7, FilesType
<1>8. disk'[c].st # "in_flight" /\ disk'[c].st # "uploaded"
  BY <1>6, <1>a
<1>9. r.at \in InAttempt /\ r.at \notin {"off", "reconcile", "result", "blocked"}
  BY <1>1 DEF InAttempt
<1>10. Shape(p, r)
  BY <1>1, <1>2, <1>3, <1>4, <1>9, AttemptFacts, ProcFields DEF Shape
<1>11. FlagStep(p, r)
  BY <1>2, <1>9, AttemptFacts, ProcFields DEF FlagStep
<1> QED BY <1>1, <1>2, <1>3, <1>4, <1>a, <1>8, <1>9, <1>10, <1>11, AttemptInv

LEMMA AttemptEndsInv == ASSUME IInv, NEW p \in Procs, AttemptEnds(p) PROVE IInv'
<1>1. Attempting(p) /\ RestT' /\ UNCHANGED received /\ At(p, "result")
  BY RestStays DEF AttemptEnds, At, Attempting, InAttempt
<1>2. proc[p].out \in Outcomes
  BY <1>1, ProcFields DEF Shape, At
<1>3. proc[p].out = "success" => proc[p].cap \in received
  BY <1>1 DEF IInv, ResultInv
<1>4. CASE OnDisk(proc[p].cap) /\ proc[p].out \in {"credit", "auth"}
  BY <1>1, <1>4, HandleInv DEF AttemptEnds
<1>5. CASE OnDisk(proc[p].cap) /\ proc[p].out \notin {"credit", "auth"}
  BY <1>1, <1>2, <1>3, <1>5, RecordedInv DEF AttemptEnds
<1>6. CASE ~OnDisk(proc[p].cap)
  BY <1>1, <1>6, RaisesInv DEF AttemptEnds
<1> QED BY <1>4, <1>5, <1>6

LEMMA PauseArmedInv == ASSUME IInv, NEW p \in Procs, PauseArmed(p) PROVE IInv'
<1>1. At(p, "handle") /\ Attempting(p) /\ UNCHANGED <<disk, received>>
  BY DEF PauseArmed, At, Attempting, InAttempt
<1>2. RestT'
  <2>1. UNCHANGED <<ui, bounded>> /\ credit' \in {"none", "ahead", "passed"} /\ auth' \in BOOLEAN
    BY DEF PauseArmed, IInv, TypeOK
  <2> QED BY <2>1, RestStays
<1>3. PICK c : c = proc[p].cap
  OBVIOUS
<1>4. c \in Captures /\ disk[c].st # "in_flight"
  BY <1>1, <1>3, AttemptFacts DEF IInv, ResultInv
<1>5. inflight' = inflight \ {c}
  BY <1>1, <1>3, ReturnsStep DEF PauseArmed
<1>6. PICK r \in Proc : Go(p, r) /\ Shape(p, r) /\ FlagStep(p, r) /\ r.at \in {"off", "next"}
  BY <1>1, ReturnsStep DEF PauseArmed
<1>7. disk'[c].st # "in_flight" /\ (disk'[c].st = "uploaded" => c \in received)
  BY <1>1, <1>4 DEF IInv, UploadedIsReceived
<1>8. disk' \in [Captures -> Record] /\ \A d \in Captures \ {c} : disk'[d] = disk[d]
  BY <1>1, ProcFields
<1>9. r.at \notin InAttempt \cup {"reconcile", "result", "handle"}
  BY <1>6 DEF InAttempt
<1> QED BY <1>1, <1>2, <1>3, <1>4, <1>5, <1>6, <1>7, <1>8, <1>9, AttemptInv

LEMMA AttemptStepInv == ASSUME IInv, NEW p \in Procs, Attempt(p) PROVE IInv'
BY AttemptGateInv, AttemptBlockedInv, AttemptStartsInv, PostBeginsInv, PostSucceedsInv, PostFailsInv,
   AttemptEndsInv, PauseArmedInv DEF Attempt

-----------------------------------------------------------------------------
(* The clock and Settings *)

LEMMA CreditRunsOutInv == ASSUME IInv, CreditRunsOut PROVE IInv'
<1>1. RestT'
  BY RestStays DEF CreditRunsOut, IInv, TypeOK
<1> QED BY <1>1, OutsideInv DEF CreditRunsOut, IInv, TypeOK

LEMMA BackoffEndsInv == ASSUME IInv, NEW c \in Captures, BackoffEnds(c) PROVE IInv'
<1>1. RestT'
  BY RestStays DEF BackoffEnds
<1>2. /\ disk' \in [Captures -> Record]
      /\ \A d \in Captures : disk'[d].st = disk[d].st
  <2>1. disk[c] \in Record /\ [disk[c] EXCEPT !.due = TRUE] \in Record
    BY FilesType DEF Record
  <2>2. disk' = [disk EXCEPT ![c] = [disk[c] EXCEPT !.due = TRUE]]
    BY DEF BackoffEnds
  <2>3. [disk[c] EXCEPT !.due = TRUE].st = disk[c].st
    BY <2>1 DEF Record
  <2> QED BY <2>1, <2>2, <2>3, FilesType
<1> QED BY <1>1, <1>2, OutsideInv DEF BackoffEnds

LEMMA RetryReadsInv == ASSUME IInv, NEW c \in Captures, RetryReads(c) PROVE IInv'
<1>1. disk[c] \in Record /\ c \in 0..N
  BY FilesType, CapRange
<1>2. ui' \in Settings /\ ui'.cap = c
  BY <1>1 DEF RetryReads, Settings, Record
<1>a. edits' \in 0..MaxEdits /\ crashes' \in 0..MaxCrashes
  BY BoundsAssumption DEF RetryReads, IInv, TypeOK
<1>3. RestT'
  BY <1>2, <1>a DEF RetryReads, RestT, IInv, TypeOK, pauseVars
<1> QED BY <1>3, OutsideInv, FilesType DEF RetryReads

LEMMA RetryWritesInv == ASSUME IInv, RetryWrites PROVE IInv'
<1>1. ui \in Settings /\ ui.cap \in Captures /\ disk \in [Captures -> Record]
  BY DEF RetryWrites, IInv, TypeOK, ShapeInv
<1>2. Idle \in Settings /\ Idle.at = "idle"
  BY BoundsAssumption DEF Idle, Settings
<1>3. [Idle EXCEPT !.at = "nudge"] \in Settings /\ [Idle EXCEPT !.at = "nudge"].at = "nudge"
  BY <1>2 DEF Settings
<1>4. ui' \in Settings /\ ui'.at # "read"
  BY <1>2, <1>3 DEF RetryWrites
<1>5. RestT'
  BY <1>4 DEF RetryWrites, RestT, IInv, TypeOK, pauseVars, bounded
<1> DEFINE rec == [st |-> "failed_transient", tries |-> ui.tries, due |-> TRUE, other |-> ui.other]
<1>6. rec \in Record /\ rec.st = "failed_transient"
  BY <1>1 DEF Settings, Record, Statuses
<1>7. disk' = disk \/ disk' = [disk EXCEPT ![ui.cap] = rec]
  BY DEF RetryWrites
<1> HIDE DEF rec
<1>8. /\ disk' \in [Captures -> Record]
      /\ \A d \in Captures : disk'[d] = disk[d] \/ disk'[d].st = "failed_transient"
  BY <1>1, <1>6, <1>7
<1> QED BY <1>5, <1>8, OutsideInv DEF RetryWrites

LEMMA DeleteCaptureInv == ASSUME IInv, NEW c \in Captures, DeleteCapture(c) PROVE IInv'
<1> DEFINE rec == [Absent EXCEPT !.st = "deleted"]
<1>1. rec \in Record /\ rec.st = "deleted"
  BY AbsentType DEF Record
<1>2. disk' = [disk EXCEPT ![c] = rec]
  BY DEF DeleteCapture
<1> HIDE DEF rec
<1>3. /\ disk' \in [Captures -> Record]
      /\ \A d \in Captures : disk'[d] = disk[d] \/ disk'[d].st = "deleted"
  BY <1>1, <1>2, FilesType
<1>a. edits' \in 0..MaxEdits /\ crashes' \in 0..MaxCrashes
  BY BoundsAssumption DEF DeleteCapture, IInv, TypeOK
<1>4. RestT'
  BY <1>a DEF DeleteCapture, RestT, IInv, TypeOK, ShapeInv, pauseVars
<1> QED BY <1>3, <1>4, OutsideInv DEF DeleteCapture

-----------------------------------------------------------------------------
(* Reconciliation and crashes *)

\* The startup sweep leaves no record in_flight: none is being attempted yet, or
\* its attempt was started by a live upload, which has its capture in flight.
LEMMA ReconcileInv == ASSUME IInv, Reconcile PROVE IInv'
<1> DEFINE Back(d) == [disk[d] EXCEPT !.st = "failed_transient", !.due = FALSE]
           r == [proc[Startup] EXCEPT !.at = "begin"]
<1>1. Startup \in Procs /\ Startup # Ticked /\ At(Startup, "reconcile") /\ ~Attempting(Startup)
  BY ProcFacts DEF Reconcile, At, Attempting, InAttempt
<1>2. r \in Proc /\ r.at = "begin" /\ r.cap = proc[Startup].cap
  BY <1>1, GoToStep DEF Points
<1>3. Go(Startup, r) /\ UNCHANGED <<inflight, busy, received>>
  BY DEF Reconcile, GoTo
<1>4. RestT'
  BY RestStays DEF Reconcile
<1> HIDE DEF r
<1>5. \A d \in Captures : Back(d) \in Record /\ Back(d).st = "failed_transient"
  BY FilesType DEF Record, Statuses
<1>6. disk' = [d \in Captures |-> IF disk[d].st = "in_flight" THEN Back(d) ELSE disk[d]]
  BY DEF Reconcile
<1> HIDE DEF Back
<1>7. /\ disk' \in [Captures -> Record]
      /\ \A d \in Captures : disk'[d].st # "in_flight" /\ (disk'[d] = disk[d] \/ disk'[d].st = "failed_transient")
  BY <1>5, <1>6, FilesType
<1>8. r.at \notin InAttempt
  BY <1>2 DEF InAttempt
<1>9. Shape(Startup, r)
  BY <1>8, SweepShape, ProcFacts
<1>10. FlagStep(Startup, r)
  BY <1>1, <1>3, ProcFields DEF FlagStep
<1>11. TypeOK' /\ ShapeInv'
  BY <1>1, <1>2, <1>3, <1>4, <1>7, <1>9, GoStep, GoShape, TypeParts, ProcFields DEF IInv
<1>12. OneAttempt'
  BY <1>1, <1>2, <1>3, <1>8, OutsideStays, ProcFields DEF IInv
<1>13. proc' \in [Procs -> Proc] /\ proc'[Startup] = r /\ \A q \in Procs : q # Startup => proc'[q] = proc[q]
  BY <1>1, <1>2, <1>3, GoStep, ProcFields
<1>14. ResultInv'
  BY <1>1, <1>2, <1>3, <1>7, <1>13 DEF IInv, ResultInv, ShapeInv, Shape, At, InAttempt
<1>15. UploadedIsReceived' /\ InFlightIsReal'
  BY <1>3, <1>7 DEF IInv, UploadedIsReceived, InFlightIsReal
<1>16. FlagIsReal'
  BY <1>1, <1>2, <1>3, <1>10, GoFlag, ProcFields DEF IInv
<1> QED BY <1>11, <1>12, <1>14, <1>15, <1>16 DEF IInv

\* A crash stops every process, so that nothing is being attempted; what the
\* files say of it is for the reconciliation.
LEMMA CrashInv == ASSUME IInv, Crash PROVE IInv'
<1>1. \A p \in Procs : proc'[p] = IF p = Startup THEN [Off EXCEPT !.at = "reconcile"] ELSE Off
  BY DEF Crash
<1>2. [Off EXCEPT !.at = "reconcile"] \in Proc
  BY OffType DEF Proc, Points
<1>3. \A p \in Procs : proc'[p].at = IF p = Startup THEN "reconcile" ELSE "off"
  BY <1>1, <1>2, OffType DEF Off
<1>4. proc' \in [Procs -> Proc]
  BY <1>2, OffType DEF Crash
<1>5. PICK st \in {"deleted", "corrupt"} :
        disk' = [d \in Captures |-> IF At(Live(d), "write") THEN [Absent EXCEPT !.st = st] ELSE disk[d]]
  BY DEF Crash
<1>6. [Absent EXCEPT !.st = st] \in Record /\ [Absent EXCEPT !.st = st].st = st
  BY AbsentType DEF Record
<1>7. /\ disk' \in [Captures -> Record]
      /\ \A d \in Captures : disk'[d] = disk[d] \/ disk'[d].st \in {"deleted", "corrupt"}
  BY <1>5, <1>6, FilesType
<1>8. PICK got \in SUBSET {proc[p].cap : p \in {q \in Procs : At(q, "post")}} : received' = received \cup got
  BY DEF Crash
<1>9. got \subseteq Captures
  <2>1. \A q \in Procs : At(q, "post") => proc[q].cap \in Captures
    BY AttemptFacts DEF At, Attempting, InAttempt
  <2> QED BY <2>1
<1>10. received \subseteq received' /\ received' \subseteq Captures
  BY <1>8, <1>9 DEF IInv, TypeOK
<1>11. inflight' = {} /\ busy' = FALSE
  BY DEF Crash
<1>12. RestT'
  BY BoundsAssumption DEF Crash, RestT, IInv, TypeOK, ShapeInv, pauseVars
<1>13. \A q \in Procs : Shape(q, proc'[q])
  BY <1>1, <1>3, ProcFacts, OffShape DEF Shape, InAttempt
<1>14. TypeOK' /\ ShapeInv'
  BY <1>4, <1>7, <1>10, <1>11, <1>12, <1>13, TypeParts
<1>15. ResultInv' /\ InFlightIsReal'
  BY <1>3, ProcFacts DEF ResultInv, InFlightIsReal, At
<1>16. OneAttempt'
  BY <1>3, <1>11 DEF OneAttempt, Attempting, InAttempt
<1>17. UploadedIsReceived'
  BY <1>7, <1>10 DEF IInv, UploadedIsReceived
<1>18. FlagIsReal'
  BY <1>3, <1>11, ProcFacts DEF FlagIsReal, At
<1> QED BY <1>14, <1>15, <1>16, <1>17, <1>18 DEF IInv

-----------------------------------------------------------------------------
(* The specification *)

LEMMA StutterInv == ASSUME IInv, UNCHANGED vars PROVE IInv'
<1>1. UNCHANGED <<disk, proc, inflight, busy, received>> /\ RestT'
  BY DEF vars, IInv, TypeOK, ShapeInv, RestT
<1> QED BY <1>1, OutsideInv, FilesType

LEMMA NextInv == ASSUME IInv, [Next]_vars PROVE IInv'
<1>1. CASE \E p \in Procs : Attempt(p)
  BY <1>1, AttemptStepInv
<1>2. CASE \E p \in Sweeps : Sweep(p)
  BY <1>2, SweepProbesInv, SweepCollectsInv, SweepStopsInv, SweepTriesInv DEF Sweep
<1>3. CASE \E c \in Captures : SessionKept(c) \/ LiveStep(c) \/ BackoffEnds(c) \/ RetryReads(c) \/ DeleteCapture(c)
  BY <1>3, SessionKeptInv, SinkWritesInv, LiveTriesInv, BackoffEndsInv, RetryReadsInv, DeleteCaptureInv DEF LiveStep
<1>4. CASE PeriodicSweep \/ UserSweep \/ ClearCreditPause
  BY <1>4, PeriodicSweepInv, UserSweepInv, ClearCreditPauseInv
<1>5. CASE Reconcile \/ RetryWrites \/ CreditRunsOut \/ Crash
  BY <1>5, ReconcileInv, RetryWritesInv, CreditRunsOutInv, CrashInv
<1>6. CASE UNCHANGED vars
  BY <1>6, StutterInv
<1> QED BY <1>1, <1>2, <1>3, <1>4, <1>5, <1>6 DEF Next

LEMMA Inductive == Spec => []IInv
<1>1. Init => IInv
  BY InitInv
<1>2. IInv /\ [Next]_vars => IInv'
  BY NextInv
<1> QED BY <1>1, <1>2, PTL DEF Spec

\* Every variable keeps its type; no count leaves its range.
THEOREM TypeCorrect == Spec => []TypeOK
<1>1. IInv => TypeOK
  BY DEF IInv
<1> QED BY <1>1, Inductive, PTL

\* The live upload of a capture, the startup sweep and the periodic or user's
\* sweep never attempt one capture at a time, and _inflight_rec_ids holds just the
\* captures being attempted, also after an update has raised or the agent died.
THEOREM SingleAttempt == Spec => []OneAttempt
<1>1. IInv => OneAttempt
  BY DEF IInv
<1> QED BY <1>1, Inductive, PTL

\* A record that says uploaded is about a capture the server acknowledged,
\* whatever Settings writes into it and deletes meanwhile.
THEOREM UploadsAreReceived == Spec => []UploadedIsReceived
<1>1. IInv => UploadedIsReceived
  BY DEF IInv
<1> QED BY <1>1, Inductive, PTL

\* After the startup reconciliation a record that says in_flight is one an
\* attempt is working on: no crash leaves it so for ever.
THEOREM InFlightIsAttempted == Spec => []InFlightIsReal
<1>1. IInv => InFlightIsReal
  BY DEF IInv
<1> QED BY <1>1, Inductive, PTL

\* _sweep_in_progress is up just while its sweep runs, also when it raises.
THEOREM FlagNeverSticks == Spec => []FlagIsReal
<1>1. IInv => FlagIsReal
  BY DEF IInv
<1> QED BY <1>1, Inductive, PTL
=============================================================================
