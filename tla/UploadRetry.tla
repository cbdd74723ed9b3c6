---------------------------- MODULE UploadRetry ----------------------------
(***************************************************************************)
(* Delivery of kept captures to the server: sayzo_agent/upload_retry.py    *)
(* and retry.py, with the three callers of the agent (the live pipeline,   *)
(* the startup sweep, the periodic or user-triggered sweep of app.py), the *)
(* Settings process that rewrites and deletes the same files, and crashes. *)
(*                                                                         *)
(* The agent is one asyncio loop with a one-thread executor for the files, *)
(* so each read-modify-write of record.json is one step of the agent; the  *)
(* Settings process is not synchronised with it.  The clock is             *)
(* nondeterministic.                                                       *)
(***************************************************************************)
EXTENDS Naturals

CONSTANTS
  N,          \* captures, numbered by started_at
  MaxOther,   \* cfg.upload.max_permanent_other_attempts
  PerSweep,   \* cfg.upload.max_uploads_per_sweep
  MaxCrashes, \* bound on the crashes explored
  MaxEdits,   \* bound on the retry requests and deletions made in Settings
  Answers     \* the failures an upload is taken to meet

ASSUME BoundsAssumption ==
  /\ N \in Nat /\ MaxOther \in Nat \ {0} /\ PerSweep \in Nat \ {0}
  /\ MaxCrashes \in Nat /\ MaxEdits \in Nat

Captures == 1..N

Startup == <<"startup", 0>>   \* startup_sweep()
Ticked  == <<"ticked", 0>>    \* the sweep that owns _sweep_in_progress
Live(c) == <<"live", c>>      \* _process_session of c
Sweeps  == {Startup, Ticked}
Lives   == {Live(c) : c \in Captures}
Procs   == Sweeps \cup Lives

Statuses == {"pending", "in_flight", "uploaded", "failed_transient", "failed_permanent",
             "credit_blocked", "auth_blocked"}
Terminal == {"uploaded", "failed_permanent"}
Failures == {"credit", "auth", "transient", "client", "other"}
Outcomes == {"success"} \cup Failures
ASSUME AnswersAssumption == Answers \subseteq Failures

\* metadata.upload of record.json, or what is in its place.  Only the test
\* against MaxOther reads attempts, so they are counted up to it.
Record == [st    : Statuses \cup {"none", "corrupt", "deleted"},
           tries : 0..MaxOther,
           due   : BOOLEAN,                  \* next_attempt_at has passed
           other : BOOLEAN]                  \* last_error_kind is permanent_other

\* off: not running; write, try: live, writing the capture, about to upload;
\* clear: user sweep, before clear_credit_pause; begin, probe, collect: sweep_once
\* before, in and after its token probe; next: its loop; gate ... handle: inside
\* _run_attempt.
Points == {"off", "write", "try", "reconcile", "clear", "begin", "probe",
           "collect", "next", "gate", "blocked", "start", "sem", "post", "result", "handle"}
InAttempt == {"gate", "blocked", "start", "sem", "post", "result", "handle"}

Proc == [at   : Points,
         cap  : 0..N,                     \* the capture it is about, 0 if none
         due  : SUBSET Captures,          \* a sweep's snapshot, still to visit
         left : 0..PerSweep,              \* its remaining budget
         out  : Outcomes \cup {"none"}]   \* what the POST came to

VARIABLES
  disk,       \* record.json of each capture
  proc,       \* the coroutines
  inflight,   \* _inflight_rec_ids
  busy,       \* _sweep_in_progress
  credit,     \* credit_blocked_until: none, ahead or passed
  auth,       \* auth_blocked
  ui,         \* Settings: the record a retry request has read
  received,   \* captures the server has, acknowledged or not
  crashes, edits

vars == <<disk, proc, inflight, busy, credit, auth, ui, received, crashes, edits>>
bounded == <<crashes, edits>>
pauseVars  == <<credit, auth>>

Off == [at |-> "off", cap |-> 0, due |-> {}, left |-> 0, out |-> "none"]
Absent == [st |-> "none", tries |-> 0, due |-> FALSE, other |-> FALSE]
Idle == [at |-> "idle", cap |-> 0, tries |-> 0, other |-> FALSE]
Settings == [at : {"idle", "read", "nudge"}, cap : 0..N, tries : 0..MaxOther, other : BOOLEAN]

TypeOK ==
  /\ disk \in [Captures -> Record] /\ proc \in [Procs -> Proc]
  /\ inflight \subseteq Captures /\ busy \in BOOLEAN
  /\ credit \in {"none", "ahead", "passed"} /\ auth \in BOOLEAN
  /\ ui \in Settings
  /\ received \subseteq Captures
  /\ crashes \in 0..MaxCrashes /\ edits \in 0..MaxEdits

Init ==
  /\ disk = [c \in Captures |-> Absent]
  /\ proc = [p \in Procs |-> IF p = Startup THEN [Off EXCEPT !.at = "reconcile"] ELSE Off]
  /\ inflight = {} /\ busy = FALSE /\ credit = "none" /\ auth = FALSE
  /\ ui = Idle /\ received = {}
  /\ crashes = 0 /\ edits = 0

----------------------------------------------------------------------------
(* retry.py *)

OnDisk(c) == disk[c].st \in Statuses

\* record_attempt_start
Started(r) ==
  [r EXCEPT !.st = "in_flight", !.due = FALSE,
            !.tries = IF @ < MaxOther THEN @ + 1 ELSE @]

\* Mutant: a refusal by the server counts as done.
AppliedRefused(r, out) ==
  [r EXCEPT !.due = FALSE, !.other = (out = "other"),
            !.st = CASE out \in {"success", "client"} -> "uploaded"
                     [] out = "credit"  -> "credit_blocked"
                     [] out = "auth"    -> "auth_blocked"
                     [] out = "other" /\ r.tries >= MaxOther -> "failed_permanent"
                     [] OTHER -> "failed_transient"]

\* record_attempt_result
Applied(r, out) ==
  [r EXCEPT !.due = FALSE, !.other = (out = "other"),
            !.st = CASE out = "success" -> "uploaded"
                     [] out = "credit"  -> "credit_blocked"
                     [] out = "auth"    -> "auth_blocked"
                     [] out = "client"  -> "failed_permanent"
                     [] out = "other" /\ r.tries >= MaxOther -> "failed_permanent"
                     [] OTHER -> "failed_transient"]

\* Mutant: a blocked record is not due.
DueUnblocked(r) == r.st \in {"pending", "in_flight"} \/ (r.st = "failed_transient" /\ r.due)

\* is_due and not is_terminal
Due(r) == r.st \in Statuses \ Terminal /\ (r.st = "failed_transient" => r.due)

----------------------------------------------------------------------------
(* Coroutine bookkeeping *)

At(p, at) == proc[p].at = at
Go(p, r)  == proc' = [proc EXCEPT ![p] = r]
GoTo(p, at) == Go(p, [proc[p] EXCEPT !.at = at])

\* A sweep returns, by its end or by an exception: its finally clears the flag.
SweepEnds(p) == Go(p, Off) /\ busy' = (busy /\ p # Ticked)

\* try_upload returns outcome out: a sweep stops at a pause, or goes on.
Returns(p, out) ==
  /\ inflight' = inflight \ {proc[p].cap}
  /\ IF p \in Lives \/ out \in {"credit", "auth"} THEN SweepEnds(p)
     ELSE Go(p, [proc[p] EXCEPT !.at = "next", !.cap = 0, !.out = "none", !.left = @ - 1])
          /\ UNCHANGED busy

\* Mutant: no finally, the flag stays up.
RaisesOff(p) == inflight' = inflight \ {proc[p].cap} /\ Go(p, Off) /\ UNCHANGED busy

\* The capture's directory is gone: the update raises through the caller.
Raises(p) == inflight' = inflight \ {proc[p].cap} /\ SweepEnds(p)

----------------------------------------------------------------------------
(* The pause: should_attempt clears a credit pause that has run out *)

Paused == credit = "ahead" \/ auth
ReadPause == credit' = (IF credit = "passed" THEN "none" ELSE credit) /\ UNCHANGED auth

CreditRunsOut ==
  /\ credit = "ahead" /\ credit' = "passed"
  /\ UNCHANGED <<disk, proc, inflight, busy, auth, ui, received, bounded>>

BackoffEnds(c) ==
  /\ disk[c].st = "failed_transient" /\ ~disk[c].due
  /\ disk' = [disk EXCEPT ![c].due = TRUE]
  /\ UNCHANGED <<proc, inflight, busy, pauseVars, ui, received, bounded>>

----------------------------------------------------------------------------
(* Live pipeline *)

SessionKept(c) ==
  /\ disk[c].st = "none" /\ At(Live(c), "off")
  /\ Go(Live(c), [Off EXCEPT !.at = "write", !.cap = c])
  /\ UNCHANGED <<disk, inflight, busy, pauseVars, ui, received, bounded>>

\* CaptureSink.write
SinkWrites(c) ==
  /\ At(Live(c), "write")
  /\ disk' = [disk EXCEPT ![c] = [Absent EXCEPT !.st = "pending"]]
  /\ GoTo(Live(c), "try")
  /\ UNCHANGED <<inflight, busy, pauseVars, ui, received, bounded>>

\* try_upload with the pause gate bypassed; nothing if a sweep has the capture.
LiveTries(c) ==
  /\ At(Live(c), "try")
  /\ IF c \in inflight THEN Go(Live(c), Off) /\ UNCHANGED inflight
                       ELSE GoTo(Live(c), "start") /\ inflight' = inflight \cup {c}
  /\ UNCHANGED <<disk, busy, pauseVars, ui, received, bounded>>

----------------------------------------------------------------------------
(* Sweeps *)

PeriodicSweep ==
  /\ ~busy /\ busy' = TRUE
  /\ Go(Ticked, [Off EXCEPT !.at = "begin"])
  /\ UNCHANGED <<disk, inflight, pauseVars, ui, received, bounded>>

\* nudge_upload_retry: refused while the flag is up.
UserSweep ==
  /\ ui.at = "nudge" /\ ui' = Idle
  /\ IF busy THEN UNCHANGED <<proc, busy>>
     ELSE busy' = TRUE /\ Go(Ticked, [Off EXCEPT !.at = "clear"])
  /\ UNCHANGED <<disk, inflight, pauseVars, received, bounded>>

ClearCreditPause ==
  /\ At(Ticked, "clear") /\ credit' = "none"
  /\ GoTo(Ticked, "begin")
  /\ UNCHANGED <<disk, inflight, busy, auth, ui, received, bounded>>

\* Mutant: a record at its last attempt is left alone.
ReconcileYoung ==
  /\ At(Startup, "reconcile")
  /\ disk' = [c \in Captures |-> IF disk[c].st = "in_flight" /\ disk[c].tries < MaxOther
                                 THEN [disk[c] EXCEPT !.st = "failed_transient", !.due = FALSE]
                                 ELSE disk[c]]
  /\ GoTo(Startup, "begin")
  /\ UNCHANGED <<inflight, busy, pauseVars, ui, received, bounded>>

\* _reconcile_stuck_records
Reconcile ==
  /\ At(Startup, "reconcile")
  /\ disk' = [c \in Captures |-> IF disk[c].st = "in_flight"
                                 THEN [disk[c] EXCEPT !.st = "failed_transient", !.due = FALSE]
                                 ELSE disk[c]]
  /\ GoTo(Startup, "begin")
  /\ UNCHANGED <<inflight, busy, pauseVars, ui, received, bounded>>

\* While auth-blocked a sweep first asks for a token ...
SweepProbes(p) ==
  /\ At(p, "begin") /\ auth
  /\ GoTo(p, "probe")
  /\ UNCHANGED <<disk, inflight, busy, pauseVars, ui, received, bounded>>

\* ... and unblocks if there is one, whatever happened meanwhile ...
TokenIsBack(p) ==
  /\ At(p, "probe") /\ auth' = FALSE
  /\ GoTo(p, "collect")
  /\ UNCHANGED <<disk, inflight, busy, credit, ui, received, bounded>>

NoToken(p) ==
  /\ At(p, "probe")
  /\ GoTo(p, "collect")
  /\ UNCHANGED <<disk, inflight, busy, pauseVars, ui, received, bounded>>

\* ... and then collects what is due, unless paused.
SweepCollects(p) ==
  /\ At(p, "collect") \/ (At(p, "begin") /\ ~auth)
  /\ ReadPause
  /\ IF Paused THEN SweepEnds(p)
     ELSE /\ Go(p, [proc[p] EXCEPT !.at = "next", !.left = PerSweep,
                                   !.due = {c \in Captures : Due(disk[c])}])
          /\ UNCHANGED busy
  /\ UNCHANGED <<disk, inflight, ui, received, bounded>>

SweepStops(p) ==
  /\ At(p, "next")
  /\ \/ (proc[p].due = {} \/ proc[p].left = 0) /\ UNCHANGED pauseVars
     \/ proc[p].due # {} /\ proc[p].left > 0 /\ Paused /\ ReadPause
  /\ SweepEnds(p)
  /\ UNCHANGED <<disk, inflight, ui, received, bounded>>

\* Mutant: the in-flight set is not consulted.
SweepTriesAny(p) ==
  /\ At(p, "next") /\ proc[p].left > 0 /\ ~Paused
  /\ ReadPause
  /\ \E c \in proc[p].due :
       /\ \A d \in proc[p].due : c <= d
       /\ Go(p, [proc[p] EXCEPT !.due = @ \ {c}, !.at = "gate", !.cap = c])
       /\ inflight' = inflight \cup {c}
  /\ UNCHANGED <<disk, busy, ui, received, bounded>>

\* Mutant: the budget is not checked.
SweepTriesOn(p) ==
  /\ At(p, "next") /\ ~Paused
  /\ ReadPause
  /\ \E c \in proc[p].due :
       /\ Go(p, [proc[p] EXCEPT !.due = @ \ {c}, !.at = "gate", !.cap = c])
       /\ c \notin inflight /\ inflight' = inflight \cup {c}
  /\ UNCHANGED <<disk, busy, ui, received, bounded>>

\* The oldest record of the snapshot is tried as it was then; one that is in
\* flight elsewhere is passed over.
SweepTries(p) ==
  /\ At(p, "next") /\ proc[p].left > 0 /\ ~Paused
  /\ ReadPause
  /\ \E c \in proc[p].due :
       /\ \A d \in proc[p].due : c <= d
       /\ IF c \in inflight
          THEN Go(p, [proc[p] EXCEPT !.due = @ \ {c}]) /\ UNCHANGED inflight
          ELSE /\ Go(p, [proc[p] EXCEPT !.due = @ \ {c}, !.at = "gate", !.cap = c])
               /\ inflight' = inflight \cup {c}
  /\ UNCHANGED <<disk, busy, ui, received, bounded>>

----------------------------------------------------------------------------
(* _run_attempt *)

\* The pause is read once more; a sweep's attempt may be turned away.
AttemptGate(p) ==
  /\ At(p, "gate")
  /\ ReadPause
  /\ Go(p, IF ~Paused THEN [proc[p] EXCEPT !.at = "start"]
           ELSE [proc[p] EXCEPT !.at = "blocked", !.out = IF credit = "ahead" THEN "credit" ELSE "auth"])
  /\ UNCHANGED <<disk, inflight, busy, ui, received, bounded>>

AttemptBlocked(p) ==
  LET c == proc[p].cap IN
  /\ At(p, "blocked")
  /\ IF OnDisk(c)
     THEN /\ disk' = [disk EXCEPT ![c] = Applied(@, proc[p].out)]
          /\ Returns(p, proc[p].out)
     ELSE Raises(p) /\ UNCHANGED disk
  /\ UNCHANGED <<pauseVars, ui, received, bounded>>

AttemptStarts(p) ==
  LET c == proc[p].cap IN
  /\ At(p, "start")
  /\ IF OnDisk(c)
     THEN /\ disk' = [disk EXCEPT ![c] = Started(@)]
          /\ GoTo(p, "sem") /\ UNCHANGED <<inflight, busy>>
     ELSE Raises(p) /\ UNCHANGED disk
  /\ UNCHANGED <<pauseVars, ui, received, bounded>>

\* max_concurrent_uploads = 1.  No audio file: the client raises at once.
PostBegins(p) ==
  /\ At(p, "sem") /\ \A q \in Procs : ~At(q, "post")
  /\ Go(p, IF OnDisk(proc[p].cap) THEN [proc[p] EXCEPT !.at = "post"]
           ELSE [proc[p] EXCEPT !.at = "result", !.out = "other"])
  /\ UNCHANGED <<disk, inflight, busy, pauseVars, ui, received, bounded>>

PostSucceeds(p) ==
  /\ At(p, "post")
  /\ received' = received \cup {proc[p].cap}
  /\ Go(p, [proc[p] EXCEPT !.at = "result", !.out = "success"])
  /\ UNCHANGED <<disk, inflight, busy, pauseVars, ui, bounded>>

\* A transient failure may hide that the server has the capture.
PostFails(p) ==
  /\ At(p, "post")
  /\ \E out \in Answers, got \in BOOLEAN :
       /\ got => out = "transient"
       /\ received' = IF got THEN received \cup {proc[p].cap} ELSE received
       /\ Go(p, [proc[p] EXCEPT !.at = "result", !.out = out])
  /\ UNCHANGED <<disk, inflight, busy, pauseVars, ui, bounded>>

AttemptEnds(p) ==
  LET c == proc[p].cap  out == proc[p].out IN
  /\ At(p, "result")
  /\ IF OnDisk(c)
     THEN /\ disk' = [disk EXCEPT ![c] = Applied(@, out)]
          /\ IF out \in {"credit", "auth"} THEN GoTo(p, "handle") /\ UNCHANGED <<inflight, busy>>
                                           ELSE Returns(p, out)
     ELSE Raises(p) /\ UNCHANGED disk
  /\ UNCHANGED <<pauseVars, ui, received, bounded>>

\* _handle_credit_limit, _handle_auth_required
PauseArmed(p) ==
  /\ At(p, "handle")
  /\ IF proc[p].out = "credit" THEN credit' = "ahead" /\ UNCHANGED auth
                               ELSE auth' = TRUE /\ UNCHANGED credit
  /\ Returns(p, proc[p].out)
  /\ UNCHANGED <<disk, ui, received, bounded>>

----------------------------------------------------------------------------
(* The Settings process: captures_index.py *)

\* request_retry reads the record, refusing an uploaded one ...
RetryReads(c) ==
  /\ ui.at = "idle" /\ OnDisk(c) /\ disk[c].st # "uploaded"
  /\ edits < MaxEdits /\ edits' = edits + 1
  /\ ui' = [at |-> "read", cap |-> c, tries |-> disk[c].tries, other |-> disk[c].other]
  /\ UNCHANGED <<disk, proc, inflight, busy, pauseVars, received, crashes>>

\* ... and writes it back as due now.
RetryWrites ==
  /\ ui.at = "read"
  /\ IF OnDisk(ui.cap)
     THEN /\ disk' = [disk EXCEPT ![ui.cap] = [st |-> "failed_transient", tries |-> ui.tries,
                                               due |-> TRUE, other |-> ui.other]]
          /\ ui' = [Idle EXCEPT !.at = "nudge"]
     ELSE ui' = Idle /\ UNCHANGED disk
  /\ UNCHANGED <<proc, inflight, busy, pauseVars, received, bounded>>

DeleteCapture(c) ==
  /\ OnDisk(c) \/ disk[c].st = "corrupt"
  /\ edits < MaxEdits /\ edits' = edits + 1
  /\ disk' = [disk EXCEPT ![c] = [Absent EXCEPT !.st = "deleted"]]
  /\ UNCHANGED <<proc, inflight, busy, pauseVars, ui, received, crashes>>

----------------------------------------------------------------------------
\* The agent dies and starts again: a capture being written is lost or left
\* unreadable, a POST may have arrived.
Crash ==
  /\ crashes < MaxCrashes /\ crashes' = crashes + 1
  /\ proc' = [p \in Procs |-> IF p = Startup THEN [Off EXCEPT !.at = "reconcile"] ELSE Off]
  /\ inflight' = {} /\ busy' = FALSE
  /\ \E lost \in BOOLEAN :
       disk' = [c \in Captures |-> IF At(Live(c), "write")
                                   THEN [Absent EXCEPT !.st = IF lost THEN "deleted" ELSE "corrupt"]
                                   ELSE disk[c]]
  /\ \E got \in SUBSET {proc[p].cap : p \in {q \in Procs : At(q, "post")}} : received' = received \cup got
  /\ UNCHANGED <<pauseVars, ui, edits>>

Attempt(p) ==
  \/ AttemptGate(p) \/ AttemptBlocked(p) \/ AttemptStarts(p) \/ PostBegins(p)
  \/ PostSucceeds(p) \/ PostFails(p) \/ AttemptEnds(p) \/ PauseArmed(p)

Sweep(p) ==
  \/ SweepProbes(p) \/ TokenIsBack(p) \/ NoToken(p)
  \/ SweepCollects(p) \/ SweepStops(p) \/ SweepTries(p)

LiveStep(c) == SinkWrites(c) \/ LiveTries(c)

Next ==
  \/ \E p \in Procs : Attempt(p)
  \/ \E p \in Sweeps : Sweep(p)
  \/ \E c \in Captures : SessionKept(c) \/ LiveStep(c) \/ BackoffEnds(c) \/ RetryReads(c) \/ DeleteCapture(c)
  \/ PeriodicSweep \/ UserSweep \/ ClearCreditPause \/ Reconcile \/ RetryWrites \/ CreditRunsOut \/ Crash

Spec == Init /\ [][Next]_vars

\* The loop runs what is ready, timers fire, and an attempt repeated for ever
\* is one day answered; so is the token probe.
Fairness ==
  /\ \A p \in Procs : WF_vars(Attempt(p)) /\ SF_vars(PostSucceeds(p))
  /\ \A p \in Sweeps : WF_vars(Sweep(p)) /\ SF_vars(TokenIsBack(p))
  /\ \A c \in Captures : WF_vars(LiveStep(c)) /\ WF_vars(BackoffEnds(c))
  /\ WF_vars(PeriodicSweep) /\ WF_vars(ClearCreditPause) /\ WF_vars(Reconcile) /\ WF_vars(CreditRunsOut)

FairSpec == Spec /\ Fairness

----------------------------------------------------------------------------
(* Properties *)

Attempting(p) == proc[p].at \in InAttempt

\* A capture marked uploaded is on the server: no misread answer, crash, retry
\* request or overlapping sweep lets the agent forget a recording it still owes.
UploadedIsReceived == \A c \in Captures : disk[c].st = "uploaded" => c \in received

\* One attempt per capture at a time, and the in-flight set holds exactly the
\* captures being attempted, whatever raises or is skipped: no capture is
\* locked out of every later sweep.
OneAttempt ==
  /\ inflight = {proc[p].cap : p \in {q \in Procs : Attempting(q)}}
  /\ \A p, q \in Procs : Attempting(p) /\ Attempting(q) /\ proc[p].cap = proc[q].cap => p = q

\* Once the startup reconciliation is over, a record says in_flight only while
\* an attempt on it runs: a crash never leaves one "uploading" for ever.
InFlightIsReal ==
  \A c \in Captures :
    disk[c].st = "in_flight" /\ ~At(Startup, "reconcile") => c \in inflight

\* The sweep flag is up exactly while its sweep runs: it never sticks, which
\* would end background edits until a restart.
FlagIsReal == busy <=> ~At(Ticked, "off")

\* A pause is only waited out or lifted, and what it blocked is due again: no
\* record is stranded in a blocked state that no sweep picks up.  (With a server
\* that answers in the end, every capture on disk is settled.)
EveryCaptureSettles ==
  \A c \in Captures : OnDisk(c) ~> (disk[c].st \in Terminal \cup {"deleted"})

\* What the sources say and some interleaving of the code does not keep.

\* "test_sweep_skips_terminal_records" (tests/test_upload_retry.py:740): nothing
\* uploaded or given up is attempted again.
TerminalIsSkipped ==
  [][\A p \in Procs : AttemptStarts(p) => disk[proc[p].cap].st \notin Terminal]_vars

\* request_retry "refuses records that are already uploaded"
\* (captures_index.py:370-371).
RetryRefusesUploaded == [][RetryWrites => disk[ui.cap].st # "uploaded"]_vars

\* "After this many PERMANENT_OTHER attempts, give up on the record"
\* (retry.py:52): never on the first one, when more than one is allowed.
GivesUpAfterRepeats ==
  [][\A p \in Procs : AttemptEnds(p) /\ proc[p].out = "other" /\ OnDisk(proc[p].cap)
                       /\ proc[p].cap \notin received /\ MaxOther > 1
        => (disk'[proc[p].cap].st = "failed_permanent" => disk[proc[p].cap].other)]_vars

=============================================================================
