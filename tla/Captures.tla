------------------------------ MODULE Captures ------------------------------
(***************************************************************************)
(* A capture after its session has closed: the row the agent shows while   *)
(* it works on it (app.py), the record it writes (sink.py), the upload and *)
(* who owns the one toast about it (upload_retry.py), the poll for the     *)
(* server's title and insight (capture_poller.py), and the Captures pane   *)
(* of the Settings process, which lists and deletes the same directories   *)
(* (captures_index.py, gui/settings/bridge.py).  The states of an upload   *)
(* are UploadRetry's; here an attempt wins or loses.                       *)
(***************************************************************************)
EXTENDS Naturals, FiniteSets

CONSTANTS
    Caps,       \* the captures, numbered in the order their sessions closed
    Ticks,      \* fetches of one poll, DEFAULT_POLL_SCHEDULE
    Holds,      \* waits of a toast that finds the user recording again
    Kept,       \* bound: the captures whose session may pass the gate
    StubCap,    \* skipped sessions kept, DROPPED_STUB_CAP
    MaxWins,    \* bound: successful uploads of one capture
    MaxCrashes  \* bound: deaths of the agent

ASSUME CapturesAssumption ==
    Caps \subseteq Nat \ {0} /\ Kept \subseteq Caps
    /\ {Ticks, Holds, StubCap, MaxWins, MaxCrashes} \subseteq Nat

VARIABLES
    up,         \* the agent runs
    task,       \* of a capture: _process_session and how far it is
    file,       \* its directory: none, torn (no readable record.json), whole
    status,     \* metadata.upload.status of a whole record
    job,        \* what the one worker of the executor is writing
    att,        \* the upload attempt on a capture
    live,       \* the captures whose attempt is the live one
    sweep,      \* the records a sweep has collected and the one it is at
    wins,       \* uploads of a capture that succeeded
    poll,       \* of a capture and a success: CapturePoller.poll
    feedback,   \* notify_capture_feedback in the running agent
    pane,       \* a listing of the Captures pane
    deleting, deleted,
    crashes,
    steady      \* history: captures known at every moment of the listing

captureVars == <<up, task, file, status, job, att, live, sweep, wins, poll, feedback,
                 pane, deleting, deleted, crashes, steady>>

Idle == [cap |-> 0, does |-> "nothing"]
NoSweep == [due |-> {}, at |-> 0]
NoPoll == [at |-> "none", owns |-> FALSE, left |-> 0, cached |-> FALSE,
           saw |-> "none", toasts |-> 0]
Row(c) == task[c] \in {"row", "stub", "written", "trying"}
Recorded(c) == status[c] # "none" /\ c \notin deleting \cup deleted
Known(c) == Row(c) \/ Recorded(c)
Polls == Kept \X (1 .. MaxWins)

CapturesTypeOK ==
    /\ up \in BOOLEAN
    /\ task \in [Caps -> {"unborn", "row", "stub", "written", "trying", "over"}]
    /\ file \in [Caps -> {"none", "torn", "whole"}]
    /\ status \in [Caps -> {"none", "pending", "in_flight", "uploaded", "failed", "discarded"}]
    /\ job.cap \in Caps \cup {0}
    /\ att \in [Caps -> {"no", "begin", "post", "won", "lost"}]
    /\ live \subseteq {c \in Caps : task[c] = "trying"}
    /\ wins \in [Caps -> 0 .. MaxWins]

CapturesInit ==
    /\ up = TRUE /\ job = Idle /\ sweep = NoSweep /\ crashes = 0
    /\ task = [c \in Caps |-> "unborn"]
    /\ file = [c \in Caps |-> "none"]
    /\ status = [c \in Caps |-> "none"]
    /\ att = [c \in Caps |-> "no"]
    /\ wins = [c \in Caps |-> 0]
    /\ poll = [p \in Polls |-> NoPoll]
    /\ feedback \in BOOLEAN
    /\ pane = [at |-> "idle", snap |-> {}, seen |-> {}, left |-> {}]
    /\ live = {} /\ deleting = {} /\ deleted = {} /\ steady = {}

-----------------------------------------------------------------------------
(* The session's task.  Its row is in _processing_state from the close to  *)
(* the end of the live upload, whatever way the task ends.                  *)
SessionCloses(c) ==
    /\ up /\ task[c] = "unborn" /\ \A d \in Caps : d < c => task[d] # "unborn"
    /\ \E t \in {"stub"} \cup {"row" : d \in Kept \cap {c}} : task' = [task EXCEPT ![c] = t]
    /\ UNCHANGED <<up, file, status, job, att, live, sweep, wins, poll, feedback, pane, deleting, deleted, crashes>>

(* sink.write and write_dropped open record.json in place, in the executor. *)
RecordOpened(c) ==
    /\ up /\ task[c] \in {"row", "stub"} /\ file[c] = "none" /\ job = Idle
    /\ job' = [cap |-> c, does |-> task[c]]
    /\ file' = [file EXCEPT ![c] = "torn"]
    /\ UNCHANGED <<up, task, status, att, live, sweep, wins, poll, feedback, pane, deleting, deleted, crashes>>

(* The oldest stubs beyond the cap go when a stub is written.               *)
Stubs == {c \in Caps : file[c] = "whole" /\ status[c] = "discarded"}
Pruned(c) ==
    {d \in Stubs : Cardinality({e \in Stubs \cup {c} : e > d}) >= StubCap}

RecordWritten ==
    LET c == job.cap IN
    /\ job.does = "row"
    /\ job' = Idle
    /\ \/ /\ file' = [file EXCEPT ![c] = "whole"]
          /\ status' = [status EXCEPT ![c] = "pending"]
          /\ task' = [task EXCEPT ![c] = "written"]
       \/ \* the encoder or the disk fails: the task ends, the directory stays
          /\ task' = [task EXCEPT ![c] = "over"]
          /\ UNCHANGED <<file, status>>
    /\ UNCHANGED <<up, att, live, sweep, wins, poll, feedback, pane, deleting, deleted, crashes>>

StubWritten ==
    LET c == job.cap IN
    /\ job.does = "stub"
    /\ job' = Idle
    /\ task' = [task EXCEPT ![c] = "over"]
    /\ status' = [d \in Caps |-> IF d = c THEN "discarded"
                                 ELSE IF d \in Pruned(c) THEN "none" ELSE status[d]]
    /\ file' = [d \in Caps |-> IF d = c THEN "whole"
                               ELSE IF d \in Pruned(c) THEN "none" ELSE file[d]]
    /\ UNCHANGED <<up, att, live, sweep, wins, poll, feedback, pane, deleting, deleted, crashes>>

-----------------------------------------------------------------------------
(* Rewriting a record: read, change, write a temporary file, os.replace;    *)
(* nothing makes the directory anew.  The executor runs one at a time.      *)
Readable(c) == file[c] = "whole"
RewriteTruncates(c) == "torn"
RewriteBegun(c) == file[c]
RewrittenAnyway(c) == "whole"
Rewritten(c) == IF file[c] = "none" THEN "none" ELSE "whole"

(* What becomes of an attempt that ends or raises: try_upload's finally, the *)
(* row that goes with the live one, the sweep that goes on or is ended.      *)
Gone(c) == /\ att' = [att EXCEPT ![c] = "no"]
           /\ live' = live \ {c}
           /\ task' = IF c \in live THEN [task EXCEPT ![c] = "over"] ELSE task
AttemptRaises(c) ==
    /\ Gone(c)
    /\ sweep' = IF sweep.at = c THEN NoSweep ELSE sweep

LiveTries(c) ==
    /\ up /\ task[c] = "written"
    /\ IF att[c] = "no"
         THEN /\ att' = [att EXCEPT ![c] = "begin"]
              /\ live' = live \cup {c}
              /\ task' = [task EXCEPT ![c] = "trying"]
         ELSE task' = [task EXCEPT ![c] = "over"] /\ UNCHANGED <<att, live>>
    /\ UNCHANGED <<up, file, status, job, sweep, wins, poll, feedback, pane, deleting, deleted, crashes>>

SweepCollects ==
    LET due == {c \in Caps : file[c] = "whole" /\ status[c] \in {"pending", "failed"}} IN
    /\ up /\ sweep = NoSweep /\ due # {}
    /\ sweep' = [sweep EXCEPT !.due = due]
    /\ UNCHANGED <<up, task, file, status, job, att, live, wins, poll, feedback, pane, deleting, deleted, crashes>>

SweepTries(c) ==
    /\ up /\ c \in sweep.due /\ sweep.at = 0 /\ wins[c] < MaxWins
    /\ IF att[c] = "no"
         THEN /\ att' = [att EXCEPT ![c] = "begin"]
              /\ sweep' = [due |-> sweep.due \ {c}, at |-> c]
         ELSE sweep' = [sweep EXCEPT !.due = @ \ {c}] /\ UNCHANGED att
    /\ UNCHANGED <<up, task, file, status, job, live, wins, poll, feedback, pane, deleting, deleted, crashes>>

AttemptReads(c) ==
    /\ att[c] \in {"begin", "won", "lost"} /\ job = Idle
    /\ IF Readable(c)
         THEN /\ job' = [cap |-> c, does |-> att[c]]
              /\ file' = [file EXCEPT ![c] = RewriteBegun(c)]
              /\ UNCHANGED <<task, att, live, sweep>>
         ELSE AttemptRaises(c) /\ UNCHANGED <<job, file>>
    /\ UNCHANGED <<up, status, wins, poll, feedback, pane, deleting, deleted, crashes>>

InFlightWritten ==
    LET c == job.cap IN
    /\ job.does = "begin"
    /\ job' = Idle
    /\ file' = [file EXCEPT ![c] = Rewritten(c)]
    /\ IF file'[c] = "whole"
         THEN /\ status' = [status EXCEPT ![c] = "in_flight"]
              /\ att' = [att EXCEPT ![c] = "post"]
              /\ UNCHANGED <<task, live, sweep>>
         ELSE AttemptRaises(c) /\ UNCHANGED status
    /\ UNCHANGED <<up, wins, poll, feedback, pane, deleting, deleted, crashes>>

ServerAnswers(c) ==
    /\ att[c] = "post"
    /\ \/ wins[c] < MaxWins /\ att' = [att EXCEPT ![c] = "won"]
       \/ att' = [att EXCEPT ![c] = "lost"]
    /\ UNCHANGED <<up, task, file, status, job, live, sweep, wins, poll, feedback, pane, deleting, deleted, crashes>>

(* One reading of the feedback flag decides both the owner of the toast and *)
(* the saved toast; a swept capture still counts while it is fresh.         *)
OwnsRegardless(c, fresh) == c \in live \/ fresh
Owns(c, fresh) == feedback /\ (c \in live \/ fresh)
SavedToast(c) == IF c \in live /\ ~feedback THEN 1 ELSE 0

AttemptConcludes ==
    LET c == job.cap IN
    /\ job.does \in {"won", "lost"}
    /\ job' = Idle
    /\ file' = [file EXCEPT ![c] = Rewritten(c)]
    /\ IF file'[c] = "none" THEN /\ AttemptRaises(c)
                                 /\ UNCHANGED <<status, wins, poll>>
       ELSE /\ Gone(c)
            /\ sweep' = IF sweep.at = c THEN [sweep EXCEPT !.at = 0] ELSE sweep
            /\ status' = [status EXCEPT ![c] = IF job.does = "won" THEN "uploaded" ELSE "failed"]
            /\ IF job.does = "lost" THEN UNCHANGED <<wins, poll>> ELSE
               /\ wins' = [wins EXCEPT ![c] = @ + 1]
               /\ \E fresh \in BOOLEAN :
                    poll' = [poll EXCEPT ![<<c, wins[c] + 1>>] =
                               [NoPoll EXCEPT !.at = "asleep", !.left = Ticks,
                                  !.owns = Owns(c, fresh), !.toasts = SavedToast(c)]]
    /\ UNCHANGED <<up, feedback, pane, deleting, deleted, crashes>>

-----------------------------------------------------------------------------
(* CapturePoller.poll: one fetch per tick.                                  *)
Answers == {"unreachable", "error", "queued", "transcribed", "analyzed", "failed", "refused"}
Ended(q, how) == [NoPoll EXCEPT !.at = how, !.owns = q.owns, !.toasts = q.toasts]
FetchingEnds(q) == IF q.owns THEN [Ended(q, "fire") EXCEPT !.left = Holds] ELSE Ended(q, "over")
NextTick(q) == IF q.left > 1 THEN [q EXCEPT !.at = "asleep", !.left = @ - 1, !.saw = "none"]
               ELSE FetchingEnds(q)
(* The server is unreachable for now, fails, or has nothing to say.          *)
RetriedIfAnswered == {"error", "queued"}
Retried == {"unreachable", "error", "queued"}

(* After the title: an owned poll goes on to the analysis, another one ends. *)
AfterTitle(q) ==
    IF q.owns THEN IF q.saw = "analyzed" THEN [q EXCEPT !.at = "insight"] ELSE NextTick(q)
    ELSE IF q.cached \/ q.saw = "analyzed" THEN Ended(q, "over") ELSE NextTick(q)

Fetched(q, answer) ==
    CASE answer \in Retried -> NextTick(q)
      [] answer = "failed"  -> FetchingEnds(q)
      [] answer \in {"transcribed", "analyzed"} ->
           LET seen == [q EXCEPT !.saw = answer] IN
           IF q.cached THEN AfterTitle(seen) ELSE [seen EXCEPT !.at = "title"]
      [] OTHER -> Ended(q, answer)

PollFetches(p) ==
    /\ up /\ poll[p].at = "asleep"
    /\ \E answer \in Answers :
         poll' = [poll EXCEPT ![p] = Fetched(@, answer)]
    /\ UNCHANGED <<up, task, file, status, job, att, live, sweep, wins, feedback, pane, deleting, deleted, crashes>>

Noted(q, ok) ==
    IF q.at = "insight" THEN FetchingEnds(q)
    ELSE AfterTitle([q EXCEPT !.cached = ok])

(* Writing the title or the insight: a body without one, a title that has   *)
(* not changed and a record that is gone write nothing, and nothing raises. *)
PollSkips(p) ==
    /\ poll[p].at \in {"title", "insight"}
    /\ poll' = [poll EXCEPT ![p] = Noted(@, FALSE)]
    /\ job # [cap |-> p[1], does |-> "note", of |-> p[2]]
    /\ UNCHANGED <<up, task, file, status, job, att, live, sweep, wins, feedback, pane, deleting, deleted, crashes>>

PollReads(p) ==
    /\ poll[p].at \in {"title", "insight"} /\ job = Idle /\ Readable(p[1])
    /\ job' = [cap |-> p[1], does |-> "note", of |-> p[2]]
    /\ file' = [file EXCEPT ![p[1]] = RewriteBegun(p[1])]
    /\ UNCHANGED <<up, task, status, att, live, sweep, wins, poll, feedback, pane, deleting, deleted, crashes>>

PollWrites ==
    LET c == job.cap IN
    /\ job.does = "note"
    /\ job' = Idle
    /\ file' = [file EXCEPT ![c] = Rewritten(c)]
    /\ poll' = [poll EXCEPT ![<<c, job.of>>] = Noted(@, file[c] # "none")]
    /\ UNCHANGED <<up, task, status, att, live, sweep, wins, feedback, pane, deleting, deleted, crashes>>

(* _fire_post_capture reads the flag again; then the toast waits while the  *)
(* user records, for a bounded time, and the flag is not read any more.     *)
Held(q, armed) ==
    IF ~armed THEN [Ended(q, "shown") EXCEPT !.toasts = @ + 1]
    ELSE IF q.left = 0 THEN Ended(q, "dropped")
    ELSE [q EXCEPT !.at = "held", !.left = @ - 1]

PollFires(p) ==
    /\ poll[p].at = "fire"
    /\ \E armed \in BOOLEAN :
         poll' = [poll EXCEPT ![p] = IF feedback THEN Held(@, armed) ELSE Ended(@, "over")]
    /\ UNCHANGED <<up, task, file, status, job, att, live, sweep, wins, feedback, pane, deleting, deleted, crashes>>

PollWaits(p) ==
    /\ poll[p].at = "held"
    /\ \E armed \in BOOLEAN : poll' = [poll EXCEPT ![p] = Held(@, armed)]
    /\ UNCHANGED <<up, task, file, status, job, att, live, sweep, wins, feedback, pane, deleting, deleted, crashes>>

-----------------------------------------------------------------------------
(* A toggle of Settings that the agent has reloaded, or the card's button   *)
(* "Stop showing these".                                                    *)
FeedbackToggled ==
    /\ up
    /\ feedback' = ~feedback
    /\ UNCHANGED <<up, task, file, status, job, att, live, sweep, wins, poll, pane, deleting, deleted, crashes>>

(* list_captures asks the agent for its rows first and reads the disk then. *)
PaneAsks ==
    /\ up /\ pane.at # "reading"
    /\ pane' = [at |-> "reading", snap |-> {c \in Caps : Row(c)}, seen |-> {}, left |-> Caps]
    /\ UNCHANGED <<up, task, file, status, job, att, live, sweep, wins, poll, feedback, deleting, deleted, crashes>>

(* The rows are read when the listing is put together, after the disk.       *)
SnapshotLate == {c \in Caps : Row(c)}
Snapshot == pane.snap

PaneReads(c) ==
    /\ c \in pane.left /\ \A d \in pane.left : c <= d
    /\ pane' = [pane EXCEPT !.left = @ \ {c},
                            !.seen = IF file[c] = "whole" THEN @ \cup {c} ELSE @]
    /\ UNCHANGED <<up, task, file, status, job, att, live, sweep, wins, poll, feedback, deleting, deleted, crashes>>

PaneShows ==
    /\ pane.at = "reading" /\ pane.left = {}
    /\ pane' = [pane EXCEPT !.at = "shown", !.snap = {}]
    /\ UNCHANGED <<up, task, file, status, job, att, live, sweep, wins, poll, feedback, deleting, deleted, crashes>>

(* Delete is offered for rows that came from the disk: rmtree unlinks the   *)
(* files and removes the directory, and fails if a file has come back.      *)
DeleteUnlinks(c) ==
    /\ pane.at = "shown" /\ c \in pane.seen /\ c \notin deleting /\ file[c] # "none"
    /\ deleting' = deleting \cup {c}
    /\ file' = [file EXCEPT ![c] = "torn"]
    /\ UNCHANGED <<up, task, status, job, att, live, sweep, wins, poll, feedback, pane, deleted, crashes>>

DeleteEnds(c) ==
    /\ c \in deleting
    /\ deleting' = deleting \ {c}
    /\ IF file[c] = "whole" THEN UNCHANGED <<file, deleted>>
       ELSE /\ file' = [file EXCEPT ![c] = "none"]
            /\ deleted' = deleted \cup {c}
    /\ UNCHANGED <<up, task, status, job, att, live, sweep, wins, poll, feedback, pane, crashes>>

(* The agent dies: its tasks are gone, a record being made stays torn.      *)
AgentDies ==
    /\ up /\ crashes < MaxCrashes
    /\ up' = FALSE /\ crashes' = crashes + 1
    /\ job' = Idle /\ sweep' = NoSweep /\ live' = {}
    /\ att' = [c \in Caps |-> "no"]
    /\ task' = [c \in Caps |-> IF Row(c) THEN "over" ELSE task[c]]
    /\ poll' = [p \in Polls |-> IF poll[p].at \in {"none", "shown"} THEN poll[p]
                                     ELSE Ended(poll[p], "over")]
    /\ UNCHANGED <<file, status, wins, feedback, pane, deleting, deleted>>

(* The next start reconciles the records left in flight.                    *)
AgentStarts ==
    /\ ~up
    /\ up' = TRUE
    /\ status' = [c \in Caps |-> IF file[c] = "whole" /\ status[c] = "in_flight"
                                 THEN "failed" ELSE status[c]]
    /\ UNCHANGED <<task, file, job, att, live, sweep, wins, poll, feedback, pane, deleting, deleted, crashes>>

-----------------------------------------------------------------------------
Watched == steady' = IF pane.at # "reading" /\ pane'.at = "reading" THEN {c \in Caps : Known(c)}
                     ELSE {c \in steady : pane'.at = "reading" /\ Known(c)'}

WorkOn(c) == RecordOpened(c) \/ LiveTries(c) \/ AttemptReads(c) \/ ServerAnswers(c)
WorkerEnds == RecordWritten \/ StubWritten \/ InFlightWritten \/ AttemptConcludes \/ PollWrites
PollRuns(p) == PollFetches(p) \/ PollSkips(p) \/ PollReads(p) \/ PollFires(p) \/ PollWaits(p)

CapturesNext ==
    /\ \/ \E c \in Caps : \/ SessionCloses(c) \/ WorkOn(c) \/ SweepTries(c)
                          \/ PaneReads(c) \/ DeleteUnlinks(c) \/ DeleteEnds(c)
       \/ WorkerEnds \/ SweepCollects
       \/ \E p \in Polls : PollRuns(p)
       \/ FeedbackToggled \/ PaneAsks \/ PaneShows
       \/ AgentDies \/ AgentStarts
    /\ Watched

(* The executor's worker ends what it writes; polls sleep, fetch and go on,  *)
(* and requests time out.                                                    *)
CapturesFairness ==
    /\ WF_captureVars(WorkerEnds /\ Watched)
    /\ \A p \in Polls : WF_captureVars(PollRuns(p) /\ Watched)

Spec == CapturesInit /\ [][CapturesNext]_captureVars /\ CapturesFairness

-----------------------------------------------------------------------------
(* The pane loses no capture: one that was processing or on disk all the    *)
(* while a listing was made is in it, although the row goes and the record  *)
(* comes, and records are rewritten, in another process meanwhile.          *)
PaneIsWhole ==
    [][pane.at = "reading" /\ pane'.at = "shown" => steady \subseteq pane.seen \cup Snapshot]_captureVars

(* No upload of a capture is announced twice, by the saved toast and by the *)
(* card, however the feedback setting changes during the poll.              *)
OneToastPerUpload == \A p \in Polls : poll[p].toasts <= 1

(* A capture whose deletion was reported stays deleted, whatever the agent   *)
(* was writing into it.                                                      *)
DeletedStaysDeleted == \A c \in deleted : file[c] = "none"

(* The card of an owned poll is shown, unless the user turned it off or      *)
(* recorded for too long, the server refused the sign-in, or the agent died: *)
(* a server out of reach, an error and a deleted record only delay it.       *)
Owed(p) == poll[p].owns /\ poll[p].at \in {"asleep", "title", "insight", "fire", "held"}
FeedbackArrives ==
    \A p \in Polls : Owed(p) ~> \/ poll[p].at \in {"shown", "refused", "dropped"}
                                 \/ ~feedback \/ ~up
=============================================================================
