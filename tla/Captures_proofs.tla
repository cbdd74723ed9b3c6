--------------------------- MODULE Captures_proofs --------------------------
(***************************************************************************)
(* Proofs about Captures, for any number of captures, ticks and waits: a   *)
(* deleted capture stays deleted, a listing of the pane is whole, and an   *)
(* upload is announced once.                                               *)
(***************************************************************************)
EXTENDS Captures, TLAPS

Tasks == {"unborn", "row", "stub", "written", "trying", "over"}
Files == {"none", "torn", "whole"}
Statuses == {"none", "pending", "in_flight", "uploaded", "failed", "discarded"}

Panes == [at : {"idle", "reading", "shown"}, snap : SUBSET Caps, seen : SUBSET Caps,
          left : SUBSET Caps]

CaptureT == /\ task \in [Caps -> Tasks] /\ file \in [Caps -> Files]
            /\ status \in [Caps -> Statuses]
            /\ live \subseteq Caps /\ deleting \subseteq Caps /\ deleted \subseteq Caps
            /\ pane \in Panes /\ pane.seen \subseteq Caps

\* The record of a capture was written once; from then on nothing makes its
\* directory anew.
Past(c) == task[c] \in {"written", "trying", "over"}

\* What the executor's worker is writing: a record that is being made, or one
\* that was there.
JobFits == /\ job.does \in {"row", "stub"} => job.cap \in Caps /\ task[job.cap] = job.does
           /\ job.does \in {"begin", "won", "lost", "note"} => job.cap \in Caps /\ Past(job.cap)
LiveTrying == \A c \in live : task[c] = "trying"
WholeIsPast == \A c \in Caps : file[c] = "whole" => Past(c)
SeenIsPast == \A c \in pane.seen \cup deleting \cup deleted : Past(c)
StatusIsPast == \A c \in Caps : status[c] # "none" => Past(c)
RecordIsWhole == \A c \in Caps : Recorded(c) => file[c] = "whole"

CoreInv == CaptureT /\ JobFits /\ LiveTrying /\ WholeIsPast /\ SeenIsPast /\ StatusIsPast
           /\ RecordIsWhole /\ DeletedStaysDeleted

\* A capture known since the listing began had a row then, or is at its end and on
\* disk all the while.
Listing == pane.at = "reading" =>
             \A c \in steady : /\ c \in Caps /\ Known(c)
                               /\ \/ c \in pane.snap
                                  \/ task[c] = "over" /\ c \in pane.seen \cup pane.left

CapInv == CoreInv /\ Listing

LEMMA InitCore == CapturesInit => CapInv
BY DEF CapturesInit, CapInv, CoreInv, CaptureT, Tasks, Files, Statuses, JobFits, LiveTrying,
       WholeIsPast, SeenIsPast, StatusIsPast, RecordIsWhole, DeletedStaysDeleted, Listing, Past,
       Recorded, Idle, Panes

-----------------------------------------------------------------------------
(* The steps of a capture                                                  *)

\* Nothing about the captures changes, but the pane may see whole records.
LEMMA QuietCore ==
  ASSUME CoreInv, UNCHANGED <<task, file, status, job, live, deleting, deleted>>,
         pane' \in Panes, pane'.seen \subseteq pane.seen \cup {c \in Caps : file[c] = "whole"}
  PROVE  CoreInv'
BY DEF CoreInv, CaptureT, JobFits, LiveTrying, WholeIsPast, SeenIsPast, StatusIsPast, RecordIsWhole,
       DeletedStaysDeleted, Past, Recorded

LEMMA SessionClosesCore ==
  ASSUME CoreInv, NEW c \in Caps, SessionCloses(c)
  PROVE  CoreInv'
<1>1. /\ task[c] = "unborn" /\ UNCHANGED <<file, status, job, live, pane, deleting, deleted>>
      /\ \E t \in {"stub", "row"} : task' = [task EXCEPT ![c] = t]
  BY DEF SessionCloses
<1>2. CaptureT'
  BY <1>1 DEF CoreInv, CaptureT, Tasks
<1>3. \A d \in Caps : d # c => task'[d] = task[d]
  BY <1>1 DEF CoreInv, CaptureT
<1>4. c \notin live /\ ~Past(c) /\ (job.does \in {"row", "stub", "begin", "won", "lost", "note"} => job.cap # c)
  BY <1>1 DEF CoreInv, LiveTrying, Past, JobFits
<1>5. JobFits' /\ LiveTrying' /\ WholeIsPast' /\ SeenIsPast' /\ StatusIsPast'
  BY <1>1, <1>3, <1>4
  DEF CoreInv, CaptureT, JobFits, LiveTrying, WholeIsPast, SeenIsPast, StatusIsPast, Past
<1>6. RecordIsWhole' /\ DeletedStaysDeleted'
  BY <1>1 DEF CoreInv, RecordIsWhole, DeletedStaysDeleted, Recorded
<1>7. QED
  BY <1>2, <1>5, <1>6 DEF CoreInv

LEMMA RecordOpenedCore ==
  ASSUME CoreInv, NEW c \in Caps, RecordOpened(c)
  PROVE  CoreInv'
<1>1. /\ task[c] \in {"row", "stub"} /\ job'.cap = c /\ job'.does = task[c]
      /\ file' = [file EXCEPT ![c] = "torn"]
      /\ UNCHANGED <<task, status, live, pane, deleting, deleted>>
  BY DEF RecordOpened
<1>2. ~Past(c) /\ status[c] = "none" /\ c \notin deleted
  BY <1>1 DEF CoreInv, Past, StatusIsPast, SeenIsPast
<1>3. QED
  BY <1>1, <1>2
  DEF CoreInv, CaptureT, Files, JobFits, LiveTrying, WholeIsPast, SeenIsPast, StatusIsPast,
      RecordIsWhole, DeletedStaysDeleted, Past, Recorded

LEMMA RecordWrittenCore ==
  ASSUME CoreInv, RecordWritten
  PROVE  CoreInv'
<1> DEFINE c == job.cap
<1>1. /\ c \in Caps /\ task[c] = "row" /\ job'.does = "nothing"
      /\ UNCHANGED <<live, pane, deleting, deleted>>
      /\ \/ /\ file' = [file EXCEPT ![c] = "whole"] /\ status' = [status EXCEPT ![c] = "pending"]
            /\ task' = [task EXCEPT ![c] = "written"]
         \/ task' = [task EXCEPT ![c] = "over"] /\ UNCHANGED <<file, status>>
  BY DEF RecordWritten, CoreInv, JobFits, Idle
<1>2. c \notin live /\ c \notin deleted
  BY <1>1 DEF CoreInv, LiveTrying, SeenIsPast, Past
<1> HIDE DEF c
<1>3. CaptureT' /\ JobFits'
  BY <1>1 DEF CoreInv, CaptureT, Tasks, Files, Statuses, JobFits
<1>4. task'[c] \in {"written", "over"} /\ \A d \in Caps \ {c} : task'[d] = task[d]
  BY <1>1 DEF CoreInv, CaptureT
<1>5. \A d \in Caps \ {c} : file'[d] = file[d] /\ status'[d] = status[d]
  BY <1>1 DEF CoreInv, CaptureT
<1>6. file'[c] = "whole" \/ (status'[c] = status[c] /\ file'[c] = file[c])
  BY <1>1 DEF CoreInv, CaptureT
<1>7. LiveTrying' /\ WholeIsPast' /\ SeenIsPast' /\ StatusIsPast'
  BY <1>1, <1>2, <1>4, <1>5
  DEF CoreInv, CaptureT, LiveTrying, WholeIsPast, SeenIsPast, StatusIsPast, Past
<1>8. RecordIsWhole' /\ DeletedStaysDeleted'
  BY <1>1, <1>2, <1>5, <1>6 DEF CoreInv, CaptureT, RecordIsWhole, DeletedStaysDeleted, Recorded
<1>9. QED
  BY <1>3, <1>7, <1>8 DEF CoreInv

LEMMA StubWrittenCore ==
  ASSUME CoreInv, StubWritten
  PROVE  CoreInv'
<1> DEFINE c == job.cap
<1>1. /\ c \in Caps /\ task[c] = "stub" /\ job'.does = "nothing"
      /\ UNCHANGED <<live, pane, deleting, deleted>>
      /\ task' = [task EXCEPT ![c] = "over"]
      /\ status' = [d \in Caps |-> IF d = c THEN "discarded"
                                   ELSE IF d \in Pruned(c) THEN "none" ELSE status[d]]
      /\ file' = [d \in Caps |-> IF d = c THEN "whole"
                                 ELSE IF d \in Pruned(c) THEN "none" ELSE file[d]]
  BY DEF StubWritten, CoreInv, JobFits, Idle
<1>2. c \notin live /\ c \notin deleted
  BY <1>1 DEF CoreInv, LiveTrying, SeenIsPast, Past
<1> DEFINE Old == Pruned(c)
<1> HIDE DEF c, Old
<1>3. task'[c] = "over" /\ \A d \in Caps \ {c} : task'[d] = task[d]
  BY <1>1 DEF CoreInv, CaptureT
<1>4. \A d \in Caps \ {c} : \/ file'[d] = file[d] /\ status'[d] = status[d]
                            \/ file'[d] = "none" /\ status'[d] = "none"
  BY <1>1 DEF CoreInv, CaptureT
<1>5. file'[c] = "whole"
  BY <1>1
<1>6. CaptureT' /\ JobFits'
  BY <1>1 DEF CoreInv, CaptureT, Tasks, Files, Statuses, JobFits
<1>7. LiveTrying' /\ WholeIsPast' /\ SeenIsPast' /\ StatusIsPast'
  BY <1>1, <1>2, <1>3, <1>4
  DEF CoreInv, CaptureT, LiveTrying, WholeIsPast, SeenIsPast, StatusIsPast, Past
<1>8. RecordIsWhole' /\ DeletedStaysDeleted'
  BY <1>1, <1>2, <1>4, <1>5 DEF CoreInv, CaptureT, RecordIsWhole, DeletedStaysDeleted, Recorded
<1>9. QED
  BY <1>6, <1>7, <1>8 DEF CoreInv

-----------------------------------------------------------------------------
(* The attempts: whatever ends one only brings its session's task to an end. *)

\* The executor rewrites a record that was there, or nothing; task sets are those
\* of a Gone or unchanged.
LEMMA RewriteCore ==
  ASSUME CoreInv, NEW c \in Caps,
         file' \in {file, [file EXCEPT ![c] = Rewritten(c)]}, Past(c) \/ file' = file,
         \/ UNCHANGED <<task, live>> \/ Gone(c),
         \/ status' = status
         \/ file'[c] = "whole" /\ \E s \in Statuses : status' = [status EXCEPT ![c] = s],
         \/ job'.does = "nothing" \/ job' = job
         \/ job'.cap = c /\ file[c] = "whole" /\ job'.does \in {"begin", "won", "lost", "note"},
         UNCHANGED <<pane, deleting, deleted>>
  PROVE  CoreInv'
<1>1. \A d \in Caps : \/ file'[d] = file[d]
                      \/ d = c /\ Past(c) /\ file[c] = "torn" /\ file'[c] = "whole"
  BY DEF Rewritten, CoreInv, CaptureT, Files
<1>2. \A d \in Caps : \/ task'[d] = task[d]
                      \/ task[d] = "trying" /\ task'[d] = "over" /\ d \notin live'
  BY DEF Gone, CoreInv, CaptureT, LiveTrying
<1>3. live' \subseteq live /\ \A d \in Caps : Past(d) => Past(d)'
  BY <1>2 DEF Gone, Past
<1>4. \A d \in Caps : \/ status'[d] = status[d]
                      \/ d = c /\ file'[c] = "whole" /\ status'[d] \in Statuses
  BY DEF CoreInv, CaptureT
<1>5. CaptureT'
  <2>1. task' \in [Caps -> Tasks]
    BY DEF Gone, CoreInv, CaptureT, Tasks
  <2>2. file' \in [Caps -> Files]
    BY DEF Rewritten, CoreInv, CaptureT, Files
  <2>3. status' \in [Caps -> Statuses]
    BY DEF CoreInv, CaptureT
  <2>4. QED
    BY <1>3, <2>1, <2>2, <2>3 DEF CoreInv, CaptureT
<1>6. LiveTrying'
  BY <1>2, <1>3 DEF CoreInv, CaptureT, LiveTrying
<1>7. WholeIsPast' /\ SeenIsPast'
  BY <1>1, <1>3 DEF CoreInv, CaptureT, WholeIsPast, SeenIsPast
<1>8. StatusIsPast'
  BY <1>3, <1>4, <1>7 DEF CoreInv, WholeIsPast, StatusIsPast
<1>9. RecordIsWhole' /\ DeletedStaysDeleted'
  BY <1>1, <1>4 DEF CoreInv, CaptureT, RecordIsWhole, DeletedStaysDeleted, Recorded
<1>10. JobFits'
  <2>1. \A d \in Caps : task[d] \in {"row", "stub"} => task'[d] = task[d]
    BY <1>2
  <2>2. QED
    BY <1>3, <2>1 DEF CoreInv, JobFits, WholeIsPast
<1>11. QED
  BY <1>5, <1>6, <1>7, <1>8, <1>9, <1>10 DEF CoreInv

LEMMA AttemptCore ==
  ASSUME CoreInv
  PROVE  /\ \A c \in Caps : LiveTries(c) \/ AttemptReads(c) => CoreInv'
         /\ InFlightWritten \/ AttemptConcludes => CoreInv'
<1>1. ASSUME NEW c \in Caps, LiveTries(c) PROVE CoreInv'
  <2>1. /\ task[c] = "written" /\ UNCHANGED <<file, status, job, pane, deleting, deleted>>
        /\ \/ live' = live \cup {c} /\ task' = [task EXCEPT ![c] = "trying"]
           \/ task' = [task EXCEPT ![c] = "over"] /\ live' = live
    BY <1>1 DEF LiveTries
  <2>2. /\ task'[c] \in {"trying", "over"} /\ (c \in live' => task'[c] = "trying")
        /\ \A d \in Caps \ {c} : task'[d] = task[d]
        /\ task' \in [Caps -> Tasks] /\ live' \subseteq live \cup {c}
    BY <2>1 DEF CoreInv, CaptureT, LiveTrying, Tasks
  <2>3. \A d \in Caps : Past(d)' <=> Past(d)
    BY <2>1, <2>2 DEF Past
  <2>4. JobFits' /\ LiveTrying'
    BY <2>1, <2>2, <2>3 DEF CoreInv, CaptureT, JobFits, LiveTrying
  <2>5. QED
    BY <2>1, <2>2, <2>3, <2>4
    DEF CoreInv, CaptureT, WholeIsPast, SeenIsPast, StatusIsPast, RecordIsWhole,
        DeletedStaysDeleted, Recorded
<1>2. ASSUME NEW c \in Caps, AttemptReads(c) PROVE CoreInv'
  <2>1. file' = [file EXCEPT ![c] = file[c]] \/ file' = file
    BY <1>2 DEF AttemptReads, RewriteBegun
  <2>2. file' = file
    BY <2>1 DEF CoreInv, CaptureT
  <2>3. /\ UNCHANGED <<task, live>> \/ Gone(c)
        /\ UNCHANGED <<status, pane, deleting, deleted>>
        /\ \/ job' = job
           \/ job'.cap = c /\ file[c] = "whole" /\ job'.does \in {"begin", "won", "lost", "note"}
    BY <1>2 DEF AttemptReads, AttemptRaises, Readable
  <2>4. QED
    BY <2>2, <2>3, RewriteCore
<1>3. CASE InFlightWritten \/ AttemptConcludes
  <2> DEFINE c == job.cap
  <2>0. /\ job.does \in {"begin", "won", "lost"} /\ job' = Idle
        /\ file' = [file EXCEPT ![c] = Rewritten(c)]
    BY <1>3 DEF InFlightWritten, AttemptConcludes
  <2>1. c \in Caps /\ Past(c) /\ job'.does = "nothing" /\ file' = [file EXCEPT ![c] = Rewritten(c)]
    BY <2>0 DEF CoreInv, JobFits, Idle
  <2>2. UNCHANGED <<task, live>> \/ Gone(c)
    BY <1>3 DEF InFlightWritten, AttemptConcludes, AttemptRaises
  <2>3. UNCHANGED <<pane, deleting, deleted>>
    BY <1>3 DEF InFlightWritten, AttemptConcludes
  <2>4. file'[c] \in {"none", "whole"}
    BY <2>1 DEF CoreInv, CaptureT, Rewritten
  <2>5. \/ status' = status
        \/ file'[c] = "whole" /\ \E s \in Statuses : status' = [status EXCEPT ![c] = s]
    <3>1. {"in_flight", "uploaded", "failed"} \subseteq Statuses
      BY DEF Statuses
    <3>2. CASE InFlightWritten
      BY <2>4, <3>1, <3>2 DEF InFlightWritten
    <3>3. CASE AttemptConcludes
      BY <2>4, <3>1, <3>3 DEF AttemptConcludes
    <3>4. QED
      BY <1>3, <3>2, <3>3
  <2> HIDE DEF c
  <2>6. QED
    BY <2>1, <2>2, <2>3, <2>5, RewriteCore
<1>4. QED
  BY <1>1, <1>2, <1>3

LEMMA PollCore ==
  ASSUME CoreInv, CapturesAssumption
  PROVE  /\ \A p \in Polls : PollReads(p) => CoreInv'
         /\ PollWrites => CoreInv'
<1>1. ASSUME NEW p \in Polls, PollReads(p) PROVE CoreInv'
  <2> DEFINE c == p[1]
  <2>1. c \in Caps
    BY CapturesAssumption DEF Polls
  <2>2. /\ file[c] = "whole" /\ job'.cap = c /\ job'.does = "note"
        /\ file' = [file EXCEPT ![c] = file[c]]
        /\ UNCHANGED <<task, status, live, pane, deleting, deleted>>
    BY <1>1 DEF PollReads, Readable, RewriteBegun
  <2>3. file' = file
    BY <2>2 DEF CoreInv, CaptureT
  <2> HIDE DEF c
  <2>4. QED
    BY <2>1, <2>2, <2>3, RewriteCore
<1>2. CASE PollWrites
  <2> DEFINE c == job.cap
  <2>1. /\ c \in Caps /\ Past(c) /\ job'.does = "nothing" /\ file' = [file EXCEPT ![c] = Rewritten(c)]
        /\ UNCHANGED <<task, status, live, pane, deleting, deleted>>
    BY <1>2 DEF PollWrites, CoreInv, JobFits, Idle
  <2> HIDE DEF c
  <2>2. QED
    BY <2>1, RewriteCore
<1>3. QED
  BY <1>1, <1>2

LEMMA DeleteCore ==
  ASSUME CoreInv, NEW c \in Caps, DeleteUnlinks(c) \/ DeleteEnds(c)
  PROVE  CoreInv'
<1>1. CASE DeleteUnlinks(c)
  <2>1. /\ c \in pane.seen /\ file[c] # "none" /\ deleting' = deleting \cup {c}
        /\ file' = [file EXCEPT ![c] = "torn"]
        /\ UNCHANGED <<task, status, job, live, pane, deleted>>
    BY <1>1 DEF DeleteUnlinks
  <2>2. Past(c) /\ c \notin deleted
    BY <2>1 DEF CoreInv, SeenIsPast, DeletedStaysDeleted
  <2>3. QED
    BY <2>1, <2>2
    DEF CoreInv, CaptureT, Files, JobFits, LiveTrying, WholeIsPast, SeenIsPast, StatusIsPast,
        RecordIsWhole, DeletedStaysDeleted, Past, Recorded
<1>2. CASE DeleteEnds(c)
  <2>1. /\ c \in deleting /\ deleting' = deleting \ {c}
        /\ UNCHANGED <<task, status, job, live, pane>>
        /\ \/ file[c] = "whole" /\ UNCHANGED <<file, deleted>>
           \/ file' = [file EXCEPT ![c] = "none"] /\ deleted' = deleted \cup {c}
    BY <1>2 DEF DeleteEnds
  <2>2. QED
    BY <2>1
    DEF CoreInv, CaptureT, Files, JobFits, LiveTrying, WholeIsPast, SeenIsPast, StatusIsPast,
        RecordIsWhole, DeletedStaysDeleted, Past, Recorded
<1>3. QED
  BY <1>1, <1>2

LEMMA AgentCore ==
  ASSUME CoreInv, AgentDies \/ AgentStarts
  PROVE  CoreInv'
<1>1. CASE AgentDies
  <2>1. /\ job'.does = "nothing" /\ live' = {} /\ UNCHANGED <<file, status, pane, deleting, deleted>>
        /\ task' = [c \in Caps |-> IF Row(c) THEN "over" ELSE task[c]]
    BY <1>1 DEF AgentDies, Idle
  <2>2. task' \in [Caps -> Tasks] /\ \A c \in Caps : Past(c) => Past(c)'
    BY <2>1 DEF CoreInv, CaptureT, Tasks, Past
  <2>3. QED
    BY <2>1, <2>2
    DEF CoreInv, CaptureT, JobFits, LiveTrying, WholeIsPast, SeenIsPast, StatusIsPast,
        RecordIsWhole, DeletedStaysDeleted, Recorded
<1>2. CASE AgentStarts
  <2>1. /\ UNCHANGED <<task, file, job, live, pane, deleting, deleted>>
        /\ status' = [c \in Caps |-> IF file[c] = "whole" /\ status[c] = "in_flight"
                                     THEN "failed" ELSE status[c]]
    BY <1>2 DEF AgentStarts
  <2>2. status' \in [Caps -> Statuses] /\ \A c \in Caps : status'[c] = "none" <=> status[c] = "none"
    BY <2>1 DEF CoreInv, CaptureT, Statuses
  <2>3. QED
    BY <2>1, <2>2
    DEF CoreInv, CaptureT, JobFits, LiveTrying, WholeIsPast, SeenIsPast, StatusIsPast,
        RecordIsWhole, DeletedStaysDeleted, Past, Recorded
<1>3. QED
  BY <1>1, <1>2

LEMMA NextCore ==
  ASSUME CoreInv, [CapturesNext]_captureVars
  PROVE  CoreInv'
<1>1. CASE UNCHANGED captureVars
  BY <1>1, QuietCore DEF captureVars, CoreInv, CaptureT
<1>2. ASSUME NEW c \in Caps,
             SessionCloses(c) \/ WorkOn(c) \/ SweepTries(c) \/ PaneReads(c) \/ DeleteUnlinks(c) \/ DeleteEnds(c)
      PROVE  CoreInv'
  <2>1. CASE ServerAnswers(c) \/ SweepTries(c)
    BY <2>1, QuietCore DEF ServerAnswers, SweepTries, CoreInv, CaptureT
  <2>2. CASE PaneReads(c)
    <3>1. /\ pane'.seen \subseteq pane.seen \cup {d \in Caps : file[d] = "whole"}
          /\ pane' \in Panes
      BY <2>2 DEF PaneReads, CoreInv, CaptureT, Panes
    <3>2. QED
      BY <2>2, <3>1, QuietCore DEF PaneReads
  <2>3. QED
    BY <1>2, <2>1, <2>2, SessionClosesCore, RecordOpenedCore, AttemptCore, DeleteCore DEF WorkOn
<1>3. CASE WorkerEnds
  BY <1>3, RecordWrittenCore, StubWrittenCore, AttemptCore, PollCore, CapturesAssumption
  DEF WorkerEnds
<1>4. CASE SweepCollects \/ FeedbackToggled
  BY <1>4, QuietCore DEF SweepCollects, FeedbackToggled, CoreInv, CaptureT
<1>5. CASE PaneAsks \/ PaneShows
  <2>1. pane'.seen \subseteq pane.seen /\ pane' \in Panes
    <3>1. CASE PaneAsks
      <4>1. pane' = [at |-> "reading", snap |-> {c \in Caps : Row(c)}, seen |-> {}, left |-> Caps]
        BY <3>1 DEF PaneAsks
      <4>2. QED
        BY <4>1 DEF Panes
    <3>2. CASE PaneShows
      BY <3>2 DEF PaneShows, CoreInv, CaptureT, Panes
    <3>3. QED
      BY <1>5, <3>1, <3>2
  <2>2. QED
    BY <1>5, <2>1, QuietCore DEF PaneAsks, PaneShows
<1>6. ASSUME NEW p \in Polls, PollRuns(p)
      PROVE  CoreInv'
  <2>1. CASE PollReads(p)
    BY <2>1, PollCore, CapturesAssumption
  <2>2. CASE ~PollReads(p)
    BY <1>6, <2>2, QuietCore
    DEF PollRuns, PollFetches, PollSkips, PollFires, PollWaits, CoreInv, CaptureT
  <2>3. QED
    BY <2>1, <2>2
<1>7. CASE AgentDies \/ AgentStarts
  BY <1>7, AgentCore
<1>8. QED
  BY <1>1, <1>2, <1>3, <1>4, <1>5, <1>6, <1>7 DEF CapturesNext

-----------------------------------------------------------------------------
(* The listing of the pane                                                 *)

LEMMA OverStays ==
  ASSUME CoreInv, CapturesNext, NEW d \in Caps, task[d] = "over"
  PROVE  task'[d] = "over"
<1>1. ASSUME NEW c \in Caps, Gone(c) PROVE task'[d] = "over"
  BY <1>1 DEF Gone, CoreInv, CaptureT
<1>2. ASSUME NEW c \in Caps,
             SessionCloses(c) \/ WorkOn(c) \/ SweepTries(c) \/ PaneReads(c) \/ DeleteUnlinks(c) \/ DeleteEnds(c)
      PROVE  task'[d] = "over"
  <2>1. CASE AttemptReads(c)
    BY <1>1, <2>1 DEF AttemptReads, AttemptRaises
  <2>2. CASE ~AttemptReads(c)
    BY <1>2, <2>2 DEF WorkOn, SessionCloses, RecordOpened, LiveTries, ServerAnswers, SweepTries,
                      PaneReads, DeleteUnlinks, DeleteEnds, CoreInv, CaptureT
  <2>3. QED
    BY <2>1, <2>2
<1>3. CASE RecordWritten \/ StubWritten
  <2>1. /\ job.cap \in Caps /\ task[job.cap] # "over"
        /\ \E t \in Tasks : task' = [task EXCEPT ![job.cap] = t]
    BY <1>3 DEF RecordWritten, StubWritten, CoreInv, JobFits, Tasks
  <2>2. QED
    BY <2>1 DEF CoreInv, CaptureT
<1>4. CASE InFlightWritten \/ AttemptConcludes
  <2>1. job.does \in {"begin", "won", "lost"} /\ (task' = task \/ Gone(job.cap))
    BY <1>4 DEF InFlightWritten, AttemptConcludes, AttemptRaises
  <2>2. job.cap \in Caps
    BY <2>1 DEF CoreInv, JobFits
  <2>3. QED
    BY <1>1, <2>1, <2>2
<1>5. CASE AgentDies
  BY <1>5 DEF AgentDies, Row
<1>6. QED
  BY <1>2, <1>3, <1>4, <1>5
  DEF CapturesNext, WorkerEnds, PollWrites, SweepCollects, PollRuns, PollFetches, PollSkips,
      PollReads, PollFires, PollWaits, FeedbackToggled, PaneAsks, PaneShows, AgentStarts

LEMMA PaneSteps ==
  ASSUME CapturesNext
  PROVE  \/ pane' = pane \/ PaneAsks \/ PaneShows
         \/ \E c \in Caps : PaneReads(c)
BY DEF CapturesNext, WorkOn, SessionCloses, RecordOpened, LiveTries, AttemptReads, ServerAnswers,
       SweepTries, DeleteUnlinks, DeleteEnds, WorkerEnds, RecordWritten, StubWritten,
       InFlightWritten, AttemptConcludes, PollWrites, SweepCollects, PollRuns, PollFetches,
       PollSkips, PollReads, PollFires, PollWaits, FeedbackToggled, AgentDies, AgentStarts

LEMMA NextListing ==
  ASSUME CapInv, CapturesNext
  PROVE  Listing'
<1>1. SUFFICES ASSUME pane'.at = "reading" PROVE Listing'
  BY DEF Listing
<1>2. CASE pane.at # "reading"
  <2>1. PaneAsks
    BY <1>1, <1>2, PaneSteps DEF PaneShows, PaneReads, CapInv, CoreInv, CaptureT, Panes
  <2>2. /\ pane'.snap = {c \in Caps : Row(c)} /\ pane'.left = Caps
        /\ UNCHANGED <<task, status, deleting, deleted>>
    BY <2>1 DEF PaneAsks
  <2>3. steady' = {c \in Caps : Known(c)}
    BY <1>1, <1>2 DEF CapturesNext, Watched
  <2>4. ASSUME NEW c \in Caps, Known(c), ~Row(c) PROVE task[c] = "over"
    BY <2>4 DEF Known, Recorded, Row, CapInv, CoreInv, StatusIsPast, Past
  <2>5. QED
    BY <2>2, <2>3, <2>4 DEF Listing, Known, Recorded, Row
<1>3. CASE pane.at = "reading"
  <2>1. steady' \subseteq steady /\ \A c \in steady' : Known(c)'
    BY <1>1, <1>3 DEF CapturesNext, Watched
  <2>2. \A c \in steady : /\ c \in Caps /\ Known(c)
                          /\ \/ c \in pane.snap
                             \/ task[c] = "over" /\ task'[c] = "over" /\ c \in pane.seen \cup pane.left
    BY <1>3, OverStays DEF CapInv, Listing
  <2>3. CASE pane' = pane
    BY <2>1, <2>2, <2>3 DEF Listing
  <2>4. ASSUME NEW c \in Caps, PaneReads(c) PROVE Listing'
    <3>1. /\ pane'.snap = pane.snap /\ pane'.left = pane.left \ {c}
          /\ pane.seen \subseteq pane'.seen
          /\ file[c] = "whole" => c \in pane'.seen
      BY <2>4 DEF PaneReads, CapInv, CoreInv, CaptureT, Panes
    <3>2. Known(c) /\ task[c] = "over" => file[c] = "whole"
      BY DEF Known, Row, CapInv, CoreInv, RecordIsWhole
    <3>3. QED
      BY <2>1, <2>2, <3>1, <3>2 DEF Listing
  <2>5. ~PaneAsks /\ ~PaneShows
    BY <1>1, <1>3 DEF PaneAsks, PaneShows, CapInv, CoreInv, CaptureT, Panes
  <2>6. QED
    BY <2>3, <2>4, <2>5, PaneSteps
<1>4. QED
  BY <1>2, <1>3

LEMMA NextCapInv == CapInv /\ [CapturesNext]_captureVars => CapInv'
<1> SUFFICES ASSUME CapInv, [CapturesNext]_captureVars PROVE CapInv'
  OBVIOUS
<1>1. CoreInv'
  BY NextCore DEF CapInv
<1>2. CASE UNCHANGED captureVars
  BY <1>1, <1>2 DEF CapInv, Listing, captureVars, Known, Row, Recorded
<1>3. CASE CapturesNext
  BY <1>1, <1>3, NextListing DEF CapInv
<1>4. QED
  BY <1>2, <1>3

LEMMA ListingIsWhole ==
  ASSUME CapInv, [CapturesNext]_captureVars, pane.at = "reading", pane'.at = "shown"
  PROVE  steady \subseteq pane.seen \cup Snapshot
<1>1. PaneShows
  BY PaneSteps DEF captureVars, PaneAsks, PaneReads, CapInv, CoreInv, CaptureT, Panes
<1>2. pane.left = {}
  BY <1>1 DEF PaneShows
<1>3. QED
  BY <1>2 DEF CapInv, Listing, Snapshot

-----------------------------------------------------------------------------
(* The toast of an upload                                                  *)

PollStates == {"none", "asleep", "title", "insight", "fire", "held", "over", "shown", "dropped", "refused"}
PollRecords == [at : PollStates, owns : BOOLEAN, left : Nat, cached : BOOLEAN,
                saw : {"none", "transcribed", "analyzed"}, toasts : {0, 1}]

\* A poll that owns the toast has shown none until its card, and one that fires owns it.
OneToast(q) == /\ q \in PollRecords
               /\ q.at \in {"fire", "held"} => q.owns
               /\ q.owns /\ q.at # "shown" => q.toasts = 0

Toasts == poll \in [Polls -> PollRecords] /\ \A p \in Polls : OneToast(poll[p])

LEMMA EndedToast ==
  ASSUME NEW q, OneToast(q), q.at # "shown", NEW how \in PollStates \ {"shown"},
         how \in {"fire", "held"} => q.owns
  PROVE  OneToast(Ended(q, how)) /\ Ended(q, how).owns = q.owns /\ Ended(q, how).at = how
         /\ Ended(q, how).toasts = q.toasts
BY DEF OneToast, Ended, NoPoll, PollRecords, PollStates

LEMMA FetchingEndsToast ==
  ASSUME NEW q, OneToast(q), q.at # "shown"
  PROVE  OneToast(FetchingEnds(q))
<1>1. CASE q.owns
  <2>1. OneToast(Ended(q, "fire")) /\ Ended(q, "fire").owns /\ Ended(q, "fire").at = "fire"
    BY <1>1, EndedToast DEF PollStates
  <2>2. OneToast([Ended(q, "fire") EXCEPT !.left = Holds])
    BY <2>1, CapturesAssumption DEF OneToast, PollRecords
  <2>3. QED
    BY <1>1, <2>2 DEF FetchingEnds
<1>2. CASE ~q.owns
  <2>1. OneToast(Ended(q, "over"))
    BY EndedToast DEF PollStates
  <2>2. QED
    BY <1>2, <2>1 DEF FetchingEnds
<1>3. QED
  BY <1>1, <1>2

LEMMA NextTickToast ==
  ASSUME NEW q, OneToast(q), q.at # "shown"
  PROVE  OneToast(NextTick(q))
<1>1. CASE q.left > 1
  <2>1. q.left - 1 \in Nat /\ q \in PollRecords
    BY <1>1 DEF OneToast, PollRecords
  <2> DEFINE n == q.left - 1
  <2> HIDE DEF n
  <2>2. OneToast([q EXCEPT !.at = "asleep", !.left = n, !.saw = "none"])
    BY <2>1 DEF n, OneToast, PollRecords, PollStates
  <2>3. QED
    BY <1>1, <2>2 DEF n, NextTick
<1>2. CASE ~(q.left > 1)
  BY <1>2, FetchingEndsToast DEF NextTick
<1>3. QED
  BY <1>1, <1>2

LEMMA AfterTitleToast ==
  ASSUME NEW q, OneToast(q), q.at # "shown"
  PROVE  OneToast(AfterTitle(q))
<1>1. OneToast([q EXCEPT !.at = "insight"])
  BY DEF OneToast, PollRecords, PollStates
<1>2. OneToast(Ended(q, "over"))
  BY EndedToast DEF PollStates
<1>3. QED
  BY <1>1, <1>2, NextTickToast DEF AfterTitle

LEMMA FetchedToast ==
  ASSUME NEW q, OneToast(q), q.at # "shown", NEW answer \in Answers
  PROVE  OneToast(Fetched(q, answer))
<1>1. CASE answer \in Retried
  <2>1. Fetched(q, answer) = NextTick(q)
    BY <1>1 DEF Fetched, Retried
  <2>2. QED
    BY <2>1, NextTickToast
<1>2. CASE answer = "failed"
  BY <1>2, FetchingEndsToast DEF Fetched, Retried
<1>3. CASE answer \in {"transcribed", "analyzed"}
  <2> DEFINE seen == [q EXCEPT !.saw = answer]
  <2>1. OneToast(seen) /\ seen.at # "shown" /\ OneToast([seen EXCEPT !.at = "title"])
    BY <1>3 DEF OneToast, PollRecords, PollStates
  <2>2. Fetched(q, answer) = IF q.cached THEN AfterTitle(seen) ELSE [seen EXCEPT !.at = "title"]
    BY <1>3 DEF Fetched, Retried
  <2> HIDE DEF seen
  <2>3. QED
    BY <2>1, <2>2, AfterTitleToast
<1>4. CASE answer = "refused"
  <2>1. OneToast(Ended(q, "refused"))
    BY EndedToast DEF PollStates
  <2>2. QED
    BY <1>4, <2>1 DEF Fetched, Retried
<1>5. QED
  BY <1>1, <1>2, <1>3, <1>4 DEF Answers, Retried

LEMMA NotedToast ==
  ASSUME NEW q, OneToast(q), q.at # "shown", NEW ok \in BOOLEAN
  PROVE  OneToast(Noted(q, ok))
<1>1. OneToast([q EXCEPT !.cached = ok]) /\ [q EXCEPT !.cached = ok].at # "shown"
  BY DEF OneToast, PollRecords
<1>2. QED
  BY <1>1, AfterTitleToast, FetchingEndsToast DEF Noted

LEMMA HeldToast ==
  ASSUME NEW q, OneToast(q), q.at \in {"fire", "held"}, NEW armed \in BOOLEAN
  PROVE  OneToast(Held(q, armed))
<1>1. CASE ~armed
  <2>1. q.owns /\ q.toasts = 0
    BY DEF OneToast
  <2>2. Ended(q, "shown") \in PollRecords /\ Ended(q, "shown").at = "shown"
        /\ Ended(q, "shown").toasts = 0
    BY <2>1 DEF OneToast, Ended, NoPoll, PollRecords, PollStates
  <2>3. OneToast([Ended(q, "shown") EXCEPT !.toasts = Ended(q, "shown").toasts + 1])
    BY <2>2 DEF OneToast, PollRecords
  <2>4. QED
    BY <1>1, <2>3 DEF Held
<1>2. CASE armed /\ q.left = 0
  BY <1>2, EndedToast DEF Held, PollStates
<1>3. CASE armed /\ q.left # 0
  <2> DEFINE n == q.left - 1
  <2>1. n \in Nat /\ q \in PollRecords
    BY <1>3 DEF OneToast, PollRecords
  <2> HIDE DEF n
  <2>2. OneToast([q EXCEPT !.at = "held", !.left = n])
    BY <2>1 DEF OneToast, PollRecords, PollStates
  <2>3. QED
    BY <1>3, <2>2 DEF n, Held
<1>4. QED
  BY <1>1, <1>2, <1>3

\* One poll takes a value that keeps OneToast; the others stay.
LEMMA OnePoll ==
  ASSUME Toasts, NEW p, NEW q, OneToast(q), poll' = [poll EXCEPT ![p] = q]
  PROVE  Toasts'
BY DEF Toasts, OneToast

\* What the worker writes for a poll is what that poll waits for.
NoteFits == job.does = "note" =>
              \E p \in Polls : /\ job = [cap |-> p[1], does |-> "note", of |-> p[2]]
                               /\ poll[p].at \in {"title", "insight"}

ToastInv == CapInv /\ NoteFits /\ Toasts

LEMMA ToastsInit == CapturesInit => ToastInv
<1> SUFFICES ASSUME CapturesInit PROVE ToastInv
  OBVIOUS
<1>1. NoPoll \in PollRecords /\ OneToast(NoPoll)
  BY DEF NoPoll, PollRecords, PollStates, OneToast
<1>2. Toasts
  BY <1>1 DEF CapturesInit, Toasts
<1>3. NoteFits
  BY DEF CapturesInit, NoteFits, Idle
<1>4. QED
  BY <1>2, <1>3, InitCore DEF ToastInv

LEMMA PollsToast ==
  ASSUME ToastInv, NEW p \in Polls, PollRuns(p)
  PROVE  Toasts'
<1> DEFINE q == poll[p]
<1>1. OneToast(q)
  BY DEF ToastInv, Toasts
<1> HIDE DEF q
<1>2. CASE PollFetches(p)
  <2>1. PICK answer \in Answers : poll' = [poll EXCEPT ![p] = Fetched(q, answer)]
    BY <1>2 DEF PollFetches, q
  <2>2. OneToast(Fetched(q, answer))
    BY <1>1, <1>2, FetchedToast DEF PollFetches, q
  <2>3. QED
    BY <2>1, <2>2, OnePoll DEF ToastInv
<1>3. CASE PollSkips(p)
  <2>1. poll' = [poll EXCEPT ![p] = Noted(q, FALSE)] /\ q.at # "shown"
    BY <1>3 DEF PollSkips, q
  <2>2. OneToast(Noted(q, FALSE))
    BY <1>1, <2>1, NotedToast
  <2>3. QED
    BY <2>1, <2>2, OnePoll DEF ToastInv
<1>4. CASE PollReads(p)
  BY <1>4 DEF PollReads, ToastInv, Toasts
<1>5. CASE PollFires(p) \/ PollWaits(p)
  <2>1. q.at \in {"fire", "held"} /\ OneToast(Ended(q, "over"))
    BY <1>1, <1>5, EndedToast DEF PollFires, PollWaits, PollStates, q
  <2>2. PICK armed \in BOOLEAN : \/ poll' = [poll EXCEPT ![p] = Held(q, armed)]
                                 \/ poll' = [poll EXCEPT ![p] = Ended(q, "over")]
    BY <1>5 DEF PollFires, PollWaits, q
  <2>3. OneToast(Held(q, armed))
    BY <1>1, <2>1, HeldToast
  <2>4. QED
    BY <2>1, <2>2, <2>3, OnePoll DEF ToastInv
<1>6. QED
  BY <1>2, <1>3, <1>4, <1>5 DEF PollRuns

LEMMA WritesToast ==
  ASSUME ToastInv, PollWrites
  PROVE  Toasts'
<1>1. PICK p \in Polls : job = [cap |-> p[1], does |-> "note", of |-> p[2]] /\ poll[p].at \in {"title", "insight"}
  BY DEF ToastInv, NoteFits, PollWrites
<1>2. p = <<job.cap, job.of>>
  BY <1>1 DEF Polls
<1> DEFINE q == poll[p]
           ok == file[job.cap] # "none"
<1>3. OneToast(q) /\ q.at # "shown" /\ ok \in BOOLEAN
  BY <1>1 DEF ToastInv, Toasts
<1>4. poll' = [poll EXCEPT ![p] = Noted(q, ok)]
  BY <1>2 DEF PollWrites
<1> HIDE DEF q, ok
<1>5. OneToast(Noted(q, ok))
  BY <1>3, NotedToast
<1>6. QED
  BY <1>4, <1>5, OnePoll DEF ToastInv

\* The saved toast is shown only for a poll that does not own the card.
LEMMA ConcludesToast ==
  ASSUME ToastInv, AttemptConcludes
  PROVE  Toasts'
<1> DEFINE c == job.cap
<1>1. CASE poll' = poll
  BY <1>1 DEF ToastInv, Toasts
<1>2. ASSUME NEW fresh \in BOOLEAN,
             poll' = [poll EXCEPT ![<<c, wins[c] + 1>>] =
                        [NoPoll EXCEPT !.at = "asleep", !.left = Ticks,
                           !.owns = Owns(c, fresh), !.toasts = SavedToast(c)]]
      PROVE  Toasts'
  <2> DEFINE p == <<c, wins[c] + 1>>
             owns == Owns(c, fresh)
             saved == SavedToast(c)
  <2>1. owns \in BOOLEAN
    BY Zenon DEF Owns
  <2>2. saved \in {0, 1} /\ (owns => saved = 0)
    BY DEF Owns, SavedToast
  <2> HIDE DEF owns, saved
  <2>3. OneToast([NoPoll EXCEPT !.at = "asleep", !.left = Ticks, !.owns = owns, !.toasts = saved])
    BY <2>1, <2>2, CapturesAssumption DEF NoPoll, OneToast, PollRecords, PollStates
  <2>4. QED
    BY <1>2, <2>3, OnePoll DEF owns, saved, ToastInv
<1>3. QED
  BY <1>1, <1>2 DEF AttemptConcludes

LEMMA DiesToast ==
  ASSUME ToastInv, AgentDies
  PROVE  Toasts'
<1>1. poll' = [p \in Polls |-> IF poll[p].at \in {"none", "shown"} THEN poll[p] ELSE Ended(poll[p], "over")]
  BY DEF AgentDies
<1>2. ASSUME NEW p \in Polls PROVE poll'[p] \in PollRecords /\ OneToast(poll'[p])
  <2>1. OneToast(poll[p])
    BY DEF ToastInv, Toasts
  <2>2. CASE poll[p].at \in {"none", "shown"}
    BY <1>1, <2>1, <2>2 DEF OneToast
  <2>3. CASE poll[p].at \notin {"none", "shown"}
    <3>1. OneToast(Ended(poll[p], "over"))
      BY <2>1, <2>3, EndedToast DEF PollStates
    <3>2. QED
      BY <1>1, <2>3, <3>1 DEF OneToast
  <2>4. QED
    BY <2>2, <2>3
<1>3. QED
  BY <1>1, <1>2 DEF Toasts

LEMMA NextToasts ==
  ASSUME ToastInv, CapturesNext
  PROVE  Toasts'
<1>1. CASE poll' = poll
  BY <1>1 DEF ToastInv, Toasts
<1>2. \/ poll' = poll \/ PollWrites \/ AttemptConcludes \/ AgentDies
      \/ \E p \in Polls : PollRuns(p)
  BY DEF CapturesNext, WorkOn, SessionCloses, RecordOpened, LiveTries, AttemptReads, ServerAnswers,
         SweepTries, PaneReads, DeleteUnlinks, DeleteEnds, WorkerEnds, RecordWritten, StubWritten,
         InFlightWritten, SweepCollects, FeedbackToggled, PaneAsks, PaneShows, AgentStarts
<1>3. QED
  BY <1>1, <1>2, PollsToast, WritesToast, ConcludesToast, DiesToast

LEMMA NextNote ==
  ASSUME ToastInv, CapturesNext
  PROVE  NoteFits'
<1> SUFFICES ASSUME job'.does = "note"
             PROVE  \E p \in Polls : /\ job' = [cap |-> p[1], does |-> "note", of |-> p[2]]
                                     /\ poll'[p].at \in {"title", "insight"}
  BY DEF NoteFits
<1>1. ASSUME NEW p \in Polls, PollReads(p)
      PROVE  job' = [cap |-> p[1], does |-> "note", of |-> p[2]] /\ poll'[p].at \in {"title", "insight"}
  BY <1>1 DEF PollReads
<1>2. ASSUME NEW c \in Caps, SessionCloses(c) \/ WorkOn(c) \/ SweepTries(c) \/ PaneReads(c)
                               \/ DeleteUnlinks(c) \/ DeleteEnds(c)
      PROVE  job' = job /\ poll' = poll
  <2>1. CASE RecordOpened(c)
    BY <2>1 DEF RecordOpened
  <2>2. CASE AttemptReads(c)
    <3>1. poll' = poll /\ att[c] # "note"
      BY <2>2 DEF AttemptReads
    <3>2. job' = job \/ job' = [cap |-> c, does |-> att[c]]
      BY <2>2, Zenon DEF AttemptReads
    <3>3. QED
      BY <3>1, <3>2
  <2>3. CASE ~RecordOpened(c) /\ ~AttemptReads(c)
    BY <1>2, <2>3 DEF SessionCloses, WorkOn, LiveTries, ServerAnswers, SweepTries, PaneReads,
                      DeleteUnlinks, DeleteEnds
  <2>4. QED
    BY <2>1, <2>2, <2>3
<1>3. ~WorkerEnds /\ ~AgentDies
  <2>1. WorkerEnds \/ AgentDies => job' = Idle
    BY Zenon DEF WorkerEnds, RecordWritten, StubWritten, InFlightWritten, AttemptConcludes,
                 PollWrites, AgentDies
  <2>2. QED
    BY <2>1 DEF Idle
<1>4. ASSUME NEW r \in Polls, PollRuns(r), ~PollReads(r)
      PROVE  \E p \in Polls : /\ job' = [cap |-> p[1], does |-> "note", of |-> p[2]]
                              /\ poll'[p].at \in {"title", "insight"}
  <2>1. job' = job
    BY <1>4 DEF PollRuns, PollFetches, PollSkips, PollFires, PollWaits
  <2>2. PICK p \in Polls : job = [cap |-> p[1], does |-> "note", of |-> p[2]] /\ poll[p].at \in {"title", "insight"}
    BY <2>1 DEF ToastInv, NoteFits
  <2>3. r # p
    BY <1>4, <2>2 DEF PollRuns, PollFetches, PollSkips, PollFires, PollWaits
  <2>4. poll'[p] = poll[p]
    BY <1>4, <2>3 DEF PollRuns, PollFetches, PollSkips, PollFires, PollWaits, ToastInv, Toasts
  <2>5. QED
    BY <2>1, <2>2, <2>4
<1>5. CASE job' = job /\ poll' = poll
  BY <1>5 DEF ToastInv, NoteFits
<1>6. QED
  BY <1>1, <1>2, <1>3, <1>4, <1>5
  DEF CapturesNext, SweepCollects, FeedbackToggled, PaneAsks, PaneShows, AgentStarts

LEMMA NextToastInv == ToastInv /\ [CapturesNext]_captureVars => ToastInv'
<1> SUFFICES ASSUME ToastInv, [CapturesNext]_captureVars PROVE ToastInv'
  OBVIOUS
<1>1. CapInv'
  BY NextCapInv DEF ToastInv
<1>2. CASE UNCHANGED captureVars
  BY <1>1, <1>2 DEF ToastInv, NoteFits, Toasts, captureVars
<1>3. CASE CapturesNext
  BY <1>1, <1>3, NextToasts, NextNote DEF ToastInv
<1>4. QED
  BY <1>2, <1>3

-----------------------------------------------------------------------------
LEMMA CapturesInvariant == Spec => []ToastInv
<1>1. CapturesInit => ToastInv
  BY ToastsInit
<1>2. ToastInv /\ [CapturesNext]_captureVars => ToastInv'
  BY NextToastInv
<1>3. QED
  BY <1>1, <1>2, PTL DEF Spec

\* A capture whose deletion the pane reported stays deleted, for any number of
\* captures, sweeps, polls and deaths of the agent: every writer of the agent renames
\* into the directory it read, and none makes that directory anew.
THEOREM DeletionSticks == Spec => []DeletedStaysDeleted
<1>1. ToastInv => DeletedStaysDeleted
  BY DEF ToastInv, CapInv, CoreInv
<1>2. QED
  BY <1>1, CapturesInvariant, PTL

\* An upload is announced once, by the saved toast or by the card, however often the
\* feedback setting changes during the poll and whatever the server answers.
THEOREM AnnouncedOnce == Spec => []OneToastPerUpload
<1>1. ToastInv => OneToastPerUpload
  BY DEF ToastInv, Toasts, OneToast, PollRecords, OneToastPerUpload
<1>2. QED
  BY <1>1, CapturesInvariant, PTL

\* A listing of the Captures pane loses no capture that was processing or on disk
\* from its start to its end, whatever the agent does between its reads.
THEOREM ListingLosesNone == Spec => PaneIsWhole
<1>1. ToastInv /\ [CapturesNext]_captureVars
      => [pane.at = "reading" /\ pane'.at = "shown" => steady \subseteq pane.seen \cup Snapshot]_captureVars
  BY ListingIsWhole DEF ToastInv
<1>2. QED
  BY <1>1, CapturesInvariant, PTL DEF Spec, PaneIsWhole
=============================================================================
