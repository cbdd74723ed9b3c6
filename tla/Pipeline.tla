------------------------------ MODULE Pipeline ------------------------------
(* The capture side and the processing side of the agent together: sessions   *)
(* are recorded (Timeline), and what the last one left in its buffers is      *)
(* processed as the agent stops (SessionClose).  The processing of a session  *)
(* reads its own buffers only, so following one session loses nothing.        *)
EXTENDS Timeline, SessionClose

TightMic == [mic |-> 0, system |-> 1]

pipelineVars == <<vars, job>>

PipelineTypeOK ==
  /\ TypeOK
  /\ job.stage \in Stages
  /\ job.stage \notin {"none", "lost", "matched", "written"} =>
       /\ job.len \in Nat
       /\ \A s \in job.mic \cup job.sys \cup job.echo : s[1] < s[2]

PipelineInit == Init /\ job = [stage |-> "none"]

Record == job.stage = "none" /\ TimelineNext /\ UNCHANGED job

\* take_closed_session in the ticker, or after the arm controller has stopped.
\* What was said is any stretch on either channel; the last one may end after
\* the last frame that was written.  The queues have settled: the consumers drop
\* what is left in them.
TakeClosed ==
  /\ job.stage = "none" /\ session = "idle" /\ opened = MaxSessions
  /\ \A src \in Source : posted[src] = <<>> /\ queue[src] = <<>>
  /\ LET len == Len(buf["mic"])
         said == {{}} \cup {{s} : s \in Spans(len + 1)}
     IN  \E mic, sys \in said :
           job' = [stage |-> "closed", len |-> len, heard |-> mic, mic |-> mic,
                   sys |-> sys, echo |-> {}, delay |-> 0, ref |-> <<>>, cut |-> <<0, 0>>, silent |-> {}]
  /\ UNCHANGED <<clock, session, opened, on, device, posted, queue>>
  /\ lastTs' = None
  /\ buf' = [src \in Source |-> <<>>] /\ end' = [src \in Source |-> 0]
  /\ t0' = 0 /\ anchored' = [src \in Source |-> FALSE] /\ late' = 0

PipelineNext == Record \/ TakeClosed \/ (Process /\ UNCHANGED vars)

=============================================================================
