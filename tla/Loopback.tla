------------------------------ MODULE Loopback ------------------------------
(* The threads that record the system's sound on Windows                     *)
(* (capture/system_win.py, capture/system_win_process.py).  Scoped to the    *)
(* meeting's processes, one persistent thread per process waits for an arm,  *)
(* streams until the disarm, and waits again: WASAPI activates a process     *)
(* once in the agent's life.  When no process can be activated the endpoint  *)
(* is recorded by a thread of its own, which lives as long as the session.   *)
EXTENDS Naturals, FiniteSets

CONSTANTS
  Pid,         \* the processes of the meeting application
  MaxArms      \* bound: arms

VARIABLES
  agent,       \* "disarmed", "activating", "armed"
  arms,        \* arms so far
  todo,        \* processes start() has still to activate
  asked,       \* the one of them whose activate() is running
  activated,   \* _activated_pids of the delegate
  delegate,    \* the delegate is the session's source
  stopFlag,    \* SystemCapture._stop
  endpoint,    \* endpoint threads alive
  thread,      \* process -> where its persistent thread is
  wake, idle,  \* process -> the thread's events
  ready, ok    \* process -> _first_activation_done, _first_activation_ok

vars == <<agent, arms, todo, asked, activated, delegate, stopFlag, endpoint, thread,
          wake, idle, ready, ok>>
agentVars == <<agent, arms, todo, asked, activated, delegate, stopFlag, endpoint>>

Places == {"none", "opening", "waiting", "woken", "cleared", "streaming",
           "pausing", "dead"}

TypeOK ==
  /\ agent \in {"disarmed", "activating", "armed"}
  /\ arms \in 0 .. MaxArms
  /\ todo \subseteq Pid /\ asked \subseteq todo /\ activated \subseteq Pid
  /\ delegate \in BOOLEAN /\ stopFlag \in BOOLEAN
  /\ endpoint \in 0 .. MaxArms
  /\ thread \in [Pid -> Places]
  /\ {wake, idle, ready, ok} \subseteq [Pid -> BOOLEAN]

Init ==
  /\ agent = "disarmed" /\ arms = 0
  /\ todo = {} /\ asked = {} /\ activated = {} /\ delegate = FALSE
  /\ stopFlag = FALSE /\ endpoint = 0
  /\ thread = [p \in Pid |-> "none"]
  /\ wake = [p \in Pid |-> FALSE] /\ idle = [p \in Pid |-> FALSE]
  /\ ready = [p \in Pid |-> FALSE] /\ ok = [p \in Pid |-> FALSE]

-----------------------------------------------------------------------------
(* SystemCapture and ProcessLoopbackCapture, on the event loop. *)

\* SystemCapture.start: the stop flag is cleared, also for a thread of the last
\* session that has not looked at it yet.
StartEndpoint ==
  /\ endpoint' = endpoint + 1
  /\ agent' = "armed" /\ delegate' = FALSE

Arm(scoped) ==
  /\ agent = "disarmed" /\ arms < MaxArms
  /\ arms' = arms + 1 /\ stopFlag' = FALSE /\ activated' = {}
  /\ \/ /\ scoped /\ agent' = "activating" /\ todo' = Pid
        /\ UNCHANGED <<delegate, endpoint>>
     \/ ~scoped /\ StartEndpoint /\ UNCHANGED todo
  /\ UNCHANGED <<asked, thread, wake, idle, ready, ok>>

\* activate(): the thread is told to stream and, the first time, made.
Activate(p) ==
  /\ agent = "activating" /\ p \in todo /\ asked = {}
  /\ asked' = {p}
  /\ idle' = [idle EXCEPT ![p] = FALSE]
  /\ wake' = [wake EXCEPT ![p] = TRUE]
  /\ thread' = [thread EXCEPT ![p] = IF @ = "none" THEN "opening" ELSE @]
  /\ UNCHANGED <<agent, arms, todo, activated, delegate, stopFlag, endpoint, ready, ok>>

\* It returns once the first activation is over, or five seconds later: then the
\* process is not one of those stop() will pause.
Activated(p) ==
  /\ agent = "activating" /\ p \in asked
  /\ todo' = todo \ {p} /\ asked' = {}
  /\ \/ ready[p] /\ ok[p] /\ activated' = activated \cup {p}
     \/ ready[p] /\ ~ok[p] /\ UNCHANGED activated
     \/ ~ready[p] /\ UNCHANGED activated
  /\ UNCHANGED <<agent, arms, delegate, stopFlag, endpoint, thread, wake, idle, ready, ok>>

\* One process is enough; with none the endpoint is recorded instead.
Started ==
  /\ agent = "activating" /\ todo = {}
  /\ \/ activated # {} /\ agent' = "armed" /\ delegate' = TRUE /\ UNCHANGED endpoint
     \/ activated = {} /\ StartEndpoint
  /\ UNCHANGED <<arms, todo, asked, activated, stopFlag, thread, wake, idle, ready, ok>>

\* stop(): the endpoint thread is waited for, two seconds at most, and the
\* activated threads are paused.
Disarm ==
  /\ agent = "armed"
  /\ agent' = "disarmed" /\ stopFlag' = TRUE /\ delegate' = FALSE
  /\ \/ endpoint' = 0
     \/ UNCHANGED endpoint
  /\ LET paused == IF delegate THEN activated ELSE {}
     IN  /\ wake' = [p \in Pid |-> IF p \in paused THEN FALSE ELSE wake[p]]
         /\ idle' = [p \in Pid |-> IF p \in paused THEN TRUE ELSE idle[p]]
  /\ activated' = {}
  /\ UNCHANGED <<arms, todo, asked, thread, ready, ok>>

EndpointExits ==
  /\ stopFlag /\ endpoint > 0
  /\ endpoint' = 0
  /\ UNCHANGED <<agent, arms, todo, asked, activated, delegate, stopFlag, thread, wake,
                 idle, ready, ok>>

-----------------------------------------------------------------------------
(* _PersistentLoopbackThread._run. *)

Go(p, from, to) == thread[p] = from /\ thread' = [thread EXCEPT ![p] = to]

\* WASAPI activation and initialisation, once: a failure ends the thread.
Opened(p) ==
  /\ \/ Go(p, "opening", "waiting") /\ ok' = [ok EXCEPT ![p] = TRUE]
     \/ Go(p, "opening", "dead") /\ UNCHANGED ok
  /\ ready' = [ready EXCEPT ![p] = TRUE]
  /\ UNCHANGED <<agentVars, wake, idle>>

Wakes(p) ==
  /\ wake[p] /\ Go(p, "waiting", "woken")
  /\ UNCHANGED <<agentVars, wake, idle, ready, ok>>

ClearsIdle(p) ==
  /\ Go(p, "woken", "cleared")
  /\ idle' = [idle EXCEPT ![p] = FALSE]
  /\ UNCHANGED <<agentVars, wake, ready, ok>>

Streams(p) ==
  /\ \/ Go(p, "cleared", "streaming") /\ UNCHANGED <<wake, idle>>
     \/ /\ Go(p, "cleared", "waiting")
        /\ wake' = [wake EXCEPT ![p] = FALSE]
        /\ idle' = [idle EXCEPT ![p] = TRUE]
  /\ UNCHANGED <<agentVars, ready, ok>>

Leaves(p) ==
  /\ idle[p] /\ Go(p, "streaming", "pausing")
  /\ UNCHANGED <<agentVars, wake, idle, ready, ok>>

\* audio_client.Stop(), then the wake event is cleared for the next activate.
Pauses(p) ==
  /\ Go(p, "pausing", "waiting")
  /\ wake' = [wake EXCEPT ![p] = FALSE]
  /\ UNCHANGED <<agentVars, idle, ready, ok>>

ThreadStep(p) == Opened(p) \/ Wakes(p) \/ ClearsIdle(p) \/ Streams(p) \/ Leaves(p) \/ Pauses(p)

Next ==
  \/ \E scoped \in BOOLEAN : Arm(scoped)
  \/ \E p \in Pid : Activate(p) \/ Activated(p) \/ ThreadStep(p)
  \/ Started \/ Disarm \/ EndpointExits

\* Threads run, and start() returns.
Fairness ==
  /\ \A p \in Pid : WF_vars(ThreadStep(p)) /\ WF_vars(Activate(p)) /\ WF_vars(Activated(p))
  /\ WF_vars(Started) /\ WF_vars(EndpointExits)

Spec == Init /\ [][Next]_vars /\ Fairness

-----------------------------------------------------------------------------

\* "Pause the persistent thread(s); they stay alive for next arm"
\* (system_win_process.py:865): once disarmed, and not armed again, no thread
\* records the application's sound any longer.
QuietOnceDisarmed ==
  \A p \in Pid : [](agent = "disarmed" => <>(agent # "disarmed" \/ thread[p] # "streaming"))

=============================================================================
