------------------------------ MODULE Timeline ------------------------------
(* From the sound device to the session's buffers: the producers stamp each  *)
(* frame with the time of its first sample, hand it to the event loop, a     *)
(* bounded queue drops what does not fit, the consumer passes it to the      *)
(* conversation detector, and the detector writes it into a buffer whose     *)
(* N-th place stands for the N-th instant of the session                     *)
(* (capture/mic.py, capture/system_win.py, capture/queue_guard.py,           *)
(* app._consume, conversation.on_frame).                                     *)
(*                                                                           *)
(* The unit of time is one frame.  A buffer holds, at each place, the instant *)
(* at which the frame there was really recorded, or Silence for a frame of   *)
(* zeros, so that where a frame lies can be compared with when it was heard. *)
EXTENDS Integers, Sequences

CONSTANTS
  Batch,        \* frames the loopback thread reads at once (25 in the code)
  QueueSize,    \* frames a capture queue holds (200)
  Tolerance,    \* source -> gap left unfilled (3 for the mic, 7 for the system)
  MaxFill,      \* widest gap that is filled with silence (1500)
  Jitter,       \* how far before the session's start a frame is let in (25)
  MaxLate,      \* bound: frames a device buffers beyond one block
  MaxClock,     \* bound: instants
  MaxSessions   \* bound: sessions

Source == {"mic", "system"}
Silence == -1
None == -99

ASSUME TimelineAssumption ==
  /\ {Batch, QueueSize} \subseteq Nat \ {0}
  /\ {MaxFill, Jitter, MaxLate, MaxClock, MaxSessions} \subseteq Nat
  /\ Tolerance \in [Source -> Nat]

VARIABLES
  clock,      \* time.monotonic()
  session,    \* "idle", "open", or "closing": disarmed, the buffers not yet closed
  opened,     \* sessions opened so far
  t0,         \* _session_t0_mono
  on,         \* source -> its stream is open
  device,     \* source -> instants recorded and not yet read by the producer
  lastTs,     \* the mic's _last_emitted_ts
  posted,     \* source -> frames given to call_soon_threadsafe, not yet run
  queue,      \* source -> the asyncio queue
  buf,        \* source -> mic_pcm / sys_pcm of the latest session
  end,        \* source -> _stream_end_mono
  anchored,   \* source -> a gap past the cap re-anchored it in this session
  late        \* history: the worst error of a stamp so far

vars == <<clock, session, opened, t0, on, device, lastTs, posted, queue, buf,
          end, anchored, late>>
devices == <<on, device, lastTs>>
buffers == <<session, opened, t0, buf, end, anchored>>

Larger(a, b) == IF a > b THEN a ELSE b
Zeros(n) == [i \in 1 .. n |-> Silence]
Block(src) == IF src = "mic" THEN 1 ELSE Batch

Frame == [at : 0 .. MaxClock, ts : -MaxClock .. 2 * MaxClock]

TypeOK ==
  /\ clock \in 0 .. MaxClock
  /\ session \in {"idle", "open", "closing"}
  /\ opened \in 0 .. MaxSessions
  /\ t0 \in 0 .. MaxClock
  /\ on \in [Source -> BOOLEAN]
  /\ device \in [Source -> Seq(0 .. MaxClock)]
  /\ lastTs \in {None} \cup (-MaxClock .. 2 * MaxClock)
  /\ posted \in [Source -> Seq(Frame)]
  /\ queue \in [Source -> Seq(Frame)]
  /\ \A src \in Source : Len(queue[src]) <= QueueSize
  /\ buf \in [Source -> Seq({Silence} \cup 0 .. MaxClock)]
  /\ end \in [Source -> 0 .. 3 * MaxClock]
  /\ anchored \in [Source -> BOOLEAN]
  /\ late \in 0 .. MaxClock

Init ==
  /\ clock = 0 /\ session = "idle" /\ opened = 0 /\ t0 = 0
  /\ on = [src \in Source |-> FALSE]
  /\ device = [src \in Source |-> <<>>]
  /\ lastTs = None
  /\ posted = [src \in Source |-> <<>>]
  /\ queue = [src \in Source |-> <<>>]
  /\ buf = [src \in Source |-> <<>>]
  /\ end = [src \in Source |-> 0]
  /\ anchored = [src \in Source |-> FALSE]
  /\ late = 0

-----------------------------------------------------------------------------
(* The devices and the producers. *)

\* A block of frames is in the device's ring before its reader takes it; the
\* bound on the ring is the bound on how late the reader can be.
Tick ==
  /\ clock < MaxClock
  /\ \A src \in Source : on[src] => Len(device[src]) < Block(src) + MaxLate
  /\ clock' = clock + 1
  /\ device' = [src \in Source |->
                  IF on[src] THEN Append(device[src], clock) ELSE device[src]]
  /\ UNCHANGED <<on, lastTs, posted, queue, buffers, late>>

\* A stream delivers from some time after the arm: the microphone at once, the
\* loopback thread when it has opened the device.
StreamOpens(src) ==
  /\ session = "open" /\ ~on[src]
  /\ on' = [on EXCEPT ![src] = TRUE]
  /\ UNCHANGED <<clock, device, lastTs, posted, queue, buffers, late>>

\* An overrun: read(exception_on_overflow=False) goes on after the lost frames.
DeviceLoses(src) ==
  /\ device[src] # <<>>
  /\ device' = [device EXCEPT ![src] = <<>>]
  /\ UNCHANGED <<clock, on, lastTs, posted, queue, buffers, late>>

\* Two callbacks may come at one reading of the clock: stamps are kept at least
\* one frame apart.
MicStamp == LET wall == clock - 1
            IN  IF lastTs = None THEN wall ELSE Larger(wall, lastTs + 1)

\* A batch is stamped back from the time at which the read returned.
Stamp(src, i) == IF src = "mic" THEN MicStamp ELSE clock - Batch + (i - 1)

Deliver(src) ==
  /\ on[src] /\ Len(device[src]) >= Block(src)
  /\ LET frames == [i \in 1 .. Block(src) |->
                      [at |-> device[src][i], ts |-> Stamp(src, i)]]
     IN  /\ posted' = [posted EXCEPT ![src] = @ \o frames]
         /\ late' = Larger(late, frames[1].ts - frames[1].at)
         /\ lastTs' = IF src = "mic" THEN MicStamp ELSE lastTs
  /\ device' = [device EXCEPT ![src] = SubSeq(@, Block(src) + 1, Len(@))]
  /\ UNCHANGED <<clock, on, queue, buffers>>

\* The loop runs the callbacks that wait: what fits is queued, the rest dropped.
\* A queue without a bound.
FitsAll(src) == Len(posted[src])

Room(src) == QueueSize - Len(queue[src])
Fits(src) == IF Len(posted[src]) <= Room(src) THEN Len(posted[src]) ELSE Room(src)

Land(src) ==
  /\ posted[src] # <<>>
  /\ queue' = [queue EXCEPT ![src] = @ \o SubSeq(posted[src], 1, Fits(src))]
  /\ posted' = [posted EXCEPT ![src] = <<>>]
  /\ UNCHANGED <<clock, devices, buffers, late>>

-----------------------------------------------------------------------------
(* The detector. *)

\* The place in the stream is not moved by the zeros that were written.
FillKeepsEnd(src, gap) == end[src]
\* Frames from before the session are let in.
NeverStale(ts) == FALSE

Stale(ts) == ts < t0 - Jitter
Gap(src, ts) == ts - end[src]
FilledEnd(src, gap) == end[src] + gap
Padded(pcm, n) == pcm \o Zeros(n - Len(pcm))

Skip(src) == UNCHANGED <<buf, end, anchored>>

Write(src, zeros, from, at) ==
  /\ buf' = [buf EXCEPT ![src] = @ \o Zeros(zeros) \o <<at>>]
  /\ end' = [end EXCEPT ![src] = from + 1]

Reanchor(src, f) ==
  /\ Write(src, 0, f.ts, f.at)
  /\ anchored' = [anchored EXCEPT ![src] = TRUE]

Fill(src, f) ==
  LET gap == Gap(src, f.ts)
  IN  /\ Write(src, gap, FilledEnd(src, gap), f.at)
      /\ UNCHANGED anchored

AppendFrame(src, f) ==
  /\ Write(src, 0, end[src], f.at)
  /\ UNCHANGED anchored

OnFrame(src, f) ==
  LET gap == Gap(src, f.ts)
  IN  \/ (session = "idle" \/ Stale(f.ts)) /\ Skip(src)
      \/ /\ session # "idle" /\ ~Stale(f.ts)
         /\ \/ gap > MaxFill /\ Reanchor(src, f)
            \/ gap <= MaxFill /\ gap > Tolerance[src] /\ Fill(src, f)
            \/ gap <= MaxFill /\ gap <= Tolerance[src] /\ AppendFrame(src, f)

\* A consumer that was waiting in queue.get() takes one more frame after the
\* disarm; the detector is idle then, or still closing.
Consume(src) ==
  /\ queue[src] # <<>>
  /\ queue' = [queue EXCEPT ![src] = Tail(@)]
  /\ OnFrame(src, Head(queue[src]))
  /\ UNCHANGED <<clock, devices, posted, session, opened, t0, late>>

\* open_session_on_arm, then the two start()s, each of which drains its queue.
Arm ==
  /\ session = "idle" /\ opened < MaxSessions
  /\ session' = "open" /\ opened' = opened + 1
  /\ t0' = clock
  /\ buf' = [src \in Source |-> <<>>]
  /\ end' = [src \in Source |-> clock]
  /\ anchored' = [src \in Source |-> FALSE]
  /\ queue' = [src \in Source |-> <<>>]
  /\ lastTs' = None
  /\ UNCHANGED <<clock, on, device, posted, late>>

\* The two stop()s: no frame is read any more and the queues are drained, but
\* what was posted to the loop meanwhile lands after the drain.
Disarm ==
  /\ session = "open"
  /\ session' = "closing"
  /\ on' = [src \in Source |-> FALSE]
  /\ device' = [src \in Source |-> <<>>]
  /\ queue' = [src \in Source |-> <<>>]
  /\ UNCHANGED <<clock, opened, t0, lastTs, posted, buf, end, anchored, late>>

\* _close_session: the shorter channel is padded.
Close ==
  /\ session = "closing"
  /\ session' = "idle"
  /\ LET n == Larger(Len(buf["mic"]), Len(buf["system"]))
     IN  buf' = [src \in Source |-> Padded(buf[src], n)]
  /\ UNCHANGED <<clock, opened, t0, devices, posted, queue, end, anchored, late>>

TimelineNext ==
  \/ Tick \/ Arm \/ Disarm \/ Close
  \/ \E src \in Source :
       StreamOpens(src) \/ DeviceLoses(src) \/ Deliver(src) \/ Land(src) \/ Consume(src)

-----------------------------------------------------------------------------
(* Properties. *)

Heard(src) == {i \in DOMAIN buf[src] : buf[src][i] # Silence}

\* Sample N of a channel stands for the instant t0 + N (conversation.py, "Mono-
\* clock invariant").  Whatever is lost in the device, dropped by a full queue
\* or delivered late, a frame lies at most the gap tolerance before the instant
\* it was heard, and at most the arm jitter and the worst stamp error after it,
\* unless its channel was re-anchored; and closing does not move it.
Aligned ==
  \A src \in Source : ~anchored[src] =>
    \A i \in Heard(src) :
      LET ahead == t0 + (i - 1) - buf[src][i]
      IN  -Tolerance[src] <= ahead /\ ahead <= Jitter + late

\* No sound from before the session is in its buffers, but for the jitter at the
\* arm and the error of the stamps: what an earlier session left in the loop or
\* in a queue is drained or refused, re-anchored channel or not.
NothingFromBefore ==
  \A src \in Source : \A i \in Heard(src) : buf[src][i] >= t0 - Jitter - late

=============================================================================
