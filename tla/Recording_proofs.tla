-------------------------- MODULE Recording_proofs --------------------------
(***************************************************************************)
(* Proofs about the parts of Recording, for any number of sessions, frames *)
(* and faults: where the frames of a session lie in its buffers and which  *)
(* sound is in them, what the closed session becomes, what the shortcut is *)
(* bound to, which suggestions come back and which app a meeting is        *)
(* matched to.                                                             *)
(***************************************************************************)
EXTENDS Recording, FiniteSetTheorems, WellFoundedInduction, TLAPS

Frames == [at : Nat, ts : Int]

-----------------------------------------------------------------------------
(* The streams on their way to the detector                                *)

\* Frames in the order in which they were heard, each stamped no earlier than it
\* was heard, and later by no more than the worst error so far.
Stamped(s, instant, worst) ==
  \A i \in 1 .. Len(s) : s[i].at < instant /\ s[i].at <= s[i].ts /\ s[i].ts <= s[i].at + worst
Rising(s) == \A i, j \in 1 .. Len(s) : i < j => s[i].at < s[j].at
Precedes(s, t) == \A i \in 1 .. Len(s), j \in 1 .. Len(t) : s[i].at < t[j].at

\* The device holds the latest instants, without a hole; what was read of it before
\* is older.
Latest(d, instant) == \A i \in 1 .. Len(d) : d[i] = instant - Len(d) + i - 1
Older(s, d) == \A i \in 1 .. Len(s), j \in 1 .. Len(d) : s[i].at < d[j]

Waiting(s, d, instant, worst) ==
  s \in Seq(Frames) /\ Stamped(s, instant, worst) /\ Rising(s) /\ Older(s, d)

OnWay(d, p, q, instant, worst) ==
  /\ d \in Seq(Nat) /\ Latest(d, instant)
  /\ Waiting(p, d, instant, worst) /\ Waiting(q, d, instant, worst) /\ Precedes(q, p)

\* The place at which the next frame goes is not too far past a frame that comes.
NotPast(s, start, place, worst) ==
  \A i \in 1 .. Len(s) : s[i].ts < start - Jitter \/ place <= s[i].at + Jitter + worst
NotPastDevice(d, place, worst) == \A i \in 1 .. Len(d) : place <= d[i] + Jitter + worst

Tracked(d, p, q, instant, start, place, worst) ==
  /\ place <= instant + Jitter + worst
  /\ NotPast(p, start, place, worst) /\ NotPast(q, start, place, worst)
  /\ NotPastDevice(d, place, worst)

\* What lies in a buffer, of the session and where it was heard.
Recent(b, start, worst) ==
  \A i \in 1 .. Len(b) : b[i] # Silence => b[i] >= start - Jitter - worst
Placed(b, start, worst, tolerance) ==
  \A i \in 1 .. Len(b) : b[i] # Silence =>
    -tolerance <= start + (i - 1) - b[i] /\ start + (i - 1) - b[i] <= Jitter + worst

TimelineTypes ==
  /\ clock \in Nat /\ t0 \in Nat /\ late \in Nat /\ lastTs \in Int
  /\ session \in {"idle", "open", "closing"}
  /\ on \in [Source -> BOOLEAN]
  /\ device \in [Source -> Seq(Nat)] /\ posted \in [Source -> Seq(Frames)]
  /\ queue \in [Source -> Seq(Frames)] /\ buf \in [Source -> Seq(Int)]
  /\ end \in [Source -> Int] /\ anchored \in [Source -> BOOLEAN]

StreamInv(src) ==
  /\ OnWay(device[src], posted[src], queue[src], clock, late)
  /\ Len(queue[src]) <= QueueSize
  /\ on[src] => session = "open"
  /\ ~on[src] => device[src] = <<>>
  /\ session # "idle" =>
       /\ Tracked(device[src], posted[src], queue[src], clock, t0, end[src], late)
       /\ ~anchored[src] => end[src] = t0 + Len(buf[src])
  /\ Recent(buf[src], t0, late)
  /\ ~anchored[src] => Placed(buf[src], t0, late, Tolerance[src])

TimelineInv == TimelineTypes /\ \A src \in Source : StreamInv(src)

LEMMA TimelineConstants ==
  /\ Batch \in Nat \ {0} /\ QueueSize \in Nat \ {0}
  /\ MaxFill \in Nat /\ Jitter \in Nat /\ MaxLate \in Nat /\ MaxClock \in Nat /\ MaxSessions \in Nat
  /\ \A src \in Source : Tolerance[src] \in Nat /\ Block(src) \in Nat \ {0}
BY TimelineAssumption DEF Block

-----------------------------------------------------------------------------
(* Sequences of frames                                                     *)

LEMMA NoFrames ==
  ASSUME NEW d, NEW instant, NEW worst, NEW start, NEW place, NEW t
  PROVE  /\ Waiting(<<>>, d, instant, worst) /\ NotPast(<<>>, start, place, worst)
         /\ Precedes(<<>>, t) /\ Precedes(t, <<>>)
         /\ Older(t, <<>>) /\ Latest(<<>>, instant) /\ NotPastDevice(<<>>, place, worst)
BY DEF Waiting, Stamped, Rising, Older, NotPast, Precedes, Latest, NotPastDevice

LEMMA PrefixWaits ==
  ASSUME NEW s \in Seq(Frames), NEW n \in 0 .. Len(s), NEW d, NEW instant, NEW worst, NEW start, NEW place,
         NEW t
  PROVE  /\ Waiting(s, d, instant, worst) => Waiting(SubSeq(s, 1, n), d, instant, worst)
         /\ NotPast(s, start, place, worst) => NotPast(SubSeq(s, 1, n), start, place, worst)
         /\ Precedes(s, t) => Precedes(SubSeq(s, 1, n), t)
         /\ Precedes(t, s) => Precedes(t, SubSeq(s, 1, n))
<1> DEFINE w == SubSeq(s, 1, n)
<1>1. w \in Seq(Frames) /\ Len(w) = n /\ \A i \in 1 .. n : w[i] = s[i]
  OBVIOUS
<1>2. \A i \in 1 .. n : i \in 1 .. Len(s)
  OBVIOUS
<1> HIDE DEF w
<1>3. /\ Waiting(s, d, instant, worst) => Waiting(w, d, instant, worst)
      /\ NotPast(s, start, place, worst) => NotPast(w, start, place, worst)
  BY <1>1, <1>2 DEF Waiting, Stamped, Rising, Older, NotPast
<1>4. (Precedes(s, t) => Precedes(w, t)) /\ (Precedes(t, s) => Precedes(t, w))
  BY <1>1, <1>2 DEF Precedes
<1>5. QED
  BY <1>3, <1>4 DEF w

LEMMA JoinWaits ==
  ASSUME NEW s, NEW t, NEW d, NEW instant, NEW worst, NEW start, NEW place,
         Waiting(s, d, instant, worst), Waiting(t, d, instant, worst), Precedes(s, t), NEW q
  PROVE  /\ Waiting(s \o t, d, instant, worst)
         /\ NotPast(s, start, place, worst) /\ NotPast(t, start, place, worst)
              => NotPast(s \o t, start, place, worst)
         /\ Precedes(q, s) /\ Precedes(q, t) => Precedes(q, s \o t)
<1> DEFINE w == s \o t
<1>0. s \in Seq(Frames) /\ t \in Seq(Frames)
  BY DEF Waiting
<1>1. /\ w \in Seq(Frames) /\ Len(w) = Len(s) + Len(t) /\ Len(s) \in Nat /\ Len(t) \in Nat
      /\ \A i \in 1 .. Len(s) : w[i] = s[i]
      /\ \A i \in 1 .. Len(t) : w[Len(s) + i] = t[i]
  BY <1>0
<1>2. \A i \in 1 .. Len(w) :
        \/ i \in 1 .. Len(s) /\ w[i] = s[i]
        \/ i > Len(s) /\ i - Len(s) \in 1 .. Len(t) /\ w[i] = t[i - Len(s)]
  <2>1. \A i \in 1 .. Len(w) : i \in 1 .. Len(s) \/ (i > Len(s) /\ i - Len(s) \in 1 .. Len(t)
                                                    /\ i = Len(s) + (i - Len(s)))
    BY <1>1
  <2>2. QED
    BY <1>1, <2>1
<1> HIDE DEF w
<1>3. /\ Stamped(w, instant, worst) /\ Older(w, d)
      /\ NotPast(s, start, place, worst) /\ NotPast(t, start, place, worst)
           => NotPast(w, start, place, worst)
  BY <1>2 DEF Waiting, Stamped, Older, NotPast
<1>4. Rising(w)
  <2> SUFFICES ASSUME NEW i \in 1 .. Len(w), NEW j \in 1 .. Len(w), i < j
               PROVE  w[i].at < w[j].at
    BY DEF Rising
  <2>1. CASE i \in 1 .. Len(s) /\ w[i] = s[i]
    <3>1. CASE j \in 1 .. Len(s) /\ w[j] = s[j]
      BY <2>1, <3>1 DEF Waiting, Rising
    <3>2. CASE j - Len(s) \in 1 .. Len(t) /\ w[j] = t[j - Len(s)]
      BY <2>1, <3>2 DEF Precedes
    <3>3. QED
      BY <1>2, <3>1, <3>2
  <2>2. CASE i > Len(s) /\ i - Len(s) \in 1 .. Len(t) /\ w[i] = t[i - Len(s)]
    <3>1. j - Len(s) \in 1 .. Len(t) /\ w[j] = t[j - Len(s)] /\ i - Len(s) < j - Len(s)
      BY <1>1, <1>2, <2>2
    <3>2. QED
      BY <2>2, <3>1 DEF Waiting, Rising
  <2>3. QED
    BY <1>2, <2>1, <2>2
<1>5. Precedes(q, s) /\ Precedes(q, t) => Precedes(q, w)
  BY <1>2 DEF Precedes
<1>6. QED
  BY <1>1, <1>3, <1>4, <1>5 DEF w, Waiting

-----------------------------------------------------------------------------
(* What an instant, a read of the device and a landing do to them          *)

LEMMA FrameTypes ==
  ASSUME NEW s \in Seq(Frames), NEW i \in 1 .. Len(s)
  PROVE  s[i] \in Frames /\ s[i].at \in Nat /\ s[i].ts \in Int
<1>1. s[i] \in Frames
  OBVIOUS
<1>2. QED
  BY <1>1 DEF Frames

LEMMA InstantPasses ==
  ASSUME NEW d, NEW p, NEW q, NEW instant \in Nat, NEW worst \in Nat, NEW start \in Nat, NEW place \in Int,
         OnWay(d, p, q, instant, worst)
  PROVE  /\ OnWay(Append(d, instant), p, q, instant + 1, worst)
         /\ Tracked(d, p, q, instant, start, place, worst)
              => Tracked(Append(d, instant), p, q, instant + 1, start, place, worst)
<1> DEFINE e == Append(d, instant)
<1>1. /\ d \in Seq(Nat) /\ e \in Seq(Nat) /\ Len(e) = Len(d) + 1 /\ Len(d) \in Nat
      /\ \A i \in 1 .. Len(d) : e[i] = d[i]
      /\ e[Len(d) + 1] = instant
  BY DEF OnWay
<1>2. \A i \in 1 .. Len(e) : i \in 1 .. Len(d) \/ i = Len(d) + 1
  BY <1>1
<1> HIDE DEF e
<1>3. Latest(e, instant + 1)
  BY <1>1, <1>2 DEF OnWay, Latest
<1>4. ASSUME NEW s, Waiting(s, d, instant, worst) PROVE Waiting(s, e, instant + 1, worst)
  <2>1. s \in Seq(Frames) /\ \A i \in 1 .. Len(s) : s[i].at \in Nat
    BY <1>4, FrameTypes DEF Waiting
  <2>2. Stamped(s, instant + 1, worst)
    BY <1>4, <2>1 DEF Waiting, Stamped
  <2>3. Older(s, e)
    BY <1>1, <1>2, <1>4, <2>1 DEF Waiting, Stamped, Older
  <2>4. QED
    BY <1>4, <2>2, <2>3 DEF Waiting
<1>5. OnWay(e, p, q, instant + 1, worst)
  BY <1>1, <1>3, <1>4 DEF OnWay
<1>6. Tracked(d, p, q, instant, start, place, worst)
        => Tracked(e, p, q, instant + 1, start, place, worst)
  <2>1. NotPastDevice(d, place, worst) /\ place <= instant + Jitter + worst => NotPastDevice(e, place, worst)
    BY <1>1, <1>2 DEF NotPastDevice
  <2>2. place <= instant + Jitter + worst => place <= instant + 1 + Jitter + worst
    BY TimelineConstants
  <2>3. QED
    BY <2>1, <2>2 DEF Tracked
<1>7. QED
  BY <1>5, <1>6 DEF e

\* A worse stamp error allows what a smaller one did.
LEMMA WorseAllows ==
  ASSUME NEW d, NEW p, NEW q, NEW instant \in Nat, NEW worst \in Nat, NEW more \in Nat, worst <= more,
         NEW start \in Nat, NEW place \in Int, OnWay(d, p, q, instant, worst)
  PROVE  /\ OnWay(d, p, q, instant, more)
         /\ Tracked(d, p, q, instant, start, place, worst)
              => Tracked(d, p, q, instant, start, place, more)
<1>1. ASSUME NEW s, Waiting(s, d, instant, worst)
      PROVE  /\ Waiting(s, d, instant, more)
             /\ NotPast(s, start, place, worst) => NotPast(s, start, place, more)
  <2>1. s \in Seq(Frames) /\ \A i \in 1 .. Len(s) : s[i].at \in Nat /\ s[i].ts \in Int
    BY <1>1, FrameTypes DEF Waiting
  <2>2. Stamped(s, instant, more)
    BY <1>1, <2>1 DEF Waiting, Stamped
  <2>3. NotPast(s, start, place, worst) => NotPast(s, start, place, more)
    BY <2>1, TimelineConstants DEF NotPast
  <2>4. QED
    BY <1>1, <2>2, <2>3 DEF Waiting
<1>2. OnWay(d, p, q, instant, more)
  BY <1>1 DEF OnWay
<1>3. Tracked(d, p, q, instant, start, place, worst) => Tracked(d, p, q, instant, start, place, more)
  <2>1. d \in Seq(Nat) /\ \A i \in 1 .. Len(d) : d[i] \in Nat
    BY DEF OnWay
  <2>2. NotPastDevice(d, place, worst) => NotPastDevice(d, place, more)
    BY <2>1, TimelineConstants DEF NotPastDevice
  <2>3. place <= instant + Jitter + worst => place <= instant + Jitter + more
    BY TimelineConstants
  <2>4. QED
    BY <1>1, <2>2, <2>3 DEF Tracked, OnWay
<1>4. QED
  BY <1>2, <1>3

LEMMA WorseKeeps ==
  ASSUME NEW worst \in Nat, NEW more \in Nat, worst <= more,
         NEW start \in Nat, NEW b \in Seq(Int), NEW tolerance \in Nat
  PROVE  /\ Recent(b, start, worst) => Recent(b, start, more)
         /\ Placed(b, start, worst, tolerance) => Placed(b, start, more, tolerance)
<1>1. \A i \in 1 .. Len(b) : b[i] \in Int
  OBVIOUS
<1>2. Recent(b, start, worst) => Recent(b, start, more)
  BY <1>1, TimelineConstants DEF Recent
<1>3. Placed(b, start, worst, tolerance) => Placed(b, start, more, tolerance)
  BY <1>1, TimelineConstants DEF Placed
<1>4. QED
  BY <1>2, <1>3

\* A block leaves the device for the loop.
LEMMA BlockDelivered ==
  ASSUME NEW d, NEW p, NEW q, NEW instant \in Nat, NEW worst \in Nat, NEW start \in Nat, NEW place \in Int,
         OnWay(d, p, q, instant, worst),
         NEW n \in Nat \ {0}, Len(d) >= n,
         NEW f \in Seq(Frames), Len(f) = n, NEW err \in Nat, err <= worst,
         \A i \in 1 .. n : f[i].at = d[i] /\ f[i].ts = d[i] + err
  PROVE  /\ OnWay(SubSeq(d, n + 1, Len(d)), p \o f, q, instant, worst)
         /\ Tracked(d, p, q, instant, start, place, worst)
              => Tracked(SubSeq(d, n + 1, Len(d)), p \o f, q, instant, start, place, worst)
<1> DEFINE e == SubSeq(d, n + 1, Len(d))
<1>1. /\ d \in Seq(Nat) /\ Len(d) \in Nat /\ \A i \in 1 .. Len(d) : d[i] \in Nat
      /\ \A i \in 1 .. n : i \in 1 .. Len(d)
  BY DEF OnWay
<1>2. /\ e \in Seq(Nat) /\ Len(e) = Len(d) - n
      /\ \A i \in 1 .. Len(e) : e[i] = d[n + i] /\ n + i \in 1 .. Len(d)
  BY <1>1
<1> HIDE DEF e
<1>3. /\ Latest(e, instant)
      /\ \A i \in 1 .. Len(d) : d[i] = instant - Len(d) + i - 1
  <2>1. \A i \in 1 .. Len(d) : d[i] = instant - Len(d) + i - 1
    BY DEF OnWay, Latest
  <2>2. \A i \in 1 .. Len(e) : e[i] = instant - Len(d) + (n + i) - 1
    BY <1>2, <2>1
  <2>3. Latest(e, instant)
    BY <1>1, <1>2, <2>2 DEF Latest
  <2>4. QED
    BY <2>1, <2>3
<1>4. \A s : Waiting(s, d, instant, worst) => Waiting(s, e, instant, worst) /\ Precedes(s, f)
  BY <1>1, <1>2 DEF Waiting, Older, Precedes
<1>5. Waiting(f, e, instant, worst)
  <2>1. Stamped(f, instant, worst)
    <3>1. ASSUME NEW i \in 1 .. n
          PROVE  d[i] < instant /\ d[i] <= d[i] + err /\ d[i] + err <= d[i] + worst
      <4>1. i \in 1 .. Len(d) /\ d[i] \in Nat /\ d[i] = instant - Len(d) + i - 1
        BY <1>1, <1>3
      <4>2. QED
        BY <1>1, <4>1
    <3>2. QED
      BY <3>1 DEF Stamped
  <2>2. Rising(f)
    BY <1>1, <1>3 DEF Rising
  <2>3. Older(f, e)
    <3>1. ASSUME NEW i \in 1 .. n, NEW j \in 1 .. Len(e) PROVE d[i] < d[n + j]
      <4>1. /\ d[i] = instant - Len(d) + i - 1
            /\ d[n + j] = instant - Len(d) + (n + j) - 1
        BY <1>1, <1>2, <1>3
      <4>2. i < n + j /\ j \in Nat /\ i \in Nat
        BY <1>1, <1>2
      <4>3. QED
        BY <1>1, <4>1, <4>2
    <3>2. QED
      BY <1>2, <3>1 DEF Older
  <2>4. QED
    BY <2>1, <2>2, <2>3 DEF Waiting
<1>6. OnWay(e, p \o f, q, instant, worst)
  BY <1>2, <1>3, <1>4, <1>5, JoinWaits DEF OnWay
<1>7. Tracked(d, p, q, instant, start, place, worst) => Tracked(e, p \o f, q, instant, start, place, worst)
  <2> SUFFICES ASSUME Tracked(d, p, q, instant, start, place, worst)
               PROVE  Tracked(e, p \o f, q, instant, start, place, worst)
    OBVIOUS
  <2>1. NotPastDevice(e, place, worst)
    BY <1>2 DEF Tracked, NotPastDevice
  <2>2. NotPast(f, start, place, worst)
    BY <1>1 DEF Tracked, NotPastDevice, NotPast
  <2>3. NotPast(p \o f, start, place, worst)
    <3>1. Waiting(p, e, instant, worst) /\ Precedes(p, f)
      BY <1>4 DEF OnWay
    <3>2. QED
      BY <1>5, <2>2, <3>1, JoinWaits DEF Tracked
  <2>4. QED
    BY <2>1, <2>3 DEF Tracked
<1>8. QED
  BY <1>6, <1>7 DEF e

\* What fits of the frames that were posted joins the queue, the rest is dropped.
LEMMA BlockLands ==
  ASSUME NEW d, NEW p, NEW q, NEW instant \in Nat, NEW worst \in Nat, NEW start \in Nat, NEW place \in Int,
         OnWay(d, p, q, instant, worst), NEW n \in 0 .. Len(p)
  PROVE  /\ OnWay(d, <<>>, q \o SubSeq(p, 1, n), instant, worst)
         /\ Len(q \o SubSeq(p, 1, n)) = Len(q) + n
         /\ Tracked(d, p, q, instant, start, place, worst)
              => Tracked(d, <<>>, q \o SubSeq(p, 1, n), instant, start, place, worst)
<1> DEFINE r == SubSeq(p, 1, n)
<1>1. p \in Seq(Frames) /\ q \in Seq(Frames)
  BY DEF OnWay, Waiting
<1>2. r \in Seq(Frames) /\ Len(r) = n
  BY <1>1
<1>3. /\ Waiting(r, d, instant, worst) /\ Precedes(q, r)
      /\ NotPast(p, start, place, worst) => NotPast(r, start, place, worst)
  BY <1>1, PrefixWaits DEF OnWay
<1>4. Len(q \o r) = Len(q) + n
  BY <1>1, <1>2
<1> HIDE DEF r
<1>5. /\ Waiting(q \o r, d, instant, worst)
      /\ NotPast(q, start, place, worst) /\ NotPast(r, start, place, worst)
           => NotPast(q \o r, start, place, worst)
  BY <1>3, JoinWaits DEF OnWay
<1>6. QED
  BY <1>3, <1>4, <1>5, NoFrames DEF OnWay, Tracked, r

\* An overrun of the device, or its stream closing, loses frames and moves none.
LEMMA DeviceEmptied ==
  ASSUME NEW d, NEW p, NEW q, NEW instant, NEW worst, NEW start, NEW place,
         OnWay(d, p, q, instant, worst)
  PROVE  /\ OnWay(<<>>, p, q, instant, worst)
         /\ Tracked(d, p, q, instant, start, place, worst)
              => Tracked(<<>>, p, q, instant, start, place, worst)
<1>1. <<>> \in Seq(Nat) /\ Latest(<<>>, instant) /\ NotPastDevice(<<>>, place, worst)
  BY NoFrames
<1>2. \A s : Waiting(s, d, instant, worst) => Waiting(s, <<>>, instant, worst)
  BY NoFrames DEF Waiting
<1>3. QED
  BY <1>1, <1>2 DEF OnWay, Tracked

-----------------------------------------------------------------------------
(* Steps of the devices, the producers and the loop                        *)

LEMMA SourceTypes ==
  ASSUME TimelineTypes, NEW src \in Source
  PROVE  /\ device[src] \in Seq(Nat) /\ posted[src] \in Seq(Frames) /\ queue[src] \in Seq(Frames)
         /\ buf[src] \in Seq(Int) /\ end[src] \in Int /\ on[src] \in BOOLEAN
         /\ Len(device[src]) \in Nat /\ Len(posted[src]) \in Nat /\ Len(queue[src]) \in Nat
         /\ Len(buf[src]) \in Nat
BY DEF TimelineTypes

LEMMA TickStep ==
  ASSUME TimelineInv, Tick
  PROVE  TimelineInv'
<1>1. /\ clock' = clock + 1
      /\ device' = [src \in Source |-> IF on[src] THEN Append(device[src], clock) ELSE device[src]]
      /\ UNCHANGED <<on, lastTs, posted, queue, session, opened, t0, buf, end, anchored, late>>
  BY DEF Tick, buffers
<1>2. TimelineTypes /\ clock \in Nat /\ t0 \in Nat /\ late \in Nat
  BY DEF TimelineInv, TimelineTypes
<1>3. TimelineTypes'
  <2>1. device' \in [Source -> Seq(Nat)]
    BY <1>1, <1>2, SourceTypes
  <2>2. QED
    BY <1>1, <1>2, <2>1 DEF TimelineTypes
<1>4. ASSUME NEW src \in Source PROVE StreamInv(src)'
  <2> DEFINE d == device[src]
             p == posted[src]
             q == queue[src]
  <2>1. StreamInv(src) /\ end[src] \in Int
    BY <1>2, SourceTypes DEF TimelineInv
  <2>2. /\ OnWay(d, p, q, clock, late)
        /\ session # "idle" => Tracked(d, p, q, clock, t0, end[src], late)
    BY <2>1 DEF StreamInv
  <2>3. /\ OnWay(Append(d, clock), p, q, clock + 1, late)
        /\ session # "idle" => Tracked(Append(d, clock), p, q, clock + 1, t0, end[src], late)
    BY <1>2, <2>1, <2>2, InstantPasses
  <2>4. /\ OnWay(<<>>, p, q, clock + 1, late)
        /\ session # "idle" => Tracked(<<>>, p, q, clock + 1, t0, end[src], late)
    BY <2>3, DeviceEmptied
  <2>5. CASE on[src]
    <3>1. device'[src] = Append(d, clock)
      BY <1>1, <2>5
    <3>2. QED
      BY <1>1, <2>1, <2>3, <2>5, <3>1 DEF StreamInv
  <2>6. CASE ~on[src]
    <3>1. device'[src] = <<>>
      BY <1>1, <2>1, <2>6 DEF StreamInv
    <3>2. QED
      BY <1>1, <2>1, <2>4, <2>6, <3>1 DEF StreamInv
  <2>7. QED
    BY <2>5, <2>6
<1>5. QED
  BY <1>3, <1>4 DEF TimelineInv

LEMMA StreamOpensStep ==
  ASSUME TimelineInv, NEW at \in Source, StreamOpens(at)
  PROVE  TimelineInv'
<1>1. /\ session = "open" /\ on' = [on EXCEPT ![at] = TRUE]
      /\ UNCHANGED <<clock, device, lastTs, posted, queue, session, opened, t0, buf, end, anchored, late>>
  BY DEF StreamOpens, buffers
<1>2. TimelineTypes'
  BY <1>1 DEF TimelineInv, TimelineTypes
<1>3. ASSUME NEW src \in Source PROVE StreamInv(src)'
  <2>1. StreamInv(src) /\ on[src] => on'[src]
    BY <1>1 DEF TimelineInv, TimelineTypes
  <2>2. StreamInv(src)
    BY DEF TimelineInv
  <2>3. ~on'[src] => ~on[src]
    BY <1>1 DEF TimelineInv, TimelineTypes
  <2>4. QED
    BY <1>1, <2>2, <2>3 DEF StreamInv
<1>4. QED
  BY <1>2, <1>3 DEF TimelineInv

LEMMA DeviceLosesStep ==
  ASSUME TimelineInv, NEW at \in Source, DeviceLoses(at)
  PROVE  TimelineInv'
<1>1. /\ device' = [device EXCEPT ![at] = <<>>]
      /\ UNCHANGED <<clock, on, lastTs, posted, queue, session, opened, t0, buf, end, anchored, late>>
  BY DEF DeviceLoses, buffers
<1>2. TimelineTypes
  BY DEF TimelineInv
<1>3. TimelineTypes'
  <2>1. device' \in [Source -> Seq(Nat)]
    BY <1>1, <1>2, NoFrames DEF TimelineTypes
  <2>2. QED
    BY <1>1, <1>2, <2>1 DEF TimelineTypes
<1>4. ASSUME NEW src \in Source PROVE StreamInv(src)'
  <2>1. StreamInv(src)
    BY DEF TimelineInv
  <2>2. /\ OnWay(<<>>, posted[src], queue[src], clock, late)
        /\ session # "idle" => Tracked(<<>>, posted[src], queue[src], clock, t0, end[src], late)
    BY <2>1, DeviceEmptied DEF StreamInv
  <2>3. device'[src] = device[src] \/ device'[src] = <<>>
    BY <1>1, <1>2 DEF TimelineTypes
  <2>4. QED
    BY <1>1, <2>1, <2>2, <2>3 DEF StreamInv
<1>5. QED
  BY <1>3, <1>4 DEF TimelineInv

\* A block is stamped with one error, the worst of which is kept.
LEMMA DeliverStep ==
  ASSUME TimelineInv, NEW at \in Source, Deliver(at)
  PROVE  TimelineInv'
<1> DEFINE n == Block(at)
           d == device[at]
           frames == [i \in 1 .. n |-> [at |-> d[i], ts |-> Stamp(at, i)]]
           err == frames[1].ts - frames[1].at
<1>1. /\ on[at] /\ Len(d) >= n
      /\ posted' = [posted EXCEPT ![at] = @ \o frames]
      /\ late' = Larger(late, err)
      /\ device' = [device EXCEPT ![at] = SubSeq(@, n + 1, Len(@))]
      /\ UNCHANGED <<clock, on, queue, session, opened, t0, buf, end, anchored>>
  BY DEF Deliver, buffers
<1>2. TimelineTypes /\ StreamInv(at)
  BY DEF TimelineInv
<1>3. n \in Nat \ {0} /\ clock \in Nat /\ late \in Nat /\ t0 \in Nat /\ Jitter \in Nat
  BY <1>2, TimelineConstants DEF TimelineTypes
<1>4. d \in Seq(Nat) /\ \A i \in 1 .. n : d[i] \in Nat /\ d[i] = clock - Len(d) + i - 1
  <2>1. d \in Seq(Nat) /\ Len(d) \in Nat /\ Latest(d, clock)
    BY <1>2, SourceTypes DEF StreamInv, OnWay
  <2>2. ASSUME NEW i \in 1 .. n PROVE d[i] \in Nat /\ d[i] = clock - Len(d) + i - 1
    <3>1. i \in 1 .. Len(d)
      BY <1>1, <1>3, <2>1
    <3>2. QED
      BY <2>1, <3>1 DEF Latest
  <2>3. QED
    BY <2>1, <2>2
<1>5. /\ \A i \in 1 .. n : Stamp(at, i) \in Int /\ Stamp(at, i) - d[i] = Stamp(at, 1) - d[1]
      /\ Stamp(at, 1) - d[1] \in Nat
      /\ lastTs' \in Int
  <2>1. Len(d) \in Nat /\ lastTs \in Int
    BY <1>2, SourceTypes DEF TimelineTypes
  <2>2. MicStamp \in Int /\ MicStamp >= clock - 1
    BY <1>3, <2>1 DEF MicStamp, Larger
  <2>3. lastTs' \in Int
    BY <2>1, <2>2 DEF Deliver
  <2>4. CASE at = "mic"
    <3>1. n = 1
      BY <2>4 DEF Block
    <3>2. \A i : Stamp(at, i) = MicStamp
      BY <2>4 DEF Stamp
    <3>3. d[1] = clock - Len(d) + 1 - 1 /\ Len(d) >= 1
      BY <1>1, <1>4, <3>1
    <3>4. QED
      BY <1>3, <2>1, <2>2, <2>3, <3>1, <3>2, <3>3
  <2>5. CASE at # "mic"
    <3>1. n = Batch /\ \A i : Stamp(at, i) = clock - n + (i - 1)
      BY <2>5 DEF Block, Stamp
    <3> HIDE DEF n, d
    <3>2. ASSUME NEW i \in 1 .. n
          PROVE  Stamp(at, i) \in Int /\ Stamp(at, i) - d[i] = Len(d) - n
      <4>1. d[i] = clock - Len(d) + i - 1 /\ Stamp(at, i) = clock - n + (i - 1) /\ i \in Int
        BY <1>4, <3>1
      <4>2. clock \in Int /\ n \in Int /\ Len(d) \in Int
        BY <1>3, <2>1
      <4>3. QED
        BY <4>1, <4>2
    <3>3. 1 \in 1 .. n /\ Len(d) - n \in Nat
      BY <1>1, <1>3, <2>1
    <3>4. QED
      BY <2>3, <3>2, <3>3
  <2>6. QED
    BY <2>4, <2>5
<1>6. frames \in Seq(Frames) /\ Len(frames) = n /\ \A i \in 1 .. n : frames[i].at = d[i] /\ frames[i].ts = Stamp(at, i)
  <2>1. \A i \in 1 .. n : frames[i] \in Frames
    BY <1>4, <1>5 DEF Frames
  <2>2. QED
    BY <1>3, <2>1
<1>7. /\ err \in Nat /\ \A i \in 1 .. n : frames[i].ts = d[i] + err
  <2>1. 1 \in 1 .. n
    BY <1>3
  <2>2. err = Stamp(at, 1) - d[1]
    BY <1>6, <2>1
  <2>3. ASSUME NEW i \in 1 .. n PROVE frames[i].ts = d[i] + err
    <3>1. /\ frames[i].ts = Stamp(at, i) /\ Stamp(at, i) \in Int /\ d[i] \in Nat
          /\ Stamp(at, i) - d[i] = err
      BY <1>4, <1>5, <1>6, <2>2
    <3>2. QED
      BY <3>1
  <2>4. QED
    BY <1>5, <2>2, <2>3
<1> HIDE DEF frames, err
<1>8. PICK more \in Nat : more = late' /\ late <= more /\ err <= more
  BY <1>1, <1>3, <1>7 DEF Larger
<1>9. /\ posted'[at] = posted[at] \o frames /\ device'[at] = SubSeq(d, n + 1, Len(d))
      /\ \A src \in Source \ {at} : posted'[src] = posted[src] /\ device'[src] = device[src]
  BY <1>1, <1>2 DEF TimelineTypes
<1> HIDE DEF n
<1>10. ASSUME NEW src \in Source PROVE StreamInv(src)'
  <2>1. StreamInv(src) /\ buf[src] \in Seq(Int) /\ end[src] \in Int /\ Tolerance[src] \in Nat
    BY <1>2, SourceTypes, TimelineConstants DEF TimelineInv
  <2>2. /\ OnWay(device[src], posted[src], queue[src], clock, more)
        /\ Tracked(device[src], posted[src], queue[src], clock, t0, end[src], late)
             => Tracked(device[src], posted[src], queue[src], clock, t0, end[src], more)
        /\ Recent(buf[src], t0, late) => Recent(buf[src], t0, more)
        /\ Placed(buf[src], t0, late, Tolerance[src]) => Placed(buf[src], t0, more, Tolerance[src])
    <3>1. OnWay(device[src], posted[src], queue[src], clock, late)
      BY <2>1 DEF StreamInv
    <3>2. /\ clock \in Nat /\ late \in Nat /\ t0 \in Nat /\ more \in Nat /\ late <= more
          /\ buf[src] \in Seq(Int) /\ end[src] \in Int /\ Tolerance[src] \in Nat
      BY <1>3, <1>8, <2>1
    <3>3. /\ Recent(buf[src], t0, late) => Recent(buf[src], t0, more)
          /\ Placed(buf[src], t0, late, Tolerance[src])
               => Placed(buf[src], t0, more, Tolerance[src])
      BY <3>2, WorseKeeps
    <3>4. QED
      BY <3>1, <3>2, <3>3, WorseAllows
  <2>3. CASE src # at
    <3>1. posted'[src] = posted[src] /\ device'[src] = device[src]
      BY <1>9, <2>3
    <3>2. QED
      BY <1>1, <1>8, <2>1, <2>2, <3>1 DEF StreamInv
  <2>4. CASE src = at
    <3>1. OnWay(d, posted[at], queue[at], clock, more) /\ end[at] \in Int
      BY <2>1, <2>2, <2>4
    <3>2. /\ OnWay(SubSeq(d, n + 1, Len(d)), posted[at] \o frames, queue[at], clock, more)
          /\ Tracked(d, posted[at], queue[at], clock, t0, end[at], more)
               => Tracked(SubSeq(d, n + 1, Len(d)), posted[at] \o frames, queue[at], clock, t0,
                          end[at], more)
      <4>1. Len(d) >= n
        BY <1>1
      <4> HIDE DEF d
      <4>2. QED
        BY <1>3, <1>6, <1>7, <1>8, <3>1, <4>1, BlockDelivered
    <3>3. QED
      BY <1>1, <1>8, <1>9, <2>1, <2>2, <2>4, <3>2 DEF StreamInv
  <2>5. QED
    BY <2>3, <2>4
<1>11. TimelineTypes'
  <2>1. posted' \in [Source -> Seq(Frames)]
    BY <1>1, <1>2, <1>6 DEF TimelineTypes
  <2>2. device' \in [Source -> Seq(Nat)]
    <3>1. SubSeq(d, n + 1, Len(d)) \in Seq(Nat)
      BY <1>3, <1>4
    <3>2. device' = [device EXCEPT ![at] = SubSeq(d, n + 1, Len(d))]
      BY <1>1
    <3>3. QED
      BY <1>2, <3>1, <3>2 DEF TimelineTypes
  <2>3. QED
    BY <1>1, <1>2, <1>5, <1>8, <2>1, <2>2 DEF TimelineTypes
<1>12. QED
  BY <1>10, <1>11 DEF TimelineInv

LEMMA LandStep ==
  ASSUME TimelineInv, NEW at \in Source, Land(at)
  PROVE  TimelineInv'
<1> DEFINE n == Fits(at)
           r == queue[at] \o SubSeq(posted[at], 1, n)
<1>1. /\ queue' = [queue EXCEPT ![at] = @ \o SubSeq(posted[at], 1, n)]
      /\ posted' = [posted EXCEPT ![at] = <<>>]
      /\ UNCHANGED <<clock, on, device, lastTs, session, opened, t0, buf, end, anchored, late>>
  BY DEF Land, buffers, devices
<1>2. TimelineTypes
  BY DEF TimelineInv
<1>3. n \in 0 .. Len(posted[at]) /\ Len(queue[at]) + n <= QueueSize
  <2>1. PICK held \in Nat, come \in Nat : held = Len(queue[at]) /\ come = Len(posted[at])
    BY <1>2, SourceTypes
  <2>2. QueueSize \in Nat /\ held <= QueueSize
    BY <2>1, TimelineConstants DEF TimelineInv, StreamInv
  <2>3. n = IF come <= QueueSize - held THEN come ELSE QueueSize - held
    BY <2>1 DEF Fits, Room
  <2> HIDE DEF n
  <2>4. n \in 0 .. come /\ held + n <= QueueSize
    BY <2>2, <2>3
  <2>5. QED
    BY <2>1, <2>4
<1>4. r \in Seq(Frames)
  BY <1>2, <1>3, SourceTypes
<1>5. /\ queue'[at] = r /\ posted'[at] = <<>>
      /\ \A src \in Source \ {at} : queue'[src] = queue[src] /\ posted'[src] = posted[src]
  BY <1>1, <1>2 DEF TimelineTypes
<1>6. TimelineTypes'
  <2>1. queue' = [queue EXCEPT ![at] = r]
    BY <1>1
  <2>2. queue' \in [Source -> Seq(Frames)]
    BY <1>2, <1>4, <2>1 DEF TimelineTypes
  <2>3. posted' \in [Source -> Seq(Frames)]
    <3>1. <<>> \in Seq(Frames)
      OBVIOUS
    <3>2. QED
      BY <1>1, <1>2, <3>1 DEF TimelineTypes
  <2>4. QED
    BY <1>1, <1>2, <2>2, <2>3 DEF TimelineTypes
<1> HIDE DEF n
<1>7. StreamInv(at)'
  <2>1. /\ StreamInv(at) /\ end[at] \in Int /\ clock \in Nat /\ late \in Nat /\ t0 \in Nat
        /\ OnWay(device[at], posted[at], queue[at], clock, late)
    BY <1>2, SourceTypes DEF TimelineInv, TimelineTypes, StreamInv
  <2>2. /\ OnWay(device[at], <<>>, r, clock, late) /\ Len(r) = Len(queue[at]) + n
        /\ Tracked(device[at], posted[at], queue[at], clock, t0, end[at], late)
             => Tracked(device[at], <<>>, r, clock, t0, end[at], late)
    <3>1. PICK d, p, q : d = device[at] /\ p = posted[at] /\ q = queue[at]
      OBVIOUS
    <3>2. PICK m \in 0 .. Len(p), place \in Int : m = n /\ place = end[at]
      BY <1>3, <2>1, <3>1
    <3>3. /\ OnWay(d, <<>>, q \o SubSeq(p, 1, m), clock, late) /\ Len(q \o SubSeq(p, 1, m)) = Len(q) + m
          /\ Tracked(d, p, q, clock, t0, place, late)
               => Tracked(d, <<>>, q \o SubSeq(p, 1, m), clock, t0, place, late)
      <4>1. OnWay(d, p, q, clock, late)
        BY <2>1, <3>1
      <4>2. QED
        BY <2>1, <4>1, BlockLands
    <3>4. QED
      BY <3>1, <3>2, <3>3, Zenon
  <2> HIDE DEF r
  <2>3. QED
    BY <1>1, <1>3, <1>5, <2>1, <2>2 DEF StreamInv
<1>8. ASSUME NEW src \in Source, src # at PROVE StreamInv(src)'
  <2>1. StreamInv(src) /\ queue'[src] = queue[src] /\ posted'[src] = posted[src]
    BY <1>5, <1>8 DEF TimelineInv
  <2>2. QED
    BY <1>1, <2>1 DEF StreamInv
<1>9. QED
  BY <1>6, <1>7, <1>8 DEF TimelineInv

-----------------------------------------------------------------------------
(* What the detector writes                                                *)

\* The head of a queue leaves it: what follows was heard later, so that a place
\* just past the head is not past them.
LEMMA HeadLeaves ==
  ASSUME NEW d, NEW p, NEW q, NEW instant \in Nat, NEW worst \in Nat, NEW start \in Nat,
         OnWay(d, p, q, instant, worst), q # <<>>
  PROVE  /\ OnWay(d, p, Tail(q), instant, worst)
         /\ Len(Tail(q)) = Len(q) - 1
         /\ Head(q) \in Frames /\ Head(q).at \in Nat /\ Head(q).ts \in Int
         /\ Head(q).at <= Head(q).ts /\ Head(q).ts <= Head(q).at + worst
         /\ \A place : Tracked(d, p, q, instant, start, place, worst)
              => /\ Tracked(d, p, Tail(q), instant, start, place, worst)
                 /\ Head(q).ts < start - Jitter \/ place <= Head(q).at + Jitter + worst
         /\ \A place \in Int : place <= Head(q).at + 1 + Jitter + worst
              => Tracked(d, p, Tail(q), instant, start, place, worst)
<1> DEFINE r == Tail(q)
           f == q[1]
<1>1. /\ q \in Seq(Frames) /\ p \in Seq(Frames) /\ Len(q) \in Nat /\ Len(q) >= 1
      /\ 1 \in 1 .. Len(q) /\ f = Head(q)
  BY DEF OnWay, Waiting
<1>2. /\ r \in Seq(Frames) /\ Len(r) = Len(q) - 1
      /\ \A i \in 1 .. Len(r) : r[i] = q[i + 1] /\ i + 1 \in 1 .. Len(q)
  BY <1>1
<1>3. f \in Frames /\ f.at \in Nat /\ f.ts \in Int
  BY <1>1, FrameTypes
<1>4. f.at < instant /\ f.at <= f.ts /\ f.ts <= f.at + worst
  BY <1>1 DEF OnWay, Waiting, Stamped
<1> HIDE DEF r, f
<1>5. Waiting(r, d, instant, worst) /\ Precedes(r, p)
  <2>1. Stamped(r, instant, worst) /\ Older(r, d) /\ Precedes(r, p)
    BY <1>2 DEF OnWay, Waiting, Stamped, Older, Precedes
  <2>2. Rising(r)
    <3>1. ASSUME NEW i \in 1 .. Len(r), NEW j \in 1 .. Len(r), i < j PROVE r[i].at < r[j].at
      <4>1. /\ r[i] = q[i + 1] /\ i + 1 \in 1 .. Len(q) /\ r[j] = q[j + 1] /\ j + 1 \in 1 .. Len(q)
            /\ i + 1 < j + 1
        BY <1>2, <3>1
      <4>2. QED
        BY <4>1 DEF OnWay, Waiting, Rising
    <3>2. QED
      BY <3>1 DEF Rising
  <2>3. QED
    BY <1>2, <2>1, <2>2 DEF Waiting
<1>6. OnWay(d, p, r, instant, worst)
  BY <1>5 DEF OnWay
<1>7. ASSUME NEW place, Tracked(d, p, q, instant, start, place, worst)
      PROVE  /\ Tracked(d, p, r, instant, start, place, worst)
             /\ f.ts < start - Jitter \/ place <= f.at + Jitter + worst
  <2>1. NotPast(r, start, place, worst)
    BY <1>2, <1>7 DEF Tracked, NotPast
  <2>2. f.ts < start - Jitter \/ place <= f.at + Jitter + worst
    BY <1>1, <1>7 DEF Tracked, NotPast, f
  <2>3. QED
    BY <1>7, <2>1, <2>2 DEF Tracked
<1>8. ASSUME NEW place \in Int, place <= f.at + 1 + Jitter + worst
      PROVE  Tracked(d, p, r, instant, start, place, worst)
  <2>0. Jitter \in Nat
    BY TimelineConstants
  <2>1. place <= instant + Jitter + worst
    BY <1>3, <1>4, <1>8, <2>0
  <2>2. ASSUME NEW at \in Nat, f.at < at PROVE place <= at + Jitter + worst
    BY <1>3, <1>8, <2>0, <2>2
  <2>3. ASSUME NEW i \in 1 .. Len(r) PROVE place <= r[i].at + Jitter + worst
    <3>1. f.at < r[i].at
      <4>1. r[i] = q[i + 1] /\ i + 1 \in 1 .. Len(q) /\ 1 < i + 1
        BY <1>2
      <4>2. QED
        BY <1>1, <4>1 DEF OnWay, Waiting, Rising, f
    <3>2. r[i].at \in Nat
      BY <1>2, FrameTypes
    <3>3. QED
      BY <2>2, <3>1, <3>2
  <2>4. ASSUME NEW i \in 1 .. Len(p) PROVE place <= p[i].at + Jitter + worst
    <3>1. f.at < p[i].at /\ p[i].at \in Nat
      BY <1>1, FrameTypes DEF OnWay, Precedes, f
    <3>2. QED
      BY <2>2, <3>1
  <2>5. ASSUME NEW i \in 1 .. Len(d) PROVE place <= d[i] + Jitter + worst
    <3>1. f.at < d[i] /\ d[i] \in Nat
      BY <1>1 DEF OnWay, Waiting, Older, f
    <3>2. QED
      BY <2>2, <3>1
  <2>6. QED
    BY <2>1, <2>3, <2>4, <2>5 DEF Tracked, NotPast, NotPastDevice
<1>9. QED
  BY <1>1, <1>2, <1>3, <1>4, <1>6, <1>7, <1>8 DEF r

LEMMA SilenceAdds ==
  ASSUME NEW b \in Seq(Int), NEW k \in Nat, NEW start \in Nat, NEW worst \in Nat, NEW tolerance \in Nat
  PROVE  /\ b \o Zeros(k) \in Seq(Int) /\ Len(b \o Zeros(k)) = Len(b) + k
         /\ Recent(b, start, worst) => Recent(b \o Zeros(k), start, worst)
         /\ Placed(b, start, worst, tolerance) => Placed(b \o Zeros(k), start, worst, tolerance)
<1> DEFINE z == Zeros(k)
           w == b \o z
<1>1. z \in Seq(Int) /\ Len(z) = k /\ \A i \in 1 .. k : z[i] = Silence
  <2>1. Silence \in Int
    BY DEF Silence
  <2>2. QED
    BY <2>1 DEF Zeros
<1> HIDE DEF z
<1>2. /\ w \in Seq(Int) /\ Len(w) = Len(b) + Len(z)
      /\ \A i \in 1 .. Len(b) : w[i] = b[i]
      /\ \A i \in 1 .. Len(z) : w[Len(b) + i] = z[i]
  BY <1>1
<1> HIDE DEF w
<1>3. ASSUME NEW i \in 1 .. Len(w)
      PROVE  (i \in 1 .. Len(b) /\ w[i] = b[i]) \/ w[i] = Silence
  <2>1. Len(b) \in Nat
    OBVIOUS
  <2>2. CASE i \in 1 .. Len(b)
    BY <1>2, <2>2
  <2>3. CASE i \notin 1 .. Len(b)
    <3>1. i - Len(b) \in 1 .. Len(z) /\ i = Len(b) + (i - Len(b))
      BY <1>1, <1>2, <2>1, <2>3
    <3>2. QED
      BY <1>1, <1>2, <3>1
  <2>4. QED
    BY <2>2, <2>3
<1>4. Recent(b, start, worst) => Recent(w, start, worst)
  BY <1>3 DEF Recent
<1>5. Placed(b, start, worst, tolerance) => Placed(w, start, worst, tolerance)
  BY <1>3 DEF Placed
<1>6. QED
  BY <1>1, <1>2, <1>4, <1>5 DEF w, z

\* A frame is written after the zeros that stand for a gap.
LEMMA FrameWritten ==
  ASSUME NEW b \in Seq(Int), NEW k \in Nat, NEW at \in Nat, NEW start \in Nat, NEW worst \in Nat,
         NEW tolerance \in Nat
  PROVE  /\ b \o Zeros(k) \o <<at>> \in Seq(Int) /\ Len(b \o Zeros(k) \o <<at>>) = Len(b) + k + 1
         /\ Recent(b, start, worst) /\ at >= start - Jitter - worst
              => Recent(b \o Zeros(k) \o <<at>>, start, worst)
         /\ (/\ Placed(b, start, worst, tolerance)
             /\ -tolerance <= start + (Len(b) + k) - at
             /\ start + (Len(b) + k) - at <= Jitter + worst)
              => Placed(b \o Zeros(k) \o <<at>>, start, worst, tolerance)
<1> DEFINE c == b \o Zeros(k)
           t == <<at>>
           w == c \o t
<1>0. Len(b) \in Nat
  OBVIOUS
<1>1. /\ c \in Seq(Int) /\ Len(c) = Len(b) + k
      /\ Recent(b, start, worst) => Recent(c, start, worst)
      /\ Placed(b, start, worst, tolerance) => Placed(c, start, worst, tolerance)
  BY SilenceAdds
<1>2. t \in Seq(Int) /\ Len(t) = 1 /\ t[1] = at
  OBVIOUS
<1> HIDE DEF c, t
<1>3. /\ w \in Seq(Int) /\ Len(w) = Len(b) + k + 1
      /\ \A i \in 1 .. Len(w) : (i \in 1 .. Len(c) /\ w[i] = c[i]) \/ (i - Len(c) = 1 /\ w[i] = at)
  <2>1. /\ w \in Seq(Int) /\ Len(w) = Len(c) + Len(t) /\ Len(c) \in Nat
        /\ \A i \in 1 .. Len(c) : w[i] = c[i]
        /\ \A i \in 1 .. Len(t) : w[Len(c) + i] = t[i]
    <3>1. c \in Seq(Int) /\ t \in Seq(Int)
      BY <1>1, <1>2
    <3>2. QED
      BY <3>1
  <2> HIDE DEF w
  <2>0. w[Len(c) + 1] = at
    BY <1>2, <2>1
  <2>2. \A i \in 1 .. Len(w) : i \in 1 .. Len(c) \/ i = Len(c) + 1
    BY <1>2, <2>1
  <2>3. Len(w) = Len(b) + k + 1
    BY <1>0, <1>1, <1>2, <2>1
  <2>4. \A i \in 1 .. Len(w) : (i \in 1 .. Len(c) /\ w[i] = c[i]) \/ (i - Len(c) = 1 /\ w[i] = at)
    BY <2>0, <2>1, <2>2
  <2>5. QED
    BY <2>1, <2>3, <2>4
<1> HIDE DEF w
<1>4. Recent(c, start, worst) /\ at >= start - Jitter - worst => Recent(w, start, worst)
  BY <1>3 DEF Recent
<1>5. ASSUME Placed(c, start, worst, tolerance),
             -tolerance <= start + (Len(b) + k) - at, start + (Len(b) + k) - at <= Jitter + worst
      PROVE  Placed(w, start, worst, tolerance)
  <2>1. ASSUME NEW i \in 1 .. Len(w), w[i] # Silence
        PROVE  -tolerance <= start + (i - 1) - w[i] /\ start + (i - 1) - w[i] <= Jitter + worst
    <3>1. CASE i \in 1 .. Len(c) /\ w[i] = c[i]
      BY <1>5, <2>1, <3>1 DEF Placed
    <3>2. CASE i - Len(c) = 1 /\ w[i] = at
      <4>1. i - 1 = Len(b) + k
        BY <1>0, <1>1, <3>2
      <4>2. QED
        BY <1>5, <3>2, <4>1
    <3>3. QED
      BY <1>3, <3>1, <3>2
  <2>2. QED
    BY <2>1 DEF Placed
<1>6. QED
  BY <1>1, <1>3, <1>4, <1>5 DEF c, t, w

\* A frame written after `zeros` of silence, where the place for it is counted from
\* `from`.
LEMMA WriteLands ==
  ASSUME TimelineTypes, NEW at \in Source, NEW zeros \in Nat, NEW from \in Int, NEW sound \in Nat,
         Write(at, zeros, from, sound)
  PROVE  /\ buf' \in [Source -> Seq(Int)] /\ end' \in [Source -> Int]
         /\ buf'[at] = buf[at] \o Zeros(zeros) \o <<sound>> /\ end'[at] = from + 1
         /\ \A src \in Source \ {at} : buf'[src] = buf[src] /\ end'[src] = end[src]
<1> DEFINE w == buf[at] \o Zeros(zeros) \o <<sound>>
<1>1. w \in Seq(Int)
  <2>1. PICK b \in Seq(Int) : b = buf[at]
    BY DEF TimelineTypes
  <2>2. b \o Zeros(zeros) \o <<sound>> \in Seq(Int)
    BY FrameWritten
  <2>3. QED
    BY <2>1, <2>2, Zenon
<1>2. buf' = [buf EXCEPT ![at] = w] /\ end' = [end EXCEPT ![at] = from + 1]
  BY DEF Write
<1> HIDE DEF w
<1>3. /\ buf' \in [Source -> Seq(Int)] /\ end' \in [Source -> Int]
      /\ buf'[at] = w /\ end'[at] = from + 1
      /\ \A src \in Source \ {at} : buf'[src] = buf[src] /\ end'[src] = end[src]
  BY <1>1, <1>2 DEF TimelineTypes
<1>4. QED
  BY <1>3 DEF w

LEMMA ConsumeStep ==
  ASSUME TimelineInv, NEW at \in Source, Consume(at)
  PROVE  TimelineInv'
<1>1. /\ queue[at] # <<>> /\ queue' = [queue EXCEPT ![at] = Tail(@)]
      /\ OnFrame(at, Head(queue[at]))
      /\ UNCHANGED <<clock, on, device, lastTs, posted, session, opened, t0, late>>
  BY DEF Consume, devices
<1>2. TimelineTypes
  BY DEF TimelineInv
<1>3. PICK d, p, q, b, f : d = device[at] /\ p = posted[at] /\ q = queue[at] /\ b = buf[at] /\ f = Head(q)
  OBVIOUS
<1>4. PICK place \in Int, tol \in Nat : place = end[at] /\ tol = Tolerance[at]
  BY <1>2, SourceTypes, TimelineConstants
<1>5. /\ clock \in Nat /\ late \in Nat /\ t0 \in Nat /\ Jitter \in Nat /\ b \in Seq(Int)
      /\ Len(b) \in Nat /\ q \in Seq(Frames) /\ anchored[at] \in BOOLEAN
  BY <1>2, <1>3, SourceTypes, TimelineConstants DEF TimelineTypes
<1>6. /\ OnWay(d, p, q, clock, late) /\ Len(q) <= QueueSize
      /\ on[at] => session = "open"
      /\ ~on[at] => d = <<>>
      /\ session # "idle" =>
           /\ Tracked(d, p, q, clock, t0, place, late)
           /\ ~anchored[at] => place = t0 + Len(b)
      /\ Recent(b, t0, late)
      /\ ~anchored[at] => Placed(b, t0, late, tol)
  BY <1>3, <1>4 DEF TimelineInv, StreamInv
<1>7. /\ OnWay(d, p, Tail(q), clock, late) /\ Len(Tail(q)) = Len(q) - 1
      /\ f.at \in Nat /\ f.ts \in Int /\ f.at <= f.ts /\ f.ts <= f.at + late
      /\ Tracked(d, p, q, clock, t0, place, late)
           => /\ Tracked(d, p, Tail(q), clock, t0, place, late)
              /\ f.ts < t0 - Jitter \/ place <= f.at + Jitter + late
      /\ \A next \in Int : next <= f.at + 1 + Jitter + late
           => Tracked(d, p, Tail(q), clock, t0, next, late)
  BY <1>1, <1>3, <1>5, <1>6, HeadLeaves
<1>8. /\ queue' \in [Source -> Seq(Frames)] /\ queue'[at] = Tail(q) /\ Len(Tail(q)) <= QueueSize
      /\ \A src \in Source \ {at} : queue'[src] = queue[src]
  <2>1. Tail(q) \in Seq(Frames)
    BY <1>1, <1>3, <1>5
  <2>2. queue' = [queue EXCEPT ![at] = Tail(q)]
    BY <1>1, <1>3
  <2>3. Len(Tail(q)) <= QueueSize
    <3>1. PICK n \in Nat : n = Len(q)
      BY <1>5
    <3>2. QED
      BY <1>6, <1>7, <3>1, TimelineConstants
  <2>4. QED
    BY <1>2, <2>1, <2>2, <2>3 DEF TimelineTypes
<1>9. \* Whatever is written: the buffer and the place keep what is said of them.
      ASSUME NEW c, NEW next \in Int, NEW moved \in BOOLEAN,
             buf'[at] = c, end'[at] = next, anchored'[at] = moved,
             \A src \in Source \ {at} :
               buf'[src] = buf[src] /\ end'[src] = end[src] /\ anchored'[src] = anchored[src],
             buf' \in [Source -> Seq(Int)], end' \in [Source -> Int], anchored' \in [Source -> BOOLEAN],
             session # "idle" =>
               /\ Tracked(d, p, Tail(q), clock, t0, next, late)
               /\ ~moved => next = t0 + Len(c),
             Recent(c, t0, late), ~moved => Placed(c, t0, late, tol)
      PROVE  TimelineInv'
  <2>1. TimelineTypes'
    BY <1>1, <1>2, <1>8, <1>9 DEF TimelineTypes
  <2>2. StreamInv(at)'
    BY <1>1, <1>3, <1>4, <1>6, <1>7, <1>8, <1>9 DEF StreamInv
  <2>3. ASSUME NEW src \in Source, src # at PROVE StreamInv(src)'
    <3>1. /\ StreamInv(src) /\ queue'[src] = queue[src] /\ buf'[src] = buf[src]
          /\ end'[src] = end[src] /\ anchored'[src] = anchored[src]
      BY <1>8, <1>9, <2>3 DEF TimelineInv
    <3>2. QED
      BY <1>1, <3>1 DEF StreamInv
  <2>4. QED
    BY <2>1, <2>2, <2>3 DEF TimelineInv
<1>10. PICK sound \in Nat, stamp \in Int, size \in Nat :
         sound = f.at /\ stamp = f.ts /\ size = Len(b)
  BY <1>5, <1>7
<1>11. /\ sound <= stamp /\ stamp <= sound + late
       /\ Tracked(d, p, q, clock, t0, place, late)
            => /\ Tracked(d, p, Tail(q), clock, t0, place, late)
               /\ stamp < t0 - Jitter \/ place <= sound + Jitter + late
       /\ \A next \in Int : next <= sound + 1 + Jitter + late
            => Tracked(d, p, Tail(q), clock, t0, next, late)
  BY <1>7, <1>10
<1>12. CASE Skip(at) /\ (session = "idle" \/ Stale(f.ts))
  <2>1. UNCHANGED <<buf, end, anchored>>
    BY <1>12 DEF Skip
  <2>2. buf' \in [Source -> Seq(Int)] /\ end' \in [Source -> Int] /\ anchored' \in [Source -> BOOLEAN]
    BY <1>2, <2>1 DEF TimelineTypes
  <2>3. buf'[at] = b /\ end'[at] = place /\ anchored'[at] = anchored[at]
    BY <1>3, <1>4, <2>1
  <2>4. QED
    BY <1>5, <1>6, <1>7, <1>9, <2>1, <2>2, <2>3
<1>13. CASE session # "idle" /\ ~Stale(f.ts)
  <2>1. stamp >= t0 - Jitter /\ sound >= t0 - Jitter - late
    <3>1. ~(stamp < t0 - Jitter)
      BY <1>10, <1>13 DEF Stale
    <3>2. QED
      BY <1>5, <1>11, <3>1
  <2>2. /\ place <= sound + Jitter + late
        /\ ~anchored[at] => place = t0 + size
    BY <1>5, <1>6, <1>10, <1>11, <1>13, <2>1
  <2>3. \* What is written, wherever it goes.
        ASSUME NEW zeros \in Nat, NEW from \in Int, NEW moved \in BOOLEAN,
               Write(at, zeros, from, sound), from <= sound + Jitter + late,
               anchored' \in [Source -> BOOLEAN], anchored'[at] = moved,
               \A src \in Source \ {at} : anchored'[src] = anchored[src],
               ~moved => ~anchored[at] /\ from = t0 + (size + zeros) /\ sound - tol <= from
        PROVE  TimelineInv'
    <3> DEFINE c == b \o Zeros(zeros) \o <<sound>>
    <3>1. /\ buf' \in [Source -> Seq(Int)] /\ end' \in [Source -> Int]
          /\ buf'[at] = c /\ end'[at] = from + 1
          /\ \A src \in Source \ {at} : buf'[src] = buf[src] /\ end'[src] = end[src]
      BY <1>2, <1>3, <2>3, WriteLands, Zenon
    <3>2. /\ Len(c) = Len(b) + zeros + 1
          /\ Recent(b, t0, late) /\ sound >= t0 - Jitter - late => Recent(c, t0, late)
          /\ (/\ Placed(b, t0, late, tol)
              /\ -tol <= t0 + (Len(b) + zeros) - sound
              /\ t0 + (Len(b) + zeros) - sound <= Jitter + late)
               => Placed(c, t0, late, tol)
      BY <1>5, FrameWritten
    <3> HIDE DEF c
    <3>3. Recent(c, t0, late)
      BY <1>6, <2>1, <3>2
    <3>4. ASSUME ~moved PROVE Placed(c, t0, late, tol) /\ from + 1 = t0 + Len(c)
      <4>1. /\ -tol <= t0 + (size + zeros) - sound
            /\ t0 + (size + zeros) - sound <= Jitter + late
            /\ from + 1 = t0 + (size + zeros + 1)
        BY <1>5, <2>3, <3>4
      <4>2. QED
        BY <1>6, <1>10, <2>3, <3>2, <3>4, <4>1
    <3>5. from + 1 \in Int /\ Tracked(d, p, Tail(q), clock, t0, from + 1, late)
      <4>1. from + 1 \in Int /\ from + 1 <= sound + 1 + Jitter + late
        BY <1>5, <2>3
      <4>2. QED
        BY <1>11, <4>1
    <3>6. QED
      BY <1>9, <2>3, <3>1, <3>3, <3>4, <3>5
  <2>4. PICK none \in Nat, gap \in Int : none = 0 /\ gap = Gap(at, f.ts) /\ gap = stamp - place
    BY <1>4, <1>10 DEF Gap
  <2>5. CASE Reanchor(at, f)
    <3>1. Write(at, none, stamp, sound) /\ anchored' = [anchored EXCEPT ![at] = TRUE]
      BY <1>10, <2>4, <2>5 DEF Reanchor
    <3>2. /\ anchored' \in [Source -> BOOLEAN] /\ anchored'[at] = TRUE
          /\ \A src \in Source \ {at} : anchored'[src] = anchored[src]
      BY <1>2, <3>1 DEF TimelineTypes
    <3>3. stamp <= sound + Jitter + late
      BY <1>5, <1>11
    <3>4. QED
      BY <2>3, <3>1, <3>2, <3>3
  <2>6. anchored' = anchored
          => /\ anchored' \in [Source -> BOOLEAN] /\ anchored'[at] = anchored[at]
             /\ \A src \in Source \ {at} : anchored'[src] = anchored[src]
    BY <1>2 DEF TimelineTypes
  <2>7. CASE gap > tol /\ Fill(at, f)
    <3>1. Write(at, gap, stamp, sound) /\ anchored' = anchored
      <4>1. FilledEnd(at, gap) = stamp
        BY <1>4, <2>4 DEF FilledEnd
      <4>2. QED
        BY <1>10, <2>4, <2>7, <4>1 DEF Fill
    <3>2. gap \in Nat /\ stamp <= sound + Jitter + late
      BY <1>5, <1>11, <2>4, <2>7
    <3>3. ~anchored[at] => stamp = t0 + (size + gap) /\ sound - tol <= stamp
      BY <1>5, <1>11, <2>2, <2>4
    <3>4. QED
      BY <1>5, <2>3, <2>6, <3>1, <3>2, <3>3
  <2>8. CASE gap <= tol /\ AppendFrame(at, f)
    <3>1. Write(at, none, place, sound) /\ anchored' = anchored
      BY <1>4, <1>10, <2>4, <2>8 DEF AppendFrame
    <3>2. ~anchored[at] => place = t0 + (size + none) /\ sound - tol <= place
      BY <1>5, <1>11, <2>2, <2>4, <2>8
    <3>3. QED
      BY <1>5, <2>2, <2>3, <2>6, <3>1, <3>2
  <2>9. QED
    BY <1>1, <1>3, <1>4, <1>13, <2>4, <2>5, <2>7, <2>8 DEF OnFrame
<1>14. QED
  BY <1>1, <1>3, <1>12, <1>13 DEF OnFrame

-----------------------------------------------------------------------------
(* The beginning and the end of a session                                  *)

\* Nothing on the way is past the instant at which a session starts but for what
\* is refused: what was heard before may have been stamped late.
LEMMA SessionStarts ==
  ASSUME NEW p, NEW instant \in Nat, NEW worst \in Nat, p \in Seq(Frames),
         Stamped(p, instant, worst)
  PROVE  Tracked(<<>>, p, <<>>, instant, instant, instant, worst)
<1>1. instant <= instant + Jitter + worst /\ Jitter \in Nat
  BY TimelineConstants
<1>2. ASSUME NEW i \in 1 .. Len(p)
      PROVE  p[i].ts < instant - Jitter \/ instant <= p[i].at + Jitter + worst
  <2>1. PICK at \in Nat, ts \in Int : at = p[i].at /\ ts = p[i].ts
    BY FrameTypes
  <2>2. ts <= at + worst
    BY <2>1 DEF Stamped
  <2>3. ts < instant - Jitter \/ instant <= at + Jitter + worst
    BY <1>1, <2>2
  <2>4. QED
    BY <2>1, <2>3
<1>3. NotPast(p, instant, instant, worst)
  BY <1>2 DEF NotPast
<1>4. QED
  BY <1>1, <1>3, NoFrames DEF Tracked

LEMMA EmptySequences == <<>> \in Seq(Nat) /\ <<>> \in Seq(Int) /\ <<>> \in Seq(Frames)
OBVIOUS

LEMMA EmptyBuffer ==
  ASSUME NEW start, NEW worst, NEW tolerance
  PROVE  Recent(<<>>, start, worst) /\ Placed(<<>>, start, worst, tolerance)
BY DEF Recent, Placed

LEMMA ArmStep ==
  ASSUME TimelineInv, Arm
  PROVE  TimelineInv'
<1>1. /\ session = "idle" /\ session' = "open" /\ t0' = clock /\ lastTs' = None
      /\ buf' = [src \in Source |-> <<>>] /\ end' = [src \in Source |-> clock]
      /\ anchored' = [src \in Source |-> FALSE] /\ queue' = [src \in Source |-> <<>>]
      /\ UNCHANGED <<clock, on, device, posted, late>>
  BY DEF Arm
<1>2. TimelineTypes /\ clock \in Nat /\ late \in Nat
  BY DEF TimelineInv, TimelineTypes
<1>3. TimelineTypes'
  <2>1. None \in Int
    BY DEF None
  <2>2. /\ buf' \in [Source -> Seq(Int)] /\ end' \in [Source -> Int]
        /\ anchored' \in [Source -> BOOLEAN] /\ queue' \in [Source -> Seq(Frames)]
    BY <1>1, <1>2, EmptySequences
  <2>3. QED
    BY <1>1, <1>2, <2>1, <2>2 DEF TimelineTypes
<1>4. ASSUME NEW src \in Source PROVE StreamInv(src)'
  <2>1. PICK p : p = posted[src]
    OBVIOUS
  <2>2. /\ StreamInv(src) /\ p \in Seq(Frames)
        /\ ~on[src] /\ device[src] = <<>> /\ OnWay(<<>>, p, queue[src], clock, late)
    BY <1>1, <1>2, <2>1, SourceTypes DEF TimelineInv, StreamInv
  <2>3. Stamped(p, clock, late) /\ Waiting(p, <<>>, clock, late)
    BY <2>2 DEF OnWay, Waiting
  <2>4. OnWay(<<>>, p, <<>>, clock, late)
    BY <2>3, NoFrames, EmptySequences DEF OnWay
  <2>5. Tracked(<<>>, p, <<>>, clock, clock, clock, late)
    BY <1>2, <2>2, <2>3, SessionStarts
  <2>6. Recent(<<>>, clock, late)
    BY EmptyBuffer
  <2>7. Placed(<<>>, clock, late, Tolerance[src])
    BY EmptyBuffer
  <2>8. /\ queue'[src] = <<>> /\ buf'[src] = <<>> /\ end'[src] = clock /\ posted'[src] = p
        /\ device'[src] = <<>> /\ on'[src] = on[src]
    BY <1>1, <2>1, <2>2
  <2>9. clock = clock + Len(<<>>) /\ Len(<<>>) <= QueueSize
    BY <1>2, TimelineConstants
  <2>10. QED
    BY <1>1, <2>2, <2>4, <2>5, <2>6, <2>7, <2>8, <2>9 DEF StreamInv
<1>5. QED
  BY <1>3, <1>4 DEF TimelineInv

LEMMA DisarmStep ==
  ASSUME TimelineInv, Disarm
  PROVE  TimelineInv'
<1>1. /\ session = "open" /\ session' = "closing" /\ on' = [src \in Source |-> FALSE]
      /\ device' = [src \in Source |-> <<>>] /\ queue' = [src \in Source |-> <<>>]
      /\ UNCHANGED <<clock, t0, lastTs, posted, buf, end, anchored, late>>
  BY DEF Disarm
<1>2. TimelineTypes
  BY DEF TimelineInv
<1>3. TimelineTypes'
  <2>1. /\ on' \in [Source -> BOOLEAN] /\ device' \in [Source -> Seq(Nat)]
        /\ queue' \in [Source -> Seq(Frames)]
    BY <1>1, EmptySequences
  <2>2. QED
    BY <1>1, <1>2, <2>1 DEF TimelineTypes
<1>4. ASSUME NEW src \in Source PROVE StreamInv(src)'
  <2>1. PICK p, place : p = posted[src] /\ place = end[src]
    OBVIOUS
  <2>2. StreamInv(src) /\ OnWay(device[src], p, queue[src], clock, late)
    BY <2>1 DEF TimelineInv, StreamInv
  <2>3. OnWay(<<>>, p, <<>>, clock, late)
    <3>1. OnWay(<<>>, p, queue[src], clock, late)
      BY <2>2, DeviceEmptied
    <3>2. QED
      BY <3>1, NoFrames, EmptySequences DEF OnWay
  <2>4. Tracked(<<>>, p, <<>>, clock, t0, place, late)
    <3>1. Tracked(device[src], p, queue[src], clock, t0, place, late)
      BY <1>1, <2>1, <2>2 DEF StreamInv
    <3>2. QED
      BY <3>1, NoFrames DEF Tracked
  <2>5. /\ queue'[src] = <<>> /\ device'[src] = <<>> /\ on'[src] = FALSE
        /\ Len(<<>>) <= QueueSize
    BY <1>1, TimelineConstants
  <2>6. QED
    BY <1>1, <2>1, <2>2, <2>3, <2>4, <2>5 DEF StreamInv
<1>5. QED
  BY <1>3, <1>4 DEF TimelineInv

\* The session's end moves no sound: the shorter channel is filled up behind it.
LEMMA CloseStep ==
  ASSUME TimelineInv, Close
  PROVE  TimelineInv'
<1> DEFINE n == Larger(Len(buf["mic"]), Len(buf["system"]))
<1>1. /\ session = "closing" /\ session' = "idle"
      /\ buf' = [src \in Source |-> Padded(buf[src], n)]
      /\ UNCHANGED <<clock, t0, on, device, lastTs, posted, queue, end, anchored, late>>
  BY DEF Close, devices
<1>2. TimelineTypes /\ t0 \in Nat /\ late \in Nat
  BY DEF TimelineInv, TimelineTypes
<1>3. ASSUME NEW src \in Source
      PROVE  n - Len(buf[src]) \in Nat
  <2>1. PICK l \in Nat, m \in Nat : l = Len(buf["mic"]) /\ m = Len(buf["system"])
    BY <1>2, SourceTypes DEF Source
  <2>2. n = IF l > m THEN l ELSE m
    BY <2>1 DEF Larger
  <2>3. n \in Nat /\ l <= n /\ m <= n
    BY <2>2
  <2> HIDE DEF n
  <2>4. CASE src = "mic"
    BY <2>1, <2>3, <2>4
  <2>5. CASE src = "system"
    <3>1. n - m \in Nat
      BY <2>3
    <3>2. QED
      BY <2>1, <2>5, <3>1
  <2>6. QED
    BY <2>4, <2>5 DEF Source
<1> HIDE DEF n
<1>4. ASSUME NEW src \in Source
      PROVE  /\ buf'[src] \in Seq(Int)
             /\ Recent(buf[src], t0, late) => Recent(buf'[src], t0, late)
             /\ Placed(buf[src], t0, late, Tolerance[src])
                  => Placed(buf'[src], t0, late, Tolerance[src])
  <2>1. PICK b \in Seq(Int), k \in Nat, tol \in Nat :
          b = buf[src] /\ k = n - Len(buf[src]) /\ tol = Tolerance[src]
    BY <1>2, <1>3, SourceTypes, TimelineConstants
  <2>2. buf'[src] = b \o Zeros(k)
    BY <1>1, <2>1 DEF Padded
  <2>3. /\ b \o Zeros(k) \in Seq(Int)
        /\ Recent(b, t0, late) => Recent(b \o Zeros(k), t0, late)
        /\ Placed(b, t0, late, tol) => Placed(b \o Zeros(k), t0, late, tol)
    BY <1>2, SilenceAdds
  <2>4. QED
    BY <2>1, <2>2, <2>3, Zenon
<1>5. TimelineTypes'
  <2>1. buf' \in [Source -> Seq(Int)]
    BY <1>1, <1>4
  <2>2. QED
    BY <1>1, <1>2, <2>1 DEF TimelineTypes
<1>6. ASSUME NEW src \in Source PROVE StreamInv(src)'
  <2>1. StreamInv(src)
    BY DEF TimelineInv
  <2>2. ~on[src]
    BY <1>1, <2>1 DEF StreamInv
  <2>3. QED
    BY <1>1, <1>4, <2>1, <2>2 DEF StreamInv
<1>7. QED
  BY <1>5, <1>6 DEF TimelineInv

LEMMA TakeClosedStep ==
  ASSUME TimelineInv, TakeClosed
  PROVE  TimelineInv'
<1>1. /\ session = "idle" /\ \A src \in Source : posted[src] = <<>> /\ queue[src] = <<>>
      /\ lastTs' = None /\ t0' = 0 /\ late' = 0
      /\ buf' = [src \in Source |-> <<>>] /\ end' = [src \in Source |-> 0]
      /\ anchored' = [src \in Source |-> FALSE]
      /\ UNCHANGED <<clock, session, on, device, posted, queue>>
  BY DEF TakeClosed
<1>2. TimelineTypes
  BY DEF TimelineInv
<1>3. TimelineTypes'
  <2>1. None \in Int
    BY DEF None
  <2>2. /\ buf' \in [Source -> Seq(Int)] /\ end' \in [Source -> Int]
        /\ anchored' \in [Source -> BOOLEAN]
    BY <1>1, EmptySequences
  <2>3. QED
    BY <1>1, <1>2, <2>1, <2>2 DEF TimelineTypes
<1>4. ASSUME NEW src \in Source PROVE StreamInv(src)'
  <2>1. StreamInv(src) /\ ~on[src] /\ device[src] = <<>>
    BY <1>1 DEF TimelineInv, StreamInv
  <2>2. \A instant, worst : OnWay(<<>>, <<>>, <<>>, instant, worst)
    BY NoFrames, EmptySequences DEF OnWay
  <2>3. Recent(<<>>, 0, 0)
    BY EmptyBuffer
  <2>4. Placed(<<>>, 0, 0, Tolerance[src])
    BY EmptyBuffer
  <2>5. /\ buf'[src] = <<>> /\ device'[src] = <<>> /\ posted'[src] = <<>> /\ queue'[src] = <<>>
        /\ on'[src] = on[src] /\ Len(<<>>) <= QueueSize
    BY <1>1, <2>1, TimelineConstants
  <2>6. QED
    BY <1>1, <2>1, <2>2, <2>3, <2>4, <2>5 DEF StreamInv
<1>5. QED
  BY <1>3, <1>4 DEF TimelineInv

-----------------------------------------------------------------------------
(* Where sound lies                                                        *)

LEMMA TimelineStarts ==
  ASSUME Init PROVE TimelineInv
<1>1. TimelineTypes
  <2>1. None \in Int
    BY DEF None
  <2>2. QED
    BY <2>1, EmptySequences DEF Init, TimelineTypes
<1>2. ASSUME NEW src \in Source PROVE StreamInv(src)
  <2>1. OnWay(<<>>, <<>>, <<>>, clock, late)
    BY NoFrames, EmptySequences DEF OnWay
  <2>2. Recent(<<>>, t0, late)
    BY EmptyBuffer
  <2>3. Placed(<<>>, t0, late, Tolerance[src])
    BY EmptyBuffer
  <2>4. Len(<<>>) <= QueueSize
    BY TimelineConstants
  <2>5. QED
    BY <2>1, <2>2, <2>3, <2>4 DEF Init, StreamInv
<1>3. QED
  BY <1>1, <1>2 DEF TimelineInv

LEMMA TimelineUnchanged ==
  ASSUME TimelineInv, UNCHANGED vars PROVE TimelineInv'
BY DEF TimelineInv, TimelineTypes, StreamInv, vars

LEMMA TimelineStep ==
  ASSUME TimelineInv, [RecordingNext]_recordingVars
  PROVE  TimelineInv'
<1>1. CASE TimelineNext
  BY <1>1, TickStep, ArmStep, DisarmStep, CloseStep, StreamOpensStep, DeviceLosesStep, DeliverStep,
     LandStep, ConsumeStep DEF TimelineNext
<1>2. CASE TakeClosed
  BY <1>2, TakeClosedStep
<1>3. CASE UNCHANGED vars
  BY <1>3, TimelineUnchanged
<1>4. TimelineNext \/ TakeClosed \/ UNCHANGED vars
  <2>1. CASE UNCHANGED pipelineVars
    BY <2>1 DEF pipelineVars
  <2>2. CASE PipelineNext
    BY <2>2 DEF PipelineNext, Record
  <2>3. QED
    BY <2>1, <2>2, Zenon DEF RecordingNext, recordingVars, In
<1>5. QED
  BY <1>1, <1>2, <1>3, <1>4

(* Whatever the devices lose, the queues drop and the stamps err: the frames *)
(* on the way stay in the order in which they were heard, the place for the  *)
(* next one is never too far past one that comes, and each frame written     *)
(* lies where it was heard.                                                  *)
THEOREM StreamsOnTime == Spec => []TimelineInv
<1>1. RecordingInit => TimelineInv
  BY TimelineStarts DEF RecordingInit, PipelineInit
<1>2. TimelineInv /\ [RecordingNext]_recordingVars => TimelineInv'
  BY TimelineStep
<1>3. QED
  BY <1>1, <1>2, PTL DEF Spec

(* conversation.py's "mono-clock invariant": sample N of a channel stands    *)
(* for the instant t0 + N, within the gap tolerance one way, the jitter at   *)
(* the arm and the worst stamp error the other.                              *)
THEOREM SoundLiesInPlace == Spec => []Aligned
<1>1. TimelineInv => Aligned
  BY DEF TimelineInv, StreamInv, Placed, Aligned, Heard
<1>2. QED
  BY <1>1, StreamsOnTime, PTL

(* No sound from before a session is in its buffers, re-anchored or not.     *)
THEOREM SessionsAreApart == Spec => []NothingFromBefore
<1>1. TimelineInv => NothingFromBefore
  BY DEF TimelineInv, StreamInv, Recent, NothingFromBefore, Heard
<1>2. QED
  BY <1>1, StreamsOnTime, PTL

-----------------------------------------------------------------------------
(* The shortcut                                                            *)

Where == Saving \cup {"unused", "validating", "over"}

HotkeyTypes ==
  /\ binding \in Combos /\ configured \in Combos
  /\ pick \in [Picks -> [at : Where, combo : Combos]]
  /\ amiss \in BOOLEAN /\ crossed \in BOOLEAN
  /\ listener \in {"off", "loaded", "serving", "up", "stopping"}

\* A save that the agent may still answer for: the stored combination is the new one.
Pending(p) == pick[p].at \in {"calling", "asked"}

\* One save at a time, none while the agent starts: then what the agent has loaded or
\* registered is what is stored, until the next save is written or one has failed.
OneSaveAtATime ==
  /\ \A p, q \in Picks : pick[p].at \in Saving /\ pick[q].at \in Saving => p = q
  /\ \A p \in Picks : Pending(p) => binding = pick[p].combo
  /\ \A p \in Picks : pick[p].at = "late" => amiss
  /\ listener = "loaded" => Settled /\ configured = binding
  /\ ~amiss /\ (\A p \in Picks : ~Pending(p)) =>
       /\ listener = "serving" => configured = binding
       /\ listener = "up" => bound = binding

HotkeyInv ==
  /\ HotkeyTypes
  /\ \A p \in Picks : pick[p].at \in {"asked", "late"} => listener \in {"serving", "up", "stopping"}
  /\ ~crossed => OneSaveAtATime

LEMMA PickMoves ==
  ASSUME HotkeyTypes, NEW p \in Picks, NEW where \in Where, Becomes(p, where)
  PROVE  /\ pick' \in [Picks -> [at : Where, combo : Combos]]
         /\ pick'[p].at = where /\ pick'[p].combo = pick[p].combo
         /\ \A q \in Picks \ {p} : pick'[q] = pick[q]
<1>1. pick' = [pick EXCEPT ![p].at = where] /\ pick \in [Picks -> [at : Where, combo : Combos]]
  BY DEF Becomes, HotkeyTypes
<1>2. pick'[p] = [pick[p] EXCEPT !.at = where] /\ pick[p] \in [at : Where, combo : Combos]
  BY <1>1
<1>3. /\ pick'[p] \in [at : Where, combo : Combos]
      /\ pick'[p].at = where /\ pick'[p].combo = pick[p].combo
  BY <1>2
<1>4. \A q \in Picks \ {p} : pick'[q] = pick[q]
  BY <1>1
<1>5. QED
  BY <1>1, <1>3, <1>4

LEMMA HotkeyStarts == ASSUME HotkeyInit PROVE HotkeyInv
BY HotkeyAssumption DEF HotkeyInit, HotkeyInv, HotkeyTypes, OneSaveAtATime, Unused, Where, Saving,
   Pending, Settled

\* Steps that touch neither a save nor the agent.
LEMMA HotkeyUntouched ==
  ASSUME HotkeyInv, UNCHANGED <<binding, listener, configured, bound, pick, amiss, crossed>>
  PROVE  HotkeyInv'
BY DEF HotkeyInv, HotkeyTypes, OneSaveAtATime, Pending, Settled

LEMMA PressesStep ==
  ASSUME HotkeyInv, NEW p \in Picks, Presses(p)
  PROVE  HotkeyInv'
<1>1. PICK c \in Combos : pick' = [pick EXCEPT ![p] = [at |-> "validating", combo |-> c]]
  BY DEF Presses
<1>2. /\ pick[p].at = "unused"
      /\ UNCHANGED <<binding, listener, configured, bound, amiss, crossed>>
  BY DEF Presses
<1>3. pick \in [Picks -> [at : Where, combo : Combos]]
  BY DEF HotkeyInv, HotkeyTypes
<1>4. /\ pick' \in [Picks -> [at : Where, combo : Combos]]
      /\ pick'[p].at = "validating"
      /\ \A q \in Picks \ {p} : pick'[q] = pick[q]
  BY <1>1, <1>3 DEF Where
<1>5. \A q \in Picks : pick'[q].at \in Saving => pick'[q] = pick[q]
  BY <1>4 DEF Saving
<1>6. Settled => Settled'
  BY <1>5 DEF Settled
<1>7. \A q \in Picks : Pending(q)' <=> Pending(q)
  BY <1>2, <1>4 DEF Pending
<1>8. QED
  BY <1>2, <1>4, <1>5, <1>6, <1>7 DEF HotkeyInv, HotkeyTypes, OneSaveAtATime, Pending, Saving

LEMMA ValidatedStep ==
  ASSUME HotkeyInv, NEW p \in Picks, Validated(p)
  PROVE  HotkeyInv'
<1>1. /\ pick[p].at = "validating"
      /\ UNCHANGED <<binding, listener, configured, bound, amiss>>
      /\ HotkeyTypes
  BY DEF Validated, HotkeyInv
<1>2. CASE pick[p].combo \in Reserved
  <2>1. Becomes(p, "over") /\ UNCHANGED crossed
    BY <1>2 DEF Validated
  <2>2. /\ pick' \in [Picks -> [at : Where, combo : Combos]] /\ pick'[p].at = "over"
        /\ \A q \in Picks \ {p} : pick'[q] = pick[q]
    BY <1>1, <2>1, PickMoves DEF Where
  <2>3. \A q \in Picks : pick'[q].at \in Saving => pick'[q] = pick[q]
    BY <2>2 DEF Saving
  <2>4. (Settled => Settled') /\ \A q \in Picks : Pending(q)' <=> Pending(q)
    BY <1>1, <2>2, <2>3 DEF Settled, Pending
  <2>5. QED
    BY <1>1, <2>1, <2>2, <2>3, <2>4 DEF HotkeyInv, HotkeyTypes, OneSaveAtATime, Pending, Saving
<1>3. CASE pick[p].combo \notin Reserved
  <2>1. Becomes(p, "writing") /\ crossed' = (crossed \/ ~Settled \/ listener = "loaded")
    BY <1>3 DEF Validated
  <2>2. /\ pick' \in [Picks -> [at : Where, combo : Combos]] /\ pick'[p].at = "writing"
        /\ \A q \in Picks \ {p} : pick'[q] = pick[q]
    BY <1>1, <2>1, PickMoves DEF Where, Saving
  <2>3. crossed' \in BOOLEAN
    BY <2>1
  <2>4. ~crossed' => ~crossed /\ Settled /\ listener # "loaded"
    BY <2>1
  <2>5. \A q \in Picks : Pending(q)' <=> Pending(q)
    BY <1>1, <2>2 DEF Pending
  <2>6. ASSUME Settled PROVE \A q \in Picks : pick'[q].at \in Saving => q = p
    BY <2>2, <2>6 DEF Settled
  <2>7. ~crossed' => OneSaveAtATime'
    BY <1>1, <2>2, <2>4, <2>5, <2>6 DEF HotkeyInv, OneSaveAtATime, Pending
  <2>8. \A q \in Picks : pick'[q].at \in {"asked", "late"} => listener' \in {"serving", "up", "stopping"}
    BY <1>1, <2>2 DEF HotkeyInv
  <2>9. QED
    BY <1>1, <2>2, <2>3, <2>7, <2>8 DEF HotkeyInv, HotkeyTypes
<1>4. QED
  BY <1>2, <1>3

\* An answer, or the end of a wait: nobody else's save is touched.
LEMMA AnsweredFacts ==
  ASSUME HotkeyTypes, NEW p \in Picks, NEW error \in BOOLEAN, Answered(p, error)
  PROVE  /\ pick' \in [Picks -> [at : Where, combo : Combos]] /\ pick'[p].at = "over" /\ amiss' = error
         /\ \A q \in Picks \ {p} : pick'[q] = pick[q]
<1>1. Becomes(p, "over") /\ amiss' = error
  BY DEF Answered
<1>2. QED
  BY <1>1, PickMoves DEF Where

\* With one save at a time, its end leaves none that is under way.
LEMMA SaveEnds ==
  ASSUME HotkeyInv, ~crossed, NEW p \in Picks, pick[p].at \in Saving,
         pick'[p].at = "over", \A q \in Picks \ {p} : pick'[q] = pick[q]
  PROVE  \A q \in Picks : pick'[q].at \notin Saving /\ ~Pending(q)'
<1>1. ASSUME NEW q \in Picks PROVE pick'[q].at \notin Saving
  BY DEF HotkeyInv, OneSaveAtATime, Saving
<1>2. QED
  BY <1>1 DEF Pending, Saving

LEMMA WritesBindingStep ==
  ASSUME HotkeyInv, NEW p \in Picks, WritesBinding(p)
  PROVE  HotkeyInv'
<1>1. /\ pick[p].at = "writing" /\ HotkeyTypes
      /\ UNCHANGED <<listener, configured, bound, crossed>>
  BY DEF WritesBinding, HotkeyInv
<1>2. CASE binding' = pick[p].combo /\ Becomes(p, "calling") /\ UNCHANGED amiss
  <2>1. /\ pick' \in [Picks -> [at : Where, combo : Combos]] /\ pick'[p].at = "calling"
        /\ pick'[p].combo = pick[p].combo
        /\ \A q \in Picks \ {p} : pick'[q] = pick[q]
    BY <1>1, <1>2, PickMoves DEF Where, Saving
  <2>2. HotkeyTypes' /\ \A q \in Picks : pick'[q].at \in {"asked", "late"} =>
                                           listener' \in {"serving", "up", "stopping"}
    <3>1. pick[p].combo \in Combos
      BY <1>1 DEF HotkeyTypes
    <3>2. QED
      BY <1>1, <1>2, <2>1, <3>1 DEF HotkeyInv, HotkeyTypes
  <2>3. ASSUME ~crossed PROVE OneSaveAtATime'
    <3>1. \A q \in Picks : pick'[q].at \in Saving => q = p
      BY <1>1, <2>1, <2>3 DEF HotkeyInv, OneSaveAtATime, Saving
    <3>2. listener # "loaded"
      BY <1>1, <2>3 DEF HotkeyInv, OneSaveAtATime, Settled, Saving
    <3>3. \A q \in Picks : Pending(q)' => q = p
      BY <3>1 DEF Pending, Saving
    <3>4. Pending(p)' /\ binding' = pick'[p].combo /\ pick'[p].at # "late"
      BY <1>2, <2>1 DEF Pending
    <3>5. QED
      BY <1>1, <3>1, <3>2, <3>3, <3>4 DEF OneSaveAtATime, Saving
  <2>4. QED
    BY <1>1, <2>2, <2>3 DEF HotkeyInv
<1>3. CASE Answered(p, TRUE) /\ UNCHANGED binding
  <2>1. /\ pick' \in [Picks -> [at : Where, combo : Combos]] /\ pick'[p].at = "over" /\ amiss' = TRUE
        /\ \A q \in Picks \ {p} : pick'[q] = pick[q]
    BY <1>1, <1>3, AnsweredFacts
  <2>2. HotkeyTypes' /\ \A q \in Picks : pick'[q].at \in {"asked", "late"} =>
                                           listener' \in {"serving", "up", "stopping"}
    BY <1>1, <1>3, <2>1 DEF HotkeyInv, HotkeyTypes
  <2>3. ASSUME ~crossed PROVE OneSaveAtATime'
    <3>1. \A q \in Picks : pick'[q].at \notin Saving /\ ~Pending(q)'
      BY <1>1, <2>1, <2>3, SaveEnds DEF Saving
    <3>2. listener # "loaded"
      BY <1>1, <2>3 DEF HotkeyInv, OneSaveAtATime, Settled, Saving
    <3>3. QED
      BY <1>1, <2>1, <3>1, <3>2 DEF OneSaveAtATime, Saving
  <2>4. QED
    BY <1>1, <2>2, <2>3 DEF HotkeyInv
<1>4. QED
  BY <1>2, <1>3 DEF WritesBinding

LEMMA CallsAgentStep ==
  ASSUME HotkeyInv, NEW p \in Picks, CallsAgent(p)
  PROVE  HotkeyInv'
<1>1. /\ pick[p].at = "calling" /\ HotkeyTypes
      /\ crossed' = (crossed \/ listener = "loaded")
      /\ UNCHANGED <<binding, listener, configured, bound>>
  BY DEF CallsAgent, HotkeyInv
<1>2. crossed' \in BOOLEAN /\ (~crossed' => ~crossed /\ listener # "loaded")
  BY <1>1
<1>3. CASE listener \in {"off", "loaded"} /\ Answered(p, FALSE)
  <2>1. /\ pick' \in [Picks -> [at : Where, combo : Combos]] /\ pick'[p].at = "over" /\ amiss' = FALSE
        /\ \A q \in Picks \ {p} : pick'[q] = pick[q]
    BY <1>1, <1>3, AnsweredFacts
  <2>2. HotkeyTypes' /\ \A q \in Picks : pick'[q].at \in {"asked", "late"} =>
                                           listener' \in {"serving", "up", "stopping"}
    BY <1>1, <1>2, <2>1 DEF HotkeyInv, HotkeyTypes
  <2>3. ASSUME ~crossed' PROVE OneSaveAtATime'
    <3>1. \A q \in Picks : pick'[q].at \notin Saving /\ ~Pending(q)'
      BY <1>1, <1>2, <2>1, <2>3, SaveEnds DEF Saving
    <3>2. listener' = "off"
      BY <1>1, <1>2, <1>3, <2>3
    <3>3. QED
      BY <3>1, <3>2 DEF OneSaveAtATime, Saving
  <2>4. QED
    BY <2>2, <2>3 DEF HotkeyInv
<1>4. CASE listener \notin {"off", "loaded"} /\ Becomes(p, "asked") /\ UNCHANGED amiss
  <2>1. /\ pick' \in [Picks -> [at : Where, combo : Combos]] /\ pick'[p].at = "asked"
        /\ pick'[p].combo = pick[p].combo
        /\ \A q \in Picks \ {p} : pick'[q] = pick[q]
    BY <1>1, <1>4, PickMoves DEF Where, Saving
  <2>2. HotkeyTypes'
    BY <1>1, <1>2, <1>4, <2>1 DEF HotkeyTypes
  <2>3. \A q \in Picks : pick'[q].at \in {"asked", "late"} => listener' \in {"serving", "up", "stopping"}
    BY <1>1, <1>4, <2>1 DEF HotkeyInv, HotkeyTypes
  <2>4. ASSUME ~crossed' PROVE OneSaveAtATime'
    <3>1. \A q \in Picks : pick'[q].at \in Saving => q = p
      BY <1>1, <1>2, <2>1, <2>4 DEF HotkeyInv, OneSaveAtATime, Saving
    <3>2. Pending(p)' /\ binding' = pick'[p].combo /\ pick'[p].at # "late"
      BY <1>1, <1>2, <2>1, <2>4 DEF Pending, HotkeyInv, OneSaveAtATime
    <3>3. \A q \in Picks : Pending(q)' => q = p
      BY <3>1 DEF Pending, Saving
    <3>4. QED
      BY <1>1, <1>2, <2>4, <3>1, <3>2, <3>3 DEF OneSaveAtATime, Saving
  <2>5. QED
    BY <2>2, <2>3, <2>4 DEF HotkeyInv
<1>5. QED
  BY <1>3, <1>4 DEF CallsAgent

LEMMA CallTimesOutStep ==
  ASSUME HotkeyInv, NEW p \in Picks, CallTimesOut(p)
  PROVE  HotkeyInv'
<1>1. /\ pick[p].at = "asked" /\ HotkeyTypes /\ Becomes(p, "late") /\ amiss' = TRUE
      /\ UNCHANGED <<binding, listener, configured, bound, crossed>>
  BY DEF CallTimesOut, HotkeyInv
<1>2. /\ pick' \in [Picks -> [at : Where, combo : Combos]] /\ pick'[p].at = "late"
      /\ \A q \in Picks \ {p} : pick'[q] = pick[q]
  BY <1>1, PickMoves DEF Where, Saving
<1>3. HotkeyTypes' /\ \A q \in Picks : pick'[q].at \in {"asked", "late"} =>
                                         listener' \in {"serving", "up", "stopping"}
  BY <1>1, <1>2 DEF HotkeyInv, HotkeyTypes
<1>4. ASSUME ~crossed PROVE OneSaveAtATime'
  <2>1. \A q \in Picks : pick'[q].at \in Saving => q = p
    BY <1>1, <1>2, <1>4 DEF HotkeyInv, OneSaveAtATime, Saving
  <2>2. listener # "loaded"
    BY <1>1 DEF HotkeyInv
  <2>3. \A q \in Picks : ~Pending(q)'
    BY <1>2, <2>1 DEF Pending, Saving
  <2>4. QED
    BY <1>1, <2>1, <2>2, <2>3 DEF OneSaveAtATime
<1>5. QED
  BY <1>1, <1>3, <1>4 DEF HotkeyInv

LEMMA RebindsStep ==
  ASSUME HotkeyInv, NEW p \in Picks, Rebinds(p)
  PROVE  HotkeyInv'
<1> DEFINE c == pick[p].combo
           refusal == listener # "up" \/ c \in taken
<1>1. /\ pick[p].at \in {"asked", "late"} /\ HotkeyTypes
      /\ bound' = IF listener = "up" THEN Rebound(c) ELSE bound
      /\ configured' = IF refusal THEN configured ELSE c
      /\ UNCHANGED <<binding, listener, crossed>>
  BY DEF Rebinds, HotkeyInv
<1>2. c \in Combos /\ c # "none" /\ refusal \in BOOLEAN
  BY <1>1, HotkeyAssumption DEF HotkeyTypes
<1>3. ~refusal => bound' = c /\ configured' = c /\ listener = "up"
  BY <1>1, <1>2 DEF Rebound, Registered
<1>4. configured' \in Combos /\ listener \in {"serving", "up", "stopping"}
  BY <1>1, <1>2 DEF HotkeyTypes, HotkeyInv
<1> HIDE DEF refusal
<1>5. /\ pick' \in [Picks -> [at : Where, combo : Combos]] /\ pick'[p].at = "over"
      /\ \A q \in Picks \ {p} : pick'[q] = pick[q]
      /\ pick[p].at = "asked" => amiss' = refusal
      /\ pick[p].at = "late" => amiss' = amiss
  <2>1. CASE pick[p].at = "asked"
    <3>1. Answered(p, refusal)
      BY <2>1 DEF Rebinds, Passed, refusal
    <3>2. QED
      BY <1>1, <1>2, <2>1, <3>1, AnsweredFacts
  <2>2. CASE pick[p].at = "late"
    <3>1. Becomes(p, "over") /\ amiss' = amiss
      BY <2>2 DEF Rebinds
    <3>2. QED
      BY <1>1, <2>2, <3>1, PickMoves DEF Where
  <2>3. QED
    BY <1>1, <2>1, <2>2
<1>6. HotkeyTypes' /\ \A q \in Picks : pick'[q].at \in {"asked", "late"} =>
                                         listener' \in {"serving", "up", "stopping"}
  <2>1. amiss' \in BOOLEAN
    BY <1>1, <1>2, <1>5 DEF HotkeyTypes
  <2>2. QED
    BY <1>1, <1>4, <1>5, <2>1 DEF HotkeyInv, HotkeyTypes
<1>7. ASSUME ~crossed PROVE OneSaveAtATime'
  <2>1. \A q \in Picks : pick'[q].at \notin Saving /\ ~Pending(q)'
    BY <1>1, <1>5, <1>7, SaveEnds DEF Saving
  <2>2. ~amiss' => pick[p].at = "asked" /\ ~refusal /\ binding = c
    BY <1>1, <1>2, <1>5, <1>7 DEF HotkeyInv, OneSaveAtATime, Pending
  <2>3. ~amiss' => listener' = "up" /\ bound' = binding'
    BY <1>1, <1>3, <2>2
  <2>4. QED
    BY <1>1, <1>4, <2>1, <2>3 DEF OneSaveAtATime, Saving
<1>8. QED
  BY <1>1, <1>6, <1>7 DEF HotkeyInv

LEMMA AgentStarts ==
  ASSUME HotkeyInv, AgentLoads \/ AgentServesCalls \/ AgentRegisters
  PROVE  HotkeyInv'
<1>1. HotkeyTypes /\ UNCHANGED <<binding, pick>>
  BY DEF HotkeyInv, AgentLoads, AgentServesCalls, AgentRegisters
<1>2. CASE AgentLoads
  <2>1. /\ listener = "off" /\ listener' = "loaded" /\ configured' = binding
        /\ crossed' = (crossed \/ \E p \in Picks : pick[p].at \in {"writing", "calling"})
        /\ UNCHANGED <<bound, amiss>>
    BY <1>2 DEF AgentLoads
  <2>2. HotkeyTypes' /\ \A q \in Picks : pick'[q].at \notin {"asked", "late"}
    BY <1>1, <2>1 DEF HotkeyInv, HotkeyTypes
  <2>3. ASSUME ~crossed' PROVE ~crossed /\ \A q \in Picks : pick'[q].at \notin Saving
    BY <1>1, <2>1, <2>2, <2>3 DEF Saving
  <2>4. ASSUME ~crossed' PROVE OneSaveAtATime'
    BY <1>1, <2>1, <2>3, <2>4 DEF OneSaveAtATime, Settled, Pending, Saving
  <2>5. QED
    BY <2>2, <2>4 DEF HotkeyInv
<1>3. CASE AgentServesCalls
  <2>1. /\ listener = "loaded" /\ listener' = "serving"
        /\ UNCHANGED <<configured, bound, amiss, crossed>>
    BY <1>3 DEF AgentServesCalls
  <2>2. HotkeyTypes'
    BY <1>1, <2>1 DEF HotkeyTypes
  <2>3. ASSUME ~crossed PROVE OneSaveAtATime'
    BY <1>1, <2>1, <2>3 DEF HotkeyInv, OneSaveAtATime, Pending
  <2>4. QED
    BY <1>1, <2>1, <2>2, <2>3 DEF HotkeyInv
<1>4. CASE AgentRegisters
  <2>1. /\ listener = "serving" /\ listener' = "up" /\ bound' = Registered(configured)
        /\ amiss' = (amiss \/ bound' = "none")
        /\ UNCHANGED <<configured, crossed>>
    BY <1>4 DEF AgentRegisters
  <2>2. HotkeyTypes'
    BY <1>1, <2>1 DEF HotkeyTypes
  <2>3. ~amiss' => ~amiss /\ bound' = configured
    BY <2>1 DEF Registered
  <2>4. amiss => amiss'
    BY <2>1
  <2>5. ASSUME ~crossed PROVE OneSaveAtATime'
    BY <1>1, <2>1, <2>3, <2>4, <2>5 DEF HotkeyInv, OneSaveAtATime, Pending
  <2>6. QED
    BY <1>1, <2>1, <2>2, <2>5 DEF HotkeyInv
<1>5. QED
  BY <1>2, <1>3, <1>4

LEMMA AgentStops ==
  ASSUME HotkeyInv, AgentUnregisters \/ AgentEnds
  PROVE  HotkeyInv'
<1>1. HotkeyTypes /\ UNCHANGED <<binding, configured, crossed>>
  BY DEF HotkeyInv, AgentUnregisters, AgentEnds
<1>2. CASE AgentUnregisters
  <2>1. listener = "up" /\ listener' = "stopping" /\ UNCHANGED <<pick, amiss>>
    BY <1>2 DEF AgentUnregisters
  <2>2. HotkeyTypes'
    BY <1>1, <2>1 DEF HotkeyTypes
  <2>3. ASSUME ~crossed PROVE OneSaveAtATime'
    BY <1>1, <2>1, <2>3 DEF HotkeyInv, OneSaveAtATime, Pending
  <2>4. QED
    BY <1>1, <2>1, <2>2, <2>3 DEF HotkeyInv
<1>3. CASE AgentEnds
  <2>1. /\ listener = "stopping" /\ listener' = "off"
        /\ pick' = [p \in Picks |-> IF pick[p].at \in {"asked", "late"}
                                      THEN [pick[p] EXCEPT !.at = "over"] ELSE pick[p]]
        /\ amiss' = (amiss \/ \E p \in Picks : pick[p].at = "asked")
    BY <1>3 DEF AgentEnds
  <2>2. ASSUME NEW q \in Picks
        PROVE  /\ pick'[q] \in [at : Where, combo : Combos]
               /\ pick[q].at \in {"asked", "late"} => pick'[q].at = "over"
               /\ pick[q].at \notin {"asked", "late"} => pick'[q] = pick[q]
    <3>1. pick[q] \in [at : Where, combo : Combos]
      BY <1>1 DEF HotkeyTypes
    <3>2. CASE pick[q].at \in {"asked", "late"}
      <4>1. pick'[q] = [pick[q] EXCEPT !.at = "over"]
        BY <2>1, <3>2
      <4>2. QED
        BY <3>1, <3>2, <4>1 DEF Where
    <3>3. CASE pick[q].at \notin {"asked", "late"}
      BY <2>1, <3>1, <3>3
    <3>4. QED
      BY <3>2, <3>3
  <2>3. amiss' \in BOOLEAN /\ pick' \in [Picks -> [at : Where, combo : Combos]]
    BY <2>1, <2>2
  <2>4. HotkeyTypes' /\ \A q \in Picks : pick'[q].at \notin {"asked", "late"}
    BY <1>1, <2>1, <2>2, <2>3 DEF HotkeyTypes
  <2>5. ASSUME ~crossed PROVE OneSaveAtATime'
    <3>1. \A q \in Picks : pick'[q].at \in Saving => pick'[q] = pick[q]
      BY <2>2 DEF Saving
    <3>2. QED
      BY <1>1, <2>1, <2>2, <2>4, <2>5, <3>1 DEF HotkeyInv, OneSaveAtATime, Pending, Saving
  <2>6. QED
    BY <1>1, <2>4, <2>5 DEF HotkeyInv
<1>4. QED
  BY <1>2, <1>3

LEMMA HotkeyStep ==
  ASSUME HotkeyInv, HotkeyNext \/ UNCHANGED hotkeyVars
  PROVE  HotkeyInv'
<1>1. CASE \/ StartsCapture \/ Escapes \/ PaneReopens \/ OtherAppTakes \/ OtherAppFrees
           \/ UNCHANGED hotkeyVars
  <2>1. UNCHANGED <<binding, listener, configured, bound, pick, amiss, crossed>>
    BY <1>1 DEF StartsCapture, Escapes, PaneReopens, OtherAppTakes, OtherAppFrees, hotkeyVars
  <2>2. QED
    BY <2>1, HotkeyUntouched
<1>2. CASE \E p \in Picks : \/ Presses(p) \/ Validated(p) \/ WritesBinding(p) \/ CallsAgent(p)
                            \/ CallTimesOut(p) \/ Rebinds(p)
  BY <1>2, PressesStep, ValidatedStep, WritesBindingStep, CallsAgentStep, CallTimesOutStep, RebindsStep
<1>3. CASE AgentLoads \/ AgentServesCalls \/ AgentRegisters
  BY <1>3, AgentStarts
<1>4. CASE AgentUnregisters \/ AgentEnds
  BY <1>4, AgentStops
<1>5. QED
  BY <1>1, <1>2, <1>3, <1>4 DEF HotkeyNext

(* What the user sees in Settings is what the shortcut is bound to, in a     *)
(* running agent, unless a save failed or met another save or a start        *)
(* (gui/common/hotkey.py, arm/hotkey.py).                                    *)
THEOREM ShortcutAsShown == Spec => []ShortcutIsHonest
<1>1. RecordingInit => HotkeyInv
  BY HotkeyStarts DEF RecordingInit
<1>2. HotkeyInv /\ [RecordingNext]_recordingVars => HotkeyInv'
  <2> SUFFICES ASSUME HotkeyInv, [RecordingNext]_recordingVars PROVE HotkeyInv'
    OBVIOUS
  <2>1. HotkeyNext \/ UNCHANGED hotkeyVars
    <3>1. CASE RecordingNext
      BY <3>1, Zenon DEF RecordingNext, In
    <3>2. CASE UNCHANGED recordingVars
      BY <3>2 DEF recordingVars
    <3>3. QED
      BY <3>1, <3>2
  <2>2. QED
    BY <2>1, HotkeyStep
<1>3. HotkeyInv => ShortcutIsHonest
  <2> SUFFICES ASSUME HotkeyInv, listener = "up", Settled, ~crossed, ~amiss PROVE bound = binding
    BY DEF ShortcutIsHonest
  <2>1. \A p \in Picks : ~Pending(p)
    BY DEF Settled, Pending, Saving
  <2>2. QED
    BY <2>1 DEF HotkeyInv, OneSaveAtATime
<1>4. QED
  BY <1>1, <1>2, <1>3, PTL DEF Spec

-----------------------------------------------------------------------------
(* The closed session                                                      *)

Pair == Int \X Int
Refs == {<<>>} \cup UNION {[0 .. n - 1 -> Int] : n \in Nat}

\* A session in hand, up to the trim, and what is left of it after the loudness match.
Jobs == [stage : {"closed", "cancelled", "guarded", "kept", "trimmed", "skipped"}, len : Nat,
         heard : SUBSET Pair, mic : SUBSET Pair, sys : SUBSET Pair, echo : SUBSET Pair,
         delay : Int, ref : Refs, cut : Pair, silent : SUBSET Int]
Shares == [stage : {"matched", "written"}, levels : Pair, gains : Pair, peaks : Pair]

Inside(spans, len) == \A s \in spans : 0 <= s[1] /\ s[1] < s[2] /\ s[2] <= len + 1

Subtracted(ref, len, delay) ==
  \A i \in 0 .. len - 1 :
    LET played == i - (IF delay \in -MaxLag .. MaxLag THEN delay ELSE 0)
    IN  ref[i] = IF played \in 0 .. len - 1 THEN played ELSE Nothing

Balanced(levels, gains, peaks) ==
  /\ Unmeasurable \notin {levels[1], levels[2]} => levels[1] + gains[1] = levels[2] + gains[2]
  /\ \A c \in 1 .. 2 :
       gains[c] <= MaxBoost /\ (levels[c] # Unmeasurable => peaks[c] <= Ceiling)

SpeechKept(len, mic, sys, echo, cut, silent) ==
  /\ \A i \in Instants(echo) : i \in Span(cut[1], cut[2]) => i - cut[1] \in silent
  /\ \A i \in Instants(mic \cup sys) : i < len => i \in Span(cut[1], cut[2])
  /\ \A i \in Instants(mic) \ Instants(echo) : i - cut[1] \notin silent

InHand ==
  /\ job \in Jobs /\ Inside(job.mic \cup job.sys, job.len)
  /\ job.stage = "closed" => job.ref = <<>>
  /\ job.stage = "cancelled" /\ job.ref # <<>> => Subtracted(job.ref, job.len, job.delay)
  /\ job.stage = "trimmed" =>
       SpeechKept(job.len, job.mic, job.sys, job.echo, job.cut, job.silent)

Leveled == job \in Shares /\ (job.stage = "matched" => Balanced(job.levels, job.gains, job.peaks))

JobInv == InHand \/ Leveled \/ job.stage \in {"none", "lost"}

LEMMA SessionCloseConstants ==
  /\ MaxLag \in Nat /\ Pad \in Nat /\ Floor \in Nat /\ MaxBoost \in Nat /\ Ceiling \in Nat
  /\ Search \in Nat /\ Levels \subseteq Nat /\ Crests \subseteq Nat
BY SessionCloseAssumption

LEMMA CancelStep ==
  ASSUME JobInv, Cancel
  PROVE  JobInv'
<1>1. job.stage = "closed" /\ InHand
  BY DEF Cancel, JobInv, Leveled, Shares
<1>2. CASE job' = [job EXCEPT !.stage = "cancelled"]
  <2>1. job' \in Jobs
    BY <1>1, <1>2 DEF InHand, Jobs
  <2>2. /\ job'.stage = "cancelled" /\ job'.ref = job.ref /\ job'.mic = job.mic
        /\ job'.sys = job.sys /\ job'.len = job.len
    BY <1>1, <1>2 DEF InHand, Jobs
  <2>3. QED
    BY <1>1, <2>1, <2>2 DEF JobInv, InHand
<1>3. ASSUME NEW d \in -Search .. Search,
             job' = [job EXCEPT !.stage = "cancelled", !.delay = d, !.ref = Reference(job.len, Lag(d))]
      PROVE  JobInv'
  <2>1. PICK len \in Nat, lag \in Int, ref \in {Reference(job.len, Lag(d))} :
           len = job.len /\ lag = Lag(d) /\ ref = Reference(len, lag)
    BY <1>1, SessionCloseConstants DEF InHand, Jobs, Lag, BestMatch
  <2>2. ref = [i \in 0 .. len - 1 |-> IF i - lag \in 0 .. len - 1 THEN i - lag ELSE Nothing]
    BY <2>1 DEF Reference
  <2>3. ref \in [0 .. len - 1 -> Int]
    BY <2>1, <2>2 DEF Nothing
  <2>4. ref \in Refs
    BY <2>3 DEF Refs
  <2>5. d \in Int
    BY SessionCloseConstants
  <2>6. job' \in Jobs
    BY <1>1, <1>3, <2>1, <2>4, <2>5 DEF InHand, Jobs
  <2>7. /\ job'.stage = "cancelled" /\ job'.ref = ref /\ job'.mic = job.mic /\ job'.delay = d
        /\ job'.sys = job.sys /\ job'.len = len
    BY <1>1, <1>3, <2>1 DEF InHand, Jobs
  <2>8. lag = IF d \in -MaxLag .. MaxLag THEN d ELSE 0
    BY <2>1, <2>5, SessionCloseConstants DEF Lag, BestMatch
  <2>9. Subtracted(ref, len, d)
    BY <2>2, <2>8 DEF Subtracted
  <2>10. QED
    BY <1>1, <2>1, <2>6, <2>7, <2>9 DEF JobInv, InHand
<1>4. QED
  BY <1>2, <1>3 DEF Cancel

LEMMA StretchesInside ==
  ASSUME NEW at \in SUBSET Int, NEW r \in Stretches(at)
  PROVE  r \in Pair /\ r[1] < r[2] /\ r[1] \in at /\ r[2] - 1 \in at
<1>1. PICK a \in at, b \in at : r = <<a, b + 1>>
  BY DEF Stretches
<1>2. r[1] < r[2]
  BY DEF Stretches
<1>3. r[1] = a /\ r[2] = b + 1 /\ b = (b + 1) - 1
  BY <1>1
<1>4. QED
  BY <1>1, <1>2, <1>3 DEF Pair

LEMMA InstantsAreInts == ASSUME NEW spans PROVE Instants(spans) \subseteq Int
BY DEF Instants, Span

\* What the guard keeps of a stretch lies inside it; what it takes for echo is a stretch
\* as well.
LEMMA ClassifiedInside ==
  ASSUME NEW s \in Pair, NEW verdict, s[1] < s[2]
  PROVE  /\ \A r \in Classified(s, verdict).keep : r \in Pair /\ s[1] <= r[1] /\ r[1] < r[2] /\ r[2] <= s[2]
         /\ Classified(s, verdict).echo \subseteq Pair
<1> DEFINE echo == EchoSpans(s, verdict)
<1>1. /\ Classified(s, verdict).echo = echo
      /\ Classified(s, verdict).keep = IF echo = {} THEN {s} ELSE {r \in Remainder(s, echo) : r[2] - r[1] >= MinKeep}
  BY DEF Classified
<1>2. echo \subseteq Pair
  BY StretchesInside, InstantsAreInts DEF EchoSpans
<1> HIDE DEF echo
<1>3. s[1] \in Int /\ s[2] \in Int
  BY DEF Pair
<1>4. ASSUME NEW r \in Remainder(s, echo) PROVE r \in Pair /\ s[1] <= r[1] /\ r[1] < r[2] /\ r[2] <= s[2]
  <2> DEFINE at == Span(s[1], s[2]) \ Instants(echo)
  <2>1. at \in SUBSET Int /\ \A i \in at : s[1] <= i /\ i <= s[2] - 1
    BY <1>3 DEF Span
  <2>2. r \in Stretches(at)
    BY DEF Remainder
  <2> HIDE DEF at
  <2>3. r \in Pair /\ r[1] < r[2] /\ r[1] \in at /\ r[2] - 1 \in at
    BY <2>1, <2>2, StretchesInside
  <2>4. s[1] <= r[1] /\ r[2] - 1 <= s[2] - 1 /\ r[2] \in Int
    BY <2>1, <2>3 DEF Pair
  <2>5. QED
    BY <1>3, <2>3, <2>4
<1>5. QED
  BY <1>1, <1>2, <1>3, <1>4

LEMMA EchoGuardStep ==
  ASSUME JobInv, EchoGuard
  PROVE  JobInv'
<1>1. job.stage = "cancelled" /\ InHand
  BY DEF EchoGuard, JobInv, Leveled, Shares
<1>2. PICK blank \in Refs, zero \in Int : blank = <<>> /\ zero = 0
  BY DEF Refs
<1>3. CASE job' = [job EXCEPT !.stage = "guarded", !.delay = 0, !.ref = <<>>]
  <2>1. job' \in Jobs
    <3>1. job' = [job EXCEPT !.stage = "guarded", !.delay = zero, !.ref = blank]
      BY <1>2, <1>3
    <3>2. QED
      BY <1>1, <3>1 DEF InHand, Jobs
  <2>2. job'.stage = "guarded" /\ job'.mic = job.mic /\ job'.sys = job.sys /\ job'.len = job.len
    BY <1>1, <1>3 DEF InHand, Jobs
  <2>3. QED
    BY <1>1, <2>1, <2>2 DEF JobInv, InHand
<1>4. ASSUME NEW verdict \in Verdicts(job.mic),
             job' = [job EXCEPT
                       !.stage = "guarded", !.delay = 0, !.ref = <<>>,
                       !.mic = UNION {Classified(s, verdict).keep : s \in job.mic},
                       !.echo = UNION {Classified(s, verdict).echo : s \in job.mic}]
      PROVE  JobInv'
  <2>1. PICK len \in {job.len}, was \in {job.mic}, mic \in {UNION {Classified(s, verdict).keep : s \in job.mic}},
             echo \in {UNION {Classified(s, verdict).echo : s \in job.mic}} :
          /\ len \in Nat /\ len = job.len /\ was = job.mic
          /\ mic = UNION {Classified(s, verdict).keep : s \in was}
          /\ echo = UNION {Classified(s, verdict).echo : s \in was}
    BY <1>1 DEF InHand, Jobs
  <2>2. was \in SUBSET Pair /\ Inside(was, len) /\ Inside(job.sys, len)
    BY <1>1, <2>1 DEF InHand, Jobs, Inside
  <2>3. ASSUME NEW s \in was
        PROVE  /\ \A r \in Classified(s, verdict).keep : r \in Pair /\ 0 <= r[1] /\ r[1] < r[2] /\ r[2] <= len + 1
               /\ Classified(s, verdict).echo \subseteq Pair
    <3>1. s \in Pair /\ 0 <= s[1] /\ s[1] < s[2] /\ s[2] <= len + 1
      BY <2>2 DEF Inside
    <3>2. s[1] \in Int /\ s[2] \in Int
      BY <3>1 DEF Pair
    <3>3. ASSUME NEW r \in Classified(s, verdict).keep
          PROVE  r \in Pair /\ 0 <= r[1] /\ r[1] < r[2] /\ r[2] <= len + 1
      <4>1. r \in Pair /\ s[1] <= r[1] /\ r[1] < r[2] /\ r[2] <= s[2]
        BY <3>1, ClassifiedInside
      <4>2. r[1] \in Int /\ r[2] \in Int
        BY <4>1 DEF Pair
      <4>3. QED
        BY <2>1, <3>1, <3>2, <4>1, <4>2
    <3>4. QED
      BY <3>1, <3>3, ClassifiedInside
  <2>4. mic \in SUBSET Pair /\ echo \in SUBSET Pair /\ Inside(mic, len)
    BY <2>1, <2>3 DEF Inside
  <2>5. job' = [job EXCEPT !.stage = "guarded", !.delay = zero, !.ref = blank, !.mic = mic, !.echo = echo]
    BY <1>2, <1>4, <2>1
  <2>6. job' \in Jobs
    BY <1>1, <2>4, <2>5 DEF InHand, Jobs
  <2>7. job'.stage = "guarded" /\ job'.mic = mic /\ job'.sys = job.sys /\ job'.len = len
    BY <1>1, <2>1, <2>5 DEF InHand, Jobs
  <2>8. Inside(mic \cup job.sys, len)
    BY <2>2, <2>4 DEF Inside
  <2>9. QED
    BY <2>6, <2>7, <2>8 DEF JobInv, InHand
<1>5. QED
  BY <1>3, <1>4, Zenon DEF EchoGuard

LEMMA GateStep ==
  ASSUME JobInv, Gate
  PROVE  JobInv'
<1>1. job.stage = "guarded" /\ InHand
  BY DEF Gate, JobInv, Leveled, Shares
<1>2. PICK stage \in {"kept", "skipped"} : job' = [job EXCEPT !.stage = stage]
  BY DEF Gate
<1>3. job' \in Jobs
  BY <1>1, <1>2 DEF InHand, Jobs
<1>4. job'.stage = stage /\ job'.mic = job.mic /\ job'.sys = job.sys /\ job'.len = job.len
  BY <1>1, <1>2 DEF InHand, Jobs
<1>5. QED
  BY <1>1, <1>3, <1>4 DEF JobInv, InHand

\* A set of natural numbers has a least one, and a bounded one a greatest.
LEMMA LeastOf ==
  ASSUME NEW S \in SUBSET Nat, S # {}
  PROVE  \E m \in S : \A k \in S : m <= k
<1> DEFINE below == {p \in Nat \X Nat : p[1] < p[2]}
<1>1. IsWellFoundedOn(below, Nat)
  BY NatLessThanWellFounded DEF OpToRel
<1> HIDE DEF below
<1>2. PICK m \in S : \A k \in S : ~(<<k, m>> \in below)
  BY <1>1, WFMin
<1>3. ASSUME NEW k \in S PROVE m <= k
  <2>1. ~(<<k, m>> \in below) /\ <<k, m>> \in Nat \X Nat
    BY <1>2
  <2>2. ~(k < m)
    BY <2>1 DEF below
  <2>3. QED
    BY <2>2
<1>4. QED
  BY <1>3

LEMMA GreatestOf ==
  ASSUME NEW S \in SUBSET Int, S # {}, NEW top \in Int, \A k \in S : k <= top
  PROVE  \E m \in S : \A k \in S : k <= m
<1> DEFINE T == {top - k : k \in S}
<1>1. T \in SUBSET Nat /\ T # {}
  <2>1. \A k \in S : top - k \in Nat
    OBVIOUS
  <2>2. QED
    BY <2>1
<1> HIDE DEF T
<1>2. PICK t \in T : \A k \in T : t <= k
  BY <1>1, LeastOf
<1>3. PICK m \in S : t = top - m
  BY DEF T
<1>4. ASSUME NEW k \in S PROVE k <= m
  <2>1. top - k \in T
    BY DEF T
  <2>2. top - m <= top - k
    BY <1>2, <1>3, <2>1
  <2>3. QED
    BY <2>2
<1>5. QED
  BY <1>4

LEMMA SpeechEnds ==
  ASSUME InHand, Speech # {}
  PROVE  /\ First \in Nat /\ \A s \in Speech : First <= s[1]
         /\ LastHeard \in Int /\ \A s \in Speech : s[2] <= LastHeard
<1>1. PICK spans \in SUBSET Pair, len \in Nat : spans = Speech /\ len = job.len /\ Inside(spans, len)
  BY DEF InHand, Jobs, Speech
<1>2. \A s \in spans : s[1] \in Int /\ s[2] \in Int /\ s[1] \in Nat /\ s[2] <= len + 1
  BY <1>1 DEF Inside, Pair
<1>3. /\ First \in Nat /\ \A s \in spans : First <= s[1]
  <2> DEFINE S == {s[1] : s \in spans}
  <2>1. S \in SUBSET Nat /\ S # {}
    BY <1>1, <1>2
  <2>2. First = CHOOSE a \in S : \A s \in spans : a <= s[1]
    BY <1>1 DEF First
  <2>3. \A s \in spans : s[1] \in S
    OBVIOUS
  <2>4. \A k \in S : \E s \in spans : k = s[1]
    OBVIOUS
  <2> HIDE DEF S
  <2>5. \E a \in S : \A s \in spans : a <= s[1]
    BY <2>1, <2>3, LeastOf
  <2>6. First \in S /\ \A s \in spans : First <= s[1]
    BY <2>2, <2>5
  <2>7. QED
    BY <2>1, <2>6
<1>4. LastHeard \in Int /\ \A s \in spans : s[2] <= LastHeard
  <2> DEFINE S == {s[2] : s \in spans}
  <2>1. S \in SUBSET Int /\ S # {} /\ \A k \in S : k <= len + 1
    BY <1>1, <1>2
  <2>2. LastHeard = CHOOSE b \in S : \A s \in spans : s[2] <= b
    BY <1>1 DEF LastHeard
  <2>3. \A s \in spans : s[2] \in S
    OBVIOUS
  <2> HIDE DEF S
  <2>4. len + 1 \in Int
    BY <1>1
  <2>5. \E b \in S : \A s \in spans : s[2] <= b
    BY <2>1, <2>3, <2>4, GreatestOf
  <2>6. LastHeard \in S /\ \A s \in spans : s[2] <= LastHeard
    BY <2>2, <2>5
  <2>7. QED
    BY <2>1, <2>6
<1>5. QED
  BY <1>1, <1>3, <1>4

\* The cut leaves all the speech there is sound for, and the echo that it leaves is
\* silent where it now lies.
LEMMA CutKeepsSpeech ==
  ASSUME NEW len \in Nat, NEW mic \in SUBSET Pair, NEW sys \in SUBSET Pair, NEW echo \in SUBSET Pair,
         NEW start \in Nat, NEW stop \in Int, NEW silent,
         silent = UNION {Span(Max2(0, s[1] - start), Min2(stop - start, s[2] - start)) : s \in echo},
         \A i \in Instants(mic \cup sys) : i < len => start <= i /\ i < stop
  PROVE  SpeechKept(len, mic, sys, echo, <<start, stop>>, silent)
<1> DEFINE cut == <<start, stop>>
<1>1. cut[1] = start /\ cut[2] = stop
  OBVIOUS
<1> HIDE DEF cut
<1>2. \A s \in echo : s[1] \in Int /\ s[2] \in Int
  BY DEF Pair
<1>3. ASSUME NEW i \in Instants(echo), i \in Span(start, stop) PROVE i - start \in silent
  <2>1. PICK s \in echo : i \in Span(s[1], s[2])
    BY <1>3 DEF Instants
  <2>2. PICK a \in Int, b \in Int : a = s[1] /\ b = s[2]
    BY <1>2
  <2>3. i \in Int /\ a <= i /\ i < b /\ start <= i /\ i < stop
    BY <1>3, <2>1, <2>2 DEF Span
  <2>4. i - start \in Span(Max2(0, a - start), Min2(stop - start, b - start))
    BY <2>2, <2>3 DEF Span, Max2, Min2
  <2>5. QED
    BY <2>1, <2>2, <2>4
<1>4. ASSUME NEW i \in Instants(mic \cup sys), i < len PROVE i \in Span(start, stop)
  <2>1. i \in Int
    BY InstantsAreInts
  <2>2. QED
    BY <1>4, <2>1 DEF Span
<1>5. ASSUME NEW i \in Instants(mic), i - start \in silent PROVE i \in Instants(echo)
  <2>1. i \in Int
    BY InstantsAreInts
  <2>2. PICK s \in echo : i - start \in Span(Max2(0, s[1] - start), Min2(stop - start, s[2] - start))
    BY <1>5
  <2>3. PICK a \in Int, b \in Int : a = s[1] /\ b = s[2]
    BY <1>2
  <2>4. a <= i /\ i < b
    BY <2>1, <2>2, <2>3 DEF Span, Max2, Min2
  <2>5. i \in Span(s[1], s[2])
    BY <2>1, <2>3, <2>4 DEF Span
  <2>6. QED
    BY <2>5 DEF Instants
<1>6. SpeechKept(len, mic, sys, echo, cut, silent)
  BY <1>1, <1>3, <1>4, <1>5 DEF SpeechKept
<1>7. QED
  BY <1>6 DEF cut

\* No speech, or none that there is sound for.
LEMMA NothingToCut ==
  ASSUME NEW len, NEW mic, NEW sys, NEW echo, \A i \in Instants(mic \cup sys) : ~(i < len)
  PROVE  SpeechKept(len, mic, sys, echo, <<0, 0>>, {})
<1>1. ~ \E i : i \in Span(0, 0)
  BY DEF Span
<1> DEFINE cut == <<0, 0>>
<1>2. cut[1] = 0 /\ cut[2] = 0
  OBVIOUS
<1> HIDE DEF cut
<1>3. SpeechKept(len, mic, sys, echo, cut, {})
  BY <1>1, <1>2 DEF SpeechKept
<1>4. QED
  BY <1>3 DEF cut

LEMMA TrimStep ==
  ASSUME JobInv, Trim
  PROVE  JobInv'
<1>1. job.stage = "kept" /\ InHand
  BY DEF Trim, JobInv, Leveled, Shares
<1>2. PICK len \in Nat, mic \in SUBSET Pair, sys \in SUBSET Pair, echo \in SUBSET Pair :
        len = job.len /\ mic = job.mic /\ sys = job.sys /\ echo = job.echo
  BY <1>1 DEF InHand, Jobs
<1>3. Speech = mic \cup sys /\ Pad \in Nat
  BY <1>2, SessionCloseConstants DEF Speech
<1>4. ASSUME NEW cut \in Pair, NEW silent \in SUBSET Int,
             job' = [job EXCEPT !.stage = "trimmed", !.cut = cut, !.silent = silent],
             SpeechKept(len, mic, sys, echo, cut, silent)
      PROVE  JobInv'
  <2>1. job' \in Jobs
    BY <1>1, <1>4 DEF InHand, Jobs
  <2>2. /\ job'.stage = "trimmed" /\ job'.len = len /\ job'.mic = mic /\ job'.sys = sys
        /\ job'.echo = echo /\ job'.cut = cut /\ job'.silent = silent
    BY <1>1, <1>2, <1>4 DEF InHand, Jobs
  <2>3. QED
    BY <1>1, <1>2, <1>4, <2>1, <2>2 DEF JobInv, InHand
<1>5. \* An instant that is heard lies where the cut is made.
      ASSUME NEW i \in Instants(Speech)
      PROVE  Speech # {} /\ Start <= i /\ (i < len => i < End)
  <2>1. PICK s \in Speech : i \in Span(s[1], s[2])
    BY DEF Instants
  <2>2. PICK a \in Int, b \in Int : a = s[1] /\ b = s[2] /\ 0 <= a
    <3>1. s \in Pair /\ 0 <= s[1]
      BY <1>1, <1>2, <1>3, <2>1 DEF InHand, Inside
    <3>2. QED
      BY <3>1 DEF Pair
  <2>3. i \in Int /\ a <= i /\ i < b
    BY <2>1, <2>2 DEF Span
  <2>4. PICK first \in Nat, last \in Int : first = First /\ last = LastHeard /\ first <= a /\ b <= last
    BY <1>1, <2>1, <2>2, SpeechEnds
  <2>5. Start <= i
    BY <1>3, <2>3, <2>4 DEF Start, Max2
  <2>6. i < len => i < End
    BY <1>2, <1>3, <2>3, <2>4 DEF End, Min2
  <2>7. QED
    BY <2>1, <2>5, <2>6
<1>6. CASE Speech # {} /\ Start < End
  <2>1. PICK start \in Nat, stop \in Int : start = Start /\ stop = End
    <3>1. PICK first \in Nat, last \in Int : first = First /\ last = LastHeard
      BY <1>1, <1>6, SpeechEnds
    <3>2. Start \in Nat
      BY <1>3, <3>1 DEF Start, Max2
    <3>3. End \in Int
      BY <1>2, <1>3, <3>1 DEF End, Min2
    <3>4. QED
      BY <3>2, <3>3
  <2>2. PICK silent : silent = UNION {Span(Max2(0, s[1] - start), Min2(stop - start, s[2] - start)) : s \in echo}
    OBVIOUS
  <2>3. silent \in SUBSET Int
    BY <2>2 DEF Span
  <2>4. PICK cut \in Pair : cut = <<start, stop>>
    <3>1. <<start, stop>> \in Pair
      BY DEF Pair
    <3>2. QED
      BY <3>1
  <2>5. SpeechKept(len, mic, sys, echo, cut, silent)
    BY <1>3, <1>5, <2>1, <2>2, <2>4, CutKeepsSpeech
  <2>6. Silenced(Start, End - Start) = silent
    BY <1>2, <2>1, <2>2 DEF Silenced
  <2>7. job' = [job EXCEPT !.stage = "trimmed", !.cut = cut, !.silent = silent]
    BY <1>6, <2>1, <2>4, <2>6 DEF Trim
  <2>8. QED
    BY <1>4, <2>3, <2>5, <2>7
<1>7. CASE ~(Speech # {} /\ Start < End)
  <2>1. PICK cut \in Pair, silent \in SUBSET Int : cut = <<0, 0>> /\ silent = {}
    <3>1. <<0, 0>> \in Pair
      BY DEF Pair
    <3>2. QED
      BY <3>1
  <2>2. ASSUME NEW i \in Instants(mic \cup sys) PROVE ~(i < len)
    <3>1. Speech # {} /\ Start <= i /\ (i < len => i < End) /\ i \in Int
      BY <1>3, <1>5, InstantsAreInts
    <3>2. Start \in Int /\ End \in Int
      <4>1. PICK first \in Nat, last \in Int : first = First /\ last = LastHeard
        BY <1>1, <3>1, SpeechEnds
      <4>2. Start \in Int
        BY <1>3, <4>1 DEF Start, Max2
      <4>3. End \in Int
        BY <1>2, <1>3, <4>1 DEF End, Min2
      <4>4. QED
        BY <4>2, <4>3
    <3>3. QED
      BY <1>7, <3>1, <3>2
  <2>3. SpeechKept(len, mic, sys, echo, cut, silent)
    BY <2>1, <2>2, NothingToCut
  <2>4. job' = [job EXCEPT !.stage = "trimmed", !.cut = cut, !.silent = silent]
    BY <1>7, <2>1 DEF Trim
  <2>5. QED
    BY <1>4, <2>3, <2>4
<1>8. QED
  BY <1>6, <1>7

LEMMA GainBounds ==
  ASSUME NEW m \in Levels \cup {Unmeasurable}, NEW y \in Levels \cup {Unmeasurable}
  PROVE  /\ m \in Int /\ Gain(m, y) \in Int /\ Gain(m, y) <= MaxBoost
         /\ m # Unmeasurable /\ y # Unmeasurable => m + Gain(m, y) = y + Gain(y, m)
<1>1. m \in Int /\ y \in Int /\ Floor \in Nat /\ MaxBoost \in Nat
  BY SessionCloseConstants DEF Unmeasurable
<1>2. PICK half \in Int : half = (m + y) \div 2
  BY <1>1
<1>3. y + m = m + y
  BY <1>1
<1>4. PICK target \in Int : /\ target = Target(m, y) /\ target = Target(y, m)
                            /\ target <= m + MaxBoost /\ target <= y + MaxBoost
  <2>1. Target(m, y) = Min2(Max2(half, Floor), Min2(m, y) + MaxBoost)
    BY <1>2 DEF Target
  <2>2. Target(y, m) = Min2(Max2(half, Floor), Min2(y, m) + MaxBoost)
    BY <1>2, <1>3 DEF Target
  <2>3. QED
    BY <1>1, <2>1, <2>2 DEF Min2, Max2
<1>5. CASE m = Unmeasurable
  BY <1>1, <1>5 DEF Gain
<1>6. CASE m # Unmeasurable /\ y = Unmeasurable
  BY <1>1, <1>6 DEF Gain, Min2
<1>7. CASE m # Unmeasurable /\ y # Unmeasurable
  <2>1. Gain(m, y) = target - m /\ Gain(y, m) = target - y
    BY <1>4, <1>7 DEF Gain
  <2>2. QED
    BY <1>1, <1>4, <2>1
<1>8. QED
  BY <1>5, <1>6, <1>7

LEMMA MatchLoudnessStep ==
  ASSUME JobInv, MatchLoudness
  PROVE  JobInv'
<1>1. PICK m \in Levels \cup {Unmeasurable}, y \in Levels \cup {Unmeasurable}, cm \in Crests, cy \in Crests :
        LET gm == Gain(m, y)
            gy == Gain(y, m)
            overM == IF m = Unmeasurable THEN 0 ELSE Max2(0, m + gm + cm - Ceiling)
            overY == IF y = Unmeasurable THEN 0 ELSE Max2(0, y + gy + cy - Ceiling)
            over == Max2(overM, overY)
        IN  job' = [stage |-> "matched", levels |-> <<m, y>>,
                    gains |-> <<gm - Attenuation(over, overM), gy - Attenuation(over, overY)>>,
                    peaks |-> <<m + gm + cm - Attenuation(over, overM),
                                y + gy + cy - Attenuation(over, overY)>>]
  BY DEF MatchLoudness
<1>2. PICK gm \in Int, gy \in Int :
        /\ gm = Gain(m, y) /\ gy = Gain(y, m) /\ gm <= MaxBoost /\ gy <= MaxBoost
        /\ m # Unmeasurable /\ y # Unmeasurable => m + gm = y + gy
  BY GainBounds
<1>3. m \in Int /\ y \in Int /\ cm \in Int /\ cy \in Int /\ Ceiling \in Int /\ MaxBoost \in Int
  BY GainBounds, SessionCloseConstants
<1>4. PICK overM \in Nat, overY \in Nat :
        /\ overM = IF m = Unmeasurable THEN 0 ELSE Max2(0, m + gm + cm - Ceiling)
        /\ overY = IF y = Unmeasurable THEN 0 ELSE Max2(0, y + gy + cy - Ceiling)
  <2>1. (IF m = Unmeasurable THEN 0 ELSE Max2(0, m + gm + cm - Ceiling)) \in Nat
    BY <1>3 DEF Max2
  <2>2. (IF y = Unmeasurable THEN 0 ELSE Max2(0, y + gy + cy - Ceiling)) \in Nat
    BY <1>3 DEF Max2
  <2>3. QED
    BY <2>1, <2>2
<1>5. PICK over \in Nat : over = Max2(overM, overY) /\ over >= overM /\ over >= overY
  BY DEF Max2
<1>6. PICK am \in Int, ay \in Int, pm \in Int, py \in Int :
        /\ am = gm - over /\ ay = gy - over /\ pm = m + gm + cm - over /\ py = y + gy + cy - over
  BY <1>3
<1>7. job' = [stage |-> "matched", levels |-> <<m, y>>, gains |-> <<am, ay>>, peaks |-> <<pm, py>>]
  BY <1>1, <1>2, <1>4, <1>5, <1>6 DEF Attenuation
<1>8. PICK levels \in Pair, gains \in Pair, peaks \in Pair :
        /\ levels = <<m, y>> /\ gains = <<am, ay>> /\ peaks = <<pm, py>>
  BY <1>3 DEF Pair
<1>9. job' \in Shares
  BY <1>7, <1>8 DEF Shares
<1>10. Balanced(levels, gains, peaks)
  <2>1. /\ levels[1] = m /\ levels[2] = y /\ gains[1] = am /\ gains[2] = ay
        /\ peaks[1] = pm /\ peaks[2] = py
    BY <1>8
  <2>2. m # Unmeasurable /\ y # Unmeasurable => m + am = y + ay
    BY <1>2, <1>3, <1>6
  <2>3. am <= MaxBoost /\ ay <= MaxBoost
    BY <1>2, <1>3, <1>6
  <2>4. m # Unmeasurable => pm <= Ceiling
    BY <1>3, <1>4, <1>5, <1>6 DEF Max2
  <2>5. y # Unmeasurable => py <= Ceiling
    BY <1>3, <1>4, <1>5, <1>6 DEF Max2
  <2>6. \A c \in 1 .. 2 : c = 1 \/ c = 2
    OBVIOUS
  <2>7. QED
    BY <2>1, <2>2, <2>3, <2>4, <2>5, <2>6 DEF Balanced
<1>11. job'.levels = levels /\ job'.gains = gains /\ job'.peaks = peaks
  BY <1>7, <1>8
<1>12. QED
  BY <1>9, <1>10, <1>11 DEF JobInv, Leveled

LEMMA WriteCaptureStep ==
  ASSUME JobInv, WriteCapture
  PROVE  JobInv'
<1>1. job.stage = "matched" /\ Leveled
  BY DEF WriteCapture, JobInv, InHand, Jobs
<1>2. job' = [job EXCEPT !.stage = "written"]
  BY DEF WriteCapture
<1>3. job' \in Shares /\ job'.stage = "written"
  BY <1>1, <1>2 DEF Leveled, Shares
<1>4. QED
  BY <1>3 DEF JobInv, Leveled

\* The session is taken with whatever was said on either channel.
LEMMA JobStarts ==
  ASSUME TimelineTypes, TakeClosed
  PROVE  JobInv'
<1> DEFINE said == {{}} \cup {{s} : s \in Spans(Len(buf["mic"]) + 1)}
<1>1. PICK mic \in said, sys \in said :
        job' = [stage |-> "closed", len |-> Len(buf["mic"]), heard |-> mic, mic |-> mic,
                sys |-> sys, echo |-> {}, delay |-> 0, ref |-> <<>>, cut |-> <<0, 0>>, silent |-> {}]
  BY DEF TakeClosed
<1>2. PICK len \in Nat : len = Len(buf["mic"])
  BY SourceTypes DEF Source
<1>3. ASSUME NEW spans \in said
      PROVE  spans \in SUBSET Pair /\ Inside(spans, len)
  <2>1. CASE spans = {}
    BY <2>1 DEF Inside
  <2>2. ASSUME NEW s \in Spans(len + 1), spans = {s} PROVE spans \in SUBSET Pair /\ Inside(spans, len)
    <3>1. s \in (0 .. len + 1) \X (0 .. len + 1) /\ s[1] < s[2]
      BY DEF Spans
    <3>2. s \in Pair /\ 0 <= s[1] /\ s[2] <= len + 1
      BY <1>2, <3>1 DEF Pair
    <3>3. QED
      BY <2>2, <3>1, <3>2 DEF Inside
  <2>3. QED
    BY <1>2, <2>1, <2>2
<1>4. PICK cut \in Pair, none \in SUBSET Pair : cut = <<0, 0>> /\ none = {}
  <2>1. <<0, 0>> \in Pair
    BY DEF Pair
  <2>2. QED
    BY <2>1
<1>5. PICK zero \in Int : zero = 0
  OBVIOUS
<1>6. PICK blank \in Refs : blank = <<>>
  BY DEF Refs
<1>7. /\ mic \in SUBSET Pair /\ Inside(mic, len) /\ sys \in SUBSET Pair /\ Inside(sys, len)
      /\ none \in SUBSET Pair /\ none \in SUBSET Int
  BY <1>3, <1>4
<1> HIDE DEF said
<1>8. job' = [stage |-> "closed", len |-> len, heard |-> mic, mic |-> mic,
              sys |-> sys, echo |-> none, delay |-> zero, ref |-> blank, cut |-> cut, silent |-> none]
  BY <1>6, <1>1, <1>2, <1>4, <1>5
<1>9. job' \in Jobs
  BY <1>7, <1>8 DEF Jobs
<1>10. /\ job'.stage = "closed" /\ job'.ref = <<>> /\ job'.mic = mic /\ job'.sys = sys
      /\ job'.len = len
  BY <1>6, <1>8
<1>11. Inside(mic \cup sys, len)
  BY <1>7 DEF Inside
<1>12. QED
  BY <1>9, <1>10, <1>11 DEF JobInv, InHand

LEMMA JobStep ==
  ASSUME TimelineInv, JobInv, [RecordingNext]_recordingVars
  PROVE  JobInv'
<1>1. CASE TakeClosed
  BY <1>1, JobStarts DEF TimelineInv
<1>2. CASE Process
  <2>1. CASE StageRaises
    <3>1. job'.stage = "lost"
      BY <2>1 DEF StageRaises
    <3>2. QED
      BY <3>1 DEF JobInv
  <2>2. QED
    BY <1>2, <2>1, CancelStep, EchoGuardStep, GateStep, TrimStep, MatchLoudnessStep, WriteCaptureStep
       DEF Process, Screens, Produces
<1>3. CASE UNCHANGED job
  BY <1>3 DEF JobInv, InHand, Leveled
<1>4. TakeClosed \/ Process \/ UNCHANGED job
  <2>1. CASE UNCHANGED pipelineVars
    BY <2>1 DEF pipelineVars
  <2>2. CASE PipelineNext
    BY <2>2 DEF PipelineNext, Record
  <2>3. QED
    BY <2>1, <2>2, Zenon DEF RecordingNext, recordingVars, In
<1>5. QED
  BY <1>1, <1>2, <1>3, <1>4

LEMMA SessionsProcessed == Spec => []JobInv
<1>1. RecordingInit => JobInv
  BY DEF RecordingInit, PipelineInit, JobInv
<1>2. TimelineInv /\ JobInv /\ [RecordingNext]_recordingVars => JobInv'
  BY JobStep
<1>3. QED
  BY <1>1, <1>2, StreamsOnTime, PTL DEF Spec

(* The trim cuts both channels at one place: all speech there is sound for   *)
(* is inside the cut, the user's own is not silenced, and the echo that is   *)
(* left is, where it lies after the cut (session_trim.py, echo_guard.py).    *)
THEOREM SpeechIsKept == Spec => []CaptureKeepsSpeech
<1>1. JobInv => CaptureKeepsSpeech
  <2> SUFFICES ASSUME JobInv, job.stage = "trimmed" PROVE CaptureKeepsSpeech
    BY DEF CaptureKeepsSpeech
  <2>1. SpeechKept(job.len, job.mic, job.sys, job.echo, job.cut, job.silent)
    BY DEF JobInv, InHand, Leveled, Shares
  <2>2. QED
    BY <2>1 DEF SpeechKept, CaptureKeepsSpeech, Speech
<1>2. QED
  BY <1>1, SessionsProcessed, PTL

(* The canceller subtracts what was played a travel time before, and the     *)
(* loudness match brings two channels to one level without a peak past the   *)
(* ceiling or a gain past the boost (aec.py, loudness.py).                   *)
THEOREM ChannelsStayTogether == Spec => []ChannelsAgree
<1>1. JobInv => ChannelsAgree
  <2>1. ASSUME JobInv, job.stage = "cancelled", job.ref # <<>>
        PROVE  Subtracted(job.ref, job.len, job.delay)
    BY <2>1 DEF JobInv, InHand, Leveled, Shares
  <2>2. ASSUME JobInv, job.stage = "matched" PROVE Balanced(job.levels, job.gains, job.peaks)
    BY <2>2 DEF JobInv, InHand, Jobs, Leveled
  <2>3. QED
    BY <2>1, <2>2 DEF Subtracted, Balanced, ChannelsAgree
<1>2. QED
  BY <1>1, SessionsProcessed, PTL

-----------------------------------------------------------------------------
(* The suggestions: what has been dismissed is in the file, or in what the   *)
(* window is about to write, and the agent's own write keeps it.             *)

RefusedIsKept ==
  /\ torn \in BOOLEAN
  /\ ~torn /\ windowHas = NotOpen => refused \subseteq seen.dismissed
  /\ ~torn /\ windowHas # NotOpen => refused \subseteq windowHas.dismissed
  /\ ~torn /\ agentHas # NotOpen => agentHas.dismissed = seen.dismissed

LEMMA DismissedOf ==
  ASSUME NEW doc, NEW k
  PROVE  /\ Without(k, doc).dismissed = doc.dismissed \cup {k} /\ Without(k, doc) # NotOpen
         /\ Again(k, doc).dismissed = doc.dismissed \ {k}
<1>1. Without(k, doc).dismissed = doc.dismissed \cup {k} /\ NotOpen.dismissed = {}
  BY DEF Without, NotOpen
<1>2. Without(k, doc) # NotOpen
  BY <1>1
<1>3. QED
  BY <1>1, <1>2 DEF Again

LEMMA SuggestionsStart == AppsInit => RefusedIsKept
BY DEF AppsInit, RefusedIsKept

\* The two steps of a process on the file, the reading and the writing.
LEMMA ReadKeeps ==
  ASSUME RefusedIsKept, AgentReads \/ \E k \in Processes : Dismisses(k)
  PROVE  RefusedIsKept'
<1>1. CASE AgentReads
  <2>1. PICK k \in Recordable :
          IF k \in OnList(watched) THEN UNCHANGED <<agentHas, failures, torn>>
          ELSE \E doc \in {seen, EmptyDoc} :
                 /\ Reads(doc)
                 /\ agentHas' = IF k \in doc.dismissed THEN NotOpen ELSE Newest(k, doc, watched)
    BY <1>1 DEF AgentReads
  <2>2. UNCHANGED <<seen, windowHas, refused>> /\ agentHas = NotOpen
    BY <1>1 DEF AgentReads
  <2>3. CASE k \in OnList(watched)
    BY <2>1, <2>2, <2>3 DEF RefusedIsKept
  <2>4. CASE k \notin OnList(watched)
    <3>1. PICK doc \in {seen, EmptyDoc} :
            /\ Reads(doc)
            /\ agentHas' = IF k \in doc.dismissed THEN NotOpen ELSE Newest(k, doc, watched)
      BY <2>1, <2>4
    <3>2. CASE doc = seen /\ torn' = torn
      <4>1. Newest(k, seen, watched).dismissed = seen.dismissed
        BY DEF Newest, StillDismissed
      <4>2. agentHas' # NotOpen => agentHas' = Newest(k, seen, watched)
        BY <3>1, <3>2
      <4>3. QED
        BY <2>2, <3>2, <4>1, <4>2 DEF RefusedIsKept
    <3>3. CASE torn' = TRUE
      BY <3>3 DEF RefusedIsKept
    <3>4. QED
      BY <3>1, <3>2, <3>3 DEF Reads
  <2>5. QED
    BY <2>3, <2>4
<1>2. ASSUME NEW k \in Processes, Dismisses(k) PROVE RefusedIsKept'
  <2>1. PICK doc \in {seen, EmptyDoc} : Reads(doc) /\ windowHas' = Without(k, doc)
    BY <1>2 DEF Dismisses
  <2>2. UNCHANGED <<seen, agentHas>> /\ refused' = refused \cup {k} /\ windowHas = NotOpen
    BY <1>2 DEF Dismisses
  <2>3. CASE doc = seen /\ torn' = torn
    <3>1. windowHas'.dismissed = seen.dismissed \cup {k} /\ windowHas' # NotOpen
      BY <2>1, <2>3, DismissedOf
    <3>2. QED
      BY <2>2, <2>3, <3>1 DEF RefusedIsKept
  <2>4. CASE torn' = TRUE
    BY <2>4 DEF RefusedIsKept
  <2>5. QED
    BY <2>1, <2>3, <2>4 DEF Reads
<1>3. QED
  BY <1>1, <1>2

LEMMA WriteKeeps ==
  ASSUME RefusedIsKept, AgentWrites \/ WindowWrites
  PROVE  RefusedIsKept'
<1>1. CASE AgentWrites
  <2>1. CASE seen' = agentHas /\ torn' = (torn \/ windowHas # NotOpen)
    BY <1>1, <2>1 DEF AgentWrites, RefusedIsKept
  <2>2. CASE torn' = TRUE
    BY <2>2 DEF RefusedIsKept
  <2>3. QED
    BY <1>1, <2>1, <2>2 DEF AgentWrites, Saves
<1>2. CASE WindowWrites
  <2>1. CASE seen' = windowHas /\ torn' = (torn \/ agentHas # NotOpen)
    BY <1>2, <2>1 DEF WindowWrites, RefusedIsKept
  <2>2. CASE torn' = TRUE
    BY <2>2 DEF RefusedIsKept
  <2>3. QED
    BY <1>2, <2>1, <2>2 DEF WindowWrites, Saves
<1>3. QED
  BY <1>1, <1>2

\* An app taken off the refused ones by adding it leaves the others in the file.
LEMMA EditKeeps ==
  ASSUME RefusedIsKept,
         \/ Resets \/ WindowStartsAgain
         \/ \E k \in AppKeys : Toggles(k) \/ Removes(k) \/ Adds(k)
  PROVE  RefusedIsKept'
<1>1. CASE Resets
  BY <1>1 DEF Resets, RefusedIsKept
<1>2. CASE WindowStartsAgain
  BY <1>2 DEF WindowStartsAgain, RefusedIsKept
<1>3. ASSUME NEW k \in AppKeys, Toggles(k) \/ Removes(k) PROVE RefusedIsKept'
  BY <1>3 DEF Toggles, Removes, RefusedIsKept
<1>4. ASSUME NEW k \in AppKeys, Adds(k) PROVE RefusedIsKept'
  <2>1. /\ windowHas' = IF k \in seen.dismissed THEN Again(k, seen) ELSE NotOpen
        /\ refused' = refused \ {k} /\ UNCHANGED <<seen, agentHas, torn>> /\ windowHas = NotOpen
    BY <1>4 DEF Adds
  <2>2. Again(k, seen).dismissed = seen.dismissed \ {k}
    BY DismissedOf
  <2>3. CASE windowHas' = NotOpen
    BY <2>1, <2>3, <2>2 DEF RefusedIsKept
  <2>4. CASE windowHas' = Again(k, seen)
    BY <2>1, <2>2, <2>4 DEF RefusedIsKept
  <2>5. QED
    BY <2>1, <2>3, <2>4
<1>5. QED
  BY <1>1, <1>2, <1>3, <1>4

LEMMA SuggestionsStep ==
  ASSUME RefusedIsKept, AppsNext \/ UNCHANGED appsVars
  PROVE  RefusedIsKept'
<1>1. CASE UNCHANGED appsVars
  BY <1>1 DEF appsVars, RefusedIsKept
<1>2. CASE AgentReloads
  BY <1>2 DEF AgentReloads, RefusedIsKept
<1>3. CASE AgentStartsAgain
  BY <1>3 DEF AgentStartsAgain, RefusedIsKept
<1>4. CASE Suggests
  BY <1>4, ReadKeeps, WriteKeeps, EditKeeps DEF Suggests
<1>5. QED
  BY <1>1, <1>2, <1>3, <1>4 DEF AppsNext

(* "Dismiss is permanent" (seen_apps.py:37): for any number of edits, clicks *)
(* and failures an app that was dismissed is not suggested until it is added,*)
(* unless the file could not be read or written or both processes had it.    *)
THEOREM DismissedForGood == Spec => []DismissalSticks
<1>1. RecordingInit => RefusedIsKept
  BY SuggestionsStart DEF RecordingInit
<1>2. RefusedIsKept /\ [RecordingNext]_recordingVars => RefusedIsKept'
  <2> SUFFICES ASSUME RefusedIsKept, [RecordingNext]_recordingVars PROVE RefusedIsKept'
    OBVIOUS
  <2>1. AppsNext \/ UNCHANGED appsVars
    <3>1. CASE RecordingNext
      BY <3>1, Zenon DEF RecordingNext, In
    <3>2. CASE UNCHANGED recordingVars
      BY <3>2 DEF recordingVars
    <3>3. QED
      BY <3>1, <3>2
  <2>2. QED
    BY <2>1, SuggestionsStep
<1>3. RefusedIsKept => DismissalSticks
  BY DEF RefusedIsKept, DismissalSticks, Suggested, Shown
<1>4. QED
  BY <1>1, <1>2, <1>3, PTL DEF Spec

-----------------------------------------------------------------------------
(* The list of apps, the agent's and the window's                            *)

Lists == [order : Seq(AppKeys), off : SUBSET AppKeys]
ListsInv == watched \in Lists /\ pane \in Lists /\ override \in Lists \cup {NoOverride}

LEMMA MinIsLeast ==
  ASSUME NEW S \in SUBSET Nat, S # {}
  PROVE  Min(S) \in S
BY LeastOf DEF Min

LEMMA RemoveFirstType ==
  ASSUME NEW s \in Seq(AppKeys), NEW k
  PROVE  RemoveFirst(s, k) \in Seq(AppKeys)
<1>1. CASE \E i \in 1 .. Len(s) : s[i] = k
  <2> DEFINE places == {i \in 1 .. Len(s) : s[i] = k}
  <2>1. places \in SUBSET Nat /\ places # {}
    BY <1>1
  <2>2. Min(places) \in 1 .. Len(s)
    BY <2>1, MinIsLeast
  <2>3. RemoveFirst(s, k) = RemoveAt(s, Min(places))
    BY <1>1, <2>1 DEF RemoveFirst, SelectInSeq
  <2>4. ASSUME NEW i \in 1 .. Len(s) PROVE RemoveAt(s, i) \in Seq(AppKeys)
    <3>1. SubSeq(s, 1, i - 1) \in Seq(AppKeys) /\ SubSeq(s, i + 1, Len(s)) \in Seq(AppKeys)
      OBVIOUS
    <3>2. QED
      BY <3>1 DEF RemoveAt
  <2>5. QED
    BY <2>2, <2>3, <2>4
<1>2. CASE ~\E i \in 1 .. Len(s) : s[i] = k
  BY <1>2 DEF RemoveFirst
<1>3. QED
  BY <1>1, <1>2

LEMMA ListTypes ==
  /\ Shipped \in Lists
  /\ \A list \in Lists, k \in AppKeys :
       Removed(list, k) \in Lists /\ Added(list, k) \in Lists /\ Toggled(list, k) \in Lists
<1>1. Shipped \in Lists
  BY DEF Shipped, Lists, AppKeys, Sites, DesktopApps
<1>2. ASSUME NEW list \in Lists, NEW k \in AppKeys
      PROVE  Removed(list, k) \in Lists /\ Added(list, k) \in Lists /\ Toggled(list, k) \in Lists
  <2>1. list.order \in Seq(AppKeys) /\ list.off \subseteq AppKeys
    BY DEF Lists
  <2>2. RemoveFirst(list.order, k) \in Seq(AppKeys)
    BY <2>1, RemoveFirstType
  <2>3. Removed(list, k) \in Lists /\ Removed(list, k).order \in Seq(AppKeys)
    BY <2>1, <2>2 DEF Removed, Lists
  <2>4. Added(list, k) \in Lists
    BY <2>1, <2>3 DEF Added, Lists
  <2>5. Toggled(list, k) \in Lists
    BY <2>1 DEF Toggled, Lists
  <2>6. QED
    BY <2>3, <2>4, <2>5
<1>3. QED
  BY <1>1, <1>2

LEMMA EditTypes ==
  ASSUME NEW list \in Lists
  PROVE  Edits(list) \subseteq Lists
<1>1. Listed(list) \subseteq AppKeys
  BY DEF Lists, Listed, ToSet
<1>2. QED
  BY <1>1, ListTypes DEF Edits

LEMMA ListsStart == MatchInit /\ AppsInit => ListsInv
BY ListTypes DEF MatchInit, AppsInit, ListsInv

LEMMA MatchStep ==
  ASSUME ListsInv, MatchNext, UNCHANGED appsVars
  PROVE  ListsInv'
<1>1. watched' \in Lists
  BY EditTypes DEF ListsInv, MatchNext, ListEdited, CaptureChanges, ScreenChanges, CooldownChanges
<1>2. QED
  BY <1>1 DEF ListsInv, appsVars

LEMMA SuggestsStep ==
  ASSUME ListsInv, Suggests
  PROVE  pane' \in Lists /\ override' \in Lists \cup {NoOverride}
<1>1. pane \in Lists /\ override \in Lists \cup {NoOverride} /\ Stored \in Lists
  BY ListTypes DEF ListsInv, Stored
<1>2. CASE AgentReads \/ AgentWrites \/ WindowWrites \/ (\E k \in Processes : Dismisses(k))
  BY <1>1, <1>2 DEF AgentReads, AgentWrites, WindowWrites, Dismisses
<1>3. CASE Resets
  BY <1>1, <1>3, ListTypes DEF Resets, Persists
<1>4. CASE WindowStartsAgain
  BY <1>1, <1>4 DEF WindowStartsAgain
<1>5. ASSUME NEW k \in AppKeys, Toggles(k) \/ Removes(k) \/ Adds(k)
      PROVE  pane' \in Lists /\ override' \in Lists \cup {NoOverride}
  BY <1>1, <1>5, ListTypes DEF Toggles, Removes, Adds, Persists
<1>6. QED
  BY <1>2, <1>3, <1>4, <1>5 DEF Suggests

LEMMA AppsStep ==
  ASSUME ListsInv, AppsNext
  PROVE  ListsInv'
<1>1. Stored \in Lists
  BY ListTypes DEF ListsInv, Stored
<1>2. CASE Suggests /\ UNCHANGED watched
  BY <1>2, SuggestsStep DEF ListsInv
<1>3. CASE AgentReloads
  BY <1>1, <1>3 DEF AgentReloads, ListsInv
<1>4. CASE AgentStartsAgain
  BY <1>1, <1>4 DEF AgentStartsAgain, ListsInv
<1>5. QED
  BY <1>2, <1>3, <1>4 DEF AppsNext

-----------------------------------------------------------------------------
(* The match                                                                 *)

LEMMA FirstIs ==
  ASSUME NEW list \in Lists, NEW apps
  PROVE  /\ FirstOf(list, apps) # "none" => FirstOf(list, apps) \in apps
         /\ FirstOf(list, apps) = "none" => apps \cap Listed(list) = {}
<1> DEFINE places == {i \in DOMAIN list.order : list.order[i] \in apps}
<1>1. list.order \in Seq(AppKeys) /\ DOMAIN list.order = 1 .. Len(list.order) /\ Len(list.order) \in Nat
  BY DEF Lists
<1>2. "none" \notin AppKeys
  BY DEF AppKeys, Sites, DesktopApps
<1>3. CASE places = {}
  BY <1>3 DEF FirstOf, Listed, ToSet
<1>4. CASE places # {}
  <2>1. places \in SUBSET Nat
    BY <1>1
  <2>2. Min(places) \in places
    BY <1>4, <2>1, MinIsLeast
  <2>3. PICK i \in 1 .. Len(list.order) : i = Min(places) /\ list.order[i] \in apps
    BY <1>1, <2>2
  <2>4. FirstOf(list, apps) = list.order[i]
    BY <1>4, <2>3 DEF FirstOf
  <2>5. list.order[i] \in AppKeys
    BY <1>1
  <2>6. QED
    BY <1>2, <2>3, <2>4, <2>5
<1>5. QED
  BY <1>3, <1>4

\* A candidate is on the list, on, not in cooldown, and holds the microphone; when
\* there is none, every such app is a site that no window shows.
LEMMA CandidatesHold ==
  ASSUME NEW list, NEW s, NEW without
  PROVE  /\ \A k \in Candidates(list, s, without) :
              /\ k \in Enabled(list) \ without
              /\ \/ k \in DesktopApps /\ AppHolders(k, s) # {}
                 \/ k \in Sites /\ BrowserHolds(s)
         /\ Candidates(list, s, without) = {} =>
              \A k \in Enabled(list) \ without :
                /\ k \in DesktopApps => AppHolders(k, s) = {}
                /\ k \in Sites /\ BrowserHolds(s) => k \notin s.tabs \cup {s.front}
<1> DEFINE active == Enabled(list) \ without
           apps == {k \in active \cap DesktopApps : AppHolders(k, s) # {}}
           sites == {k \in active \cap Sites : BrowserHolds(s)}
<1>1. Candidates(list, s, without) = IF apps # {} THEN apps
                                     ELSE IF s.front \in sites THEN {s.front} ELSE sites \cap s.tabs
  BY DEF Candidates
<1>2. QED
  BY <1>1

LEMMA MatchHeld == ListsInv => MatchIsHeld
<1> SUFFICES ASSUME ListsInv PROVE MatchIsHeld
  OBVIOUS
<1> DEFINE found == Candidates(watched, now, hidden)
           k == Match(watched, now, hidden)
<1>1. watched \in Lists /\ Enabled(watched) = Listed(watched) \ watched.off
  BY DEF ListsInv, Enabled
<1>2. Sites \cap DesktopApps = {} /\ Listed(watched) \subseteq Sites \cup DesktopApps
  BY <1>1 DEF Sites, DesktopApps, Lists, Listed, ToSet, AppKeys
<1>3. CASE k # "none"
  <2>1. k \in found
    BY <1>1, <1>3, FirstIs DEF Match
  <2>2. k \in Listed(watched) /\ k \notin hidden \cup watched.off
    BY <1>1, <2>1, CandidatesHold
  <2>3. CASE k \in DesktopApps /\ AppHolders(k, now) # {}
    <3>1. TargetPids(k, now) = AppHolders(k, now) /\ AppHolders(k, now) \subseteq Holders(now)
      BY <2>3 DEF TargetPids, AppHolders
    <3>2. QED
      BY <1>3, <2>2, <2>3, <3>1 DEF MatchIsHeld, StillHolding
  <2>4. CASE k \in Sites /\ BrowserHolds(now)
    <3>1. TargetPids(k, now) = {"chrome"} /\ {"chrome"} \subseteq Holders(now)
      BY <1>2, <2>4 DEF TargetPids, BrowserHolds
    <3>2. QED
      BY <1>2, <1>3, <2>2, <2>4, <3>1 DEF MatchIsHeld, StillHolding
  <2>5. QED
    BY <2>1, <2>3, <2>4, CandidatesHold
<1>4. CASE k = "none"
  <2>1. found \cap Listed(watched) = {}
    BY <1>1, <1>4, FirstIs DEF Match
  <2>2. found = {}
    BY <1>1, <2>1, CandidatesHold
  <2>3. ASSUME NEW x \in Enabled(watched) \ hidden
        PROVE  ~StillHolding(x, watched, now) \/ x \in Sites \ (now.tabs \cup {now.front})
    <3>1. CASE x \in DesktopApps
      BY <2>2, <3>1, CandidatesHold DEF StillHolding
    <3>2. CASE x \in Sites
      BY <1>2, <2>2, <3>2, CandidatesHold DEF StillHolding
    <3>3. QED
      BY <1>1, <1>2, <3>1, <3>2
  <2>4. QED
    BY <1>4, <2>3 DEF MatchIsHeld
<1>5. QED
  BY <1>3, <1>4

LEMMA MatchSame == ListsInv => SameMeeting
<1> SUFFICES ASSUME ListsInv PROVE SameMeeting
  OBVIOUS
<1> DEFINE k == Match(watched, now, hidden)
<1> SUFFICES ASSUME k \in DesktopApps, onMac => now.front = k /\ now.walked
             PROVE  TargetPids(k, now) \subseteq HotkeyScope(watched, now)
  BY DEF SameMeeting
<1>1. k \in Candidates(watched, now, hidden)
  BY FirstIs DEF Match, ListsInv, DesktopApps
<1>2. k \in Enabled(watched) \cap DesktopApps /\ k \notin Sites
  BY <1>1, CandidatesHold DEF DesktopApps, Sites
<1>3. AppHolders(k, now) # {}
  BY <1>1, <1>2, CandidatesHold
<1>4. now.input # {}
  BY <1>3 DEF AppHolders, Holders
<1>5. TargetPids(k, now) = AppHolders(k, now)
  BY <1>2 DEF TargetPids
<1>6. CASE ~onMac
  BY <1>2, <1>4, <1>6 DEF HotkeyScope
<1>7. CASE onMac
  <2>1. "zoom.helper" \notin Holders(now)
    BY <1>7 DEF Holders, HolderOf
  <2>2. AppHolders(k, now) \subseteq {k}
    BY <2>1 DEF AppHolders, Belonging, Programs
  <2>3. k \in ResolvedPids(k, now)
    BY <1>2, <1>3, <2>2 DEF ResolvedPids, AppHolders, Programs
  <2>4. ResolvedPids(k, now) \subseteq HotkeyScope(watched, now)
    BY <1>2, <1>4, <1>7 DEF HotkeyScope
  <2>5. QED
    BY <1>5, <2>2, <2>3, <2>4
<1>8. QED
  BY <1>6, <1>7

(* Whatever is on the list and in whatever order, whoever holds the          *)
(* microphone and whatever is in front: a match holds the microphone, is     *)
(* what is recorded, and an app in cooldown or switched off masks no other   *)
(* (detectors.py, controller.py:1624).                                       *)
THEOREM MatchIsFollowed == Spec => []MeetingIsFollowed
<1>1. RecordingInit => ListsInv
  BY ListsStart DEF RecordingInit
<1>2. ListsInv /\ [RecordingNext]_recordingVars => ListsInv'
  <2> SUFFICES ASSUME ListsInv, [RecordingNext]_recordingVars PROVE ListsInv'
    OBVIOUS
  <2>1. \/ MatchNext /\ UNCHANGED appsVars
        \/ AppsNext
        \/ UNCHANGED <<matchVars, appsVars>>
    <3>1. CASE RecordingNext
      BY <3>1, Zenon DEF RecordingNext, In
    <3>2. CASE UNCHANGED recordingVars
      BY <3>2 DEF recordingVars
    <3>3. QED
      BY <3>1, <3>2
  <2>2. CASE UNCHANGED <<matchVars, appsVars>>
    BY <2>2 DEF matchVars, appsVars, ListsInv
  <2>3. QED
    BY <2>1, <2>2, MatchStep, AppsStep
<1>3. ListsInv => MeetingIsFollowed
  BY MatchHeld, MatchSame DEF MeetingIsFollowed
<1>4. QED
  BY <1>1, <1>2, <1>3, PTL DEF Spec
=============================================================================
