---------------------------- MODULE SessionClose ----------------------------
(* What becomes of a closed session: the echo canceller subtracts the         *)
(* speaker's sound from the microphone's, the echo guard takes what is left   *)
(* of it out of the microphone's speech, the gate asks whether the user spoke *)
(* enough, the trim cuts both channels at the same places and silences the    *)
(* echo, the loudness match brings them to one level, and the sink writes a   *)
(* capture, or a stub that says why there is none (app._process_session,      *)
(* aec.py, echo_guard.py, session_trim.py, loudness.py).                      *)
(*                                                                            *)
(* A session has instants 0 .. len-1; a stretch of speech is a pair           *)
(* <<first, past the last>>.  Whether a window of sound is echo is a verdict   *)
(* of signal processing: any set of windows may be.                           *)
EXTENDS Integers, FiniteSets

CONSTANTS
  Long,       \* subdivide_long_segments_secs
  Win, Hop,   \* subdivide_window_secs, subdivide_hop_secs
  MinKeep,    \* shortest remainder that stays speech (0.1 s)
  MinTurn,    \* min_user_total_secs
  Pad,        \* final_audio_speech_pad_secs
  Search,     \* lag_search_ms: the delays looked for, either way
  MaxLag,     \* lag_max_ms: the longest that is believed
  Levels,     \* loudness of a channel in dB above silence, even numbers
  Crests,     \* how far a channel's peak is above its loudness
  Floor, MaxBoost, Ceiling  \* loudness_target, _max_boost_db, _peak_ceiling

ASSUME SessionCloseAssumption ==
  /\ {Long, Win, Hop, MinKeep, MinTurn} \subseteq Nat \ {0}
  /\ {Pad, Search, MaxLag, Floor, MaxBoost, Ceiling} \subseteq Nat
  /\ Levels \cup Crests \subseteq Nat
  /\ \A l \in Levels : l % 2 = 0
  /\ Hop <= Win

VARIABLE job  \* the session in hand, or [stage |-> "none"]

Stages == {"none", "closed", "cancelled", "guarded", "kept", "trimmed", "matched",
           "written", "skipped", "lost"}

Min2(a, b) == IF a < b THEN a ELSE b
Max2(a, b) == IF a > b THEN a ELSE b
Span(a, b) == a .. b - 1
Instants(spans) == UNION {Span(s[1], s[2]) : s \in spans}
Length(spans) == Cardinality(Instants(spans))
Spans(len) == {s \in (0 .. len) \X (0 .. len) : s[1] < s[2]}

\* The maximal stretches of a set of instants, as spans.
Stretches(at) ==
  {s \in {<<a, b + 1>> : a, b \in at} :
     /\ s[1] < s[2] /\ Span(s[1], s[2]) \subseteq at
     /\ s[1] - 1 \notin at /\ s[2] \notin at}

-----------------------------------------------------------------------------
(* The echo canceller. *)

Nothing == -1

\* Where in the system's sound the microphone's matches best: an echo heard d
\* instants after it was played matches d instants earlier.
BestMatch(d) == -d

\* The offset is taken as it is.
Unflipped(d) == IF BestMatch(d) \in -MaxLag .. MaxLag THEN BestMatch(d) ELSE 0

\* The sign is turned so that a lag is a travel time; one past the cap is not
\* believed.
Lag(d) == IF -BestMatch(d) \in -MaxLag .. MaxLag THEN -BestMatch(d) ELSE 0

\* The system's sound shifted by the lag, padded or cut to the channel's length.
Reference(len, lag) ==
  [i \in 0 .. len - 1 |-> IF i - lag \in 0 .. len - 1 THEN i - lag ELSE Nothing]

\* Three passes at most, each over the whole channel with the same reference;
\* the first that cannot run (off, a silent channel, no library, an error in
\* the filter) leaves the sound as it is and ends them.
Cancel ==
  /\ job.stage = "closed"
  /\ \/ job' = [job EXCEPT !.stage = "cancelled"]
     \/ \E d \in -Search .. Search :
          job' = [job EXCEPT !.stage = "cancelled", !.delay = d,
                             !.ref = Reference(job.len, Lag(d))]

-----------------------------------------------------------------------------
(* The echo guard. *)

FullWindows(s) ==
  {<<t, t + Win>> : t \in {u \in Span(s[1], s[2]) : (u - s[1]) % Hop = 0 /\ u + Win <= s[2]}}
LastEnd(s) == CHOOSE e \in {w[2] : w \in FullWindows(s)} :
                \A w \in FullWindows(s) : w[2] <= e

\* A window at the end of the segment, when more than half a hop was left over.
TailWindow(s) ==
  {w \in {<<Max2(s[1], s[2] - Win), s[2]>>} : 2 * (s[2] - LastEnd(s)) > Hop}

\* A short segment is judged whole, a long one window by window.
Windows(s) ==
  IF s[2] - s[1] <= Long THEN {s}
  ELSE IF FullWindows(s) = {} THEN {s}
  ELSE FullWindows(s) \cup TailWindow(s)

EchoSpans(s, verdict) == Stretches(Instants(Windows(s) \cap verdict))
Remainder(s, echo) == Stretches(Span(s[1], s[2]) \ Instants(echo))

Classified(s, verdict) ==
  LET echo == EchoSpans(s, verdict)
  IN  [echo |-> echo,
       keep |-> IF echo = {} THEN {s}
                ELSE {r \in Remainder(s, echo) : r[2] - r[1] >= MinKeep}]

\* Whether a window is echo is decided by its level, its match with the system's
\* sound and what is left without that: any set of windows may be.
Verdicts(spans) == SUBSET UNION {Windows(s) : s \in spans}

\* classify_buffers, which the configuration may turn off.
EchoGuard ==
  /\ job.stage = "cancelled"
  /\ \/ job' = [job EXCEPT !.stage = "guarded", !.delay = 0, !.ref = <<>>]
     \/ \E verdict \in Verdicts(job.mic) :
          job' = [job EXCEPT
                    !.stage = "guarded", !.delay = 0, !.ref = <<>>,
                    !.mic = UNION {Classified(s, verdict).keep : s \in job.mic},
                    !.echo = UNION {Classified(s, verdict).echo : s \in job.mic}]

-----------------------------------------------------------------------------
(* The gate and the trim. *)

\* The gate counts the user's own speech, without the echo.
SpokeEnough == Length(job.mic) >= MinTurn

\* evaluate_user_turn_gate: too little speech of the user's own leaves a stub.
Gate ==
  /\ job.stage = "guarded"
  /\ job' = [job EXCEPT !.stage = IF SpokeEnough THEN "kept" ELSE "skipped"]

Speech == job.mic \cup job.sys
First == CHOOSE a \in {s[1] : s \in Speech} : \A s \in Speech : a <= s[1]
LastHeard == CHOOSE b \in {s[2] : s \in Speech} : \A s \in Speech : s[2] <= b

\* The echo is silenced where it was before the cut.
Uncut(start, kept) ==
  UNION {Span(s[1], Min2(kept, s[2])) : s \in job.echo}
Start == Max2(0, First - Pad)
End == Min2(job.len, LastHeard + Pad)
Silenced(start, kept) ==
  UNION {Span(Max2(0, s[1] - start), Min2(kept, s[2] - start)) : s \in job.echo}

\* apply_session_trim.
Trim ==
  /\ job.stage = "kept"
  /\ job' = [job EXCEPT
               !.stage = "trimmed",
               !.cut = IF Speech # {} /\ Start < End THEN <<Start, End>> ELSE <<0, 0>>,
               !.silent = IF Speech # {} /\ Start < End
                          THEN Silenced(Start, End - Start) ELSE {}]

-----------------------------------------------------------------------------
(* The loudness match, and the capture. *)

Unmeasurable == -1

\* Both channels are brought to one target: the middle, lifted to the floor, but
\* no further up than the boost allows the quieter one.
Target(m, y) == Min2(Max2((m + y) \div 2, Floor), Min2(m, y) + MaxBoost)

\* A lone channel goes to the floor; the silent one is not touched.
Gain(level, other) ==
  IF level = Unmeasurable THEN 0
  ELSE IF other = Unmeasurable THEN Min2(Floor - level, MaxBoost)
  ELSE Target(level, other) - level

\* Only the channel that is too loud is turned down.
EachItsOwn(over, own) == own

\* A peak past the ceiling turns both down alike.
Attenuation(over, own) == over

\* match_loudness.  From here on only the levels matter.
MatchLoudness ==
  /\ job.stage = "trimmed"
  /\ \E m, y \in Levels \cup {Unmeasurable}, cm, cy \in Crests :
       LET gm == Gain(m, y)
           gy == Gain(y, m)
           overM == IF m = Unmeasurable THEN 0 ELSE Max2(0, m + gm + cm - Ceiling)
           overY == IF y = Unmeasurable THEN 0 ELSE Max2(0, y + gy + cy - Ceiling)
           over == Max2(overM, overY)
       IN  job' = [stage |-> "matched", levels |-> <<m, y>>,
                   gains |-> <<gm - Attenuation(over, overM), gy - Attenuation(over, overY)>>,
                   peaks |-> <<m + gm + cm - Attenuation(over, overM),
                               y + gy + cy - Attenuation(over, overY)>>]

\* sink.write; the upload that follows is UploadRetry's.
WriteCapture ==
  /\ job.stage = "matched"
  /\ job' = [job EXCEPT !.stage = "written"]

\* Any stage but the stub's own write may raise: the buffers are gone with it.
StageRaises ==
  /\ job.stage \in {"closed", "cancelled", "guarded", "kept", "trimmed", "matched"}
  /\ job' = [stage |-> "lost"]

\* Up to the gate, what is not a conversation of the user's is found out; after
\* it the sound is made into the capture.
Screens == Cancel \/ EchoGuard \/ Gate
Produces == Trim \/ MatchLoudness \/ WriteCapture

Process == Screens \/ Produces \/ StageRaises

-----------------------------------------------------------------------------
(* Properties. *)

\* The echo that was found is silent in the capture, and the speech that was
\* not is there: every instant of the user's own speech and of the others' lies
\* inside the cut, on both channels at the same place, and is not silenced
\* (session_trim.py after echo_guard.py; the cut moves every index).
CaptureKeepsSpeech ==
  job.stage = "trimmed" =>
    LET at(i) == i - job.cut[1]
    IN  /\ \A i \in Instants(job.echo) :
             i \in Span(job.cut[1], job.cut[2]) => at(i) \in job.silent
        /\ \A i \in Instants(Speech) :
             i < job.len => i \in Span(job.cut[1], job.cut[2])
        /\ \A i \in Instants(job.mic) \ Instants(job.echo) : at(i) \notin job.silent

\* What the guard decides is complete and consistent: no instant is both speech
\* and echo, every one heard is one or the other but for remainders too short
\* to keep, and a capture is written only of a session whose own speech,
\* without the echo, is enough.
EchoIsNotSpeech ==
  job.stage \in {"guarded", "kept", "trimmed"} =>
    /\ Instants(job.mic) \cap Instants(job.echo) = {}
    /\ \A s \in Stretches(Instants(job.heard) \ Instants(job.mic \cup job.echo)) :
         s[2] - s[1] < MinKeep
    /\ job.stage # "guarded" => Length(job.mic) >= MinTurn

\* The two channels stay one recording: what the canceller subtracts at a place
\* of the microphone's channel is the sound that was played a travel time before
\* it, and two channels that both have sound leave the match at one level, with
\* neither peak past the ceiling and none raised by more than the boost
\* (aec.py and loudness.py; the delay's sign changes between two functions).
ChannelsAgree ==
  /\ job.stage = "cancelled" /\ job.ref # <<>> =>
       \A i \in 0 .. job.len - 1 :
         LET played == i - (IF job.delay \in -MaxLag .. MaxLag THEN job.delay ELSE 0)
         IN  job.ref[i] = IF played \in 0 .. job.len - 1 THEN played ELSE Nothing
  /\ job.stage = "matched" =>
       /\ Unmeasurable \notin {job.levels[1], job.levels[2]} =>
            job.levels[1] + job.gains[1] = job.levels[2] + job.gains[2]
       /\ \A c \in 1 .. 2 :
            /\ job.gains[c] <= MaxBoost
            /\ job.levels[c] # Unmeasurable => job.peaks[c] <= Ceiling

=============================================================================
