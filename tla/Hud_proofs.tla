----------------------------- MODULE Hud_proofs -----------------------------
(***************************************************************************)
(* Proofs about Hud, for any number of callers, questions, respawns and    *)
(* faults: a HUD that was given up leaves nobody waiting, and the launcher *)
(* with its process and page implements HudConsent's safety.               *)
(***************************************************************************)
EXTENDS Hud, FiniteSetTheorems, TLAPS

\* A command that puts the card of a request on the page, among the commands of a
\* sequence, and the card of a request among the cards of the page.
Shows(m, r) == m.cmd = "show_card" /\ m.arg = r
Sent(s, r) == \E i \in 1 .. Len(s) : Shows(s[i], r)
SentOnce(s, r) == \A i, j \in 1 .. Len(s) : Shows(s[i], r) /\ Shows(s[j], r) => i = j
Up(cs, r) == \E i \in 1 .. Len(cs) : cs[i] = r
UpOnce(cs, r) == \A i, j \in 1 .. Len(cs) : cs[i] = r /\ cs[j] = r => i = j

-----------------------------------------------------------------------------
(* Sequences                                                               *)

LEMMA TailSent ==
  ASSUME NEW s \in Seq(Commands), s # <<>>, NEW r
  PROVE  /\ Tail(s) \in Seq(Commands) /\ Head(s) \in Commands
         /\ Sent(Tail(s), r) => Sent(s, r)
         /\ Shows(Head(s), r) => Sent(s, r)
         /\ SentOnce(s, r) => SentOnce(Tail(s), r) /\ ~(Shows(Head(s), r) /\ Sent(Tail(s), r))
<1>1. /\ Tail(s) \in Seq(Commands) /\ Head(s) \in Commands /\ Head(s) = s[1]
      /\ Len(Tail(s)) = Len(s) - 1 /\ Len(s) \in Nat \ {0}
      /\ \A i \in 1 .. Len(Tail(s)) : Tail(s)[i] = s[i + 1]
  OBVIOUS
<1>2. \A i \in 1 .. Len(Tail(s)) : i + 1 \in 1 .. Len(s) /\ i + 1 # 1
  BY <1>1
<1>3. QED
  BY <1>1, <1>2 DEF Sent, SentOnce

LEMMA AppendSent ==
  ASSUME NEW s \in Seq(Commands), NEW m \in Commands, NEW r
  PROVE  /\ Append(s, m) \in Seq(Commands)
         /\ Sent(Append(s, m), r) => Sent(s, r) \/ Shows(m, r)
         /\ SentOnce(s, r) /\ ~(Shows(m, r) /\ Sent(s, r)) => SentOnce(Append(s, m), r)
<1>1. /\ Append(s, m) \in Seq(Commands) /\ Len(Append(s, m)) = Len(s) + 1 /\ Len(s) \in Nat
      /\ \A i \in 1 .. Len(s) : Append(s, m)[i] = s[i]
      /\ Append(s, m)[Len(s) + 1] = m
  OBVIOUS
<1>2. \A i \in 1 .. Len(s) + 1 : i \in 1 .. Len(s) \/ i = Len(s) + 1
  BY <1>1
<1>3. QED
  BY <1>1, <1>2 DEF Sent, SentOnce

\* Commands that show no card.
Quiet(t) == \A i \in 1 .. Len(t) : t[i].cmd # "show_card"

LEMMA ConcatSent ==
  ASSUME NEW s \in Seq(Commands), NEW t \in Seq(Commands), Quiet(t), NEW r
  PROVE  /\ s \o t \in Seq(Commands)
         /\ Sent(s \o t, r) => Sent(s, r)
         /\ SentOnce(s, r) => SentOnce(s \o t, r)
<1>1. /\ s \o t \in Seq(Commands) /\ Len(s \o t) = Len(s) + Len(t) /\ Len(s) \in Nat /\ Len(t) \in Nat
      /\ \A i \in 1 .. Len(s) : (s \o t)[i] = s[i]
      /\ \A i \in 1 .. Len(t) : (s \o t)[Len(s) + i] = t[i]
  OBVIOUS
<1>2. \A i \in 1 .. Len(s) + Len(t) : i \in 1 .. Len(s) \/ (i - Len(s) \in 1 .. Len(t) /\ i = Len(s) + (i - Len(s)))
  BY <1>1
<1>3. \A i \in 1 .. Len(s \o t) : Shows((s \o t)[i], r) => i \in 1 .. Len(s) /\ Shows(s[i], r)
  BY <1>1, <1>2 DEF Quiet, Shows
<1>4. QED
  BY <1>1, <1>3 DEF Sent, SentOnce

LEMMA AppendUp ==
  ASSUME NEW cs \in Seq(Requests), NEW q \in Requests, NEW r
  PROVE  /\ Append(cs, q) \in Seq(Requests)
         /\ Up(Append(cs, q), r) => Up(cs, r) \/ q = r
         /\ UpOnce(cs, r) /\ ~(q = r /\ Up(cs, r)) => UpOnce(Append(cs, q), r)
<1>1. /\ Append(cs, q) \in Seq(Requests) /\ Len(Append(cs, q)) = Len(cs) + 1 /\ Len(cs) \in Nat
      /\ \A i \in 1 .. Len(cs) : Append(cs, q)[i] = cs[i]
      /\ Append(cs, q)[Len(cs) + 1] = q
  OBVIOUS
<1>2. \A i \in 1 .. Len(cs) + 1 : i \in 1 .. Len(cs) \/ i = Len(cs) + 1
  BY <1>1
<1>3. QED
  BY <1>1, <1>2 DEF Up, UpOnce

LEMMA WithoutUp ==
  ASSUME NEW cs \in Seq(Requests), NEW q, NEW r
  PROVE  /\ Without(cs, q) \in Seq(Requests)
         /\ Up(Without(cs, q), r) => Up(cs, r)
         /\ UpOnce(cs, r) => UpOnce(Without(cs, q), r)
         /\ UpOnce(cs, q) => ~Up(Without(cs, q), q)
<1>1. CASE q \notin ToSet(cs)
  <2>1. Without(cs, q) = cs /\ ~Up(cs, q)
    BY <1>1 DEF Without, ToSet, Up
  <2>2. QED
    BY <2>1
<1>2. CASE q \in ToSet(cs)
  <2> DEFINE k == CHOOSE i \in DOMAIN cs : cs[i] = q
             w == SubSeq(cs, 1, k - 1) \o SubSeq(cs, k + 1, Len(cs))
  <2>1. k \in 1 .. Len(cs) /\ cs[k] = q /\ Len(cs) \in Nat
    BY <1>2 DEF ToSet
  <2>2. Without(cs, q) = w
    BY <1>2 DEF Without, RemoveAt
  <2> HIDE DEF k
  <2>3. /\ w \in Seq(Requests) /\ Len(w) = Len(cs) - 1
        /\ \A i \in 1 .. Len(w) : w[i] = IF i < k THEN cs[i] ELSE cs[i + 1]
    <3> DEFINE a == SubSeq(cs, 1, k - 1)
               b == SubSeq(cs, k + 1, Len(cs))
    <3>1. /\ a \in Seq(Requests) /\ Len(a) = k - 1 /\ \A i \in 1 .. k - 1 : a[i] = cs[i]
      BY <2>1
    <3>2. /\ b \in Seq(Requests) /\ Len(b) = Len(cs) - k
          /\ \A i \in 1 .. Len(cs) - k : b[i] = cs[k + i]
      BY <2>1
    <3> HIDE DEF a, b
    <3>3. /\ a \o b \in Seq(Requests) /\ Len(a \o b) = Len(cs) - 1
          /\ \A i \in 1 .. Len(cs) - 1 : (a \o b)[i] = IF i <= Len(a) THEN a[i] ELSE b[i - Len(a)]
      BY <2>1, <3>1, <3>2
    <3>4. \A i \in 1 .. Len(cs) - 1 : i < k => i \in 1 .. k - 1 /\ i <= Len(a)
      BY <2>1, <3>1
    <3>5. \A i \in 1 .. Len(cs) - 1 :
            ~(i < k) => i - Len(a) \in 1 .. Len(cs) - k /\ ~(i <= Len(a)) /\ k + (i - Len(a)) = i + 1
      BY <2>1, <3>1
    <3>6. QED
      BY <3>1, <3>2, <3>3, <3>4, <3>5 DEF a, b
  <2> HIDE DEF w
  <2>4. \A i \in 1 .. Len(w) : i \in 1 .. Len(cs) /\ i + 1 \in 1 .. Len(cs)
    BY <2>1, <2>3
  <2> DEFINE From(i) == IF i < k THEN i ELSE i + 1
  <2>5. \A i \in 1 .. Len(w) : From(i) \in 1 .. Len(cs) /\ w[i] = cs[From(i)]
    BY <2>1, <2>3, <2>4
  <2>6. \A i, j \in 1 .. Len(w) : From(i) = From(j) => i = j
    BY <2>1, <2>3
  <2> HIDE DEF From
  <2>7. (Up(w, r) => Up(cs, r)) /\ (UpOnce(cs, r) => UpOnce(w, r))
    BY <2>5, <2>6 DEF Up, UpOnce
  <2>8. UpOnce(cs, q) => ~Up(w, q)
    BY <2>1, <2>3, <2>4 DEF Up, UpOnce
  <2>9. QED
    BY <2>2, <2>3, <2>7, <2>8
<1>3. QED
  BY <1>1, <1>2

\* Taking down every open card writes one command for each of them.
Hidings(rs) == [i \in 1 .. Cardinality(rs) |-> Cmd("hide_card", SetToSeq(rs)[i])]

LEMMA HideAll ==
  ASSUME NEW rs \in SUBSET Requests
  PROVE  Hidings(rs) \in Seq(Commands) /\ Quiet(Hidings(rs))
<1>1. IsFiniteSet(rs)
  <2>1. IsFiniteSet(1 .. MaxAsks)
    BY HudAssumption, FS_Interval
  <2>2. IsFiniteSet(Requests)
    BY HudAssumption, <2>1, FS_Product DEF Requests
  <2>3. QED
    BY <2>2, FS_Subset
<1>2. /\ Cardinality(rs) \in Nat
      /\ \E f \in [1 .. Cardinality(rs) -> rs] : IsInjective(f)
  <2>1. Cardinality(rs) \in Nat /\ ExistsBijection(1 .. Cardinality(rs), rs)
    BY <1>1, FS_CardinalityType
  <2>2. PICK f : f \in Bijection(1 .. Cardinality(rs), rs)
    BY <2>1 DEF ExistsBijection
  <2>3. f \in [1 .. Cardinality(rs) -> rs] /\ IsInjective(f)
    BY <2>2 DEF Bijection, Injection, Surjection, IsInjective
  <2>4. QED
    BY <2>1, <2>3
<1>3. SetToSeq(rs) \in [1 .. Cardinality(rs) -> rs]
  BY <1>2 DEF SetToSeq
<1>4. \A i \in 1 .. Cardinality(rs) : SetToSeq(rs)[i] \in Requests
  BY <1>3
<1>5. \A i \in 1 .. Cardinality(rs) :
        Hidings(rs)[i] \in Commands /\ Hidings(rs)[i].cmd = "hide_card"
  BY <1>4 DEF Hidings, Commands, Cmd
<1>6. Hidings(rs) \in Seq(Commands) /\ Len(Hidings(rs)) = Cardinality(rs)
  BY <1>2, <1>5 DEF Hidings
<1>7. QED
  BY <1>5, <1>6 DEF Quiet

\* An answer of the page among the events on their way to the launcher.
Says(e, r, a) == e.cmd = "card_response" /\ e.arg = <<r, a>>
Heard(s, r, a) == \E i \in 1 .. Len(s) : Says(s[i], r, a)

LEMMA TailHeard ==
  ASSUME NEW s \in Seq(Events), s # <<>>, NEW r, NEW a
  PROVE  /\ Tail(s) \in Seq(Events) /\ Head(s) \in Events
         /\ Heard(Tail(s), r, a) => Heard(s, r, a)
         /\ Says(Head(s), r, a) => Heard(s, r, a)
<1>1. /\ Tail(s) \in Seq(Events) /\ Head(s) \in Events /\ Head(s) = s[1]
      /\ Len(Tail(s)) = Len(s) - 1 /\ Len(s) \in Nat \ {0}
      /\ \A i \in 1 .. Len(Tail(s)) : Tail(s)[i] = s[i + 1]
  OBVIOUS
<1>2. \A i \in 1 .. Len(Tail(s)) : i + 1 \in 1 .. Len(s)
  BY <1>1
<1>3. QED
  BY <1>1, <1>2 DEF Heard

LEMMA AppendHeard ==
  ASSUME NEW s \in Seq(Events), NEW e \in Events, NEW r, NEW a
  PROVE  /\ Append(s, e) \in Seq(Events)
         /\ Heard(Append(s, e), r, a) => Heard(s, r, a) \/ Says(e, r, a)
<1>1. /\ Append(s, e) \in Seq(Events) /\ Len(Append(s, e)) = Len(s) + 1 /\ Len(s) \in Nat
      /\ \A i \in 1 .. Len(s) : Append(s, e)[i] = s[i]
      /\ Append(s, e)[Len(s) + 1] = e
  OBVIOUS
<1>2. \A i \in 1 .. Len(s) + 1 : i \in 1 .. Len(s) \/ i = Len(s) + 1
  BY <1>1
<1>3. QED
  BY <1>1, <1>2 DEF Heard

-----------------------------------------------------------------------------
(* The invariant                                                           *)

AskerTypes ==
  /\ pc \in [Callers -> {"idle", "registering", "sending", "waiting", "restoring",
                         "reshowing"}]
  /\ asks \in [Callers -> 0 .. MaxAsks]
  /\ fut \in [Callers -> Answers \union {"open"}]
  /\ snapshot \in [Callers -> 0 .. MaxSessions]
  /\ pressed \in [Callers -> SUBSET {"yes", "no"}]
  /\ pending \subseteq Requests

StoreTypes ==
  /\ lastPill \in 0 .. MaxSessions /\ armed \in 0 .. MaxSessions /\ sessions \in 0 .. MaxSessions
  /\ outbox \in Seq(Commands) /\ pipe \in Seq(Commands)
  /\ events \in Seq(Events) /\ cards \in Seq(Requests)

\* An open future the launcher keeps is the one its thread waits for, and nobody
\* waits for one of a HUD that was given up.
Current ==
  \A r \in pending :
    /\ r = Request(r[1]) /\ fut[r[1]] = "open"
    /\ pc[r[1]] \in {"sending", "waiting"}
    /\ givenUp => pc[r[1]] = "sending"

\* A call in progress has a number, is answered with what its caller may be told,
\* and has no button pressed before its card is sent; a pill to bring back is known.
Calls ==
  \A c \in Callers :
    /\ pc[c] # "idle" => asks[c] # 0
    /\ pc[c] = "registering" => fut[c] = "open"
    /\ Open(c) /\ fut[c] # "open" => fut[c] \in pressed[c] \union {Default[c], "timeout"}
    /\ pressed[c] # {} => pc[c] = "waiting"
    /\ pc[c] \in {"restoring", "reshowing"} => snapshot[c] # 0

\* The card of a request is in one place at most: on its way to the process, to the
\* page, or on it.
OneCopy(r) ==
  /\ SentOnce(outbox, r) /\ SentOnce(pipe, r) /\ UpOnce(cards, r)
  /\ ~(Sent(outbox, r) /\ Sent(pipe, r))
  /\ ~(Sent(outbox, r) /\ Up(cards, r))
  /\ ~(Sent(pipe, r) /\ Up(cards, r))
Posted(r) == Sent(outbox, r) \/ Sent(pipe, r) \/ Up(cards, r)

\* A card is of a question that was asked; while it is out nothing was pressed on it.
Placed(r) ==
  Posted(r) => /\ r[2] <= asks[r[1]]
               /\ r = Request(r[1]) => pc[r[1]] \notin {"registering", "sending"}
                                       /\ pressed[r[1]] = {}

\* What the page says of the open question of a caller is what the user pressed.
Fits(r, a) ==
  Heard(events, r, a) =>
    /\ r[2] <= asks[r[1]]
    /\ r = Request(r[1]) /\ Open(r[1]) => a \in pressed[r[1]] \union {"timeout"}

Papers == \A r \in Requests : OneCopy(r) /\ Placed(r) /\ \A a \in Answers : Fits(r, a)

HudInv == AskerTypes /\ StoreTypes /\ Current /\ Calls /\ Papers

-----------------------------------------------------------------------------
(* Steps of the loop, of the process and of the page                       *)

LEMMA OneSent ==
  ASSUME NEW s \in Seq(Commands), NEW m \in Commands
  PROVE  s \o <<m>> = Append(s, m)
OBVIOUS

LEMMA QuietOne ==
  ASSUME NEW m \in Commands, m.cmd # "show_card"
  PROVE  <<m>> \in Seq(Commands) /\ Quiet(<<m>>)
BY DEF Quiet

LEMMA BlankIsEmpty ==
  ASSUME NEW r
  PROVE  /\ ~Sent(<<>>, r) /\ SentOnce(<<>>, r) /\ ~Up(<<>>, r) /\ UpOnce(<<>>, r)
         /\ \A a : ~Heard(<<>>, r, a)
BY DEF Sent, SentOnce, Up, UpOnce, Heard

\* A store holds no card it did not hold, and none twice that it held once.
Drained(before, after, r) == /\ Sent(after, r) => Sent(before, r)
                             /\ SentOnce(before, r) => SentOnce(after, r)
Cleared(before, after, r) == /\ Up(after, r) => Up(before, r)
                             /\ UpOnce(before, r) => UpOnce(after, r)

\* What a step that asks, answers and posts nothing leaves of each request.
Fewer(r) == /\ Drained(outbox, outbox', r) /\ Drained(pipe, pipe', r)
            /\ Cleared(cards, cards', r)
            /\ \A a \in Answers : Heard(events', r, a) => Heard(events, r, a)

\* A step that hands a card on at most: no copy more, and none where there was none.
HandsOn(r) == /\ OneCopy(r) => OneCopy(r)'
              /\ Posted(r)' => Posted(r)
              /\ \A a \in Answers : Heard(events', r, a) => Heard(events, r, a)

LEMMA FewerHandsOn ==
  ASSUME NEW r, Fewer(r)
  PROVE  HandsOn(r)
BY DEF Fewer, HandsOn, Drained, Cleared, OneCopy, Posted

LEMMA QuietStep ==
  ASSUME HudInv, UNCHANGED <<asker, pending>>, givenUp' => givenUp, StoreTypes',
         \A r \in Requests : HandsOn(r)
  PROVE  HudInv'
<1>1. AskerTypes' /\ Current' /\ Calls'
  BY DEF HudInv, AskerTypes, Current, Calls, asker, Request, Open
<1>2. ASSUME NEW r \in Requests
      PROVE  OneCopy(r)' /\ Placed(r)' /\ \A a \in Answers : Fits(r, a)'
  <2>1. OneCopy(r)'
    BY <1>2 DEF HudInv, Papers, HandsOn
  <2>2. Placed(r)'
    BY <1>2 DEF HudInv, Papers, HandsOn, Placed, asker, Request
  <2>3. \A a \in Answers : Fits(r, a)'
    BY <1>2 DEF HudInv, Papers, HandsOn, Fits, asker, Request, Open
  <2>4. QED
    BY <2>1, <2>2, <2>3
<1>3. QED
  BY <1>1, <1>2 DEF HudInv, Papers

LEMMA SameDrained ==
  ASSUME NEW s, NEW r
  PROVE  Drained(s, s, r) /\ Cleared(s, s, r)
BY DEF Drained, Cleared

LEMMA EmptyDrained ==
  ASSUME NEW s, NEW r
  PROVE  Drained(s, <<>>, r) /\ Cleared(s, <<>>, r)
BY BlankIsEmpty DEF Drained, Cleared

\* _send_threadsafe of a command that shows no card.
LEMMA SendsQuietly ==
  ASSUME StoreTypes, NEW t \in Seq(Commands), Quiet(t), Send(t)
  PROVE  outbox' \in Seq(Commands) /\ \A r : Drained(outbox, outbox', r)
<1>1. CASE givenUp
  BY <1>1, SameDrained DEF Send, StoreTypes
<1>2. CASE ~givenUp
  BY <1>2, ConcatSent DEF Send, StoreTypes, Drained
<1>3. QED
  BY <1>1, <1>2

\* The page's reaction to a command.
LEMMA HandledPlaces ==
  ASSUME StoreTypes, NEW m \in Commands, Handled(m)
  PROVE  /\ cards' \in Seq(Requests)
         /\ \A r : /\ Up(cards', r) => Up(cards, r) \/ Shows(m, r)
                   /\ UpOnce(cards, r) /\ ~(Shows(m, r) /\ Up(cards, r)) => UpOnce(cards', r)
<1>1. CASE m.cmd = "show_card"
  <2>1. m.arg \in Requests
    BY <1>1 DEF Commands, Cmd
  <2>2. cards' = Append(cards, m.arg)
    BY <1>1 DEF Handled, Settled
  <2>3. QED
    BY <1>1, <2>1, <2>2, AppendUp DEF StoreTypes, Shows
<1>2. CASE m.cmd = "hide_card"
  <2>1. cards' = Without(cards, m.arg)
    BY <1>2 DEF Handled, Settled
  <2>2. QED
    BY <2>1, WithoutUp DEF StoreTypes
<1>3. CASE m.cmd \notin {"show_card", "hide_card"}
  <2>1. cards' = cards
    BY <1>3 DEF Handled, Settled
  <2>2. QED
    BY <2>1 DEF StoreTypes
<1>4. QED
  BY <1>1, <1>2, <1>3

\* A command that is written reaches the page, the pipe or nothing.
LEMMA WrittenPlaces ==
  ASSUME StoreTypes, NEW m \in Commands, Written(m)
  PROVE  /\ cards' \in Seq(Requests) /\ pipe' \in Seq(Commands)
         /\ \A r :
              /\ Sent(pipe', r) => Sent(pipe, r) \/ Shows(m, r)
              /\ Up(cards', r) => Up(cards, r) \/ Shows(m, r)
              /\ SentOnce(pipe, r) /\ ~(Shows(m, r) /\ Sent(pipe, r)) => SentOnce(pipe', r)
              /\ UpOnce(cards, r) /\ ~(Shows(m, r) /\ Up(cards, r)) => UpOnce(cards', r)
         /\ pipe' = pipe \/ cards' = cards
<1>1. CASE Handled(m) /\ UNCHANGED pipe
  BY <1>1, HandledPlaces DEF StoreTypes
<1>2. CASE UNCHANGED <<pipe, page>>
  BY <1>2 DEF StoreTypes, page
<1>3. CASE /\ UNCHANGED page
           /\ pipe' = Append(IF proc = "boot" /\ Len(pipe) >= Buffer THEN Tail(pipe) ELSE pipe, m)
  <2>1. CASE proc = "boot" /\ Len(pipe) >= Buffer
    <3>1. pipe # <<>>
      BY <2>1, HudAssumption DEF StoreTypes
    <3>2. pipe' = Append(Tail(pipe), m) /\ Tail(pipe) \in Seq(Commands) /\ cards' = cards
      BY <1>3, <2>1, <3>1, TailSent DEF StoreTypes, page
    <3>3. QED
      BY <3>1, <3>2, TailSent, AppendSent DEF StoreTypes
  <2>2. CASE ~(proc = "boot" /\ Len(pipe) >= Buffer)
    <3>1. pipe' = Append(pipe, m) /\ cards' = cards
      BY <1>3, <2>2 DEF page
    <3>2. QED
      BY <3>1, AppendSent DEF StoreTypes
  <2>3. QED
    BY <2>1, <2>2
<1>4. QED
  BY <1>1, <1>2, <1>3, Zenon DEF Written

LEMMA EmptySeq ==
  ASSUME NEW S
  PROVE  <<>> \in Seq(S)
OBVIOUS

LEMMA SpawnDrains ==
  ASSUME StoreTypes, SpawnLocked
  PROVE  /\ pipe' \in Seq(Commands) /\ cards' \in Seq(Requests) /\ events' \in Seq(Events)
         /\ \A r : /\ Drained(pipe, pipe', r) /\ Cleared(cards, cards', r)
                   /\ \A a : Heard(events', r, a) => Heard(events, r, a)
<1>1. /\ pipe' = pipe \/ pipe' = <<>>
      /\ cards' = cards \/ cards' = <<>>
      /\ events' = events \/ events' = <<>>
  BY DEF SpawnLocked, BlankPage, page
<1>2. pipe' \in Seq(Commands) /\ cards' \in Seq(Requests) /\ events' \in Seq(Events)
  <2>1. pipe' \in Seq(Commands)
    BY <1>1, EmptySeq DEF StoreTypes
  <2>2. cards' \in Seq(Requests)
    BY <1>1, EmptySeq DEF StoreTypes
  <2>3. events' \in Seq(Events)
    BY <1>1, EmptySeq DEF StoreTypes
  <2>4. QED
    BY <2>1, <2>2, <2>3
<1>3. \A r : Drained(pipe, pipe', r) /\ Cleared(cards, cards', r)
  <2>1. \A r : Drained(pipe, pipe', r)
    BY <1>1, SameDrained, EmptyDrained
  <2>2. \A r : Cleared(cards, cards', r)
    BY <1>1, SameDrained, EmptyDrained
  <2>3. QED
    BY <2>1, <2>2
<1>4. \A r, a : Heard(events', r, a) => Heard(events, r, a)
  BY <1>1, BlankIsEmpty
<1>5. QED
  BY <1>2, <1>3, <1>4

LEMMA DiesDrains ==
  ASSUME StoreTypes, Dies
  PROVE  /\ pipe' \in Seq(Commands) /\ cards' \in Seq(Requests)
         /\ \A r : Drained(pipe, pipe', r) /\ Cleared(cards, cards', r)
BY EmptyDrained DEF Dies, BlankPage

LEMMA RunCoroutineStep ==
  ASSUME HudInv, RunCoroutine
  PROVE  HudInv'
<1> DEFINE m == Head(outbox)
<1>1. StoreTypes /\ m \in Commands /\ outbox' \in Seq(Commands)
  BY TailSent DEF HudInv, StoreTypes, RunCoroutine
<1>2. UNCHANGED <<asker, pending, lastPill, arm, givenUp>>
  BY DEF RunCoroutine
<1>3. CASE Written(m) /\ UNCHANGED events
  <2>1. StoreTypes'
    BY <1>1, <1>2, <1>3, WrittenPlaces DEF StoreTypes, arm
  <2>2. ASSUME NEW r \in Requests PROVE HandsOn(r)
    <3>1. /\ Sent(outbox', r) => Sent(outbox, r)
          /\ Shows(m, r) => Sent(outbox, r)
          /\ SentOnce(outbox, r) => SentOnce(outbox', r) /\ ~(Shows(m, r) /\ Sent(outbox', r))
      BY TailSent DEF RunCoroutine, HudInv, StoreTypes
    <3>2. /\ Sent(pipe', r) => Sent(pipe, r) \/ Shows(m, r)
          /\ Up(cards', r) => Up(cards, r) \/ Shows(m, r)
          /\ SentOnce(pipe, r) /\ ~(Shows(m, r) /\ Sent(pipe, r)) => SentOnce(pipe', r)
          /\ UpOnce(cards, r) /\ ~(Shows(m, r) /\ Up(cards, r)) => UpOnce(cards', r)
          /\ pipe' = pipe \/ cards' = cards
      BY <1>1, <1>3, WrittenPlaces
    <3>3. OneCopy(r) => OneCopy(r)'
      <4>1. CASE pipe' = pipe
        BY <3>1, <3>2, <4>1 DEF OneCopy
      <4>2. CASE cards' = cards
        BY <3>1, <3>2, <4>2 DEF OneCopy
      <4>3. QED
        BY <3>2, <4>1, <4>2
    <3>4. Posted(r)' => Posted(r)
      BY <3>1, <3>2 DEF Posted
    <3>5. QED
      BY <1>3, <3>3, <3>4 DEF HandsOn
  <2>3. QED
    BY <1>2, <2>1, <2>2, QuietStep
<1>4. CASE SpawnLocked \/ UNCHANGED <<pipe, page, events>>
  <2>1. /\ pipe' \in Seq(Commands) /\ cards' \in Seq(Requests) /\ events' \in Seq(Events)
        /\ \A r : /\ Drained(pipe, pipe', r) /\ Cleared(cards, cards', r)
                  /\ \A a : Heard(events', r, a) => Heard(events, r, a)
    <3>1. CASE SpawnLocked
      BY <1>1, <3>1, SpawnDrains
    <3>2. CASE UNCHANGED <<pipe, page, events>>
      BY <1>1, <3>2, SameDrained DEF StoreTypes, page
    <3>3. QED
      BY <1>4, <3>1, <3>2
  <2>2. StoreTypes'
    BY <1>1, <1>2, <2>1 DEF StoreTypes, arm
  <2>3. \A r : Drained(outbox, outbox', r)
    BY <1>1, TailSent DEF Drained, RunCoroutine, StoreTypes
  <2>4. \A r \in Requests : HandsOn(r)
    BY <2>1, <2>3, FewerHandsOn DEF Fewer
  <2>5. QED
    BY <1>2, <2>2, <2>4, QuietStep
<1>5. QED
  BY <1>3, <1>4, Zenon DEF RunCoroutine

LEMMA FlushStep ==
  ASSUME HudInv, Flush
  PROVE  HudInv'
<1> DEFINE m == Head(pipe)
<1>1. StoreTypes /\ m \in Commands /\ pipe' \in Seq(Commands) /\ Handled(m)
  BY TailSent DEF HudInv, StoreTypes, Flush
<1>2. UNCHANGED <<asker, pending, lastPill, arm, givenUp, outbox, events>>
  BY DEF Flush, agent, ladder
<1>3. StoreTypes'
  BY <1>1, <1>2, HandledPlaces DEF StoreTypes, arm
<1>4. ASSUME NEW r \in Requests PROVE HandsOn(r)
  <2>1. /\ Sent(pipe', r) => Sent(pipe, r)
        /\ Shows(m, r) => Sent(pipe, r)
        /\ SentOnce(pipe, r) => SentOnce(pipe', r) /\ ~(Shows(m, r) /\ Sent(pipe', r))
    BY TailSent DEF Flush, HudInv, StoreTypes
  <2>2. /\ Up(cards', r) => Up(cards, r) \/ Shows(m, r)
        /\ UpOnce(cards, r) /\ ~(Shows(m, r) /\ Up(cards, r)) => UpOnce(cards', r)
    BY <1>1, HandledPlaces
  <2>3. QED
    BY <1>2, <2>1, <2>2 DEF HandsOn, OneCopy, Posted
<1>5. QED
  BY <1>2, <1>3, <1>4, QuietStep

\* Each store of a step is as it was, emptied, shortened, or longer by commands that
\* show nothing.
OutboxFits == outbox' \in Seq(Commands) /\ \A r : Drained(outbox, outbox', r)
PipeFits == pipe' \in Seq(Commands) /\ \A r : Drained(pipe, pipe', r)
CardsFit == cards' \in Seq(Requests) /\ \A r : Cleared(cards, cards', r)
EventsFit == events' \in Seq(Events) /\ \A r, a : Heard(events', r, a) => Heard(events, r, a)
NumbersFit == lastPill' \in 0 .. MaxSessions /\ armed' \in 0 .. MaxSessions /\ sessions' \in 0 .. MaxSessions

LEMMA ShrinkingStep ==
  ASSUME HudInv, UNCHANGED <<asker, pending>>, givenUp' => givenUp,
         OutboxFits, PipeFits, CardsFit, EventsFit, NumbersFit
  PROVE  HudInv'
<1>1. StoreTypes'
  BY DEF StoreTypes, OutboxFits, PipeFits, CardsFit, EventsFit, NumbersFit
<1>2. \A r \in Requests : HandsOn(r)
  BY FewerHandsOn DEF Fewer, OutboxFits, PipeFits, CardsFit, EventsFit
<1>3. QED
  BY <1>1, <1>2, QuietStep

LEMMA UnchangedFit ==
  ASSUME HudInv
  PROVE  /\ UNCHANGED outbox => OutboxFits
         /\ UNCHANGED pipe => PipeFits
         /\ UNCHANGED cards => CardsFit
         /\ UNCHANGED events => EventsFit
         /\ UNCHANGED <<lastPill, armed, sessions>> => NumbersFit
<1>1. StoreTypes
  BY DEF HudInv
<1>2. UNCHANGED outbox => OutboxFits
  BY <1>1, SameDrained DEF OutboxFits, StoreTypes
<1>3. UNCHANGED pipe => PipeFits
  BY <1>1, SameDrained DEF PipeFits, StoreTypes
<1>4. UNCHANGED cards => CardsFit
  BY <1>1, SameDrained DEF CardsFit, StoreTypes
<1>5. UNCHANGED events => EventsFit
  BY <1>1 DEF EventsFit, StoreTypes
<1>6. UNCHANGED <<lastPill, armed, sessions>> => NumbersFit
  BY <1>1 DEF NumbersFit, StoreTypes
<1>7. QED
  BY <1>2, <1>3, <1>4, <1>5, <1>6

LEMMA SendFits ==
  ASSUME HudInv, NEW m \in Commands, m.cmd # "show_card", Send(<<m>>)
  PROVE  OutboxFits
BY QuietOne, SendsQuietly DEF HudInv, OutboxFits

LEMMA DiesFits ==
  ASSUME HudInv, Dies
  PROVE  PipeFits /\ CardsFit
BY DiesDrains DEF HudInv, PipeFits, CardsFit

LEMMA SpawnFits ==
  ASSUME HudInv, SpawnLocked
  PROVE  PipeFits /\ CardsFit /\ EventsFit
<1>1. StoreTypes
  BY DEF HudInv
<1>2. QED
  BY <1>1, SpawnDrains DEF PipeFits, CardsFit, EventsFit

\* Events that answer no card.
LEMMA TellsNothing ==
  ASSUME HudInv, NEW e \in Events, e.cmd # "card_response",
         events' = events \/ events' = Append(events, e)
  PROVE  EventsFit
<1>1. CASE events' = events
  BY <1>1, UnchangedFit
<1>2. CASE events' = Append(events, e)
  BY <1>2, AppendHeard DEF HudInv, StoreTypes, EventsFit, Says
<1>3. QED
  BY <1>1, <1>2

\* The steps of the loop's timers, of quit(), and of the process and page that
\* answer no card.
LEMMA PlainSteps ==
  ASSUME HudInv,
         \/ AudioFrame \/ Heartbeat \/ ReadEof \/ Disarm
         \/ Load \/ ReadyWatchdog \/ StopClicked \/ RendererDies \/ Crash \/ Hang
         \/ QuitLocks \/ QuitReaps
  PROVE  HudInv'
<1>1. CASE AudioFrame \/ ReadEof \/ Hang \/ QuitLocks
  <2>1. /\ UNCHANGED <<asker, pending, givenUp, outbox, pipe, cards, events>>
        /\ UNCHANGED <<lastPill, armed, sessions>>
    BY <1>1 DEF AudioFrame, ReadEof, Hang, QuitLocks, agent, page, arm, ladder
  <2>2. QED
    BY <2>1, UnchangedFit, ShrinkingStep
<1>2. CASE Heartbeat
  <2>1. /\ UNCHANGED <<asker, pending, givenUp, outbox, events>>
        /\ UNCHANGED <<lastPill, armed, sessions>>
        /\ Dies \/ UNCHANGED <<pipe, cards>>
    BY <1>2 DEF Heartbeat, arm, ladder, page
  <2>2. QED
    BY <2>1, DiesFits, UnchangedFit, ShrinkingStep
<1>3. CASE ReadyWatchdog \/ Crash \/ QuitReaps
  <2>1. /\ UNCHANGED <<asker, pending, givenUp, outbox, events>>
        /\ UNCHANGED <<lastPill, armed, sessions>>
        /\ Dies
    BY <1>3 DEF ReadyWatchdog, Crash, QuitReaps, agent, arm, ladder
  <2>2. QED
    BY <2>1, DiesFits, UnchangedFit, ShrinkingStep
<1>4. CASE Disarm
  <2>1. UNCHANGED <<asker, pending, givenUp, pipe, cards, events>> /\ UNCHANGED sessions
    BY <1>4 DEF Disarm, away, page
  <2>2. armed' = 0 /\ Send(<<Cmd("hide_pill", 0)>>) /\ (lastPill' = lastPill \/ lastPill' = 0)
    BY <1>4 DEF Disarm, HidePill
  <2>3. NumbersFit
    BY <2>1, <2>2, HudAssumption DEF NumbersFit, HudInv, StoreTypes
  <2>4. OutboxFits
    <3>1. Cmd("hide_pill", 0) \in Commands /\ Cmd("hide_pill", 0).cmd # "show_card"
      BY DEF Commands, Cmd
    <3>2. QED
      BY <2>2, <3>1, SendFits
  <2>5. QED
    BY <2>1, <2>3, <2>4, UnchangedFit, ShrinkingStep
<1>5. CASE Load
  <2>1. /\ UNCHANGED <<asker, pending, givenUp, outbox, pipe, cards>>
        /\ UNCHANGED <<lastPill, armed, sessions>>
        /\ events' = events \/ events' = Append(events, Cmd("hud_ready", 0))
    BY <1>5 DEF Load, PageReady, HandshakeFails, agent, arm, ladder, page
  <2>2. EventsFit
    <3>1. Cmd("hud_ready", 0) \in Events /\ Cmd("hud_ready", 0).cmd # "card_response"
      BY DEF Events, Cmd
    <3>2. QED
      BY <2>1, <3>1, TellsNothing
  <2>3. QED
    BY <2>1, <2>2, UnchangedFit, ShrinkingStep
<1>6. CASE StopClicked
  <2>1. /\ UNCHANGED <<asker, pending, givenUp, outbox, pipe, cards>>
        /\ UNCHANGED <<lastPill, armed, sessions>>
        /\ events' = events \/ events' = Append(events, Cmd("pill_stop_clicked", 0))
    BY <1>6 DEF StopClicked, Settled, Emit, agent, arm, ladder
  <2>2. EventsFit
    <3>1. Cmd("pill_stop_clicked", 0) \in Events /\ Cmd("pill_stop_clicked", 0).cmd # "card_response"
      BY DEF Events, Cmd
    <3>2. QED
      BY <2>1, <3>1, TellsNothing
  <2>3. QED
    BY <2>1, <2>2, UnchangedFit, ShrinkingStep
<1>7. CASE RendererDies
  <2>1. /\ UNCHANGED <<asker, pending, givenUp, outbox, pipe, events>>
        /\ UNCHANGED <<lastPill, armed, sessions>>
        /\ cards' = <<>>
    BY <1>7 DEF RendererDies, BlankPage, agent, arm, ladder
  <2>2. CardsFit
    BY <2>1, EmptySeq, EmptyDrained DEF CardsFit
  <2>3. QED
    BY <2>1, <2>2, UnchangedFit, ShrinkingStep
<1>8. QED
  BY <1>1, <1>2, <1>3, <1>4, <1>5, <1>6, <1>7

LEMMA ArmStep ==
  ASSUME HudInv, NEW ok \in BOOLEAN, Arm(ok)
  PROVE  HudInv'
<1> DEFINE restart == IF givenUp THEN <<Cmd("start", 0)>> ELSE <<>>
           shown == IF ok THEN <<Cmd("show_pill", sessions')>> ELSE <<>>
<1>1. /\ UNCHANGED <<asker, pending, pipe, cards, events>> /\ givenUp' = FALSE
      /\ sessions' \in 1 .. MaxSessions
      /\ outbox' = (outbox \o restart) \o shown
  BY HudAssumption DEF Arm, away, page, HudInv, StoreTypes
<1>2. NumbersFit
  <2>1. lastPill' \in 0 .. MaxSessions /\ armed' \in 0 .. MaxSessions
    BY <1>1 DEF Arm, HudInv, StoreTypes
  <2>2. QED
    BY <1>1, <2>1 DEF NumbersFit
<1>3. restart \in Seq(Commands) /\ Quiet(restart)
  <2>1. Cmd("start", 0) \in Commands /\ Cmd("start", 0).cmd # "show_card"
    BY DEF Commands, Cmd
  <2>2. <<>> \in Seq(Commands) /\ Quiet(<<>>)
    BY EmptySeq DEF Quiet
  <2>3. QED
    BY <2>1, <2>2, QuietOne
<1>4. shown \in Seq(Commands) /\ Quiet(shown)
  <2>1. Cmd("show_pill", sessions') \in Commands /\ Cmd("show_pill", sessions').cmd # "show_card"
    BY <1>1 DEF Commands, Cmd
  <2>2. <<>> \in Seq(Commands) /\ Quiet(<<>>)
    BY EmptySeq DEF Quiet
  <2>3. QED
    BY <2>1, <2>2, QuietOne
<1> HIDE DEF restart, shown
<1>5. OutboxFits
  <2>1. outbox \in Seq(Commands)
    BY DEF HudInv, StoreTypes
  <2>2. outbox \o restart \in Seq(Commands) /\ \A r : Drained(outbox, outbox \o restart, r)
    BY <2>1, <1>3, ConcatSent DEF Drained
  <2>3. /\ (outbox \o restart) \o shown \in Seq(Commands)
        /\ \A r : Drained(outbox \o restart, (outbox \o restart) \o shown, r)
    BY <2>2, <1>4, ConcatSent DEF Drained
  <2>4. QED
    BY <1>1, <2>2, <2>3 DEF OutboxFits, Drained
<1>6. QED
  BY <1>1, <1>2, <1>5, UnchangedFit, ShrinkingStep

LEMMA RespawnWakesStep ==
  ASSUME HudInv, RespawnWakes
  PROVE  HudInv'
<1>1. /\ UNCHANGED <<asker, pending, givenUp, outbox>>
      /\ UNCHANGED <<lastPill, armed, sessions>>
      /\ SpawnLocked \/ UNCHANGED <<pipe, cards, events>>
  BY DEF RespawnWakes, arm, page
<1>2. QED
  BY <1>1, SpawnFits, UnchangedFit, ShrinkingStep

\* A HUD that is given up answers every question with its own caller's default.
LEMMA RespawnStartsStep ==
  ASSUME HudInv, RespawnStarts
  PROVE  HudInv'
<1>1. UNCHANGED <<pc, asks, snapshot, pressed, lastPill, armed, sessions, outbox, pipe,
                  events, cards>>
  BY DEF RespawnStarts, arm, page
<1>2. StoreTypes'
  BY <1>1 DEF HudInv, StoreTypes
<1>3. Papers'
  <2>1. ASSUME NEW r \in Requests
        PROVE  OneCopy(r)' /\ Placed(r)' /\ \A a \in Answers : Fits(r, a)'
    BY <1>1 DEF HudInv, Papers, OneCopy, Placed, Posted, Fits, Request, Open
  <2>2. QED
    BY <2>1 DEF Papers
<1>4. CASE FailPending
  <2>1. pending' = {} /\ fut' \in [Callers -> Answers \union {"open"}]
    BY <1>4, HudAssumption DEF FailPending, Forgotten, HudInv, AskerTypes
  <2>2. ASSUME NEW c \in Callers
        PROVE  /\ fut'[c] = fut[c] \/ fut'[c] = Default[c]
               /\ pc[c] = "registering" => fut'[c] = fut[c]
    <3>1. Request(c)[1] = c
      BY DEF Request
    <3>2. Request(c) \in pending => pc[c] \in {"sending", "waiting"}
      BY <3>1 DEF HudInv, Current
    <3>3. QED
      BY <1>4, <3>2 DEF FailPending
  <2>3. Calls'
    BY <1>1, <2>2 DEF HudInv, Calls, Open
  <2>4. AskerTypes' /\ Current'
    BY <1>1, <2>1 DEF HudInv, AskerTypes, Current
  <2>5. QED
    BY <1>2, <1>3, <2>3, <2>4 DEF HudInv
<1>5. CASE UNCHANGED <<givenUp, fut, pending>>
  <2>1. AskerTypes' /\ Current' /\ Calls'
    BY <1>1, <1>5 DEF HudInv, AskerTypes, Current, Calls, Request, Open
  <2>2. QED
    BY <1>2, <1>3, <2>1 DEF HudInv
<1>6. QED
  BY <1>4, <1>5 DEF RespawnStarts

\* The answer of the page ends the question it is of, if that is still open.
LEMMA ReadResponseStep ==
  ASSUME HudInv, ReadEvent, ReadResponse
  PROVE  HudInv'
<1> DEFINE q == Head(events).arg[1]
           b == Head(events).arg[2]
<1>1. /\ UNCHANGED <<pc, asks, snapshot, pressed, lastPill, armed, sessions, outbox, pipe,
                     cards, givenUp>>
      /\ events # <<>> /\ events' = Tail(events)
      /\ pending' = pending \ {q}
      /\ fut' = IF q \in pending /\ fut[q[1]] = "open" THEN [fut EXCEPT ![q[1]] = b] ELSE fut
  BY DEF ReadEvent, ReadResponse, page
<1>2. q \in Requests /\ b \in Answers /\ Says(Head(events), q, b)
  <2>1. Head(events) \in Events /\ Head(events).cmd = "card_response"
    BY <1>1, TailHeard DEF ReadResponse, HudInv, StoreTypes
  <2>2. Head(events).arg \in Requests \X Answers
    BY <2>1 DEF Events, Cmd
  <2>3. QED
    BY <2>1, <2>2 DEF Says
<1>3. q \in pending => b \in pressed[q[1]] \union {"timeout"}
  <2>1. Heard(events, q, b)
    BY <1>1, <1>2, TailHeard DEF HudInv, StoreTypes
  <2>2. Fits(q, b)
    BY <1>2 DEF HudInv, Papers
  <2>3. QED
    BY <2>1, <2>2 DEF Fits, HudInv, Current, Open
<1> HIDE DEF q, b
<1>4. StoreTypes'
  BY <1>1, TailHeard DEF HudInv, StoreTypes
<1>5. Papers'
  <2>1. ASSUME NEW r \in Requests PROVE OneCopy(r)' /\ Placed(r)'
    BY <1>1 DEF HudInv, Papers, OneCopy, Placed, Posted, Request
  <2>2. ASSUME NEW r \in Requests, NEW a \in Answers PROVE Fits(r, a)'
    <3>1. Heard(events', r, a) => Heard(events, r, a)
      BY <1>1, TailHeard DEF HudInv, StoreTypes
    <3>2. QED
      BY <1>1, <3>1 DEF HudInv, Papers, Fits, Request, Open
  <2>3. QED
    BY <2>1, <2>2 DEF Papers
<1>6. CASE q \in pending
  <2>1. /\ q[1] \in Callers /\ fut[q[1]] = "open" /\ pc[q[1]] \in {"sending", "waiting"}
        /\ q = Request(q[1])
    BY <1>2, <1>6 DEF HudInv, Current, Requests
  <2>2. fut' = [fut EXCEPT ![q[1]] = b]
    BY <1>1, <1>6, <2>1
  <2>3. AskerTypes'
    <3>1. fut' \in [Callers -> Answers \union {"open"}]
      BY <1>2, <2>2 DEF HudInv, AskerTypes
    <3>2. QED
      BY <1>1, <3>1 DEF HudInv, AskerTypes
  <2>4. Calls'
    BY <1>1, <1>3, <1>6, <2>1, <2>2 DEF HudInv, AskerTypes, Calls, Open
  <2>5. Current'
    <3>1. \A r \in pending' : r \in pending /\ r[1] # q[1]
      BY <1>1, <2>1 DEF HudInv, Current
    <3>2. \A r \in pending' : fut'[r[1]] = fut[r[1]]
      BY <2>2, <3>1 DEF HudInv, AskerTypes, Requests
    <3>3. QED
      BY <1>1, <3>1, <3>2 DEF HudInv, Current, Request
  <2>6. QED
    BY <1>4, <1>5, <2>3, <2>4, <2>5 DEF HudInv
<1>7. CASE q \notin pending
  <2>1. UNCHANGED <<fut, pending>>
    BY <1>1, <1>7
  <2>2. AskerTypes' /\ Current' /\ Calls'
    BY <1>1, <2>1 DEF HudInv, AskerTypes, Current, Calls, Request, Open
  <2>3. QED
    BY <1>4, <1>5, <2>2 DEF HudInv
<1>8. QED
  BY <1>6, <1>7

LEMMA ReadEventStep ==
  ASSUME HudInv, ReadEvent
  PROVE  HudInv'
<1>1. CASE ReadResponse
  BY <1>1, ReadResponseStep
<1>2. CASE ReadReady \/ ReadStop
  <2>1. UNCHANGED <<asker, pending, pipe, cards, givenUp, sessions>>
    BY <1>2 DEF ReadEvent, ReadReady, ReadStop, asker, page
  <2>2. EventsFit
    BY TailHeard DEF ReadEvent, EventsFit, HudInv, StoreTypes
  <2>3. OutboxFits
    <3>1. CASE outbox' = outbox
      BY <3>1, UnchangedFit
    <3>2. CASE lastPill # 0 /\ Send(<<Cmd("show_pill", lastPill)>>)
      <4>1. Cmd("show_pill", lastPill) \in Commands /\ Cmd("show_pill", lastPill).cmd # "show_card"
        BY <3>2, HudAssumption DEF Commands, Cmd, HudInv, StoreTypes
      <4>2. QED
        BY <3>2, <4>1, SendFits
    <3>3. CASE Send(<<Cmd("hide_pill", 0)>>)
      <4>1. Cmd("hide_pill", 0) \in Commands /\ Cmd("hide_pill", 0).cmd # "show_card"
        BY DEF Commands, Cmd
      <4>2. QED
        BY <3>3, <4>1, SendFits
    <3>4. QED
      BY <1>2, <3>1, <3>2, <3>3 DEF ReadReady, Replayed, ReadStop, HidePill
  <2>4. NumbersFit
    <3>1. /\ lastPill' = lastPill \/ lastPill' = 0
          /\ armed' = armed \/ armed' = 0
      BY <1>2 DEF ReadReady, ReadStop, HidePill
    <3>2. QED
      BY <2>1, <3>1, HudAssumption DEF NumbersFit, HudInv, StoreTypes
  <2>5. QED
    BY <2>1, <2>2, <2>3, <2>4, UnchangedFit, ShrinkingStep
<1>3. QED
  BY <1>1, <1>2 DEF ReadEvent

-----------------------------------------------------------------------------
(* Steps of the callers                                                    *)

\* What a caller's own step may do to the cards and answers that are out.
LEMMA CallerPapers ==
  ASSUME HudInv, NEW c \in Callers, UNCHANGED <<asks, pipe, cards, events>>, OutboxFits,
         \A d \in Callers \ {c} : pc'[d] = pc[d] /\ pressed'[d] = pressed[d],
         pressed'[c] = pressed[c] \/ pressed'[c] = {},
         pc'[c] \in {"registering", "sending"} => pc[c] \in {"registering", "sending"},
         Open(c)' => Open(c) /\ pressed'[c] = pressed[c]
  PROVE  Papers'
<1> SUFFICES ASSUME NEW r \in Requests
             PROVE  OneCopy(r)' /\ Placed(r)' /\ \A a \in Answers : Fits(r, a)'
  BY DEF Papers
<1>1. Drained(outbox, outbox', r) /\ r[1] \in Callers
  BY DEF OutboxFits, Requests
<1>2. OneCopy(r)' /\ (Posted(r)' => Posted(r))
  BY <1>1 DEF HudInv, Papers, OneCopy, Posted, Drained
<1>3. Placed(r)'
  <2>1. CASE r[1] = c
    BY <1>2, <2>1 DEF HudInv, Papers, Placed, Request
  <2>2. CASE r[1] # c
    BY <1>1, <1>2, <2>2 DEF HudInv, Papers, Placed, Request
  <2>3. QED
    BY <2>1, <2>2
<1>4. ASSUME NEW a \in Answers PROVE Fits(r, a)'
  <2>1. CASE r[1] = c
    BY <2>1 DEF HudInv, Papers, Fits, Request
  <2>2. CASE r[1] # c
    BY <1>1, <2>2 DEF HudInv, Papers, Fits, Request, Open
  <2>3. QED
    BY <2>1, <2>2
<1>5. QED
  BY <1>2, <1>3, <1>4

LEMMA OthersStores ==
  ASSUME HudInv, UNCHANGED others, OutboxFits
  PROVE  StoreTypes' /\ UNCHANGED <<pipe, cards, events, givenUp>>
BY DEF HudInv, StoreTypes, others, page, arm, ladder, OutboxFits

\* A caller that goes on with an answer keeps no future in the launcher.
LEMMA LeaveStep ==
  ASSUME HudInv, NEW c \in Callers, Open(c), NEW answer \in Answers, Leave(c, answer),
         OutboxFits, UNCHANGED others, pending' \subseteq pending, Request(c) \notin pending'
  PROVE  HudInv'
<1>1. StoreTypes' /\ UNCHANGED <<pipe, cards, events, givenUp>>
  BY OthersStores
<1>2. AskerTypes
  BY DEF HudInv
<1>3. /\ UNCHANGED <<asks, snapshot>>
      /\ fut' = [fut EXCEPT ![c] = answer]
      /\ pressed' = [pressed EXCEPT ![c] = {}]
      /\ pc' = [pc EXCEPT ![c] = IF snapshot[c] # 0 THEN "restoring" ELSE "idle"]
  BY DEF Leave
<1>4. /\ \A d \in Callers \ {c} : pc'[d] = pc[d] /\ pressed'[d] = pressed[d] /\ fut'[d] = fut[d]
      /\ pc'[c] \in {"restoring", "idle"} /\ pressed'[c] = {}
      /\ pc'[c] = "restoring" => snapshot[c] # 0
  BY <1>2, <1>3 DEF AskerTypes
<1>5. AskerTypes'
  BY <1>2, <1>3 DEF AskerTypes
<1>6. Current'
  <2>1. ASSUME NEW r \in pending' PROVE r \in pending /\ r[1] \in Callers \ {c}
    BY <1>2 DEF HudInv, Current, AskerTypes, Requests
  <2>2. QED
    BY <1>1, <1>3, <1>4, <2>1 DEF HudInv, Current, Request
<1>7. Calls'
  BY <1>3, <1>4 DEF HudInv, Calls, Open
<1>8. Papers'
  BY <1>1, <1>3, <1>4, CallerPapers DEF Open
<1>9. QED
  BY <1>1, <1>5, <1>6, <1>7, <1>8 DEF HudInv

LEMMA RequestOf ==
  ASSUME HudInv, NEW c \in Callers
  PROVE  /\ Request(c)[1] = c /\ Request(c)[2] = asks[c]
         /\ pc[c] # "idle" => Request(c) \in Requests /\ asks[c] \in 1 .. MaxAsks
<1>1. pc[c] # "idle" => asks[c] \in 1 .. MaxAsks
  BY HudAssumption DEF HudInv, AskerTypes, Calls
<1>2. QED
  BY <1>1 DEF Request, Requests

LEMMA AnsweredStep ==
  ASSUME HudInv, NEW c \in Callers, Answered(c)
  PROVE  HudInv'
<1>1. fut[c] \in Answers
  BY DEF Answered, HudInv, AskerTypes
<1>2. Request(c) \notin pending
  BY RequestOf DEF Answered, HudInv, Current
<1>3. QED
  BY <1>1, <1>2, UnchangedFit, LeaveStep DEF Answered, Open

LEMMA TimesOutStep ==
  ASSUME HudInv, NEW c \in Callers, TimesOut(c)
  PROVE  HudInv'
<1>1. Default[c] \in Answers
  BY HudAssumption
<1>2. OutboxFits
  <2>1. Cmd("hide_card", Request(c)) \in Commands /\ Cmd("hide_card", Request(c)).cmd # "show_card"
    BY RequestOf DEF Commands, Cmd, TimesOut
  <2>2. QED
    BY <2>1, SendFits DEF TimesOut
<1>3. QED
  BY <1>1, <1>2, LeaveStep DEF TimesOut, Open

LEMMA SendCardStep ==
  ASSUME HudInv, NEW c \in Callers, SendCard(c)
  PROVE  HudInv'
<1> DEFINE r == Request(c)
<1>1. CASE givenUp
  <2>1. outbox' = outbox
    BY <1>1 DEF SendCard, Send
  <2>2. Default[c] \in Answers
    BY HudAssumption
  <2>3. QED
    BY <1>1, <2>1, <2>2, UnchangedFit, LeaveStep DEF SendCard, Open
<1>2. CASE ~givenUp
  <2>1. /\ outbox' = outbox \o <<Cmd("show_card", r)>>
        /\ pc[c] = "sending" /\ pc' = [pc EXCEPT ![c] = "waiting"]
        /\ UNCHANGED <<asks, fut, snapshot, pressed, pending>>
        /\ UNCHANGED <<pipe, cards, events, givenUp, lastPill, armed, sessions>>
    BY <1>2 DEF SendCard, Send, others, page, arm, ladder
  <2>2. r \in Requests /\ r[1] = c /\ r[2] = asks[c]
    BY <2>1, RequestOf
  <2>3. Cmd("show_card", r) \in Commands /\ \A q : Shows(Cmd("show_card", r), q) => q = r
    BY <2>2 DEF Commands, Cmd, Shows
  <2> HIDE DEF r
  <2>4. /\ outbox' \in Seq(Commands)
        /\ \A q : /\ Sent(outbox', q) => Sent(outbox, q) \/ q = r
                  /\ SentOnce(outbox, q) /\ ~(q = r /\ Sent(outbox, q)) => SentOnce(outbox', q)
    <3>1. outbox \in Seq(Commands)
      BY DEF HudInv, StoreTypes
    <3> DEFINE m == Cmd("show_card", r)
    <3> HIDE DEF m
    <3>2. m \in Commands /\ \A q : Shows(m, q) => q = r
      BY <2>3 DEF m
    <3>3. outbox' = Append(outbox, m)
      BY <2>1, <3>1, <3>2, OneSent DEF m
    <3>4. QED
      BY <3>1, <3>2, <3>3, AppendSent
  <2>5. pc'[c] = "waiting" /\ \A d \in Callers \ {c} : pc'[d] = pc[d]
    BY <2>1 DEF HudInv, AskerTypes
  <2>6. ~Posted(r)
    BY <2>1, <2>2 DEF HudInv, Papers, Placed, r
  <2>7. StoreTypes' /\ AskerTypes'
    BY <2>1, <2>4 DEF HudInv, StoreTypes, AskerTypes
  <2>8. Current'
    BY <1>2, <2>1, <2>5 DEF HudInv, Current, Request, AskerTypes, Requests
  <2>9. Calls'
    BY <2>1, <2>5 DEF HudInv, Calls, Open
  <2>10. ASSUME NEW q \in Requests
         PROVE  OneCopy(q)' /\ Placed(q)' /\ \A a \in Answers : Fits(q, a)'
    <3>1. OneCopy(q) /\ Placed(q) /\ q[1] \in Callers
      BY DEF HudInv, Papers, Requests
    <3>2. OneCopy(q)'
      BY <2>1, <2>4, <2>6, <3>1 DEF OneCopy, Posted
    <3>3. Placed(q)'
      <4>1. CASE q = r
        <5>1. asks[c] <= asks[c] /\ pressed[c] = {}
          BY <2>1 DEF HudInv, Calls, AskerTypes
        <5>2. QED
          BY <2>1, <2>2, <2>5, <4>1, <5>1 DEF Placed
      <4>2. CASE q # r
        BY <2>1, <2>4, <2>5, <3>1, <4>2 DEF Placed, Posted, Request, r
      <4>3. QED
        BY <4>1, <4>2
    <3>4. \A a \in Answers : Fits(q, a)'
      BY <2>1, <2>5, <3>1 DEF HudInv, Papers, Fits, Request, Open
    <3>5. QED
      BY <3>2, <3>3, <3>4
  <2>11. QED
    BY <2>7, <2>8, <2>9, <2>10 DEF HudInv, Papers
<1>3. QED
  BY <1>1, <1>2

LEMMA RestoreStep ==
  ASSUME HudInv, NEW c \in Callers, Restore(c) \/ Reshow(c)
  PROVE  HudInv'
<1>1. AskerTypes
  BY DEF HudInv
<1>2. /\ UNCHANGED <<asks, fut, pressed, pending>> /\ UNCHANGED others
      /\ pc[c] \in {"restoring", "reshowing"}
      /\ \/ pc' = [pc EXCEPT ![c] = "reshowing"] /\ UNCHANGED snapshot
         \/ pc' = [pc EXCEPT ![c] = "idle"] /\ snapshot' = [snapshot EXCEPT ![c] = 0]
  BY DEF Restore, Reshow
<1>3. OutboxFits
  <2>1. CASE UNCHANGED outbox
    BY <2>1, UnchangedFit
  <2>2. CASE Send(<<Cmd("show_pill", snapshot[c])>>) /\ snapshot[c] # 0
    <3>1. /\ Cmd("show_pill", snapshot[c]) \in Commands
          /\ Cmd("show_pill", snapshot[c]).cmd # "show_card"
      BY <1>1, <2>2, HudAssumption DEF AskerTypes, Commands, Cmd
    <3>2. QED
      BY <2>2, <3>1, SendFits
  <2>3. snapshot[c] # 0
    BY <1>2 DEF HudInv, Calls
  <2>4. QED
    BY <2>1, <2>2, <2>3 DEF Restore, Reshow
<1>4. StoreTypes' /\ UNCHANGED <<pipe, cards, events, givenUp>>
  BY <1>2, <1>3, OthersStores
<1>5. /\ \A d \in Callers \ {c} : pc'[d] = pc[d]
      /\ \A d \in Callers \ {c} : snapshot'[d] = snapshot[d]
      /\ pc'[c] \in {"reshowing", "idle"}
      /\ pc'[c] = "reshowing" => snapshot'[c] = snapshot[c]
  BY <1>1, <1>2 DEF AskerTypes
<1>6. AskerTypes'
  BY <1>1, <1>2, HudAssumption DEF AskerTypes
<1>7. Current'
  <2>1. \A r \in pending : r[1] \in Callers \ {c}
    BY <1>1, <1>2 DEF HudInv, Current, AskerTypes, Requests
  <2>2. QED
    BY <1>2, <1>4, <1>5, <2>1 DEF HudInv, Current, Request
<1>8. Calls'
  BY <1>2, <1>5 DEF HudInv, Calls, Open
<1>9. Papers'
  BY <1>2, <1>3, <1>4, <1>5, CallerPapers DEF Open
<1>10. QED
  BY <1>4, <1>6, <1>7, <1>8, <1>9 DEF HudInv

\* A question is registered; one that supersedes answers every other one that is open
\* with its own caller's default and takes its card down.
LEMMA RegisterStep ==
  ASSUME HudInv, NEW c \in Callers, Register(c)
  PROVE  HudInv'
<1>1. AskerTypes
  BY DEF HudInv
<1>2. /\ pc[c] = "registering" /\ fut[c] = "open" /\ pc' = [pc EXCEPT ![c] = "sending"]
      /\ UNCHANGED <<asks, snapshot, pressed>> /\ UNCHANGED others
      /\ Request(c) \in Requests /\ Request(c)[1] = c
  BY RequestOf DEF Register, HudInv, Calls
<1>3. pc'[c] = "sending" /\ \A d \in Callers \ {c} : pc'[d] = pc[d]
  BY <1>1, <1>2 DEF AskerTypes
<1>4. \A r \in pending : r \in Requests /\ r[1] \in Callers \ {c}
  BY <1>1, <1>2 DEF HudInv, Current, AskerTypes, Requests
<1>5. OutboxFits
  <2>1. CASE UNCHANGED outbox
    BY <2>1, UnchangedFit
  <2>2. CASE Send(Hidings(pending))
    <3>1. pending \in SUBSET Requests /\ StoreTypes
      BY <1>1 DEF HudInv, AskerTypes
    <3>2. Hidings(pending) \in Seq(Commands) /\ Quiet(Hidings(pending))
      BY <3>1, HideAll
    <3>3. QED
      BY <2>2, <3>1, <3>2, SendsQuietly DEF OutboxFits
  <2>3. QED
    BY <2>1, <2>2 DEF Register, Hidings
<1>6. StoreTypes' /\ UNCHANGED <<pipe, cards, events, givenUp>>
  BY <1>2, <1>5, OthersStores
<1>7. Papers'
  BY <1>2, <1>3, <1>5, <1>6, CallerPapers DEF Open
<1>8. CASE c \notin Superseding
  <2>1. pending' = pending \union {Request(c)} /\ UNCHANGED fut
    BY <1>8 DEF Register
  <2>2. AskerTypes'
    BY <1>1, <1>2, <2>1 DEF AskerTypes
  <2>3. Calls'
    BY <1>2, <1>3, <2>1 DEF HudInv, Calls, Open
  <2>4. Current'
    <3>1. ASSUME NEW r \in pending'
          PROVE  (r \in pending /\ r[1] \in Callers \ {c}) \/ r = Request(c)
      BY <1>4, <2>1
    <3>2. QED
      BY <1>2, <1>3, <1>6, <2>1, <3>1 DEF HudInv, Current, Request
  <2>5. QED
    BY <1>6, <1>7, <2>2, <2>3, <2>4 DEF HudInv
<1>9. CASE c \in Superseding
  <2>1. /\ pending' = {Request(c)}
        /\ fut' = [d \in Callers |-> IF Request(d) \in pending /\ fut[d] = "open"
                                       THEN Default[d] ELSE fut[d]]
    BY <1>9 DEF Register, OwnDefault
  <2>2. ASSUME NEW d \in Callers
        PROVE  /\ fut'[d] = fut[d] \/ fut'[d] = Default[d]
               /\ pc[d] = "registering" => fut'[d] = fut[d]
    <3>1. Request(d)[1] = d
      BY DEF Request
    <3>2. Request(d) \in pending => pc[d] \in {"sending", "waiting"}
      BY <3>1 DEF HudInv, Current
    <3>3. QED
      BY <2>1, <3>2
  <2>3. AskerTypes'
    <3>1. fut' \in [Callers -> Answers \union {"open"}]
      BY <1>1, <2>1, HudAssumption DEF AskerTypes
    <3>2. QED
      BY <1>1, <1>2, <2>1, <3>1 DEF AskerTypes
  <2>4. Calls'
    BY <1>2, <1>3, <2>2 DEF HudInv, Calls, Open
  <2>5. Current'
    BY <1>2, <1>3, <2>1, <2>2 DEF Current, Request
  <2>6. QED
    BY <1>6, <1>7, <2>3, <2>4, <2>5 DEF HudInv
<1>10. QED
  BY <1>8, <1>9

\* A new question is none of those whose cards and answers are still about.
LEMMA AskStep ==
  ASSUME HudInv, NEW c \in Callers, Ask(c)
  PROVE  HudInv'
<1>1. AskerTypes /\ StoreTypes
  BY DEF HudInv
<1>2. /\ pc[c] = "idle" /\ asks' = [asks EXCEPT ![c] = @ + 1] /\ asks[c] < MaxAsks
      /\ UNCHANGED <<pressed, pending>> /\ UNCHANGED others
  BY DEF Ask
<1>3. /\ asks'[c] = asks[c] + 1 /\ asks[c] \in Nat /\ asks'[c] \in 0 .. MaxAsks
      /\ \A d \in Callers \ {c} : asks'[d] = asks[d]
      /\ pressed[c] = {}
      /\ asks' \in [Callers -> 0 .. MaxAsks]
  BY <1>1, <1>2, HudAssumption DEF AskerTypes, HudInv, Calls
<1>4. OutboxFits
  <2>1. CASE UNCHANGED outbox
    BY <2>1, UnchangedFit
  <2>2. CASE Send(<<Cmd("hide_pill", 0)>>)
    <3>1. Cmd("hide_pill", 0) \in Commands /\ Cmd("hide_pill", 0).cmd # "show_card"
      BY DEF Commands, Cmd
    <3>2. QED
      BY <2>2, <3>1, SendFits
  <2>3. QED
    BY <2>1, <2>2 DEF Ask
<1>5. StoreTypes' /\ UNCHANGED <<pipe, cards, events, givenUp>>
  BY <1>2, <1>4, OthersStores
<1>6. /\ \/ UNCHANGED pc
         \/ /\ pc' = [pc EXCEPT ![c] = "registering"]
            /\ fut' = [fut EXCEPT ![c] = "open"]
      /\ \E a \in Answers \union {"open"} : fut' = [fut EXCEPT ![c] = a]
      /\ \/ UNCHANGED snapshot
         \/ \E n \in 0 .. MaxSessions : snapshot' = [snapshot EXCEPT ![c] = n]
  <2>1. Default[c] \in Answers /\ 0 \in 0 .. MaxSessions /\ lastPill \in 0 .. MaxSessions
    BY <1>1, HudAssumption DEF StoreTypes
  <2>2. CASE givenUp
    <3>1. UNCHANGED <<pc, snapshot>> /\ fut' = [fut EXCEPT ![c] = Default[c]]
      BY <2>2 DEF Ask
    <3>2. QED
      BY <2>1, <3>1
  <2>3. CASE ~givenUp
    <3>1. pc' = [pc EXCEPT ![c] = "registering"] /\ fut' = [fut EXCEPT ![c] = "open"]
      BY <2>3 DEF Ask
    <3>2. \E n \in 0 .. MaxSessions : snapshot' = [snapshot EXCEPT ![c] = n]
      <4>1. snapshot' = [snapshot EXCEPT ![c] = IF c \in Pausing THEN lastPill ELSE 0]
        BY <2>3 DEF Ask
      <4>2. QED
        BY <2>1, <4>1
    <3>3. QED
      BY <2>3, <3>1, <3>2
  <2>4. QED
    BY <2>2, <2>3
<1>7. /\ \A d \in Callers \ {c} : pc'[d] = pc[d] /\ fut'[d] = fut[d] /\ snapshot'[d] = snapshot[d]
      /\ pc'[c] = "idle" \/ (pc'[c] = "registering" /\ fut'[c] = "open")
  <2>1. \A d \in Callers \ {c} : pc'[d] = pc[d]
    BY <1>1, <1>6 DEF AskerTypes
  <2>2. \A d \in Callers \ {c} : fut'[d] = fut[d]
    BY <1>1, <1>6 DEF AskerTypes
  <2>3. \A d \in Callers \ {c} : snapshot'[d] = snapshot[d]
    BY <1>1, <1>6 DEF AskerTypes
  <2>4. pc'[c] = "idle" \/ (pc'[c] = "registering" /\ fut'[c] = "open")
    BY <1>1, <1>2, <1>6 DEF AskerTypes
  <2>5. QED
    BY <2>1, <2>2, <2>3, <2>4
<1>8. AskerTypes'
  <2>1. pc' \in [Callers -> {"idle", "registering", "sending", "waiting", "restoring",
                             "reshowing"}]
    BY <1>1, <1>6 DEF AskerTypes
  <2>2. fut' \in [Callers -> Answers \union {"open"}]
    BY <1>1, <1>6 DEF AskerTypes
  <2>3. snapshot' \in [Callers -> 0 .. MaxSessions]
    BY <1>1, <1>6 DEF AskerTypes
  <2>4. QED
    BY <1>1, <1>2, <1>3, <2>1, <2>2, <2>3 DEF AskerTypes
<1>9. Current'
  <2>1. \A r \in pending : r[1] \in Callers \ {c}
    BY <1>1, <1>2 DEF HudInv, Current, AskerTypes, Requests
  <2>2. QED
    BY <1>2, <1>3, <1>5, <1>7, <2>1 DEF HudInv, Current, Request
<1>10. Calls'
  BY <1>2, <1>3, <1>7 DEF HudInv, Calls, Open
<1>11. ASSUME NEW r \in Requests
       PROVE  OneCopy(r)' /\ Placed(r)' /\ \A a \in Answers : Fits(r, a)'
  <2>1. Drained(outbox, outbox', r) /\ r[1] \in Callers /\ r[2] \in Nat
    BY <1>4, HudAssumption DEF OutboxFits, Requests
  <2>2. OneCopy(r)' /\ (Posted(r)' => Posted(r))
    BY <1>5, <2>1 DEF HudInv, Papers, OneCopy, Posted, Drained
  <2>3. r[1] # c => Request(r[1])' = Request(r[1]) /\ asks'[r[1]] = asks[r[1]]
    BY <1>3, <2>1 DEF Request
  <2>4. r[1] = c /\ r[2] <= asks[c] => r # Request(r[1])' /\ r[2] <= asks'[r[1]]
    <3>1. Request(c)'[2] = asks'[c]
      BY DEF Request
    <3>2. QED
      BY <1>3, <2>1, <3>1 DEF Request
  <2>5. Placed(r)'
    BY <1>2, <1>7, <2>1, <2>2, <2>3, <2>4 DEF HudInv, Papers, Placed
  <2>6. ASSUME NEW a \in Answers PROVE Fits(r, a)'
    BY <1>2, <1>5, <1>7, <2>1, <2>3, <2>4 DEF HudInv, Papers, Fits, Open
  <2>7. QED
    BY <2>2, <2>5, <2>6
<1>12. QED
  BY <1>5, <1>8, <1>9, <1>10, <1>11 DEF HudInv, Papers

\* The card at the head of the page is answered once: it is nowhere else.
LEMMA HeadCard ==
  ASSUME HudInv, cards # <<>>
  PROVE  /\ Head(cards) \in Requests /\ Up(cards, Head(cards))
         /\ \A c \in Callers : Head(cards) = Request(c) /\ Open(c)
              => pc[c] = "waiting" /\ pressed[c] = {}
<1>1. Head(cards) \in Requests /\ Head(cards) = cards[1] /\ 1 \in 1 .. Len(cards)
  BY DEF HudInv, StoreTypes
<1>2. Up(cards, Head(cards))
  BY <1>1 DEF Up
<1>3. Placed(Head(cards)) /\ Posted(Head(cards))
  BY <1>1, <1>2 DEF HudInv, Papers, Posted
<1>4. QED
  BY <1>1, <1>2, <1>3 DEF Placed, Request, Open

LEMMA CardAnsweredStep ==
  ASSUME HudInv, NEW a \in Answers, CardAnswered(a)
  PROVE  HudInv'
<1>0. PICK r : r = Head(cards)
  OBVIOUS
<1> DEFINE d == r[1]
<1>1. AskerTypes /\ StoreTypes
  BY DEF HudInv
<1>2. /\ UNCHANGED <<pc, asks, fut, snapshot, pending, lastPill, armed, sessions, outbox, pipe,
                     givenUp>>
      /\ cards # <<>> /\ cards' = Without(cards, r)
      /\ events' = Append(events, Cmd("card_response", <<r, a>>)) \/ UNCHANGED events
  BY <1>0 DEF CardAnswered, Settled, Emit, arm, ladder
<1>3. pressed' = IF a # "timeout" /\ r = Request(d) /\ Open(d)
                   THEN [pressed EXCEPT ![d] = @ \union {a}] ELSE pressed
  BY <1>0 DEF CardAnswered
<1>4. r \in Requests /\ d \in Callers /\ Up(cards, r)
  BY <1>0, <1>2, HeadCard DEF Requests
<1>5. r = Request(d) /\ Open(d) => pc[d] = "waiting" /\ pressed[d] = {}
  BY <1>0, <1>2, <1>4, HeadCard
<1> HIDE DEF d
<1>6. /\ \A c \in Callers \ {d} : pressed'[c] = pressed[c]
      /\ pressed'[d] # pressed[d] => r = Request(d) /\ pc[d] = "waiting"
      /\ pressed[d] \subseteq pressed'[d]
      /\ r = Request(d) /\ Open(d) => a \in pressed'[d] \union {"timeout"}
      /\ pressed' \in [Callers -> SUBSET {"yes", "no"}]
  <2>1. CASE a # "timeout" /\ r = Request(d) /\ Open(d)
    <3>1. pressed' = [pressed EXCEPT ![d] = @ \union {a}] /\ a \in {"yes", "no"}
      BY <1>3, <2>1 DEF Answers
    <3>2. QED
      BY <1>1, <1>4, <1>5, <2>1, <3>1 DEF AskerTypes
  <2>2. CASE ~(a # "timeout" /\ r = Request(d) /\ Open(d))
    BY <1>1, <1>3, <2>2 DEF AskerTypes
  <2>3. QED
    BY <2>1, <2>2
<1>7. /\ cards' \in Seq(Requests) /\ ~Up(cards', r)
      /\ \A q : Cleared(cards, cards', q)
  <2>1. UpOnce(cards, r)
    BY <1>4 DEF HudInv, Papers, OneCopy
  <2>2. QED
    BY <1>1, <1>2, <2>1, WithoutUp DEF StoreTypes, Cleared
<1>8. /\ events' \in Seq(Events)
      /\ \A q, b : Heard(events', q, b) => Heard(events, q, b) \/ (q = r /\ b = a)
  <2> DEFINE e == Cmd("card_response", <<r, a>>)
  <2>1. e \in Events /\ \A q, b : Says(e, q, b) => q = r /\ b = a
    BY <1>4 DEF Events, Cmd, Says
  <2> HIDE DEF e
  <2>2. CASE events' = Append(events, e)
    BY <1>1, <2>1, <2>2, AppendHeard DEF StoreTypes
  <2>3. CASE UNCHANGED events
    BY <1>1, <2>3 DEF StoreTypes
  <2>4. QED
    BY <1>2, <2>2, <2>3 DEF e
<1>9. StoreTypes' /\ AskerTypes'
  BY <1>1, <1>2, <1>6, <1>7, <1>8 DEF StoreTypes, AskerTypes
<1>10. Current'
  BY <1>2 DEF HudInv, Current, Request
<1>11. Calls'
  BY <1>2, <1>6 DEF HudInv, Calls, Open
<1>12. ASSUME NEW q \in Requests
       PROVE  OneCopy(q)' /\ Placed(q)' /\ \A b \in Answers : Fits(q, b)'
  <2>1. q[1] \in Callers /\ OneCopy(q) /\ Placed(q)
    BY DEF HudInv, Papers, Requests
  <2>2. OneCopy(q)' /\ (Posted(q)' => Posted(q))
    BY <1>2, <1>7, <2>1 DEF OneCopy, Posted, Cleared
  <2>3. ~Posted(r)'
    BY <1>2, <1>4, <1>7 DEF HudInv, Papers, OneCopy, Posted
  <2>4. Placed(q)'
    <3>1. CASE q = r
      BY <2>3, <3>1 DEF Placed
    <3>2. CASE q # r
      <4>1. q = Request(q[1]) => pressed'[q[1]] = pressed[q[1]]
        BY <1>6, <2>1, <3>2 DEF d
      <4>2. QED
        BY <1>2, <2>1, <2>2, <4>1 DEF Placed, Request
    <3>3. QED
      BY <3>1, <3>2
  <2>5. ASSUME NEW b \in Answers PROVE Fits(q, b)'
    <3>1. pressed[q[1]] \subseteq pressed'[q[1]]
      BY <1>6, <2>1
    <3>2. CASE Heard(events, q, b)
      BY <1>2, <3>1, <3>2 DEF HudInv, Papers, Fits, Request, Open
    <3>3. CASE q = r /\ b = a
      <4>1. Placed(r) /\ Posted(r)
        BY <1>4 DEF HudInv, Papers, Posted
      <4>2. r[2] <= asks[d]
        BY <4>1 DEF Placed, d
      <4>3. QED
        BY <1>2, <1>6, <3>3, <4>2 DEF Fits, Request, Open, d
    <3>4. QED
      BY <1>8, <3>2, <3>3 DEF Fits
  <2>6. QED
    BY <2>2, <2>4, <2>5
<1>13. QED
  BY <1>9, <1>10, <1>11, <1>12 DEF HudInv, Papers

-----------------------------------------------------------------------------
(* The invariant holds                                                     *)

LEMMA InitInv == Init => HudInv
<1> SUFFICES ASSUME Init PROVE HudInv
  OBVIOUS
<1>1. AskerTypes
  BY HudAssumption DEF Init, AskerTypes
<1>2. StoreTypes
  <2>1. Cmd("start", 0) \in Commands
    BY DEF Commands
  <2>2. QED
    BY <2>1, HudAssumption DEF Init, StoreTypes
<1>3. Current /\ Calls
  BY DEF Init, Current, Calls, Open
<1>4. ASSUME NEW r \in Requests
      PROVE  OneCopy(r) /\ Placed(r) /\ \A a \in Answers : Fits(r, a)
  <2>1. ~Sent(outbox, r) /\ SentOnce(outbox, r)
    BY DEF Init, Sent, SentOnce, Shows, Cmd
  <2>2. /\ ~Sent(pipe, r) /\ SentOnce(pipe, r) /\ ~Up(cards, r) /\ UpOnce(cards, r)
        /\ \A a : ~Heard(events, r, a)
    BY BlankIsEmpty DEF Init
  <2>3. QED
    BY <2>1, <2>2 DEF OneCopy, Placed, Posted, Fits
<1>5. QED
  BY <1>1, <1>2, <1>3, <1>4 DEF HudInv, Papers

LEMMA NextInv == HudInv /\ [Next]_vars => HudInv'
<1> SUFFICES ASSUME HudInv, [Next]_vars PROVE HudInv'
  OBVIOUS
<1>1. CASE UNCHANGED vars
  <2>1. /\ UNCHANGED <<asker, pending, givenUp, outbox, pipe, cards, events>>
        /\ UNCHANGED <<lastPill, armed, sessions>>
    BY <1>1 DEF vars, asker
  <2>2. QED
    BY <2>1, UnchangedFit, ShrinkingStep
<1>2. CASE RunCoroutine
  BY <1>2, RunCoroutineStep
<1>3. CASE RespawnStarts \/ RespawnWakes
  BY <1>3, RespawnStartsStep, RespawnWakesStep
<1>4. CASE ReadEvent
  BY <1>4, ReadEventStep
<1>5. ASSUME NEW c \in Callers, Ask(c) \/ Asking(c) PROVE HudInv'
  <2>1. CASE Ask(c) \/ Register(c) \/ SendCard(c)
    BY <2>1, AskStep, RegisterStep, SendCardStep
  <2>2. CASE Answered(c) \/ TimesOut(c) \/ Restore(c) \/ Reshow(c)
    BY <2>2, AnsweredStep, TimesOutStep, RestoreStep
  <2>3. QED
    BY <1>5, <2>1, <2>2 DEF Asking
<1>6. ASSUME NEW ok \in BOOLEAN, Arm(ok) PROVE HudInv'
  BY <1>6, ArmStep
<1>7. CASE CardExpires \/ UserAnswers
  BY <1>7, CardAnsweredStep DEF CardExpires, UserAnswers, Answers
<1>8. CASE Flush
  BY <1>8, FlushStep
<1>9. CASE \/ AudioFrame \/ Heartbeat \/ ReadEof \/ Disarm
           \/ Load \/ ReadyWatchdog \/ StopClicked \/ RendererDies \/ Crash \/ Hang
           \/ QuitLocks \/ QuitReaps
  BY <1>9, PlainSteps
<1>10. QED
  BY <1>1, <1>2, <1>3, <1>4, <1>5, <1>6, <1>7, <1>8, <1>9 DEF Next

\* Whatever crashes, hangs, reloads and respawns: the card of a question is in one
\* place at most between the launcher and the page, an open future in _pending_cards is
\* the one its thread waits for, and what the page says about an open question is what
\* the user pressed on its card or that it expired (launcher.py).
THEOREM HudInvariant == Spec => []HudInv
BY InitInv, NextInv, PTL DEF Spec

\* Nobody waits for a HUD that was given up: what the launcher still keeps open then
\* belongs to a thread that is about to see that its card cannot be sent.
THEOREM NobodyIsLeft == Spec => []NobodyWaitsOnGivenUp
<1>1. HudInv => NobodyWaitsOnGivenUp
  BY DEF HudInv, Current, NobodyWaitsOnGivenUp, Request
<1>2. QED
  BY <1>1, HudInvariant, PTL

-----------------------------------------------------------------------------
(* The launcher implements HudConsent                                      *)

\* What HudConsent's variables stand for.
AskingNow == {c \in Callers : Open(c)}
ResultNow == [c \in Callers |-> IF Open(c) \/ asks[c] = 0 THEN "none" ELSE fut[c]]
Stays == UNCHANGED <<AskingNow, pressed, ResultNow>>

LEMMA MappedNext ==
  ASSUME \/ Stays
         \/ \E c \in Callers :
              \/ /\ c \notin AskingNow /\ AskingNow' = AskingNow \union {c}
                 /\ ResultNow' = [ResultNow EXCEPT ![c] = "none"] /\ UNCHANGED pressed
              \/ /\ c \notin AskingNow /\ ResultNow' = [ResultNow EXCEPT ![c] = Default[c]]
                 /\ UNCHANGED <<AskingNow, pressed>>
              \/ /\ c \in AskingNow /\ AskingNow' = AskingNow \ {c}
                 /\ \E a \in pressed[c] \union {Default[c], "timeout"} :
                      ResultNow' = [ResultNow EXCEPT ![c] = a]
                 /\ pressed' = [pressed EXCEPT ![c] = {}]
              \/ \E a \in {"yes", "no"} :
                   /\ c \in AskingNow /\ pressed[c] = {}
                   /\ pressed' = [pressed EXCEPT ![c] = {a}]
                   /\ UNCHANGED <<AskingNow, ResultNow>>
  PROVE  [Consent!Next]_(Consent!vars)
BY Zenon DEF Stays, AskingNow, ResultNow, Consent!Next, Consent!vars, Consent!Ask, Consent!Refused,
          Consent!Return, Consent!Press

\* A step that moves no caller in or out of its call, and changes no answer given.
LEMMA UnseenStep ==
  ASSUME HudInv, UNCHANGED <<asks, pressed>>,
         \A c \in Callers : Open(c)' <=> Open(c),
         \A c \in Callers : ~Open(c) => fut'[c] = fut[c]
  PROVE  Stays
<1>1. AskingNow' = AskingNow
  BY DEF AskingNow
<1>2. ResultNow' = ResultNow
  <2>1. \A c \in Callers : (IF Open(c) \/ asks[c] = 0 THEN "none" ELSE fut[c])'
                           = IF Open(c) \/ asks[c] = 0 THEN "none" ELSE fut[c]
    OBVIOUS
  <2>2. QED
    BY <2>1 DEF ResultNow
<1>3. QED
  BY <1>1, <1>2 DEF Stays

\* An answer that ends a call is one its caller may be told.
LEMMA LeaveReturns ==
  ASSUME HudInv, NEW c \in Callers, Open(c), NEW answer, Leave(c, answer),
         answer \in pressed[c] \union {Default[c], "timeout"}
  PROVE  [Consent!Next]_(Consent!vars)
<1>1. AskerTypes
  BY DEF HudInv
<1>2. /\ UNCHANGED asks /\ pressed' = [pressed EXCEPT ![c] = {}]
      /\ fut'[c] = answer /\ pc'[c] \in {"restoring", "idle"}
      /\ \A d \in Callers \ {c} : fut'[d] = fut[d] /\ pc'[d] = pc[d]
  BY <1>1 DEF Leave, AskerTypes
<1>3. asks[c] # 0
  BY DEF HudInv, Calls, Open
<1>4. c \in AskingNow /\ AskingNow' = AskingNow \ {c}
  BY <1>2 DEF AskingNow, Open
<1>5. ResultNow' = [ResultNow EXCEPT ![c] = answer]
  <2>1. (IF Open(c) \/ asks[c] = 0 THEN "none" ELSE fut[c])' = answer
    BY <1>2, <1>3 DEF Open
  <2>2. ASSUME NEW d \in Callers \ {c}
        PROVE  (IF Open(d) \/ asks[d] = 0 THEN "none" ELSE fut[d])'
               = IF Open(d) \/ asks[d] = 0 THEN "none" ELSE fut[d]
    BY <1>2 DEF Open
  <2>3. QED
    BY <2>1, <2>2 DEF ResultNow
<1>6. QED
  BY <1>2, <1>4, <1>5, MappedNext

LEMMA ReturnSteps ==
  ASSUME HudInv, NEW c \in Callers, SendCard(c) \/ Answered(c) \/ TimesOut(c)
  PROVE  [Consent!Next]_(Consent!vars)
<1>1. CASE SendCard(c) /\ ~givenUp
  <2>1. /\ UNCHANGED <<asks, pressed, fut>> /\ pc[c] = "sending"
        /\ pc' = [pc EXCEPT ![c] = "waiting"]
    BY <1>1 DEF SendCard
  <2>2. \A d \in Callers : Open(d)' <=> Open(d)
    BY <2>1 DEF Open, HudInv, AskerTypes
  <2>3. QED
    BY <2>1, <2>2, UnseenStep, MappedNext
<1>2. CASE SendCard(c) /\ givenUp
  BY <1>2, LeaveReturns DEF SendCard, Open
<1>3. CASE Answered(c)
  <2>1. Open(c) /\ fut[c] # "open"
    BY <1>3 DEF Answered, Open
  <2>2. fut[c] \in pressed[c] \union {Default[c], "timeout"}
    BY <2>1 DEF HudInv, Calls
  <2>3. QED
    BY <1>3, <2>1, <2>2, LeaveReturns DEF Answered
<1>4. CASE TimesOut(c)
  BY <1>4, LeaveReturns DEF TimesOut, Open
<1>5. QED
  BY <1>1, <1>2, <1>3, <1>4

LEMMA AskOpens ==
  ASSUME HudInv, NEW c \in Callers, Ask(c)
  PROVE  [Consent!Next]_(Consent!vars)
<1>1. AskerTypes
  BY DEF HudInv
<1>2. /\ pc[c] = "idle" /\ ~Open(c) /\ UNCHANGED pressed
      /\ asks'[c] # 0 /\ \A d \in Callers \ {c} : asks'[d] = asks[d]
  BY <1>1, HudAssumption DEF Ask, Open, AskerTypes
<1>3. c \notin AskingNow
  BY <1>2 DEF AskingNow
<1>4. CASE givenUp
  <2>1. /\ UNCHANGED pc /\ fut'[c] = Default[c]
        /\ \A d \in Callers \ {c} : fut'[d] = fut[d]
    BY <1>1, <1>4 DEF Ask, AskerTypes
  <2>2. UNCHANGED AskingNow
    BY <2>1 DEF AskingNow, Open
  <2>3. ResultNow' = [ResultNow EXCEPT ![c] = Default[c]]
    <3>1. (IF Open(c) \/ asks[c] = 0 THEN "none" ELSE fut[c])' = Default[c]
      BY <1>2, <2>1 DEF Open
    <3>2. ASSUME NEW d \in Callers \ {c}
          PROVE  (IF Open(d) \/ asks[d] = 0 THEN "none" ELSE fut[d])'
                 = IF Open(d) \/ asks[d] = 0 THEN "none" ELSE fut[d]
      BY <1>2, <2>1 DEF Open
    <3>3. QED
      BY <3>1, <3>2 DEF ResultNow
  <2>4. QED
    BY <1>2, <1>3, <2>2, <2>3, MappedNext
<1>5. CASE ~givenUp
  <2>1. /\ pc'[c] = "registering"
        /\ \A d \in Callers \ {c} : fut'[d] = fut[d] /\ pc'[d] = pc[d]
    BY <1>1, <1>5 DEF Ask, AskerTypes
  <2>2. AskingNow' = AskingNow \union {c}
    BY <2>1 DEF AskingNow, Open
  <2>3. ResultNow' = [ResultNow EXCEPT ![c] = "none"]
    <3>1. (IF Open(c) \/ asks[c] = 0 THEN "none" ELSE fut[c])' = "none"
      BY <2>1 DEF Open
    <3>2. ASSUME NEW d \in Callers \ {c}
          PROVE  (IF Open(d) \/ asks[d] = 0 THEN "none" ELSE fut[d])'
                 = IF Open(d) \/ asks[d] = 0 THEN "none" ELSE fut[d]
      BY <1>2, <2>1 DEF Open
    <3>3. QED
      BY <3>1, <3>2 DEF ResultNow
  <2>4. QED
    BY <1>2, <1>3, <2>2, <2>3, MappedNext
<1>6. QED
  BY <1>4, <1>5

LEMMA PressMaps ==
  ASSUME HudInv, NEW a \in Answers, CardAnswered(a)
  PROVE  [Consent!Next]_(Consent!vars)
<1>1. PICK r : r = Head(cards)
  OBVIOUS
<1>2. r \in Requests /\ r[1] \in Callers
  BY <1>1, HeadCard DEF CardAnswered, Requests
<1>3. UNCHANGED <<pc, asks, fut>>
  BY DEF CardAnswered
<1>4. UNCHANGED <<AskingNow, ResultNow>>
  BY <1>3 DEF AskingNow, ResultNow, Open
<1>5. CASE a # "timeout" /\ r = Request(r[1]) /\ Open(r[1])
  <2>1. pressed[r[1]] = {} /\ a \in {"yes", "no"} /\ r[1] \in AskingNow
    BY <1>1, <1>2, <1>5, HeadCard DEF CardAnswered, Answers, AskingNow
  <2>2. pressed' = [pressed EXCEPT ![r[1]] = {a}]
    <3>1. pressed' = [pressed EXCEPT ![r[1]] = @ \union {a}]
      BY <1>1, <1>5 DEF CardAnswered
    <3>2. pressed[r[1]] \union {a} = {a}
      BY <2>1
    <3>3. QED
      BY <3>1, <3>2
  <2>3. QED
    BY <1>2, <1>4, <2>1, <2>2, MappedNext
<1>6. CASE ~(a # "timeout" /\ r = Request(r[1]) /\ Open(r[1]))
  <2>1. UNCHANGED pressed
    BY <1>1, <1>6 DEF CardAnswered
  <2>2. QED
    BY <1>4, <2>1, MappedNext DEF Stays
<1>7. QED
  BY <1>5, <1>6

\* A future that is answered by the launcher is of a call in progress.
LEMMA AnsweringIsUnseen ==
  ASSUME HudInv, UNCHANGED <<asks, pressed>>, \A c \in Callers : Open(c)' <=> Open(c),
         \A c \in Callers : fut'[c] # fut[c] => Request(c) \in pending
  PROVE  [Consent!Next]_(Consent!vars)
<1>1. \A c \in Callers : Request(c) \in pending => Open(c)
  BY DEF HudInv, Current, Request, Open
<1>2. QED
  BY <1>1, UnseenStep, MappedNext

LEMMA StepMaps == HudInv /\ [Next]_vars => [Consent!Next]_(Consent!vars)
<1> SUFFICES ASSUME HudInv, [Next]_vars PROVE [Consent!Next]_(Consent!vars)
  OBVIOUS
<1> DEFINE Silent == /\ UNCHANGED <<asks, pressed>>
                     /\ \A c \in Callers : Open(c)' <=> Open(c)
                     /\ \A c \in Callers : fut'[c] # fut[c] => Request(c) \in pending
<1>1. Silent => [Consent!Next]_(Consent!vars)
  BY AnsweringIsUnseen
<1>2. CASE UNCHANGED asker
  <2>1. Silent
    BY <1>2 DEF asker, Open
  <2>2. QED
    BY <1>1, <2>1
<1>3. CASE RespawnStarts \/ ReadEvent
  <2>1. UNCHANGED <<pc, asks, pressed>>
    BY <1>3 DEF RespawnStarts, ReadEvent
  <2>2. ASSUME NEW c \in Callers, fut'[c] # fut[c] PROVE Request(c) \in pending
    <3>1. CASE FailPending
      BY <2>2, <3>1 DEF FailPending
    <3>2. CASE ReadResponse
      <4>1. PICK r : r = Head(events).arg[1]
        OBVIOUS
      <4>2. r \in pending /\ fut' = [fut EXCEPT ![r[1]] = Head(events).arg[2]]
        BY <2>2, <3>2, <4>1 DEF ReadResponse
      <4>3. r[1] = c
        BY <2>2, <4>2 DEF HudInv, AskerTypes
      <4>4. QED
        BY <4>2, <4>3 DEF HudInv, Current
    <3>3. CASE UNCHANGED fut
      BY <2>2, <3>3
    <3>4. QED
      BY <1>3, <3>1, <3>2, <3>3 DEF RespawnStarts, ReadEvent, ReadReady, ReadStop
  <2>3. Silent
    BY <2>1, <2>2 DEF Open
  <2>4. QED
    BY <1>1, <2>3
<1>4. ASSUME NEW c \in Callers, Ask(c) \/ Asking(c) PROVE [Consent!Next]_(Consent!vars)
  <2>1. CASE Ask(c)
    BY <2>1, AskOpens
  <2>2. CASE SendCard(c) \/ Answered(c) \/ TimesOut(c)
    BY <2>2, ReturnSteps
  <2>3. CASE Register(c) \/ Restore(c) \/ Reshow(c)
    <3>1. UNCHANGED <<asks, pressed>>
      BY <2>3 DEF Register, Restore, Reshow
    <3>2. \A d \in Callers : Open(d)' <=> Open(d)
      BY <2>3 DEF Register, Restore, Reshow, Open, HudInv, AskerTypes
    <3>3. \A d \in Callers : fut'[d] # fut[d] => Request(d) \in pending
      BY <2>3 DEF Register, Restore, Reshow
    <3>4. QED
      BY <1>1, <3>1, <3>2, <3>3
  <2>4. QED
    BY <1>4, <2>1, <2>2, <2>3 DEF Asking
<1>5. CASE CardExpires \/ UserAnswers
  BY <1>5, PressMaps DEF CardExpires, UserAnswers, Answers
<1>6. \/ UNCHANGED asker \/ RespawnStarts \/ ReadEvent \/ CardExpires \/ UserAnswers
      \/ \E c \in Callers : Ask(c) \/ Asking(c)
  <2>1. UNCHANGED vars => UNCHANGED asker
    BY DEF vars, asker
  <2>2. RunCoroutine \/ AudioFrame \/ RespawnWakes \/ Heartbeat \/ ReadEof => UNCHANGED asker
    BY DEF RunCoroutine, AudioFrame, RespawnWakes, Heartbeat, ReadEof
  <2>3. (\E ok \in BOOLEAN : Arm(ok)) \/ Disarm \/ QuitLocks \/ QuitReaps => UNCHANGED asker
    BY DEF Arm, Disarm, QuitLocks, QuitReaps, away
  <2>4. \/ Load \/ ReadyWatchdog \/ Flush \/ StopClicked \/ RendererDies \/ Crash \/ Hang
        => UNCHANGED asker
    BY DEF Load, ReadyWatchdog, Flush, StopClicked, RendererDies, Crash, Hang, agent
  <2>5. QED
    BY <2>1, <2>2, <2>3, <2>4 DEF Next
<1>7. QED
  BY <1>2, <1>3, <1>4, <1>5, <1>6

LEMMA InitMaps == Init => Consent!Init
<1> SUFFICES ASSUME Init PROVE Consent!Init
  OBVIOUS
<1>1. AskingNow = {}
  BY DEF Init, AskingNow, Open
<1>2. ResultNow = [c \in Callers |-> "none"]
  BY DEF Init, ResultNow
<1>3. QED
  BY <1>1, <1>2, Zenon DEF Init, Consent!Init, AskingNow, ResultNow

\* Every call of ask_consent ends once, with the button pressed on that very card,
\* with "timeout" or with its own caller's default, through crashes, supersession and
\* a HUD that is given up: the launcher, its process and its page take only steps of
\* HudConsent. (That a call does end needs fairness and is TLC's part.)
THEOREM CallersAreAnswered == Spec => Consent!Init /\ [][Consent!Next]_(Consent!vars)
<1>1. HudInv /\ [Next]_vars => [Consent!Next]_(Consent!vars)
  BY StepMaps
<1>2. QED
  BY <1>1, InitMaps, HudInvariant, PTL DEF Spec
=============================================================================
