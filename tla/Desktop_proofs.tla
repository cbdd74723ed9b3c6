--------------------------- MODULE Desktop_proofs ---------------------------
(***************************************************************************)
(* Proofs about the two parts of Desktop: the token store and its three    *)
(* callers, the sign-ins of a window and the cached account status, for    *)
(* every number of token sets, sign-ins, faults and retries; the first-run *)
(* wizard, for every number of quits and mishaps.                          *)
(***************************************************************************)
EXTENDS Desktop, TLAPS

\* Token sets are numbered in the order in which the server issued them, and
\* nothing holds one that has not been issued.
Issued == 1 .. issued
TokenT == /\ issued \in 0 .. MaxTokens
          /\ disk \in {None, Torn} \cup Issued /\ mem \in {None} \cup Issued
          /\ tok \in [Callers -> {None} \cup Issued] /\ got \in [Callers -> {None} \cup Issued]
          /\ unexpired \subseteq Issued /\ accepted \subseteq Issued
          /\ refreshable \subseteq Issued /\ spent \subseteq Issued
CallerT == /\ pc \in [Callers -> {"idle", "token", "asks", "told", "send", "write"}]
           /\ lock \in Callers \cup {"free"} /\ again \subseteq Callers
           /\ tries \in 0 .. Attempts
BoolT == client \in BOOLEAN /\ blocked \in BOOLEAN /\ nudge \in BOOLEAN
StatusT == /\ agent \in {"down", "setup", "up"} /\ faults \in 0 .. MaxFaults
           /\ heard \in CachedStates \cup {"none"} /\ cache \in CachedStates \cup {"none"}
LoginT == /\ login \in [Logins -> LoginStates]
          /\ active \in {0} \cup Logins /\ cancelled \subseteq Logins

\* Whoever is inside the exchange of a refresh token holds the lock.
Exclusion == \A c \in Callers : pc[c] \in {"asks", "told"} => lock = c

\* What the agent would exchange next, or is exchanging, it has not exchanged;
\* an answer on its way is a set that nothing has used yet.
Unspent == /\ disk \notin spent /\ mem \notin spent
           /\ \A c \in Callers : pc[c] \in {"asks", "told"} => tok[c] # None /\ tok[c] \notin spent
           /\ \A c \in Callers : pc[c] = "told" /\ got[c] # None
                                   => got[c] \notin spent /\ got[c] # tok[c]

\* A status is on its way to the cache only if the server reported one.
HeardKnown == pc["poll"] = "write" => heard \in CachedStates

AInv == TokenT /\ CallerT /\ BoolT /\ StatusT /\ LoginT
        /\ Exclusion /\ Unspent /\ HeardKnown /\ NewestIsReachable

LEMMA AInvTypeOK == AInv => AccountTypeOK
BY AccountAssumption
DEF AInv, TokenT, CallerT, BoolT, StatusT, LoginT, AccountTypeOK, Tokens, None, Torn, Issued

LEMMA AInvExcludes == AInv => NoSelfRefusal
BY DEF AInv, Exclusion, Unspent, NoSelfRefusal

-----------------------------------------------------------------------------
LEMMA InitAInv == AccountInit => AInv
<1> SUFFICES ASSUME AccountInit PROVE AInv
  OBVIOUS
<1>1. BoolT
  BY Zenon DEF AccountInit, BoolT
<1>2. TokenT /\ CallerT /\ StatusT
  BY AccountAssumption DEF AccountInit, TokenT, CallerT, StatusT, Issued, None
<1>3. LoginT /\ NewestIsReachable
  BY DEF AccountInit, LoginT, LoginStates, NewestIsReachable, Running
<1>4. Exclusion /\ Unspent /\ HeardKnown
  BY DEF AccountInit, Exclusion, Unspent, HeardKnown, Callers
<1>5. QED
  BY <1>1, <1>2, <1>3, <1>4 DEF AInv

-----------------------------------------------------------------------------
(* The token store *)

\* Everything about the tokens and the callers.
TInv == TokenT /\ CallerT /\ Exclusion /\ Unspent

LEMMA LoadedType ==
  ASSUME TInv
  PROVE  Loaded \in {None} \cup Issued /\ Loaded \notin spent
BY AccountAssumption DEF TInv, TokenT, Unspent, Loaded, Issued, None, Torn

LEMMA AuthRequiredT ==
  ASSUME CallerT, NEW c \in Callers, AuthRequired(c)
  PROVE  /\ CallerT' <=> lock' \in Callers \cup {"free"}
         /\ tok' = [tok EXCEPT ![c] = None]
         /\ pc' = [pc EXCEPT ![c] = "idle"]
         /\ blocked' \in BOOLEAN
<1>1. blocked' \in BOOLEAN
  BY Zenon DEF AuthRequired
<1>2. QED
  BY <1>1, AccountAssumption DEF CallerT, AuthRequired, Goto, Drops

LEMMA TransientT ==
  ASSUME CallerT, BoolT, NEW c \in Callers, Transient(c)
  PROVE  /\ CallerT' <=> lock' \in Callers \cup {"free"}
         /\ tok' = [tok EXCEPT ![c] = None]
         /\ pc' \in {[pc EXCEPT ![c] = "idle"], [pc EXCEPT ![c] = "token"]}
         /\ blocked' \in BOOLEAN
<1>1. blocked' \in BOOLEAN
  BY Zenon DEF Transient, BoolT
<1>2. QED
  BY <1>1, AccountAssumption DEF CallerT, Transient, Goto, Drops

\* The caller c is put at a point outside the exchange; the token sets in the
\* files and in the server are as they were, or the cached one was forgotten.
LEMMA CallerMoves ==
  ASSUME TInv, NEW c \in Callers, NEW to \in {"idle", "token", "send", "write"},
         pc' = [pc EXCEPT ![c] = to],
         tok' \in [Callers -> {None} \cup Issued], \A d \in Callers \ {c} : tok'[d] = tok[d],
         lock' = lock \/ (lock' = "free" /\ lock = c),
         CallerT' <=> lock' \in Callers \cup {"free"},
         mem' \in {mem, None, Loaded}, got' \in {got, [got EXCEPT ![c] = None]},
         UNCHANGED <<disk, server, spent>>
  PROVE  TInv'
<1>1. TokenT'
  BY LoadedType DEF TInv, TokenT, server, Issued, None
<1>2. CallerT'
  BY DEF TInv, CallerT
<1>3. \A d \in Callers : pc'[d] \in {"asks", "told"} =>
        d # c /\ pc'[d] = pc[d] /\ tok'[d] = tok[d] /\ got'[d] = got[d] /\ lock' = d
  BY DEF TInv, CallerT, TokenT, Exclusion
<1>4. Exclusion' /\ Unspent'
  BY <1>3, LoadedType DEF TInv, Exclusion, Unspent, TokenT, Issued, None
<1>5. QED
  BY <1>1, <1>2, <1>4 DEF TInv

LEMMA GetTokenInv ==
  ASSUME TInv, BoolT, NEW c \in Callers, GetToken(c)
  PROVE  TInv' /\ blocked' \in BOOLEAN
<1>1. CASE Loaded = None /\ AuthRequired(c) /\ UNCHANGED lock
  BY <1>1, AuthRequiredT, CallerMoves DEF GetToken, TInv, TokenT, None
<1>2. CASE Loaded # None /\ Loaded \in unexpired /\ HasToken(c, Loaded) /\ UNCHANGED <<lock, again, tries>>
  <2>1. blocked' \in BOOLEAN
    BY <1>2, Zenon DEF HasToken, BoolT
  <2>2. PICK to \in {"idle", "send"} : pc' = [pc EXCEPT ![c] = to]
    BY <1>2 DEF HasToken, Goto
  <2>3. tok' \in [Callers -> {None} \cup Issued] /\ \A d \in Callers \ {c} : tok'[d] = tok[d]
    BY <1>2, LoadedType DEF HasToken, Drops, TInv, TokenT
  <2>4. CallerT'
    BY <1>2, <2>2 DEF TInv, CallerT
  <2>5. QED
    BY <1>2, <2>1, <2>2, <2>3, <2>4, CallerMoves DEF GetToken, TInv, CallerT
<1>3. CASE /\ Loaded # None /\ Loaded \notin unexpired
           /\ lock' = c /\ Goto(c, "asks") /\ tok' = [tok EXCEPT ![c] = Loaded]
           /\ UNCHANGED <<again, tries, blocked>>
  <2>1. lock = "free"
    BY DEF GetToken, MayEnter, Unlocked
  <2>2. \A d \in Callers : pc[d] \notin {"asks", "told"}
    BY <2>1 DEF TInv, Exclusion, Callers
  <2>3. TokenT' /\ CallerT'
    BY <1>3, LoadedType DEF GetToken, TInv, TokenT, CallerT, Goto, server, Issued
  <2>4. Exclusion' /\ Unspent'
    BY <1>3, <2>2, LoadedType DEF GetToken, TInv, TokenT, CallerT, Goto, Exclusion, Unspent
  <2>5. QED
    BY <1>3, <2>3, <2>4 DEF TInv, BoolT
<1>4. QED
  BY <1>1, <1>2, <1>3 DEF GetToken

LEMMA IssueType ==
  ASSUME TokenT, NEW dead, Issue(dead)
  PROVE  /\ issued' = issued + 1 /\ issued' \in 0 .. MaxTokens
         /\ Issued \subseteq Issued' /\ issued + 1 \in Issued' /\ issued + 1 \notin Issued
         /\ issued + 1 # Torn
         /\ unexpired' \subseteq Issued' /\ accepted' \subseteq Issued' /\ refreshable' \subseteq Issued'
<1>1. /\ issued < MaxTokens /\ issued' = issued + 1
      /\ unexpired' = unexpired \cup {issued + 1} /\ accepted' = accepted \cup {issued + 1}
      /\ refreshable' = (refreshable \ dead) \cup {issued + 1}
  BY DEF Issue
<1>2. /\ issued' \in 0 .. MaxTokens /\ issued + 1 # Torn
      /\ Issued \subseteq Issued' /\ issued + 1 \in Issued' /\ issued + 1 \notin Issued
  BY <1>1, AccountAssumption DEF TokenT, Issued, Torn
<1>3. QED
  BY <1>1, <1>2 DEF TokenT

LEMMA ExchangeInv ==
  ASSUME TInv, NEW c \in Callers, Exchange(c)
  PROVE  TInv'
<1>1. /\ pc' = [pc EXCEPT ![c] = "told"] /\ pc[c] = "asks"
      /\ UNCHANGED <<disk, mem, lock, tok, again, tries, spent>>
  BY DEF Exchange, Goto, tokenFiles
<1>2. CallerT' /\ Exclusion'
  BY <1>1 DEF TInv, CallerT, Exclusion
<1>3. CASE Issue({tok[c]}) /\ got' = [got EXCEPT ![c] = issued + 1]
  <2>1. TokenT'
    BY <1>1, <1>3, IssueType DEF TInv, TokenT
  <2>2. issued + 1 # None /\ issued + 1 \notin spent /\ issued + 1 # tok[c]
    BY <1>3, IssueType DEF TInv, TokenT, None, Issued
  <2>3. Unspent'
    BY <1>1, <1>3, <2>2 DEF TInv, TokenT, CallerT, Unspent
  <2>4. QED
    BY <1>2, <2>1, <2>3 DEF TInv
<1>4. CASE UNCHANGED server /\ got' = [got EXCEPT ![c] = None]
  <2>1. TokenT'
    BY <1>1, <1>4 DEF TInv, TokenT, server, Issued
  <2>2. Unspent'
    BY <1>1, <1>4 DEF TInv, TokenT, CallerT, Unspent
  <2>3. QED
    BY <1>2, <2>1, <2>2 DEF TInv
<1>5. QED
  BY <1>3, <1>4 DEF Exchange

LEMMA RefreshedInv ==
  ASSUME TInv, BoolT, NEW c \in Callers, Refreshed(c)
  PROVE  TInv' /\ blocked' \in BOOLEAN
<1>1. /\ pc[c] = "told" /\ lock = c /\ lock' = "free" /\ got' = [got EXCEPT ![c] = None]
      /\ UNCHANGED server /\ tok[c] # None /\ tok[c] \notin spent
  BY DEF Refreshed, TInv, Exclusion, Unspent
<1>2. \A d \in Callers \ {c} : pc[d] \notin {"asks", "told"}
  BY <1>1 DEF TInv, Exclusion
<1>3. CASE got[c] # None
  <2>1. /\ disk' = got[c] /\ mem' = got[c] /\ spent' = spent \cup {tok[c]}
        /\ HasToken(c, got[c]) /\ UNCHANGED <<again, tries>>
    BY <1>3 DEF Refreshed
  <2>2. blocked' \in BOOLEAN
    BY <2>1, Zenon DEF HasToken, BoolT
  <2>3. got[c] \in Issued /\ got[c] \notin spent /\ got[c] # tok[c] /\ tok[c] \in Issued
    BY <1>1, <1>3 DEF TInv, TokenT, Unspent
  <2>4. pc' = [pc EXCEPT ![c] = "idle"] \/ pc' = [pc EXCEPT ![c] = "send"]
    BY <2>1 DEF HasToken, Goto
  <2>5. tok' \in [Callers -> {None} \cup Issued]
    BY <2>1, <2>3 DEF HasToken, Drops, TInv, TokenT
  <2>6. TokenT'
    BY <1>1, <2>1, <2>3, <2>5 DEF TInv, TokenT, server, Issued
  <2>7. CallerT' /\ \A d \in Callers : pc'[d] \notin {"asks", "told"}
    BY <1>1, <1>2, <2>1, <2>4 DEF TInv, CallerT
  <2>8. Exclusion' /\ Unspent'
    BY <2>1, <2>3, <2>7 DEF Exclusion, Unspent
  <2>9. QED
    BY <2>2, <2>6, <2>7, <2>8 DEF TInv
<1>4. CASE got[c] = None
  <2>1. AuthRequired(c) /\ UNCHANGED <<disk, mem, spent>>
    BY <1>4 DEF Refreshed, tokenFiles
  <2>2. tok' \in [Callers -> {None} \cup Issued] /\ \A d \in Callers \ {c} : tok'[d] = tok[d]
    BY <2>1, AuthRequiredT DEF TInv, TokenT
  <2>3. QED
    BY <1>1, <2>1, <2>2, AuthRequiredT, CallerMoves DEF TInv
<1>5. QED
  BY <1>3, <1>4

LEMMA RefreshLostInv ==
  ASSUME TInv, BoolT, NEW c \in Callers, RefreshLost(c)
  PROVE  TInv' /\ blocked' \in BOOLEAN
<1>1. /\ lock = c /\ lock' = "free" /\ got' = [got EXCEPT ![c] = None]
      /\ Transient(c) /\ UNCHANGED <<disk, mem, server, spent>>
  BY DEF RefreshLost, TInv, Exclusion, tokenFiles
<1>2. tok' \in [Callers -> {None} \cup Issued] /\ \A d \in Callers \ {c} : tok'[d] = tok[d]
  BY <1>1, TransientT DEF TInv, TokenT
<1>3. QED
  BY <1>1, <1>2, TransientT, CallerMoves DEF TInv

-----------------------------------------------------------------------------
(* The client and its callers *)

\* A caller that is idle starts.
LEMMA StartsInv ==
  ASSUME TInv, PollStarts \/ UploadStarts \/ ProbeStarts
  PROVE  TInv'
<1>1. PICK c \in Callers : /\ pc' = [pc EXCEPT ![c] = "token"]
                           /\ UNCHANGED <<disk, lock, tok, again, got, tries, server, spent>>
                           /\ mem' \in {mem, None}
  BY DEF PollStarts, UploadStarts, ProbeStarts, Goto, tokenFiles, Callers, Reloaded, Forgotten
<1>2. CallerT'
  BY <1>1 DEF TInv, CallerT
<1>3. QED
  BY <1>1, <1>2, CallerMoves DEF TInv, TokenT, CallerT

LEMMA MappedKnown ==
  ASSUME NEW s \in ServerStates, Mapped(s) # "none"
  PROVE  Mapped(s) \in CachedStates
BY AccountAssumption DEF Mapped, CachedStates

LEMMA RespondsInv ==
  ASSUME TInv, BoolT, StatusT, HeardKnown, NEW c \in Callers, Responds(c)
  PROVE  TInv' /\ blocked' \in BOOLEAN /\ StatusT' /\ HeardKnown'
<1>0. /\ UNCHANGED <<disk, mem, lock, got, server, spent, agent>> /\ pc[c] = "send"
      /\ faults' \in 0 .. MaxFaults
  BY AccountAssumption DEF Responds, RefreshAndCache, tokenFiles, process, Fault, StatusT
<1>1. ASSUME NEW to \in {"idle", "token", "write"}, pc' = [pc EXCEPT ![c] = to],
             Drops(c), CallerT' <=> lock' \in Callers \cup {"free"}
      PROVE  TInv'
  <2>1. tok' \in [Callers -> {None} \cup Issued] /\ \A d \in Callers \ {c} : tok'[d] = tok[d]
    BY <1>1 DEF Drops, TInv, TokenT
  <2>2. QED
    BY <1>0, <1>1, <2>1, CallerMoves DEF TInv, CallerT
<1>2. ASSUME pc' = [pc EXCEPT ![c] = "idle"] \/ pc' = [pc EXCEPT ![c] = "token"],
             UNCHANGED statusKnown
      PROVE  StatusT' /\ HeardKnown'
  <2>1. heard' = heard /\ cache' = cache /\ agent' = agent
    BY <1>0, <1>2 DEF statusKnown
  <2>2. pc'["poll"] = "write" => pc["poll"] = "write"
    BY <1>2 DEF TInv, CallerT, Callers
  <2>3. QED
    BY <1>0, <2>1, <2>2 DEF StatusT, HeardKnown
<1>3. CASE tok[c] \notin accepted /\ Unauthorized(c) /\ UNCHANGED <<statusKnown, faults>>
  <2>1. CASE AuthRequired(c)
    BY <1>1, <1>2, <1>3, <2>1, AuthRequiredT DEF TInv, AuthRequired
  <2>2. CASE /\ again' = again \cup {c} /\ Goto(c, "token") /\ Drops(c)
             /\ UNCHANGED <<tries, blocked>>
    <3>1. CallerT' <=> lock' \in Callers \cup {"free"}
      BY <2>2 DEF TInv, CallerT, Goto
    <3>2. QED
      BY <1>1, <1>2, <1>3, <2>2, <3>1 DEF Goto, BoolT
  <2>3. QED
    BY <1>3, <2>1, <2>2 DEF Unauthorized
<1>4. CASE /\ tok[c] \in accepted /\ c = "poll"
           /\ \E s \in ServerStates :
                IF Mapped(s) = "none" THEN Goto(c, "idle") /\ UNCHANGED heard
                ELSE Goto(c, "write") /\ heard' = Mapped(s)
           /\ again' = again \ {c} /\ Drops(c) /\ tries' = 0
           /\ UNCHANGED <<cache, blocked, faults>>
  <2>1. PICK to \in {"idle", "write"} : pc' = [pc EXCEPT ![c] = to]
    BY <1>4 DEF Goto
  <2>2. CallerT' <=> lock' \in Callers \cup {"free"}
    BY <1>4, <2>1, AccountAssumption DEF TInv, CallerT
  <2>3. StatusT' /\ HeardKnown'
    BY <1>0, <1>4, MappedKnown DEF StatusT, HeardKnown, TInv, CallerT, Goto
  <2>4. QED
    BY <1>1, <1>4, <2>1, <2>2, <2>3 DEF BoolT
<1>5. CASE /\ tok[c] \in accepted /\ c = "upload" /\ Goto(c, "idle")
           /\ again' = again \ {c} /\ Drops(c) /\ UNCHANGED <<statusKnown, tries, blocked, faults>>
  <2>1. CallerT' <=> lock' \in Callers \cup {"free"}
    BY <1>5 DEF TInv, CallerT, Goto
  <2>2. QED
    BY <1>1, <1>2, <1>5, <2>1 DEF Goto, BoolT
<1>6. CASE Fault /\ Transient(c) /\ UNCHANGED statusKnown
  BY <1>1, <1>2, <1>6, TransientT DEF TInv, Transient
<1>7. QED
  BY <1>3, <1>4, <1>5, <1>6 DEF Responds, RefreshAndCache

LEMMA WriteCacheInv ==
  ASSUME TInv, StatusT, HeardKnown, WriteCache
  PROVE  TInv' /\ StatusT' /\ HeardKnown'
<1>1. /\ pc' = [pc EXCEPT !["poll"] = "idle"] /\ "poll" \in Callers
      /\ UNCHANGED <<disk, mem, lock, tok, again, got, tries, server, spent, agent>>
  BY DEF WriteCache, Goto, tokenFiles, process, Callers
<1>2. CallerT'
  BY <1>1 DEF TInv, CallerT
<1>3. TInv'
  BY <1>1, <1>2, CallerMoves DEF TInv, TokenT, CallerT
<1>4. QED
  BY <1>1, <1>3, AccountAssumption DEF WriteCache, StatusT, HeardKnown, TInv, CallerT, Fault

-----------------------------------------------------------------------------
(* The windows, and the service *)

\* The callers stay where they are; the server may have issued a token set, and
\* the file may now hold that one.
LEMMA SameCallers ==
  ASSUME TInv, UNCHANGED <<lock, request>>,
         issued' \in 0 .. MaxTokens, issued =< issued',
         unexpired' \subseteq Issued', accepted' \subseteq Issued', refreshable' \subseteq Issued',
         disk' \in {disk, None, Torn} \/ (disk' = issued' /\ issued < issued'),
         mem' \in {mem, None}, UNCHANGED spent
  PROVE  TInv'
<1>1. Issued \subseteq Issued' /\ Torn \notin Issued /\ None \notin Issued
      /\ (issued < issued' => issued' \in Issued' /\ issued' \notin Issued)
  BY AccountAssumption DEF TInv, TokenT, Issued, Torn, None
<1>2. TokenT'
  BY <1>1 DEF TInv, TokenT, request
<1>3. disk' \notin spent' /\ mem' \notin spent'
  BY <1>1 DEF TInv, TokenT, Unspent
<1>4. CallerT' /\ Exclusion'
  BY DEF TInv, CallerT, Exclusion, request
<1>5. Unspent'
  BY <1>3 DEF TInv, Unspent, request
<1>6. QED
  BY <1>2, <1>4, <1>5 DEF TInv

\* The tokens, the callers and the files are not touched at all.
LEMMA Untouched ==
  ASSUME TInv, UNCHANGED <<tokenFiles, lock, request, server, spent>>
  PROVE  TInv'
BY DEF TInv, TokenT, CallerT, Exclusion, Unspent, tokenFiles, request, server, Issued

LEMMA LoginStepInv ==
  ASSUME LoginT, NewestIsReachable, NEW l \in Logins,
         StartLogin(l) \/ Callback(l) \/ LoginCancelled(l) \/ LoginFails(l) \/ LoggedIn(l)
  PROVE  LoginT' /\ NewestIsReachable'
<1>0. Logins \subseteq Nat /\ 0 \notin Logins
  BY AccountAssumption DEF Logins
<1>1. CASE StartLogin(l)
  <2>1. /\ login' = [login EXCEPT ![l] = "browser"] /\ active' = l
        /\ cancelled' = cancelled \cup ({active} \ {0})
        /\ \A m \in Logins : m < l => login[m] # "none"
    BY <1>1 DEF StartLogin
  <2>2. LoginT'
    BY <2>1 DEF LoginT, LoginStates
  <2>3. \A k \in Logins : k < l \/ k = l \/ k > l
    BY <1>0
  <2>4. ASSUME NEW k \in Logins, Running(k)', \A m \in Logins : m > k => login'[m] = "none"
        PROVE  k = l \/ k \in cancelled'
    <3>1. CASE k > l
      <4>1. Running(k) /\ \A m \in Logins : m > k => login[m] = "none"
        BY <1>0, <2>1, <2>4, <3>1 DEF Running, LoginT
      <4>2. active = k \/ k \in cancelled
        BY <4>1 DEF NewestIsReachable
      <4>3. QED
        BY <1>0, <2>1, <4>2
    <3>2. CASE k < l
      BY <2>1, <2>4, <3>2 DEF LoginT
    <3>3. QED
      BY <2>3, <3>1, <3>2
  <2>5. QED
    BY <2>1, <2>2, <2>4 DEF NewestIsReachable
<1>2. CASE Callback(l)
  <2>1. /\ login[l] = "browser" /\ login' = [login EXCEPT ![l] = "exchange"]
        /\ UNCHANGED <<active, cancelled>>
    BY <1>2 DEF Callback
  <2>2. LoginT'
    BY <2>1 DEF LoginT, LoginStates
  <2>3. \A k \in Logins : (Running(k)' => Running(k)) /\ (login'[k] = "none" => login[k] = "none")
    BY <2>1 DEF Running, LoginT
  <2>4. QED
    BY <2>1, <2>2, <2>3 DEF NewestIsReachable
<1>3. CASE LoginEnds(l) /\ login[l] # "none"
  <2>1. /\ login' = [login EXCEPT ![l] = "over"] /\ active' = (IF active = l THEN 0 ELSE active)
        /\ cancelled' = cancelled \ {l}
    BY <1>3 DEF LoginEnds, Released, IfOurs
  <2>2. LoginT'
    BY <2>1 DEF LoginT, LoginStates
  <2>3. \A k \in Logins : /\ (Running(k)' => Running(k) /\ k # l)
                          /\ (login'[k] = "none" => login[k] = "none")
    BY <2>1 DEF Running, LoginT
  <2>4. QED
    BY <2>1, <2>2, <2>3 DEF NewestIsReachable
<1>4. QED
  BY <1>1, <1>2, <1>3 DEF LoginCancelled, LoginFails, LoggedIn, Running

LEMMA SameLogins ==
  ASSUME LoginT, NewestIsReachable, UNCHANGED <<login, active>>,
         cancelled \subseteq cancelled', cancelled' \subseteq Logins
  PROVE  LoginT' /\ NewestIsReachable'
BY DEF LoginT, NewestIsReachable, Running

\* A step of a window or of the world after which the callers stay where they are.
LEMMA LoggedInInv ==
  ASSUME TInv, StatusT, NEW l \in Logins, LoggedIn(l)
  PROVE  TInv' /\ faults' \in 0 .. MaxFaults
<1>1. Issue({}) /\ UNCHANGED <<mem, lock, request, spent>> /\ TokenT
  BY DEF LoggedIn, TInv
<1>2. /\ issued' = issued + 1 /\ issued' \in 0 .. MaxTokens /\ issued \in 0 .. MaxTokens
      /\ unexpired' \subseteq Issued' /\ accepted' \subseteq Issued' /\ refreshable' \subseteq Issued'
  BY <1>1, IssueType DEF TokenT
<1>3. disk' = issued' \/ disk' = Torn
  BY <1>2 DEF LoggedIn
<1>4. TInv'
  BY <1>1, <1>2, <1>3, SameCallers, AccountAssumption
<1>5. QED
  BY <1>4, AccountAssumption DEF LoggedIn, StatusT, Fault

LEMMA WorldInv ==
  ASSUME TInv, StatusT, Expire \/ Revoke
  PROVE  TInv' /\ faults' \in 0 .. MaxFaults
<1>1. /\ UNCHANGED <<disk, mem, lock, request, issued, spent>>
      /\ unexpired' \subseteq unexpired /\ accepted' \subseteq accepted
      /\ refreshable' \subseteq refreshable
  BY DEF Expire, Revoke, tokenFiles
<1>2. TInv'
  BY <1>1, SameCallers, AccountAssumption DEF TInv, TokenT, Issued
<1>3. QED
  BY <1>2, AccountAssumption DEF Expire, Revoke, StatusT, Fault

\* Nobody asks any more: a new event loop.
LEMMA RestartInv ==
  ASSUME TInv, NobodyAsks, UNCHANGED server, disk' \in {disk, Torn}, spent' \in {spent, {}}
  PROVE  TInv' /\ heard' = "none" /\ pc' = [c \in Callers |-> "idle"]
<1>1. TokenT' /\ CallerT'
  BY AccountAssumption DEF TInv, TokenT, CallerT, NobodyAsks, server, Issued, None
<1>2. Torn \notin spent /\ None \notin spent
  BY AccountAssumption DEF TInv, TokenT, Issued, Torn, None
<1>3. Exclusion' /\ Unspent'
  BY <1>2 DEF TInv, NobodyAsks, Exclusion, Unspent
<1>4. QED
  BY <1>1, <1>3 DEF TInv, NobodyAsks

LEMMA FinishSetupInv ==
  ASSUME TInv, StatusT, FinishSetup
  PROVE  TInv' /\ StatusT' /\ HeardKnown' /\ client' \in BOOLEAN
<1>1. client' \in BOOLEAN
  <2>1. client' = HasTokens
    BY DEF FinishSetup
  <2>2. HasTokens \in BOOLEAN
    BY DEF HasTokens
  <2>3. QED
    BY <2>1, <2>2, Zenon
<1>2. QED
  BY <1>1, RestartInv DEF FinishSetup, StatusT, HeardKnown, Callers

LEMMA CrashInv ==
  ASSUME TInv, StatusT, Crash
  PROVE  TInv' /\ StatusT' /\ HeardKnown'
<1>1. disk' \in {disk, Torn} /\ spent' = {} /\ NobodyAsks /\ UNCHANGED server
  BY DEF Crash
<1>2. agent' = "down" /\ cache' = cache /\ faults' \in 0 .. MaxFaults
  BY AccountAssumption DEF Crash, AfterCrash, Remembered, StatusT, Fault
<1>3. QED
  BY <1>1, <1>2, RestartInv DEF StatusT, HeardKnown, Callers

LEMMA BootInv ==
  ASSUME TInv, Boot, StatusT, HeardKnown
  PROVE  TInv' /\ StatusT' /\ HeardKnown' /\ client' \in BOOLEAN
<1>1. client' \in BOOLEAN
  BY Zenon DEF Boot
<1>2. TInv'
  BY Untouched DEF Boot
<1>3. QED
  BY <1>1, <1>2 DEF Boot, StatusT, HeardKnown, request, statusKnown

-----------------------------------------------------------------------------
(* Every step *)

LEMMA NextAInv == AInv /\ [AccountNext]_accountVars => AInv'
<1> SUFFICES ASSUME AInv, [AccountNext]_accountVars PROVE AInv'
  OBVIOUS
<1> USE DEF AInv
<1>0. TInv
  BY DEF TInv
<1>1. CASE UNCHANGED accountVars
  <2>1. BoolT'
    BY <1>1, Zenon DEF accountVars, BoolT
  <2>2. TInv' /\ StatusT' /\ HeardKnown'
    BY <1>0, <1>1, Untouched
    DEF accountVars, tokenFiles, request, server, StatusT, HeardKnown
  <2>3. LoginT' /\ NewestIsReachable'
    BY <1>1, SameLogins DEF accountVars, LoginT
  <2>4. QED
    BY <2>1, <2>2, <2>3 DEF TInv
<1>2. ASSUME NEW c \in Callers, Caller(c)
      PROVE  AInv'
  <2>1. UNCHANGED logins /\ UNCHANGED <<client, nudge, agent>>
    BY <1>2 DEF Caller, GetToken, Exchange, Refreshed, RefreshLost, Responds, RefreshAndCache, process
  <2>2. LoginT' /\ NewestIsReachable'
    BY <2>1, SameLogins DEF logins, LoginT
  <2>3. CASE Responds(c)
    <3>1. TInv' /\ blocked' \in BOOLEAN /\ StatusT' /\ HeardKnown'
      BY <1>0, <2>3, RespondsInv
    <3>2. BoolT'
      BY <2>1, <3>1, Zenon DEF BoolT
    <3>3. QED
      BY <2>2, <3>1, <3>2 DEF TInv
  <2>4. CASE GetToken(c) \/ Exchange(c) \/ Refreshed(c) \/ RefreshLost(c)
    <3>1. TInv' /\ blocked' \in BOOLEAN
      <4>1. CASE Exchange(c)
        <5>1. blocked' \in BOOLEAN
          BY <4>1, Zenon DEF Exchange, BoolT
        <5>2. QED
          BY <1>0, <4>1, <5>1, ExchangeInv
      <4>2. QED
        BY <1>0, <2>4, <4>1, GetTokenInv, RefreshedInv, RefreshLostInv
    <3>2. BoolT'
      BY <2>1, <3>1, Zenon DEF BoolT
    <3>3. /\ UNCHANGED statusKnown /\ faults' \in 0 .. MaxFaults
          /\ pc'["poll"] = "write" => pc["poll"] = "write"
      BY <2>4, AccountAssumption
      DEF GetToken, Exchange, Refreshed, RefreshLost, StatusT, Fault, CallerT, HasToken,
          AuthRequired, Transient, Goto, Callers
    <3>4. StatusT' /\ HeardKnown'
      BY <2>1, <3>3 DEF StatusT, HeardKnown, statusKnown
    <3>5. QED
      BY <2>2, <3>1, <3>2, <3>4 DEF TInv
  <2>5. QED
    BY <1>2, <2>3, <2>4 DEF Caller
<1>3. CASE PollStarts \/ UploadStarts \/ ProbeStarts
  <2>1. BoolT'
    BY <1>3, Zenon DEF PollStarts, UploadStarts, ProbeStarts, BoolT, process
  <2>2. TInv'
    BY <1>0, <1>3, StartsInv
  <2>3. StatusT' /\ HeardKnown'
    BY <1>3 DEF PollStarts, UploadStarts, ProbeStarts, Goto, StatusT, HeardKnown, CallerT,
                Callers, process, statusKnown
  <2>4. LoginT' /\ NewestIsReachable'
    BY <1>3, SameLogins DEF PollStarts, UploadStarts, ProbeStarts, logins, LoginT
  <2>5. QED
    BY <2>1, <2>2, <2>3, <2>4 DEF TInv
<1>4. CASE WriteCache
  <2>1. BoolT'
    BY <1>4, Zenon DEF WriteCache, BoolT, process
  <2>2. LoginT' /\ NewestIsReachable'
    BY <1>4, SameLogins DEF WriteCache, logins, LoginT
  <2>3. QED
    BY <1>0, <1>4, <2>1, <2>2, WriteCacheInv DEF TInv
<1>5. ASSUME NEW l \in Logins, Login(l)
      PROVE  AInv'
  <2>1. UNCHANGED <<request, process, blocked, statusKnown, nudge, spent, lock>>
    BY <1>5 DEF Login, StartLogin, Callback, LoginCancelled, LoginFails, LoggedIn
  <2>2. BoolT'
    BY <2>1, Zenon DEF BoolT, process
  <2>3. LoginT' /\ NewestIsReachable'
    BY <1>5, LoginStepInv DEF Login
  <2>4. TInv' /\ faults' \in 0 .. MaxFaults
    <3>1. CASE LoggedIn(l)
      BY <1>0, <3>1, LoggedInInv
    <3>2. CASE UNCHANGED <<tokenFiles, lock, request, server, spent, faults>>
      BY <1>0, <3>2, Untouched DEF StatusT
    <3>3. QED
      BY <1>5, <3>1, <3>2 DEF Login, StartLogin, Callback, LoginCancelled, LoginFails
  <2>5. StatusT' /\ HeardKnown'
    BY <2>1, <2>4 DEF StatusT, HeardKnown, statusKnown, process, request
  <2>6. QED
    BY <2>2, <2>3, <2>4, <2>5 DEF TInv
<1>6. CASE CancelLogin \/ SignOut \/ InvalidateCache \/ Expire \/ Revoke
  <2>1. UNCHANGED <<lock, request, process, blocked, statusKnown, spent>> /\ nudge' \in BOOLEAN
    <3>1. nudge' \in BOOLEAN
      BY <1>6, Zenon DEF CancelLogin, SignOut, InvalidateCache, Expire, Revoke, BoolT
    <3>2. QED
      BY <1>6, <3>1 DEF CancelLogin, SignOut, InvalidateCache, Expire, Revoke
  <2>2. BoolT'
    BY <2>1, Zenon DEF BoolT, process
  <2>3. LoginT' /\ NewestIsReachable'
    BY <1>6, SameLogins
    DEF CancelLogin, SignOut, InvalidateCache, Expire, Revoke, logins, LoginT
  <2>4. TInv' /\ faults' \in 0 .. MaxFaults
    <3>1. CASE Expire \/ Revoke
      BY <1>0, <3>1, WorldInv
    <3>2. CASE CancelLogin \/ SignOut \/ InvalidateCache
      <4>1. /\ disk' \in {disk, None} /\ mem' \in {mem, None}
            /\ UNCHANGED <<server, faults>>
        BY <3>2 DEF CancelLogin, SignOut, InvalidateCache, tokenFiles
      <4>2. TInv'
        BY <1>0, <2>1, <4>1, SameCallers, AccountAssumption DEF TokenT, server, Issued
      <4>3. QED
        BY <4>1, <4>2 DEF StatusT
    <3>3. QED
      BY <1>6, <3>1, <3>2
  <2>5. StatusT' /\ HeardKnown'
    BY <2>1, <2>4 DEF StatusT, HeardKnown, statusKnown, process, request
  <2>6. QED
    BY <2>2, <2>3, <2>4, <2>5 DEF TInv
<1>7. CASE Boot \/ FinishSetup \/ Crash
  <2>1. TInv' /\ StatusT' /\ HeardKnown'
    BY <1>0, <1>7, BootInv, FinishSetupInv, CrashInv
  <2>2. BoolT'
    <3>1. CASE Boot \/ FinishSetup
      <4>1. UNCHANGED <<blocked, nudge>>
        BY <3>1 DEF Boot, FinishSetup
      <4>2. client' \in BOOLEAN
        BY <1>0, <3>1, BootInv, FinishSetupInv
      <4>3. QED
        BY <4>1, <4>2, Zenon DEF BoolT
    <3>2. CASE Crash
      BY <3>2, Zenon DEF Crash, BoolT
    <3>3. QED
      BY <1>7, <3>1, <3>2
  <2>3. LoginT' /\ NewestIsReachable'
    BY <1>7, SameLogins DEF Boot, FinishSetup, Crash, logins, LoginT
  <2>4. QED
    BY <2>1, <2>2, <2>3 DEF TInv
<1>8. QED
  BY <1>1, <1>2, <1>3, <1>4, <1>5, <1>6, <1>7 DEF AccountNext

\* The gate opens only when a status that the server reported is written.
LEMMA GateStep == AInv /\ [AccountNext]_accountVars => (~ArmAllowed /\ ArmAllowed' => heard = "ok")
<1> SUFFICES ASSUME AInv, [AccountNext]_accountVars, ~ArmAllowed, ArmAllowed'
             PROVE  heard = "ok"
  OBVIOUS
<1>1. cache' # cache
  BY DEF ArmAllowed, ReadCache
<1>2. WriteCache
  BY <1>1
  DEF AccountNext, accountVars, Caller, GetToken, Exchange, Refreshed, RefreshLost, Responds, RefreshAndCache,
      PollStarts, UploadStarts, ProbeStarts, Login, StartLogin, Callback, LoginCancelled,
      LoginFails, LoggedIn, CancelLogin, SignOut, InvalidateCache, Boot, FinishSetup, Crash,
      AfterCrash, Remembered, Expire, Revoke, statusKnown
<1>3. pc["poll"] = "write" /\ cache' = heard
  BY <1>1, <1>2 DEF WriteCache
<1>4. QED
  BY <1>3 DEF AInv, HeardKnown, ArmAllowed, ReadCache, BlockedStates, CachedStates

-----------------------------------------------------------------------------
(* The wizard: which page is open says what has been reached.                *)

AccessPages == {"microphone", "audio-capture", "accessibility"}
LastPages == {"shortcut", "indicator", "done"}

WizardT ==
  /\ {mac, sees, signingIn, hurried} \subseteq BOOLEAN
  /\ token \in {"none", "good"} /\ says \in {"ok", "blocked"} /\ known \in Statuses
  /\ perm \in [Asked \cup {"trust"} -> {"ask", "yes", "no"}]
  /\ proc \in {"off", "gate", "window", "exiting", "agent"}
  /\ screen \in Screens /\ (~mac => screen \notin AccessPages)
  /\ news \in [1 .. 2 -> {"none", "asking"} \cup Statuses]
  /\ check \in {"none", "asking"} \cup Statuses

\* Without a window there is no page and no request of one.
Closed == proc \in {"off", "gate", "agent"} =>
            /\ screen = "none" /\ ui = "idle" /\ ~signingIn /\ check = "none"
            /\ \A i \in 1 .. 2 : news[i] = "none"

\* After the welcome page there is a token, and a request for the account status
\* is made with one.
SignedIn == /\ screen \notin {"none", "loading", "welcome"} => token # "none"
            /\ check # "none" \/ (\E i \in 1 .. 2 : news[i] # "none") => token # "none"

\* As long as no sign-in began before the last one was answered there is one request
\* at a time, made from the page that shows its answer; what has been answered is what
\* the file says, and behind these two pages it does not say blocked.
OneRequest ==
  ~hurried =>
    /\ signingIn => screen = "welcome" /\ \A i \in 1 .. 2 : news[i] = "none"
    /\ \A i \in 1 .. 2 : news[i] # "none" =>
         /\ screen = "welcome" /\ news[i] \in {"asking", known}
         /\ \A j \in 1 .. 2 : news[j] # "none" => j = i
    /\ check # "none" => screen = "finish-signup" /\ check \in {"asking", known}
    /\ screen \in AccessPages \cup LastPages => known # "blocked"

\* A page behind a permission's, and a marker of having been there, mean that macOS
\* has recorded it; the one page that takes a permission back is not behind it.
Granted ==
  mac =>
    /\ screen \in {"audio-capture", "accessibility"} \cup LastPages => perm["mic"] = "yes"
    /\ screen \in {"accessibility"} \cup LastPages => perm["tap"] = "yes"
    /\ screen \in LastPages => perm["trust"] = "yes"
    /\ "resume" \in marks => perm["mic"] = "yes" /\ perm["tap"] = "yes"
    /\ "onboarded" \in marks => \A p \in Asked \cup {"trust"} : perm[p] = "yes"
    /\ sees => perm["trust"] = "yes"
    /\ ui = "pending" => screen \in {"microphone", "audio-capture"}
    /\ ui = "granted" => \/ screen = "microphone" /\ perm["mic"] = "yes"
                         \/ screen = "audio-capture" /\ perm["tap"] = "yes"
    /\ ui = "trusted" => screen = "accessibility" /\ perm["trust"] = "yes"
    /\ ui = "stale" => screen = "audio-capture" /\ marks \cap {"resume", "onboarded"} = {}

WizardInv == WizardT /\ Closed /\ SignedIn /\ OneRequest /\ Granted /\ saved = wanted

LEMMA WalkFacts ==
  /\ First = IF mac THEN "microphone" ELSE "shortcut"
  /\ mac => /\ Following["microphone"] = "audio-capture"
            /\ Following["audio-capture"] = "accessibility"
            /\ Following["accessibility"] = "shortcut"
  /\ Following["shortcut"] = "indicator"
<1>1. CASE mac
  <2>1. Walk = <<"welcome", "microphone", "audio-capture", "accessibility",
                 "shortcut", "indicator", "done">>
    BY <1>1 DEF Walk
  <2>2. Len(Walk) = 7 /\ DOMAIN Walk = 1 .. 7
    BY <2>1
  <2>3. \A i, j \in 1 .. 7 : Walk[i] = Walk[j] => i = j
    BY <2>1
  <2>4. ASSUME NEW i \in 1 .. 6 PROVE Following[Walk[i]] = Walk[1 + i]
    <3>1. Walk[i] \in {Walk[j] : j \in 1 .. Len(Walk) - 1}
      BY <2>2
    <3>2. Following[Walk[i]] = Walk[1 + CHOOSE j \in DOMAIN Walk : Walk[j] = Walk[i]]
      BY <3>1 DEF Following
    <3>3. (CHOOSE j \in DOMAIN Walk : Walk[j] = Walk[i]) = i
      BY <2>2, <2>3
    <3>4. QED
      BY <3>2, <3>3
  <2>5. QED
    BY <1>1, <2>1, <2>4 DEF First
<1>2. CASE ~mac
  <2>1. Walk = <<"welcome", "shortcut", "indicator", "done">>
    BY <1>2 DEF Walk
  <2>2. Len(Walk) = 4 /\ DOMAIN Walk = 1 .. 4
    BY <2>1
  <2>3. \A i, j \in 1 .. 4 : Walk[i] = Walk[j] => i = j
    BY <2>1
  <2>4. ASSUME NEW i \in 1 .. 3 PROVE Following[Walk[i]] = Walk[1 + i]
    <3>1. Walk[i] \in {Walk[j] : j \in 1 .. Len(Walk) - 1}
      BY <2>2
    <3>2. Following[Walk[i]] = Walk[1 + CHOOSE j \in DOMAIN Walk : Walk[j] = Walk[i]]
      BY <3>1 DEF Following
    <3>3. (CHOOSE j \in DOMAIN Walk : Walk[j] = Walk[i]) = i
      BY <2>2, <2>3
    <3>4. QED
      BY <3>2, <3>3
  <2>5. QED
    BY <1>2, <2>1, <2>4 DEF First
<1>3. QED
  BY <1>1, <1>2

LEMMA WizardStarts == SetupInit => WizardInv
BY DEF SetupInit, WizardInv, WizardT, Closed, SignedIn, OneRequest, Granted, Statuses, Screens,
       Asked, AccessPages, LastPages

\* Steps of the process, the account and the server, which no page takes.
LEMMA LockSteps ==
  ASSUME WizardInv, Launch \/ Spawned
  PROVE  WizardInv'
<1>1. UNCHANGED <<files, page, talks, past, mac, perm, says>>
  BY DEF Launch, Spawned
<1>2. \/ UNCHANGED <<proc, sees>>
      \/ proc = "off" /\ proc' = "gate" /\ sees' = (perm["trust"] = "yes")
  BY DEF Launch, Spawned, Locked
<1>3. sees' \in BOOLEAN /\ (sees' => sees \/ perm["trust"] = "yes")
  <2>1. sees \in BOOLEAN
    BY DEF WizardInv, WizardT
  <2>2. CASE sees' = sees
    BY <2>1, <2>2
  <2>3. CASE sees' = (perm["trust"] = "yes")
    BY <2>3
  <2>4. QED
    BY <1>2, <2>2, <2>3
<1>4. WizardT'
  BY <1>1, <1>2, <1>3 DEF WizardInv, WizardT, files, page, talks, past
<1>5. Closed'
  BY <1>1, <1>2 DEF WizardInv, Closed, page, talks
<1>6. SignedIn' /\ OneRequest' /\ saved' = wanted'
  BY <1>1 DEF WizardInv, SignedIn, OneRequest, files, page, talks, past
<1>7. Granted'
  BY <1>1, <1>3 DEF WizardInv, Granted, files, page
<1>8. QED
  BY <1>4, <1>5, <1>6, <1>7 DEF WizardInv

LEMMA OutsideSteps ==
  ASSUME WizardInv, GateDecides \/ AgentQuits \/ AgentHears \/ AccountReady \/ AccountBlocked
  PROVE  WizardInv'
<1>1. /\ UNCHANGED <<system, talks, past, marks, saved, ui>>
      /\ proc' \in {"off", "gate", "window", "exiting", "agent"} /\ says' \in {"ok", "blocked"}
      /\ token' \in {token, "none"} /\ known' \in Statuses
  BY DEF GateDecides, AgentQuits, AgentHears, AccountReady, AccountBlocked, files, page, WizardInv,
         WizardT, Statuses
<1>2. \/ UNCHANGED <<token, known, screen, proc>>
      \/ /\ proc \in {"gate", "agent"}
         /\ \/ screen' = screen
            \/ screen' = "loading" /\ proc' = "window"
  BY DEF GateDecides, AgentQuits, AgentHears, AccountReady, AccountBlocked, files, page
<1>3. WizardT'
  BY <1>1, <1>2 DEF WizardInv, WizardT, system, talks, past, Screens, AccessPages
<1>4. Closed'
  BY <1>1, <1>2 DEF WizardInv, Closed, talks
<1>5. SignedIn'
  BY <1>1, <1>2 DEF WizardInv, SignedIn, Closed, talks
<1>6. OneRequest'
  BY <1>1, <1>2 DEF WizardInv, OneRequest, Closed, talks, past, AccessPages, LastPages
<1>7. Granted'
  BY <1>1, <1>2 DEF WizardInv, Granted, Closed, system, LastPages
<1>8. QED
  BY <1>1, <1>3, <1>4, <1>5, <1>6, <1>7 DEF WizardInv, past

\* The end of a window, by itself, by the user or at the end of the wizard.
LEMMA WindowSteps ==
  ASSUME WizardInv, Exited \/ Closes \/ Finishes
  PROVE  WizardInv'
<1>1. /\ UNCHANGED <<mac, perm, sees, token, known, saved, wanted, hurried, says>>
      /\ proc' \in {"off", "agent"} /\ marks' \subseteq marks \cup {"seen"} /\ NoPage
  BY DEF Exited, Closes, Finishes, Exits, files, system, past
<1>2. WizardT'
  BY <1>1 DEF WizardInv, WizardT, NoPage, Screens, AccessPages
<1>3. Closed' /\ SignedIn'
  BY <1>1 DEF Closed, SignedIn, NoPage
<1>4. OneRequest'
  BY <1>1 DEF OneRequest, NoPage, AccessPages, LastPages
<1>5. Granted'
  BY <1>1 DEF WizardInv, Granted, NoPage, LastPages
<1>6. QED
  BY <1>1, <1>2, <1>3, <1>4, <1>5 DEF WizardInv

\* The first page of a window.
LEMMA LoadStep ==
  ASSUME WizardInv, Loads
  PROVE  WizardInv'
<1>1. /\ UNCHANGED <<system, talks, past, token, known, saved, says, proc, ui>>
      /\ marks' \subseteq marks /\ screen = "loading" /\ screen' = InitialScreen /\ proc = "window"
  BY DEF Loads, On
<1>2. /\ screen' \in {"welcome", "finish-signup", "done", "accessibility", First}
      /\ screen' # "welcome" => token # "none"
      /\ screen' \notin {"welcome", "finish-signup"} => known # "blocked"
      /\ screen' = "done" => "onboarded" \in marks
      /\ screen' = "accessibility" => mac /\ "resume" \in marks
  BY <1>1, WalkFacts DEF InitialScreen, Blocked, IsComplete
<1>3. WizardT'
  BY <1>1, <1>2, WalkFacts DEF WizardInv, WizardT, system, talks, past, Screens, AccessPages
<1>4. Closed' /\ SignedIn'
  BY <1>1, <1>2 DEF WizardInv, Closed, SignedIn, talks
<1>5. OneRequest'
  BY <1>1, <1>2 DEF WizardInv, OneRequest, talks, past, AccessPages, LastPages
<1>6. Granted'
  BY <1>1, <1>2, WalkFacts DEF WizardInv, Granted, system, LastPages, Asked
<1>7. QED
  BY <1>1, <1>3, <1>4, <1>5, <1>6 DEF WizardInv, past

\* A sign-in and the request that follows it.
LEMMA SignInSteps ==
  ASSUME WizardInv, StartsLogin \/ SignInFails \/ \E i \in 1 .. 2 : LoginDone(i)
  PROVE  WizardInv'
<1>1. UNCHANGED <<system, page, known, marks, saved, wanted, check, says, proc>> /\ proc = "window"
  BY DEF StartsLogin, SignInFails, LoginDone, On, files, past
<1>2. CASE StartsLogin
  <2>1. /\ screen = "welcome" /\ signingIn' = TRUE /\ UNCHANGED <<token, news>>
        /\ hurried' = (hurried \/ \E i \in 1 .. 2 : news[i] # "none")
    BY <1>2 DEF StartsLogin, On, files
  <2>2. hurried' \in BOOLEAN /\ (~hurried' => ~hurried /\ \A i \in 1 .. 2 : news[i] = "none")
    BY <2>1 DEF WizardInv, WizardT
  <2>3. WizardT'
    BY <1>1, <2>1, <2>2 DEF WizardInv, WizardT, system, page
  <2>4. Closed' /\ SignedIn' /\ Granted'
    BY <1>1, <2>1 DEF WizardInv, Closed, SignedIn, Granted, system, page
  <2>5. OneRequest'
    BY <1>1, <2>1, <2>2 DEF WizardInv, OneRequest, page
  <2>6. QED
    BY <1>1, <2>3, <2>4, <2>5 DEF WizardInv
<1>3. CASE SignInFails
  <2>1. UNCHANGED <<token, news, hurried>> /\ signingIn' = FALSE
    BY <1>3 DEF SignInFails, files, past
  <2>2. WizardT' /\ Closed' /\ SignedIn'
    BY <1>1, <2>1 DEF WizardInv, WizardT, Closed, SignedIn, system, page
  <2>3. Granted'
    BY <1>1 DEF WizardInv, Granted, system, page
  <2>4. OneRequest'
    BY <1>1, <2>1 DEF WizardInv, OneRequest, page
  <2>5. QED
    BY <1>1, <2>2, <2>3, <2>4 DEF WizardInv
<1>4. ASSUME NEW i \in 1 .. 2, LoginDone(i) PROVE WizardInv'
  <2>1. /\ signingIn /\ signingIn' = FALSE /\ news[i] = "none" /\ token' = "good" /\ UNCHANGED hurried
        /\ news' = [news EXCEPT ![i] = "asking"]
    BY <1>4 DEF LoginDone, past
  <2>2. news \in [1 .. 2 -> {"none", "asking"} \cup Statuses]
    BY DEF WizardInv, WizardT
  <2>3. news'[i] = "asking" /\ \A j \in 1 .. 2 \ {i} : news'[j] = news[j]
    BY <2>1, <2>2
  <2>4. WizardT'
    BY <1>1, <2>1, <2>2 DEF WizardInv, WizardT, system, page
  <2>5. Closed' /\ SignedIn' /\ Granted'
    BY <1>1, <2>1 DEF WizardInv, Closed, SignedIn, Granted, system, page
  <2>6. OneRequest'
    BY <1>1, <2>1, <2>3 DEF WizardInv, OneRequest, page
  <2>7. QED
    BY <1>1, <2>4, <2>5, <2>6 DEF WizardInv
<1>5. QED
  BY <1>2, <1>3, <1>4

\* The answers about the account, and what a page makes of them.
LEMMA NewsSteps ==
  ASSUME WizardInv, NEW i \in 1 .. 2, NewsComes(i) \/ NewsHandled(i)
  PROVE  WizardInv'
<1>1. news \in [1 .. 2 -> {"none", "asking"} \cup Statuses] /\ token # "none"
  BY DEF NewsComes, NewsHandled, WizardInv, WizardT, SignedIn, Statuses
<1>2. /\ UNCHANGED <<mac, perm, sees, past, token, saved, signingIn, check, says, proc>>
      /\ marks' \subseteq marks /\ proc = "window"
  BY DEF NewsComes, NewsHandled, files, system
<1>3. CASE NewsComes(i)
  <2>1. news' = [news EXCEPT ![i] = known'] /\ UNCHANGED page /\ known' \in Statuses /\ news[i] = "asking"
    BY <1>3 DEF NewsComes, StatusFetched, WizardInv, WizardT, Statuses
  <2>2. news'[i] = known' /\ \A j \in 1 .. 2 \ {i} : news'[j] = news[j]
    BY <1>1, <2>1
  <2>3. WizardT'
    BY <1>1, <1>2, <2>1 DEF WizardInv, WizardT, page, past
  <2>4. Closed' /\ SignedIn' /\ Granted'
    BY <1>1, <1>2, <2>1 DEF WizardInv, Closed, SignedIn, Granted, page
  <2>5. OneRequest'
    BY <1>2, <2>1, <2>2 DEF WizardInv, OneRequest, page, past, AccessPages, LastPages, Statuses
  <2>6. QED
    BY <1>2, <2>3, <2>4, <2>5 DEF WizardInv, past
<1>4. CASE NewsHandled(i)
  <2>1. /\ news' = [news EXCEPT ![i] = "none"] /\ UNCHANGED <<known, marks>> /\ news[i] \in Statuses
        /\ ui' = "idle" /\ screen' \in {"finish-signup", First}
        /\ news[i] = "blocked" => screen' = "finish-signup"
    BY <1>4 DEF NewsHandled, AfterSignIn, files
  <2>2. news'[i] = "none" /\ \A j \in 1 .. 2 \ {i} : news'[j] = news[j]
    BY <1>1, <2>1
  <2>3. WizardT'
    BY <1>1, <1>2, <2>1, WalkFacts DEF WizardInv, WizardT, past, Screens, AccessPages
  <2>4. Closed' /\ SignedIn'
    BY <1>1, <1>2, <2>1 DEF WizardInv, Closed, SignedIn
  <2>5. Granted'
    BY <1>2, <2>1, WalkFacts DEF WizardInv, Granted, LastPages
  <2>6. OneRequest'
    BY <1>2, <2>1, <2>2, WalkFacts DEF WizardInv, OneRequest, past, AccessPages, LastPages, Statuses
  <2>7. QED
    BY <1>2, <2>1, <2>3, <2>4, <2>5, <2>6 DEF WizardInv, past
<1>5. QED
  BY <1>3, <1>4

LEMMA CheckSteps ==
  ASSUME WizardInv, ChecksAgain \/ CheckComes \/ CheckHandled
  PROVE  WizardInv'
<1>1. /\ UNCHANGED <<system, past, token, saved, signingIn, news, says, proc>>
      /\ marks' \subseteq marks /\ proc = "window" /\ token # "none"
  BY DEF ChecksAgain, CheckComes, CheckHandled, files, On, WizardInv, SignedIn, Statuses
<1>2. known' \in Statuses /\ check' \in {"none", "asking"} \cup Statuses
  BY DEF ChecksAgain, CheckComes, CheckHandled, StatusFetched, files, WizardInv, WizardT, Statuses
<1>3. CASE ChecksAgain \/ CheckComes
  <2>1. /\ UNCHANGED page /\ check' \in {"asking", known'}
        /\ \/ screen = "finish-signup" /\ check = "none" /\ UNCHANGED known
           \/ check = "asking"
    BY <1>3 DEF ChecksAgain, CheckComes, files, On
  <2>2. WizardT' /\ Closed' /\ SignedIn' /\ Granted'
    BY <1>1, <1>2, <2>1 DEF WizardInv, WizardT, Closed, SignedIn, Granted, system, page, past
  <2>3. OneRequest'
    BY <1>1, <2>1 DEF WizardInv, OneRequest, page, past, AccessPages, LastPages
  <2>4. QED
    BY <1>1, <2>2, <2>3 DEF WizardInv, past
<1>4. CASE CheckHandled
  <2>1. /\ UNCHANGED <<known, marks>> /\ check \in Statuses /\ check' = "none"
        /\ \/ UNCHANGED page
           \/ check = "ok" /\ screen' = First /\ ui' = "idle"
    BY <1>4 DEF CheckHandled, files
  <2>2. WizardT'
    BY <1>1, <2>1, WalkFacts DEF WizardInv, WizardT, system, page, past, Screens, AccessPages
  <2>3. Closed' /\ SignedIn'
    BY <1>1, <2>1 DEF WizardInv, Closed, SignedIn, page
  <2>4. Granted'
    BY <1>1, <2>1, WalkFacts DEF WizardInv, Granted, system, page, LastPages
  <2>5. OneRequest'
    BY <1>1, <2>1, WalkFacts DEF WizardInv, OneRequest, page, past, AccessPages, LastPages, Statuses
  <2>6. QED
    BY <1>1, <2>1, <2>2, <2>3, <2>4, <2>5 DEF WizardInv, past
<1>5. QED
  BY <1>3, <1>4

\* What macOS records, and the pages that ask for it.
LEMMA PermissionTypes ==
  ASSUME WizardInv, NEW p \in Asked \cup {"trust"}, NEW a \in {"ask", "yes", "no"},
         perm' = [perm EXCEPT ![p] = a]
  PROVE  /\ perm' \in [Asked \cup {"trust"} -> {"ask", "yes", "no"}] /\ perm'[p] = a
         /\ \A q \in (Asked \cup {"trust"}) \ {p} : perm'[q] = perm[q]
BY DEF WizardInv, WizardT

LEMMA PromptStep ==
  ASSUME WizardInv, PromptEnds
  PROVE  WizardInv'
<1>1. /\ UNCHANGED <<files, past, talks, mac, sees, says, proc, screen>>
      /\ proc = "window" /\ ui = "pending"
  BY DEF PromptEnds
<1>2. \/ screen = "microphone" /\ PromptsMic
      \/ screen # "microphone" /\ PromptsTap
  BY DEF PromptEnds
<1>3. "mic" \in Asked /\ "tap" \in Asked /\ "mic" # "tap"
  BY DEF Asked
<1>4. perm["mic"] \in {"ask", "yes", "no"} /\ perm["tap"] \in {"ask", "yes", "no"}
  BY <1>3 DEF WizardInv, WizardT
\* A permission that is recorded stays so, and a page says granted when it is.
<1>5. PICK p \in {"mic", "tap"}, a \in {"ask", "yes", "no"} :
        /\ p = (IF screen = "microphone" THEN "mic" ELSE "tap")
        /\ perm' = [perm EXCEPT ![p] = a] /\ (perm[p] = "yes" => a = "yes")
        /\ ui' \in {"granted", "idle", "stale", "denied"}
        /\ ui' = "granted" => a = "yes"
        /\ ui' = "stale" => p = "tap" /\ perm[p] # "yes"
  <2>1. CASE screen = "microphone"
    BY <1>2, <1>4, <2>1 DEF PromptsMic, Ends, PromptShows
  <2>2. CASE screen # "microphone"
    BY <1>2, <1>4, <2>2 DEF PromptsTap, Ends, PromptShows
  <2>3. QED
    BY <2>1, <2>2
<1>6. /\ perm' \in [Asked \cup {"trust"} -> {"ask", "yes", "no"}] /\ perm'[p] = a
      /\ \A q \in (Asked \cup {"trust"}) \ {p} : perm'[q] = perm[q]
  BY <1>3, <1>5, PermissionTypes
<1>7. WizardT'
  BY <1>1, <1>6 DEF WizardInv, WizardT, files, past, talks
<1>8. Closed' /\ SignedIn'
  BY <1>1 DEF WizardInv, Closed, SignedIn, files, talks
<1>9. OneRequest'
  BY <1>1 DEF WizardInv, OneRequest, files, past, talks
<1>10. Granted'
  <2> SUFFICES ASSUME mac PROVE Granted'
    BY <1>1 DEF Granted
  <2>1. screen \in {"microphone", "audio-capture"}
    BY <1>1 DEF WizardInv, Granted
  <2>2. /\ \A q \in Asked \cup {"trust"} : perm[q] = "yes" => perm'[q] = "yes"
        /\ perm[p] # "yes" /\ p = "tap" => marks \cap {"resume", "onboarded"} = {}
    BY <1>3, <1>5, <1>6 DEF WizardInv, Granted
  <2>3. QED
    BY <1>1, <1>3, <1>5, <1>6, <2>1, <2>2 DEF WizardInv, Granted, files, LastPages
<1>11. QED
  BY <1>1, <1>7, <1>8, <1>9, <1>10 DEF WizardInv, files, past

LEMMA EnableStep ==
  ASSUME WizardInv, NEW p \in DOMAIN perm, Enables(p)
  PROVE  WizardInv'
<1>1. /\ UNCHANGED <<files, page, past, talks, mac, says, proc>>
      /\ perm' = [perm EXCEPT ![p] = "yes"] /\ perm[p] = "no"
      /\ \/ UNCHANGED sees
         \/ p = "trust" /\ sees' \in BOOLEAN
  BY DEF Enables
<1>2. p \in Asked \cup {"trust"}
  BY DEF WizardInv, WizardT
<1>3. /\ perm' \in [Asked \cup {"trust"} -> {"ask", "yes", "no"}] /\ perm'[p] = "yes"
      /\ \A q \in (Asked \cup {"trust"}) \ {p} : perm'[q] = perm[q]
  BY <1>1, <1>2, PermissionTypes
<1>4. WizardT'
  BY <1>1, <1>3 DEF WizardInv, WizardT, files, page, past, talks
<1>5. Closed' /\ SignedIn' /\ OneRequest'
  BY <1>1 DEF WizardInv, Closed, SignedIn, OneRequest, files, page, past, talks
<1>6. Granted'
  BY <1>1, <1>2, <1>3 DEF WizardInv, Granted, files, page, Asked
<1>7. QED
  BY <1>1, <1>4, <1>5, <1>6 DEF WizardInv, files, past

LEMMA ResetStep ==
  ASSUME WizardInv, ResetsAndRestarts
  PROVE  WizardInv'
<1>1. /\ UNCHANGED <<files, past, talks, mac, sees, says, page>> /\ proc' = "exiting"
      /\ ui = "stale" /\ screen \in {"microphone", "audio-capture"}
      /\ perm' = [perm EXCEPT ![PermOf[screen]] = "ask"]
  BY DEF ResetsAndRestarts, Relaunches, PermOf
<1>2. mac
  BY <1>1 DEF WizardInv, WizardT, AccessPages
<1>3. screen = "audio-capture" /\ marks \cap {"resume", "onboarded"} = {}
  BY <1>1, <1>2 DEF WizardInv, Granted
<1>4. PermOf[screen] = "tap" /\ "tap" \in Asked
  BY <1>3 DEF PermOf, Asked
<1>5. /\ perm' \in [Asked \cup {"trust"} -> {"ask", "yes", "no"}]
      /\ \A q \in (Asked \cup {"trust"}) \ {"tap"} : perm'[q] = perm[q]
  BY <1>1, <1>4, PermissionTypes
<1>6. WizardT'
  BY <1>1, <1>5 DEF WizardInv, WizardT, files, past, talks, page
<1>7. Closed' /\ SignedIn' /\ OneRequest'
  BY <1>1 DEF WizardInv, Closed, SignedIn, OneRequest, files, past, talks, page
<1>8. Granted'
  BY <1>1, <1>3, <1>5 DEF WizardInv, Granted, files, page, Asked, LastPages
<1>9. QED
  BY <1>1, <1>6, <1>7, <1>8 DEF WizardInv, files, past

\* What a page does that asks for a permission, up to the restart.
LEMMA AskSteps ==
  ASSUME WizardInv,
         \/ OpensSettings \/ PollSees \/ Hinted \/ Restarts
         \/ \E s \in DOMAIN PermOf : Allows(s)
  PROVE  WizardInv'
<1>1. /\ UNCHANGED <<past, talks, mac, perm, sees, token, known, saved, says, screen>>
      /\ proc = "window" /\ proc' \in {"window", "exiting"}
  BY DEF OpensSettings, PollSees, Hinted, Restarts, Relaunches, Allows, On, files, system, page
<1>2. \/ /\ UNCHANGED marks
         /\ \/ screen = "accessibility" /\ ui' \in {"waiting", "hinted"}
            \/ screen = "accessibility" /\ ui' = "trusted" /\ sees
            \/ screen \in {"microphone", "audio-capture"} /\ ui' = "pending"
      \/ screen = "accessibility" /\ UNCHANGED ui /\ marks' \subseteq marks \cup {"resume"}
  BY DEF OpensSettings, PollSees, Hinted, Restarts, Allows, On, files, page, PermOf
<1>3. WizardT' /\ Closed' /\ SignedIn'
  BY <1>1 DEF WizardInv, WizardT, Closed, SignedIn, past, talks
<1>4. OneRequest'
  BY <1>1 DEF WizardInv, OneRequest, past, talks
<1>5. Granted'
  BY <1>1, <1>2 DEF WizardInv, Granted
<1>6. QED
  BY <1>1, <1>3, <1>4, <1>5 DEF WizardInv, past

-----------------------------------------------------------------------------
(* The walk                                                                  *)

LEMMA WalkSteps ==
  ASSUME WizardInv, Continues \/ SavesShortcut \/ SavesIndicator \/ Marks
  PROVE  WizardInv'
<1>1. /\ UNCHANGED <<system, talks, hurried, token, known, says, proc>>
      /\ proc = "window" /\ saved' = wanted'
  BY DEF Continues, SavesShortcut, SavesIndicator, Marks, Open, On, files, past, WizardInv
<1>2. \/ /\ UNCHANGED <<marks, screen>> /\ ui' = ui
      \/ /\ UNCHANGED marks
         /\ \/ screen \in {"microphone", "audio-capture"} /\ ui = "granted" /\ ui' = "idle"
               /\ screen' = Following[screen]
            \/ screen = "accessibility" /\ ui = "trusted" /\ ui' = "idle"
               /\ screen' = Following[screen]
            \/ screen = "shortcut" /\ screen' = "indicator" /\ ui' = ui
            \/ screen = "indicator" /\ screen' = "done" /\ ui' = ui
      \/ /\ screen = "done" /\ UNCHANGED screen /\ ui' = "saving"
         /\ marks' \subseteq marks \cup {"onboarded"}
  BY WalkFacts DEF Continues, SavesShortcut, SavesIndicator, Marks, On, files, page, PermOf
<1>3. /\ screen' \in Screens /\ (~mac => screen' \notin AccessPages)
      /\ screen' # screen => /\ screen \in AccessPages \cup LastPages
                             /\ screen' \in AccessPages \cup LastPages
  BY <1>2, WalkFacts DEF WizardInv, WizardT, Screens, AccessPages, LastPages
<1>4. WizardT'
  BY <1>1, <1>3 DEF WizardInv, WizardT, system, talks
<1>5. Closed'
  BY <1>1 DEF Closed
<1>6. SignedIn'
  BY <1>1, <1>3 DEF WizardInv, SignedIn, talks, AccessPages, LastPages
<1>7. OneRequest'
  BY <1>1, <1>3 DEF WizardInv, OneRequest, talks, AccessPages, LastPages
<1>8. Granted'
  <2> SUFFICES ASSUME mac PROVE Granted'
    BY <1>1 DEF Granted, system
  <2>1. CASE UNCHANGED <<marks, screen, ui>>
    BY <1>1, <2>1 DEF WizardInv, Granted, system
  <2>2. CASE UNCHANGED marks /\ ui = "granted" /\ ui' = "idle" /\ screen' = Following[screen]
    BY <1>1, <2>2, WalkFacts DEF WizardInv, Granted, system, LastPages
  <2>3. CASE UNCHANGED marks /\ screen = "accessibility" /\ ui = "trusted" /\ ui' = "idle"
             /\ screen' = Following[screen]
    BY <1>1, <2>3, WalkFacts DEF WizardInv, Granted, system, LastPages
  <2>4. CASE UNCHANGED marks /\ screen \in {"shortcut", "indicator"} /\ ui' = ui
             /\ screen' \in LastPages
    BY <1>1, <2>4 DEF WizardInv, Granted, system, LastPages
  <2>5. CASE /\ screen = "done" /\ UNCHANGED screen /\ ui' = "saving"
             /\ marks' \subseteq marks \cup {"onboarded"}
    BY <1>1, <2>5 DEF WizardInv, Granted, system, LastPages, Asked
  <2>6. QED
    BY <1>2, <2>1, <2>2, <2>3, <2>4, <2>5 DEF LastPages
<1>9. QED
  BY <1>1, <1>4, <1>5, <1>6, <1>7, <1>8 DEF WizardInv

LEMMA WizardNext == WizardInv /\ [SetupNext]_setupVars => WizardInv'
<1> SUFFICES ASSUME WizardInv, [SetupNext]_setupVars PROVE WizardInv'
  OBVIOUS
<1>1. CASE UNCHANGED setupVars
  <2>1. WizardT' /\ Closed' /\ SignedIn'
    BY <1>1 DEF setupVars, files, system, page, talks, past, WizardInv, WizardT, Closed, SignedIn
  <2>2. OneRequest' /\ Granted' /\ saved' = wanted'
    BY <1>1 DEF setupVars, files, system, page, talks, past, WizardInv, OneRequest, Granted
  <2>3. QED
    BY <2>1, <2>2 DEF WizardInv
<1>2. CASE \/ Launch \/ Spawned \/ GateDecides \/ AgentQuits \/ AgentHears
           \/ AccountReady \/ AccountBlocked
  BY <1>2, LockSteps, OutsideSteps
<1>3. CASE \/ Exited \/ Closes \/ Finishes \/ Loads \/ StartsLogin \/ SignInFails
           \/ ChecksAgain \/ CheckComes \/ CheckHandled
           \/ \E i \in 1 .. 2 : LoginDone(i) \/ NewsComes(i) \/ NewsHandled(i)
  BY <1>3, WindowSteps, LoadStep, SignInSteps, NewsSteps, CheckSteps
<1>4. CASE \/ PromptEnds \/ ResetsAndRestarts \/ OpensSettings \/ PollSees \/ Hinted \/ Restarts
           \/ \E s \in DOMAIN PermOf : Allows(s)
           \/ \E p \in DOMAIN perm : Enables(p)
  BY <1>4, PromptStep, ResetStep, AskSteps, EnableStep
<1>5. CASE Continues \/ SavesShortcut \/ SavesIndicator \/ Marks
  BY <1>5, WalkSteps
<1>6. QED
  BY <1>1, <1>2, <1>3, <1>4, <1>5 DEF SetupNext

\* Only the end of the wizard leads from its window to the agent.
LEMMA SetupStep ==
  WizardInv /\ [SetupNext]_setupVars =>
    (proc = "window" /\ proc' = "agent" =>
       /\ token # "none" /\ (hurried \/ known # "blocked") /\ runs' = wanted
       /\ mac => \A p \in DOMAIN perm : perm[p] = "yes")
<1> SUFFICES ASSUME WizardInv, [SetupNext]_setupVars, proc = "window", proc' = "agent"
             PROVE  /\ token # "none" /\ (hurried \/ known # "blocked") /\ runs' = wanted
                    /\ mac => \A p \in DOMAIN perm : perm[p] = "yes"
  OBVIOUS
<1>1. Finishes
  BY DEF SetupNext, setupVars, Launch, Spawned, GateDecides, Exited, Closes, Loads,
    StartsLogin, SignInFails, ChecksAgain, CheckComes, CheckHandled, LoginDone, NewsComes,
    NewsHandled, Allows, Enables, PromptEnds, ResetsAndRestarts, Relaunches, OpensSettings,
    PollSees, Hinted, Restarts, Continues, SavesShortcut, SavesIndicator, Marks, AgentQuits,
    AgentHears, AccountReady, AccountBlocked, Locked
<1>2. screen = "done" /\ runs' = saved
  BY <1>1 DEF Finishes, On, Picked
<1>3. token # "none" /\ (hurried \/ known # "blocked") /\ runs' = wanted
  BY <1>2 DEF WizardInv, SignedIn, OneRequest, LastPages, AccessPages
<1>4. mac => \A p \in DOMAIN perm : perm[p] = "yes"
  BY <1>2 DEF WizardInv, WizardT, Granted, LastPages, Asked
<1>5. QED
  BY <1>3, <1>4

-----------------------------------------------------------------------------
(* The theorems *)

LEMMA DesktopStep == [DesktopNext]_desktopVars => [AccountNext]_accountVars
BY DEF DesktopNext, desktopVars, In

LEMMA Invariance == Spec => []AInv
<1>1. DesktopInit => AInv
  BY InitAInv DEF DesktopInit
<1>2. AInv /\ [DesktopNext]_desktopVars => AInv'
  BY NextAInv, DesktopStep
<1>3. QED
  BY <1>1, <1>2, PTL DEF Spec

\* Every variable of the account part has its type: no token set is used that the
\* server has not issued, and the attempts of a fetch stay below max_retries
\* (auth/store.py, account/status.py).
THEOREM AccountTypes == Spec => []AccountTypeOK
BY Invariance, AInvTypeOK, PTL

\* The auth server never refuses this agent a refresh token because another of
\* its callers used it up (TokenStore._lock, store.py:20).
THEOREM NoDoubleRefresh == Spec => []NoSelfRefusal
BY Invariance, AInvExcludes, PTL

\* The newest sign-in that still runs can be cancelled (login.py:73, :102).
THEOREM CancelReaches == Spec => []NewestIsReachable
<1>1. AInv => NewestIsReachable
  BY DEF AInv
<1>2. QED
  BY <1>1, Invariance, PTL

\* Only the server saying that the account is fine opens a closed arm gate
\* (account/cache.py:142).
THEOREM GateHolds == Spec => GateRemembers
<1>1. AInv /\ [DesktopNext]_desktopVars
        => [~ArmAllowed /\ ArmAllowed' => heard = "ok"]_accountVars
  BY GateStep, DesktopStep
<1>2. QED
  BY <1>1, Invariance, PTL DEF Spec, GateRemembers

\* Whoever comes through the wizard is signed in, on macOS with every permission
\* recorded, and gets the shortcut picked last, however often the window was closed,
\* restarted and resumed, and whatever failed (gui/setup/bridge.py, App.tsx).
THEOREM WizardIsWhole == Spec => SetupIsWhole
<1>1. DesktopInit => WizardInv
  BY WizardStarts DEF DesktopInit
<1>2. [DesktopNext]_desktopVars => [SetupNext]_setupVars
  BY DEF DesktopNext, desktopVars, In
<1>3. WizardInv /\ [DesktopNext]_desktopVars => WizardInv'
  BY <1>2, WizardNext
<1>4. WizardInv /\ [DesktopNext]_desktopVars
        => [proc = "window" /\ proc' = "agent" =>
              /\ token # "none"
              /\ hurried \/ known # "blocked"
              /\ mac => \A p \in DOMAIN perm : perm[p] = "yes"
              /\ runs' = wanted]_setupVars
  BY <1>2, SetupStep
<1>5. QED
  BY <1>1, <1>3, <1>4, PTL DEF Spec, SetupIsWhole
=============================================================================
