------------------------------ MODULE Account ------------------------------
(* Signing in and staying signed in: the token file and its cache             *)
(* (auth/store.py), the client that refreshes on expiry (auth/client.py), the *)
(* sign-in flows of a window (gui/common/login.py, auth/pkce.py), and the     *)
(* account status the server reports, cached for the arm gate (account/).     *)
(* The auth server rotates refresh tokens: an exchange uses the old one up.   *)
EXTENDS Naturals, FiniteSets

CONSTANTS Attempts,      \* max_retries of fetch_account_status
          ServerStates,  \* the account_state values the server may answer with
          MaxLogins,     \* bound: sign-ins started in the window
          MaxTokens,     \* bound: token sets the auth server ever issues
          MaxFaults      \* bound: crashes, lost replies, revoked sessions

ASSUME AccountAssumption ==
  /\ Attempts \in Nat \ {0} /\ MaxLogins \in Nat /\ MaxTokens \in Nat /\ MaxFaults \in Nat
  /\ ServerStates \subseteq {"active", "onboarding_required", "suspended", "deleted", "other"}

Callers == {"poll", "upload", "probe"}
Logins  == 1 .. MaxLogins

\* What the token file can hold: nothing, a token set, or a half-written one.
None   == 0
Tokens == 1 .. MaxTokens
Torn   == MaxTokens + 1

CachedStates  == {"ok", "onboarding_required", "suspended", "deleted"}
BlockedStates == CachedStates \ {"ok"}

VARIABLES
  disk,       \* auth.json
  mem,        \* TokenStore._tokens of the agent
  lock,       \* TokenStore._lock: its holder
  pc, tok,    \* what each caller is doing, and the token set it works with
  again,      \* the callers repeating a request that was answered 401
  got,        \* the auth server's answer to a refresh, None for a refusal
  tries,      \* attempts of the current fetch of /api/me
  issued, unexpired, accepted, refreshable,   \* token sets: so far, by expires_at, by
              \* the API, and those whose refresh token is still good
  spent,      \* history: refresh tokens this agent exchanged and saved the answer of
  agent,      \* the service: down, in its setup window, or up
  client,     \* make_auth_client returned a client
  blocked,    \* PauseState.auth_blocked
  heard,      \* the account state a fetch came back with, until it is cached
  cache,      \* account_status.json
  login, active, cancelled,  \* LoginCoordinator: the workers, _active, cancel events
  nudge,      \* an INVALIDATE_TOKEN_CACHE call is under way
  faults

tokenFiles    == <<disk, mem>>
server  == <<issued, unexpired, accepted, refreshable>>
request == <<pc, tok, again, got, tries>>
logins  == <<login, active, cancelled>>
process == <<agent, client>>
statusKnown  == <<heard, cache>>
accountVars == <<disk, mem, lock, pc, tok, again, got, tries, issued, unexpired, accepted,
          refreshable, spent, agent, client, blocked, heard, cache, login, active,
          cancelled, nudge, faults>>

LoginStates == {"none", "browser", "exchange", "over"}

AccountTypeOK ==
  /\ disk \in {None, Torn} \union Tokens
  /\ mem \in {None} \union Tokens
  /\ lock \in Callers \union {"free"}
  /\ pc \in [Callers -> {"idle", "token", "asks", "told", "send", "write"}]
  /\ tok \in [Callers -> {None} \union Tokens] /\ got \in [Callers -> {None} \union Tokens]
  /\ again \subseteq Callers
  /\ tries \in 0 .. Attempts
  /\ issued \in 0 .. MaxTokens
  /\ unexpired \subseteq 1 .. issued /\ accepted \subseteq 1 .. issued
  /\ refreshable \subseteq 1 .. issued /\ spent \subseteq 1 .. issued
  /\ agent \in {"down", "setup", "up"} /\ {client, blocked, nudge} \subseteq BOOLEAN
  /\ {heard, cache} \subseteq CachedStates \union {"none"}
  /\ login \in [Logins -> LoginStates]
  /\ active \in {0} \union Logins /\ cancelled \subseteq Logins
  /\ faults \in 0 .. MaxFaults

AccountInit ==
  /\ disk = None /\ mem = None /\ lock = "free"
  /\ pc = [c \in Callers |-> "idle"] /\ tok = [c \in Callers |-> None]
  /\ again = {} /\ got = [c \in Callers |-> None] /\ tries = 0
  /\ issued = 0 /\ unexpired = {} /\ accepted = {} /\ refreshable = {} /\ spent = {}
  /\ agent = "down" /\ client = FALSE /\ blocked = FALSE
  /\ heard = "none" /\ cache = "none"
  /\ login = [l \in Logins |-> "none"] /\ active = 0 /\ cancelled = {}
  /\ nudge = FALSE /\ faults = 0

-----------------------------------------------------------------------------
(* The token store                                                            *)

\* MUTANT: whatever the file holds is taken for a token set.
Unparsed == IF mem # None THEN mem ELSE disk

\* _load: the cached set, else the file's; a file that does not parse counts
\* as signed out.
Loaded == IF mem # None THEN mem ELSE IF disk = Torn THEN None ELSE disk

\* TokenStore.has_tokens of a store that has cached nothing.
HasTokens == disk \in Tokens

Fault == faults < MaxFaults /\ faults' = faults + 1

Goto(c, where) == pc' = [pc EXCEPT ![c] = where]
Drops(c) == tok' = [tok EXCEPT ![c] = None]

\* What each caller makes of AuthenticationRequired: the status poll reports
\* auth_required and caches nothing, an upload pauses all uploads until the
\* user signs in, the recovery probe stays paused.
AuthRequired(c) ==
  /\ Goto(c, "idle") /\ Drops(c)
  /\ again' = again \ {c}
  /\ tries' = IF c = "poll" THEN 0 ELSE tries
  /\ blocked' = (blocked \/ c = "upload")

\* And of a transient failure: the poll backs off and tries again up to Attempts.
Transient(c) ==
  /\ again' = again \ {c} /\ Drops(c)
  /\ IF c = "poll" /\ tries + 1 < Attempts
       THEN Goto(c, "token") /\ tries' = tries + 1
       ELSE Goto(c, "idle") /\ tries' = (IF c = "poll" THEN 0 ELSE tries)
  /\ UNCHANGED blocked

\* The caller has its token: a request goes out, and the probe is content.
HasToken(c, t) ==
  IF c = "probe" THEN Goto(c, "idle") /\ blocked' = FALSE /\ Drops(c)
  ELSE Goto(c, "send") /\ UNCHANGED blocked /\ tok' = [tok EXCEPT ![c] = t]

Unlocked == lock = "free"
\* MUTANT: get_valid_token without the asyncio.Lock.
NeverLocked == TRUE
MayEnter == Unlocked

\* get_valid_token up to its first await.
GetToken(c) ==
  /\ pc[c] = "token" /\ MayEnter
  /\ mem' = Loaded
  /\ \/ /\ Loaded = None /\ AuthRequired(c) /\ UNCHANGED lock
     \/ /\ Loaded # None /\ Loaded \in unexpired
        /\ HasToken(c, Loaded) /\ UNCHANGED <<lock, again, tries>>
     \/ /\ Loaded # None /\ Loaded \notin unexpired
        /\ lock' = c /\ Goto(c, "asks") /\ tok' = [tok EXCEPT ![c] = Loaded]
        /\ UNCHANGED <<again, tries, blocked>>
  /\ UNCHANGED <<disk, got, server, spent, process, statusKnown, logins, nudge, faults>>

\* The auth server issues a token set that is good everywhere.
Issue(dead) == /\ issued < MaxTokens
               /\ issued' = issued + 1
               /\ unexpired' = unexpired \union {issued + 1}
               /\ accepted' = accepted \union {issued + 1}
               /\ refreshable' = (refreshable \ dead) \union {issued + 1}

\* The auth server's side of refresh_token.
Exchange(c) ==
  /\ pc[c] = "asks" /\ Goto(c, "told")
  /\ IF tok[c] \in refreshable /\ issued < MaxTokens
       THEN Issue({tok[c]}) /\ got' = [got EXCEPT ![c] = issued + 1]
       ELSE UNCHANGED server /\ got' = [got EXCEPT ![c] = None]
  /\ UNCHANGED <<tokenFiles, lock, tok, again, tries, spent, process, blocked, statusKnown, logins,
                 nudge, faults>>

\* Its answer reaches get_valid_token, which saves what it got, or raises.
Refreshed(c) ==
  /\ pc[c] = "told" /\ lock' = "free" /\ got' = [got EXCEPT ![c] = None]
  /\ IF got[c] # None
       THEN /\ disk' = got[c] /\ mem' = got[c]
            /\ spent' = spent \union {tok[c]}
            /\ HasToken(c, got[c]) /\ UNCHANGED <<again, tries>>
       ELSE AuthRequired(c) /\ UNCHANGED <<tokenFiles, spent>>
  /\ UNCHANGED <<server, process, statusKnown, logins, nudge, faults>>

\* A transport error: before the server saw the request, or after.
RefreshLost(c) ==
  /\ pc[c] \in {"asks", "told"} /\ Fault
  /\ lock' = "free" /\ Transient(c) /\ got' = [got EXCEPT ![c] = None]
  /\ UNCHANGED <<tokenFiles, server, spent, process, statusKnown, logins, nudge>>

-----------------------------------------------------------------------------
(* The authenticated client and its callers                                   *)

Serving == agent = "up" /\ client

\* _account_refresh wakes, or the setup window's recheck with a store of its own.
PollStarts ==
  /\ Serving \/ (agent = "setup" /\ HasTokens)
  /\ pc["poll"] = "idle" /\ Goto("poll", "token")
  /\ mem' = IF agent = "setup" THEN None ELSE mem
  /\ UNCHANGED <<disk, lock, tok, again, got, tries, server, spent, process, blocked,
                 statusKnown, logins, nudge, faults>>

\* An upload passes the gate.
UploadStarts ==
  /\ Serving /\ ~blocked
  /\ pc["upload"] = "idle" /\ Goto("upload", "token")
  /\ UNCHANGED <<tokenFiles, lock, tok, again, got, tries, server, spent, process, blocked,
                 statusKnown, logins, nudge, faults>>

Forgotten == None
\* MUTANT: the probe asks with the token set the agent has cached.
StillCached == mem
Reloaded == Forgotten

\* _check_auth_recovery, at every sweep: forget the cached set, ask for a token.
ProbeStarts ==
  /\ Serving /\ blocked
  /\ pc["probe"] = "idle" /\ Goto("probe", "token")
  /\ mem' = Reloaded
  /\ UNCHANGED <<disk, lock, tok, again, got, tries, server, spent, process, blocked,
                 statusKnown, logins, nudge, faults>>

\* A 401: get a token again and repeat the request once.
Unauthorized(c) ==
  IF c \in again THEN AuthRequired(c)
  ELSE /\ again' = again \union {c} /\ Goto(c, "token") /\ Drops(c)
       /\ UNCHANGED <<tries, blocked>>

\* _map_server_state; "none" for an answer that says nothing of the account.
Mapped(s) == IF s = "active" THEN "ok" ELSE IF s = "other" THEN "none" ELSE s

\* refresh_and_cache: only an account state is kept for the cache.
RefreshAndCache(c, s) ==
  IF Mapped(s) = "none" THEN Goto(c, "idle") /\ UNCHANGED heard
  ELSE Goto(c, "write") /\ heard' = Mapped(s)

\* A request is answered: 401, an account state (404 and 410 mean deleted), an
\* upload accepted, or nothing the caller can use.
Responds(c) ==
  /\ pc[c] = "send"
  /\ \/ /\ tok[c] \notin accepted /\ Unauthorized(c) /\ UNCHANGED <<statusKnown, faults>>
     \/ /\ tok[c] \in accepted /\ c = "poll"
        /\ \E s \in ServerStates : RefreshAndCache(c, s)
        /\ again' = again \ {c} /\ Drops(c) /\ tries' = 0 /\ UNCHANGED <<cache, blocked, faults>>
     \/ /\ tok[c] \in accepted /\ c = "upload" /\ Goto(c, "idle")
        /\ again' = again \ {c} /\ Drops(c) /\ UNCHANGED <<statusKnown, tries, blocked, faults>>
     \/ Fault /\ Transient(c) /\ UNCHANGED statusKnown
  /\ UNCHANGED <<tokenFiles, lock, got, server, spent, process, logins, nudge>>

\* write_cache replaces the file; a failed write keeps it.
WriteCache ==
  /\ pc["poll"] = "write" /\ Goto("poll", "idle") /\ heard' = "none"
  /\ \/ cache' = heard /\ UNCHANGED faults
     \/ UNCHANGED cache /\ Fault
  /\ UNCHANGED <<tokenFiles, lock, tok, again, got, tries, server, spent, process, blocked,
                 logins, nudge>>

\* read_cache: a file that is missing, unreadable or of no known state says nothing.
ReadCache == IF cache \in CachedStates THEN cache ELSE "none"

\* decide_arm_gate over the cached status.
ArmAllowed == ReadCache \notin BlockedStates

-----------------------------------------------------------------------------
(* The windows: signing in and out                                            *)

Running(l) == login[l] \in {"browser", "exchange"}

\* LoginCoordinator.start: the previous flow is told to cancel.
StartLogin(l) ==
  /\ login[l] = "none" /\ \A m \in Logins : m < l => login[m] # "none"
  /\ login' = [login EXCEPT ![l] = "browser"] /\ active' = l
  /\ cancelled' = cancelled \union ({active} \ {0})
  /\ UNCHANGED <<tokenFiles, lock, request, server, spent, process, blocked, statusKnown, nudge,
                 faults>>

CancelLogin ==
  /\ active # 0 /\ cancelled' = cancelled \union {active}
  /\ UNCHANGED <<tokenFiles, lock, request, server, spent, process, blocked, statusKnown, login,
                 active, nudge, faults>>

\* The browser is redirected to the listener with a code, and the polling loop
\* sees that before it looks at the cancel event again.
Callback(l) ==
  /\ login[l] = "browser" /\ login' = [login EXCEPT ![l] = "exchange"]
  /\ UNCHANGED <<tokenFiles, lock, request, server, spent, process, blocked, statusKnown, active,
                 cancelled, nudge, faults>>

IfOurs(l) == IF active = l THEN 0 ELSE active
\* MUTANT: the worker's finally clears _active whoever it belongs to.
Whoever(l) == 0
Released(l) == IfOurs(l)

LoginEnds(l) == /\ login' = [login EXCEPT ![l] = "over"] /\ active' = Released(l)
                 /\ cancelled' = cancelled \ {l}

\* The polling loop sees the cancel event.
LoginCancelled(l) ==
  /\ l \in cancelled /\ login[l] = "browser" /\ LoginEnds(l)
  /\ UNCHANGED <<tokenFiles, lock, request, server, spent, process, blocked, statusKnown, nudge,
                 faults>>

\* The deadline, an error in the callback, a callback of another flow's page, or
\* a code the server refuses.
LoginFails(l) ==
  /\ Running(l) /\ LoginEnds(l)
  /\ UNCHANGED <<tokenFiles, lock, request, server, spent, process, blocked, statusKnown, nudge,
                 faults>>

\* exchange_code answers and _do_login saves, through a store of its own; the
\* process may die while it writes.
LoggedIn(l) ==
  /\ login[l] = "exchange" /\ Issue({}) /\ LoginEnds(l)
  /\ \/ disk' = issued + 1 /\ UNCHANGED faults
     \/ disk' = Torn /\ Fault
  /\ UNCHANGED <<mem, lock, request, spent, process, blocked, statusKnown, nudge>>

\* sign_out: the file goes, then the agent is told to forget its copy.
SignOut ==
  /\ HasTokens /\ ~nudge /\ disk' = None /\ nudge' = TRUE
  /\ UNCHANGED <<mem, lock, request, server, spent, process, blocked, statusKnown, logins,
                 faults>>

\* The call arrives, or finds nobody.
InvalidateCache ==
  /\ nudge /\ nudge' = FALSE
  /\ mem' = IF agent = "up" THEN None ELSE mem
  /\ UNCHANGED <<disk, lock, request, server, spent, process, blocked, statusKnown, logins,
                 faults>>

-----------------------------------------------------------------------------
(* The service, and the world                                                 *)

NobodyAsks == /\ pc' = [c \in Callers |-> "idle"] /\ again' = {} /\ tries' = 0
              /\ tok' = [c \in Callers |-> None] /\ got' = [c \in Callers |-> None]
              /\ lock' = "free" /\ mem' = None /\ heard' = "none"

\* service(): the setup window opens unless detect_setup finds everything done.
Boot ==
  /\ agent = "down"
  /\ agent' = IF HasTokens /\ ArmAllowed THEN "up" ELSE "setup"
  /\ client' = (agent' = "up")
  /\ UNCHANGED <<tokenFiles, lock, request, server, spent, blocked, statusKnown, logins, nudge, faults>>

\* The window's Done button; the agent starts, with a client if there are tokens.
FinishSetup ==
  /\ agent = "setup" /\ agent' = "up" /\ client' = HasTokens /\ NobodyAsks
  /\ UNCHANGED <<disk, server, spent, blocked, cache, logins, nudge, faults>>

Remembered == cache
\* MUTANT: write_cache truncates and rewrites the file itself.
HalfWritten == "none"
AfterCrash == Remembered

\* The service dies. A token file being written is left half-written, a status
\* file being written is a temporary that nobody reads.
Crash ==
  /\ agent # "down" /\ Fault /\ agent' = "down" /\ client' = FALSE /\ NobodyAsks
  /\ disk' \in {disk} \union {Torn : c \in {d \in Callers : pc[d] = "told" /\ got[d] # None}}
  /\ cache' = IF pc["poll"] = "write" THEN AfterCrash ELSE cache
  /\ spent' = {}
  /\ UNCHANGED <<server, blocked, logins, nudge>>

\* An access token's expires_at comes.
Expire ==
  \E t \in unexpired :
    /\ unexpired' = unexpired \ {t} /\ accepted' = accepted \ {t}
    /\ UNCHANGED <<tokenFiles, lock, request, issued, refreshable, spent, process, blocked, statusKnown,
                   logins, nudge, faults>>

\* The session is ended on the server.
Revoke ==
  \E t \in refreshable :
    /\ Fault /\ refreshable' = refreshable \ {t} /\ accepted' = accepted \ {t}
    /\ UNCHANGED <<tokenFiles, lock, request, issued, unexpired, spent, process, blocked, statusKnown,
                   logins, nudge>>

Caller(c) == GetToken(c) \/ Exchange(c) \/ Refreshed(c) \/ RefreshLost(c) \/ Responds(c)

Login(l) == \/ StartLogin(l) \/ Callback(l) \/ LoginCancelled(l) \/ LoginFails(l) \/ LoggedIn(l)

AccountNext ==
  \/ \E c \in Callers : Caller(c)
  \/ PollStarts \/ UploadStarts \/ ProbeStarts \/ WriteCache
  \/ \E l \in Logins : Login(l)
  \/ CancelLogin \/ SignOut \/ InvalidateCache
  \/ Boot \/ FinishSetup \/ Crash \/ Expire \/ Revoke

-----------------------------------------------------------------------------
(* Properties                                                                 *)

\* No double refresh (store.py:20): the auth server never refuses the agent a
\* refresh token because another caller of the same agent used it up.
NoSelfRefusal ==
  \A c \in Callers : pc[c] = "told" /\ got[c] = None =>
    /\ tok[c] \notin spent
    /\ \A d \in Callers \ {c} : ~(pc[d] = "told" /\ got[d] # None /\ tok[d] = tok[c])

\* The newest sign-in that still runs is the one Cancel and a newer sign-in reach
\* (login.py:73, :102), however late an older worker ends.
NewestIsReachable ==
  \A l \in Logins : /\ Running(l)
                    /\ \A m \in Logins : m > l => login[m] = "none"
                    => active = l \/ l \in cancelled

\* Once the account may not record, only the server saying that it is fine again
\* opens the arm gate: no failed fetch, failed write, crash or restart does
\* (cache.py:142, status.py:80).
GateRemembers == [][~ArmAllowed /\ ArmAllowed' => heard = "ok"]_accountVars
=============================================================================
