--------------------------- MODULE BrowserSession ---------------------------
(***************************************************************************)
(* The session as the browser sees it: tabs that share one cookie jar and  *)
(* nothing else, each with its access token in memory, the guard that      *)
(* refreshes silently when a page is loaded, and the response interceptor  *)
(* that refreshes when a call is answered 401. A page that is loaded anew, *)
(* or closed, takes the tab's memory and its requests with it; what the    *)
(* server makes of those that are under way is not heard by anybody.       *)
(*                                                                         *)
(* The server is here what RefreshTokens shows it to be: a live token is   *)
(* rotated by one of those who present it, a token revoked less than the   *)
(* grace ago answers REFRESH_RACE, an older one revokes them all.          *)
(***************************************************************************)
EXTENDS Naturals, FiniteSets

CONSTANTS
  Tab,
  Call,         \* API requests of the pages
  TabOf,        \* the tab whose pages make a call
  MaxTokens,    \* refresh tokens, enough for the bounds below
  MaxEvents,    \* what users and clocks do after the tabs were opened, and
  MaxFaults,    \* what the network does wrong: bounds of the model
  None

ASSUME SessionAssumption ==
  /\ IsFiniteSet(Tab) /\ TabOf \in [Call -> Tab]
  /\ MaxTokens \in Nat \ {0} /\ MaxEvents \in Nat /\ MaxFaults \in Nat
  /\ None \notin Tab \cup Call \cup 1..MaxTokens
  /\ Tab \cap Call = {}

VARIABLES
  tokens,       \* what the server knows of each token
  jar,          \* the refresh cookie
  page,         \* what is mounted: a page of (app) in its guard, or the login form
  guard,        \* of the AuthGuard: attempted.current, and waking
  access,       \* the tab's access token; there is a user if there is one
  refreshes,    \* POST /auth/refresh: one slot for a tab's guard and for each call
  promise,      \* refreshPromise: the call that started it
  calls,
  leaving,      \* POST /auth/logout of a tab
  orphans,      \* requests on their way to the server whose page is gone
  swept,        \* history: reuse was detected, and every token revoked
  aborted,      \* history: a user has left a page with a refresh or a logout under way
  events, faults   \* history: how many there were

sessionVars == <<tokens, jar, page, guard, access, refreshes, promise, calls, leaving,
                 orphans, swept, aborted, events, faults>>
history == <<swept, aborted, events, faults>>

Token == 1..MaxTokens

\* "recent": revoked within REFRESH_REUSE_GRACE_SECONDS.
Knowledge == {"unused", "live", "recent", "old"}

\* A request for a refresh: on its way "up" with the cookie it presents, or its
\* answer on the way "down" with the cookie it sets. The guard's second attempt
\* is preceded by a "sleep".
Slot == Tab \cup Call
Quiet == [stage |-> "quiet", cookie |-> None, answer |-> "none", again |-> FALSE]
Refreshes == [stage : {"quiet", "up", "down", "sleep"}, cookie : Token \cup {None},
              answer : {"none", "ok", "race", "no"}, again : BOOLEAN]
Up(cookie, again) == [stage |-> "up", cookie |-> cookie, answer |-> "none", again |-> again]

\* reload: the page is loaded anew afterwards (location.href), not just routed to.
Staying == [stage |-> "quiet", cookie |-> None, reload |-> FALSE]
Leavings == [stage : {"quiet", "up", "down"}, cookie : Token \cup {None}, reload : BOOLEAN]

\* "fresh" and "stale" were sent with a valid and an expired access token,
\* "waiting" awaits the refresh, "again" is the retry, marked _retry.
CallStates == {"idle", "fresh", "stale", "waiting", "again"}

\* (Of two orphans alike one is kept.)
Orphan == [op : {"refresh", "logout"}, slot : Slot, cookie : Token]

Owner(s) == IF s \in Tab THEN s ELSE TabOf[s]
CallsOf(t) == {c \in Call : TabOf[c] = t}

\* Tokens are issued in the order of their numbers.
Fresh(k) == tokens[k] = "unused" /\ \A l \in 1..(k - 1) : tokens[l] # "unused"
Presentable ==
  {jar} \cup {refreshes[s].cookie : s \in Slot} \cup {leaving[t].cookie : t \in Tab}
        \cup {o.cookie : o \in orphans}

InFlight(s) == refreshes[s].stage \in {"up", "down"}
\* A step of a user or of the clock, and one of the network that takes long or
\* fails; some are that only under a condition.
EventIf(cond) == IF cond THEN events < MaxEvents /\ events' = events + 1
                 ELSE UNCHANGED events
FaultIf(cond) == IF cond THEN faults < MaxFaults /\ faults' = faults + 1
                 ELSE UNCHANGED faults

NetworkQuiet == /\ \A s \in Slot : refreshes[s] = Quiet
                /\ \A t \in Tab : leaving[t] = Staying
                /\ orphans = {}

\* What a user can press is rendered: there is a user and no WakingBanner.
Shell(t) == page[t] = "app" /\ access[t] # "none" /\ guard[t] # "waking"

------------------------------------------------------------------------------
(* The server. *)

\* Mutant: no grace, any revoked token is taken for stolen.
OutcomeGraceless(k, answer, l) ==
  \/ /\ k = None /\ answer = "no" /\ l = None
     /\ UNCHANGED <<tokens, swept>>
  \/ /\ k # None /\ tokens[k] = "live" /\ answer = "ok" /\ l # None /\ Fresh(l)
     /\ tokens' = [tokens EXCEPT ![k] = "recent", ![l] = "live"]
     /\ UNCHANGED swept
  \/ /\ k # None /\ tokens[k] \in {"recent", "old"} /\ answer = "no" /\ l = None
     /\ tokens' = [m \in Token |-> IF tokens[m] = "live" THEN "recent" ELSE tokens[m]]
     /\ swept' = TRUE

\* AuthService.refresh, of the token k: its answer, and the token it sets.
Outcome(k, answer, l) ==
  \/ /\ k = None /\ answer = "no" /\ l = None
     /\ UNCHANGED <<tokens, swept>>
  \/ /\ k # None /\ tokens[k] = "live" /\ answer = "ok" /\ l # None /\ Fresh(l)
     /\ tokens' = [tokens EXCEPT ![k] = "recent", ![l] = "live"]
     /\ UNCHANGED swept
  \/ /\ k # None /\ tokens[k] = "recent" /\ answer = "race" /\ l = None
     /\ UNCHANGED <<tokens, swept>>
  \/ /\ k # None /\ tokens[k] = "old" /\ answer = "no" /\ l = None
     /\ tokens' = [m \in Token |-> IF tokens[m] = "live" THEN "recent" ELSE tokens[m]]
     /\ swept' = TRUE

\* AuthService.logout writes revoked_at, also that of a token that is revoked.
Revoked(k) == tokens' = [m \in Token |-> IF m = k THEN "recent" ELSE tokens[m]]

HandleRefresh(s) ==
  /\ refreshes[s].stage = "up"
  /\ \E answer \in {"ok", "race", "no"}, l \in Token \cup {None} :
       /\ Outcome(refreshes[s].cookie, answer, l)
       /\ refreshes' = [refreshes EXCEPT ![s].stage = "down", ![s].answer = answer,
                                         ![s].cookie = l]
  /\ UNCHANGED <<jar, page, guard, access, promise, calls, leaving, orphans, aborted,
                 events, faults>>

HandleLogout(t) ==
  /\ leaving[t].stage = "up"
  /\ Revoked(leaving[t].cookie)
  /\ leaving' = [leaving EXCEPT ![t].stage = "down", ![t].cookie = None]
  /\ UNCHANGED <<jar, page, guard, access, refreshes, promise, calls, orphans, history>>

\* The same, and the answer with its cookie reaches nobody.
HandleOrphan(o) ==
  /\ o \in orphans
  /\ orphans' = orphans \ {o}
  /\ \/ /\ o.op = "refresh"
        /\ \E answer \in {"ok", "race", "no"}, l \in Token \cup {None} :
             Outcome(o.cookie, answer, l)
     \/ o.op = "logout" /\ Revoked(o.cookie) /\ UNCHANGED swept
  /\ UNCHANGED <<jar, page, guard, access, refreshes, promise, calls, leaving, aborted,
                 events, faults>>

\* The browser had not sent it yet, or the server never sees it.
Vanish(o) ==
  /\ o \in orphans
  /\ orphans' = orphans \ {o}
  /\ UNCHANGED <<tokens, jar, page, guard, access, refreshes, promise, calls, leaving,
                 history>>

\* The grace of a revoked token is over. While something is in flight that takes
\* an answer of more than the grace.
Age(k) ==
  /\ tokens[k] = "recent" /\ k \in Presentable
  /\ tokens' = [tokens EXCEPT ![k] = "old"]
  /\ FaultIf(~NetworkQuiet)
  /\ UNCHANGED <<jar, page, guard, access, refreshes, promise, calls, leaving, orphans,
                 swept, aborted, events>>

------------------------------------------------------------------------------
(* Pages, and the guard of those of (app). *)

\* The requests of a tab that are on their way to the server.
Unheard(t) ==
  {[op |-> "refresh", slot |-> s, cookie |-> refreshes[s].cookie] :
     s \in {s \in Slot : /\ Owner(s) = t
                        /\ refreshes[s].stage = "up" /\ refreshes[s].cookie # None}}
  \cup
  {[op |-> "logout", slot |-> t, cookie |-> leaving[t].cookie] :
     x \in {x \in {t} : leaving[t].stage = "up" /\ leaving[t].cookie # None}}

\* The memory of a tab is gone, and whoever waited for its requests. A guard that
\* is mounted in its place refreshes.
Forget(t, refresh) ==
  /\ access' = [access EXCEPT ![t] = "none"]
  /\ calls' = [c \in Call |-> IF TabOf[c] = t THEN "idle" ELSE calls[c]]
  /\ promise' = [promise EXCEPT ![t] = None]
  /\ leaving' = [leaving EXCEPT ![t] = Staying]
  /\ refreshes' = [s \in Slot |-> IF s = t THEN refresh
                                  ELSE IF Owner(s) = t THEN Quiet ELSE refreshes[s]]

\* A page is loaded: opened, by its address or by F5. AuthGuard mounts with no
\* user and refreshes. Or the tab is closed.
Load(t, to) ==
  /\ to = "closed" => page[t] # "closed"
  /\ page' = [page EXCEPT ![t] = to]
  /\ guard' = [guard EXCEPT ![t] = IF to = "app" THEN "attempted" ELSE "fresh"]
  /\ Forget(t, IF to = "app" THEN Up(jar, FALSE) ELSE Quiet)
  /\ orphans' = orphans \cup Unheard(t)
  /\ aborted' = (aborted \/ leaving[t] # Staying \/ \E s \in Slot : Owner(s) = t /\ InFlight(s))
  /\ EventIf(page[t] # "closed" \/ to # "app")
  /\ UNCHANGED <<tokens, jar, swept, faults>>

\* Back from the login form, to which the tab was routed: AuthGuard mounts, and
\* refreshes if there is no user. (Not while an earlier guard's is under way.)
Return(t) ==
  /\ page[t] = "login" /\ refreshes[t] = Quiet
  /\ page' = [page EXCEPT ![t] = "app"]
  /\ IF access[t] = "none"
       THEN /\ guard' = [guard EXCEPT ![t] = "attempted"]
            /\ refreshes' = [refreshes EXCEPT ![t] = Up(jar, FALSE)]
       ELSE UNCHANGED <<guard, refreshes>>
  /\ EventIf(TRUE)
  /\ UNCHANGED <<tokens, jar, access, promise, calls, leaving, orphans, swept, aborted, faults>>

\* The effect was cleaned up, as a user was set or the guard unmounted.
Cancelled(t) == access[t] # "none" \/ page[t] # "app"

\* bannerTimer: setWaking(true).
Wake(t) ==
  /\ refreshes[t] # Quiet /\ ~Cancelled(t)
  /\ guard[t] = "attempted"
  /\ guard' = [guard EXCEPT ![t] = "waking"]
  /\ UNCHANGED <<tokens, jar, page, access, refreshes, promise, calls, leaving, orphans,
                 history>>

\* The user is set. That cleans up the effect before finally runs, so that waking
\* stays as it is.
GuardPasses(t) ==
  /\ refreshes[t].stage = "down" /\ refreshes[t].answer = "ok"
  /\ jar' = refreshes[t].cookie
  /\ access' = [access EXCEPT ![t] = "valid"]
  /\ refreshes' = [refreshes EXCEPT ![t] = Quiet]
  /\ UNCHANGED <<tokens, page, guard, promise, calls, leaving, orphans, history>>

\* router.replace("/login"): the cookie stays as it is, and nobody logs out.
GivesUp(t) ==
  /\ refreshes' = [refreshes EXCEPT ![t] = Quiet]
  /\ IF Cancelled(t) THEN UNCHANGED <<page, guard>>
     ELSE /\ page' = [page EXCEPT ![t] = "login"]
          /\ guard' = [guard EXCEPT ![t] = "fresh"]
  /\ UNCHANGED <<tokens, jar, access, promise, calls, leaving, orphans, history>>

\* Mutant: REFRESH_RACE is a failure like any other.
GuardGivesUp(t) ==
  /\ refreshes[t].stage = "down" /\ refreshes[t].answer = "race" /\ ~refreshes[t].again
  /\ GivesUp(t)

\* REFRESH_RACE, the first time: sleep(300).
GuardSleeps(t) ==
  /\ refreshes[t].stage = "down" /\ refreshes[t].answer = "race" /\ ~refreshes[t].again
  /\ refreshes' = [refreshes EXCEPT ![t] = [Quiet EXCEPT !.stage = "sleep"]]
  /\ UNCHANGED <<tokens, jar, page, guard, access, promise, calls, leaving, orphans, history>>

\* The second attempt. An answer that sets the cookie and is still on its way
\* by then took longer than the sleep.
GuardRetries(t) ==
  /\ refreshes[t].stage = "sleep"
  /\ refreshes' = [refreshes EXCEPT ![t] = Up(jar, TRUE)]
  /\ FaultIf(\E s \in Slot : InFlight(s))
  /\ UNCHANGED <<tokens, jar, page, guard, access, promise, calls, leaving, orphans,
                 swept, aborted, events>>

GuardFails(t) ==
  /\ refreshes[t].stage = "down"
  /\ \/ refreshes[t].answer = "no"
     \/ refreshes[t].answer = "race" /\ refreshes[t].again
  /\ GivesUp(t)

------------------------------------------------------------------------------
(* Calls of the pages, and the interceptor. *)

Send(c) ==
  LET t == TabOf[c]
  IN /\ Shell(t) /\ calls[c] = "idle"
     /\ calls' = [calls EXCEPT ![c] = IF access[t] = "valid" THEN "fresh" ELSE "stale"]
     /\ UNCHANGED <<tokens, jar, page, guard, access, refreshes, promise, leaving, orphans,
                    history>>

\* Any answer but a 401, or none at all, or a 401 to the retry: the caller has it.
Answered(c) ==
  /\ calls[c] \in {"fresh", "again"}
  /\ calls' = [calls EXCEPT ![c] = "idle"]
  /\ UNCHANGED <<tokens, jar, page, guard, access, refreshes, promise, leaving, orphans, history>>

\* Mutant: every 401 starts a refresh of its own.
JoinAlone(c) ==
  /\ refreshes' = [refreshes EXCEPT ![c] = Up(jar, FALSE)]
  /\ promise' = [promise EXCEPT ![TabOf[c]] = c]

\* The refresh in progress is shared, or one is started.
Join(c) ==
  IF promise[TabOf[c]] = None
    THEN /\ refreshes' = [refreshes EXCEPT ![c] = Up(jar, FALSE)]
         /\ promise' = [promise EXCEPT ![TabOf[c]] = c]
    ELSE UNCHANGED <<refreshes, promise>>

\* A 401, for an expired token, or for a wrong current password in PATCH /auth/me
\* with a valid one.
Unauthorized(c) ==
  /\ calls[c] \in {"fresh", "stale"}
  /\ calls' = [calls EXCEPT ![c] = "waiting"]
  /\ Join(c)
  /\ EventIf(calls[c] = "fresh")
  /\ UNCHANGED <<tokens, jar, page, guard, access, leaving, orphans, swept, aborted, faults>>

\* The promise resolves: whoever awaits it is sent again.
Refreshed(c) ==
  LET t == TabOf[c]
  IN /\ refreshes[c].stage = "down" /\ refreshes[c].answer = "ok"
     /\ jar' = refreshes[c].cookie
     /\ access' = [access EXCEPT ![t] = "valid"]
     /\ refreshes' = [refreshes EXCEPT ![c] = Quiet]
     /\ promise' = [promise EXCEPT ![t] = None]
     /\ calls' = [d \in Call |-> IF TabOf[d] = t /\ calls[d] = "waiting" THEN "again"
                                 ELSE calls[d]]
     /\ UNCHANGED <<tokens, page, guard, leaving, orphans, history>>

\* dispatch(logout()) by each of the calls that waited, at the same moment and
\* with the same cookie, which has the effect of one.
LogOut(t, reload) ==
  \/ /\ leaving[t] = Staying
     /\ leaving' = [leaving EXCEPT ![t] = [stage |-> "up", cookie |-> jar, reload |-> reload]]
  \/ /\ leaving[t] # Staying
     /\ leaving' = [leaving EXCEPT ![t].reload = @ \/ reload]

\* Mutant: the failed refresh is an answer 401 like any other, and waits for itself.
RefreshAwaitsItself(c) == FALSE /\ UNCHANGED sessionVars

\* The promise rejects, for REFRESH_RACE as for any other reason.
RefreshFails(c) ==
  /\ refreshes[c].stage = "down" /\ refreshes[c].answer # "ok"
  /\ refreshes' = [refreshes EXCEPT ![c] = Quiet]
  /\ promise' = [promise EXCEPT ![TabOf[c]] = None]
  /\ LogOut(TabOf[c], TRUE)
  /\ UNCHANGED <<tokens, jar, page, guard, access, calls, orphans, history>>

------------------------------------------------------------------------------
(* Logging out and in. *)

\* handleLogout of the shell.
Logout(t) ==
  /\ Shell(t) /\ leaving[t] = Staying
  /\ LogOut(t, FALSE)
  /\ EventIf(TRUE)
  /\ UNCHANGED <<tokens, jar, page, guard, access, refreshes, promise, calls, orphans,
                 swept, aborted, faults>>

\* Mutant: nobody goes to the login page after the logout.
LeftInPlace(t, cookie) ==
  /\ leaving' = [leaving EXCEPT ![t] = Staying]
  /\ access' = [access EXCEPT ![t] = "none"]
  /\ UNCHANGED <<page, guard, calls, refreshes, promise, orphans>>

\* The thunk is over, well or not, and leaves a cookie in the jar. A guard that
\* has not made its attempt, as the tab came in by the login form, makes it as
\* the user is cleared. Loading the page anew aborts that, sent or not, with all
\* that was in progress; being routed to it drops nothing.
Left(t, cookie) ==
  LET attempts == page[t] = "app" /\ guard[t] = "fresh"
      own == [op |-> "refresh", slot |-> t, cookie |-> cookie]
  IN /\ page' = [page EXCEPT ![t] = "login"]
     /\ guard' = [guard EXCEPT ![t] = "fresh"]
     /\ IF leaving[t].reload
          THEN /\ Forget(t, Quiet)
               /\ \E more \in SUBSET (IF attempts /\ cookie # None THEN {own} ELSE {}) :
                    orphans' = orphans \cup Unheard(t) \cup more
          ELSE /\ leaving' = [leaving EXCEPT ![t] = Staying]
               /\ access' = [access EXCEPT ![t] = "none"]
               /\ refreshes' = IF attempts THEN [refreshes EXCEPT ![t] = Up(cookie, FALSE)]
                               ELSE refreshes
               /\ UNCHANGED <<calls, promise, orphans>>

LoggedOut(t) ==
  /\ leaving[t].stage = "down"
  /\ Left(t, None)
  /\ jar' = None
  /\ UNCHANGED <<tokens, history>>

\* A login is one step: nothing of the tab's session is under way meanwhile.
Login(t) ==
  /\ page[t] = "login" /\ leaving[t] = Staying
  /\ \A s \in Slot : Owner(s) = t => refreshes[s] = Quiet
  /\ \E k \in Token : /\ Fresh(k)
                      /\ tokens' = [tokens EXCEPT ![k] = "live"]
                      /\ jar' = k
  /\ access' = [access EXCEPT ![t] = "valid"]
  /\ page' = [page EXCEPT ![t] = "app"]
  /\ EventIf(TRUE)
  /\ UNCHANGED <<guard, refreshes, promise, calls, leaving, orphans, swept, aborted, faults>>

------------------------------------------------------------------------------
(* Time and loss. *)

\* 15 minutes.
Expire(t) ==
  /\ access[t] = "valid"
  /\ access' = [access EXCEPT ![t] = "expired"]
  /\ EventIf(TRUE)
  /\ UNCHANGED <<tokens, jar, page, guard, refreshes, promise, calls, leaving, orphans,
                 swept, aborted, faults>>

\* A request that is not answered in time, before or after the server handled
\* it: NETWORK_ERROR or TIMEOUT.
LoseRefresh(s) ==
  /\ InFlight(s) /\ refreshes[s].answer # "no"
  /\ refreshes' = [refreshes EXCEPT ![s].stage = "down", ![s].answer = "no", ![s].cookie = None]
  /\ FaultIf(TRUE)
  /\ UNCHANGED <<tokens, jar, page, guard, access, promise, calls, leaving, orphans,
                 swept, aborted, events>>

\* The thunk ignores it.
LoseLogout(t) ==
  /\ leaving[t].stage # "quiet"
  /\ Left(t, jar)
  /\ FaultIf(TRUE)
  /\ UNCHANGED <<tokens, jar, swept, aborted, events>>

------------------------------------------------------------------------------
\* A returning user: the cookie is good, and no tab is open.
SessionInit ==
  /\ jar = 1
  /\ tokens = [k \in Token |-> IF k = 1 THEN "live" ELSE "unused"]
  /\ page = [t \in Tab |-> "closed"]
  /\ guard = [t \in Tab |-> "fresh"]
  /\ access = [t \in Tab |-> "none"]
  /\ refreshes = [s \in Slot |-> Quiet]
  /\ promise = [t \in Tab |-> None]
  /\ calls = [c \in Call |-> "idle"]
  /\ leaving = [t \in Tab |-> Staying]
  /\ orphans = {}
  /\ swept = FALSE /\ aborted = FALSE /\ events = 0 /\ faults = 0

\* What the network and the timers bring about, and the user does not.
Proceeds ==
  \/ \E s \in Slot : HandleRefresh(s)
  \/ \E t \in Tab : \/ HandleLogout(t) \/ LoggedOut(t)
                    \/ GuardPasses(t) \/ GuardSleeps(t) \/ GuardRetries(t) \/ GuardFails(t)
  \/ \E c \in Call : Answered(c) \/ Unauthorized(c) \/ Refreshed(c) \/ RefreshFails(c)

SessionNext ==
  \/ Proceeds
  \/ \E t \in Tab : \/ \E to \in {"app", "login", "closed"} : Load(t, to)
                    \/ Return(t) \/ Wake(t)
                    \/ Logout(t) \/ Login(t) \/ Expire(t) \/ LoseLogout(t)
  \/ \E o \in orphans : HandleOrphan(o) \/ Vanish(o)
  \/ \E c \in Call : Send(c)
  \/ \E s \in Slot : LoseRefresh(s)
  \/ \E k \in Token : Age(k)

SessionSpec == SessionInit /\ [][SessionNext]_sessionVars

\* A slot is in one stage at a time, and so is a logout: one condition for each
\* does for all their steps.
SessionFairness ==
  /\ \A t \in Tab : /\ WF_sessionVars(HandleLogout(t) \/ LoggedOut(t))
                    /\ WF_sessionVars(\/ HandleRefresh(t) \/ GuardPasses(t) \/ GuardSleeps(t)
                                      \/ GuardRetries(t) \/ GuardFails(t))
  /\ \A c \in Call : /\ WF_sessionVars(Answered(c) \/ Unauthorized(c))
                     /\ WF_sessionVars(HandleRefresh(c) \/ Refreshed(c) \/ RefreshFails(c))

FairSessionSpec == SessionSpec /\ SessionFairness

------------------------------------------------------------------------------
(* Properties. *)

\* A page of (app) has a user or its guard is asking for one, a request that is
\* over has left nothing in its slot, and a call that waits has something to wait
\* for: the promise, with its request under way, or the page that is about to be
\* loaded.
SessionTypeOK ==
  /\ tokens \in [Token -> Knowledge]
  /\ jar \in Token \cup {None}
  /\ page \in [Tab -> {"closed", "app", "login"}]
  /\ guard \in [Tab -> {"fresh", "attempted", "waking"}]
  /\ access \in [Tab -> {"none", "valid", "expired"}]
  /\ refreshes \in [Slot -> Refreshes]
  /\ promise \in [Tab -> Call \cup {None}]
  /\ calls \in [Call -> CallStates]
  /\ leaving \in [Tab -> Leavings]
  /\ orphans \subseteq Orphan
  /\ swept \in BOOLEAN /\ aborted \in BOOLEAN
  /\ events \in 0..MaxEvents /\ faults \in 0..MaxFaults
  /\ \A s \in Slot : refreshes[s].stage = "quiet" => refreshes[s] = Quiet
  /\ \A t \in Tab : page[t] = "app" /\ access[t] = "none" => refreshes[t] # Quiet
  /\ \A c \in Call : calls[c] = "waiting" =>
        promise[TabOf[c]] # None \/ leaving[TabOf[c]].reload
  /\ \A t \in Tab : promise[t] # None => TabOf[promise[t]] = t /\ refreshes[promise[t]] # Quiet

\* A browser whose network is prompt and loses nothing never makes the server
\* think that its token was stolen, whatever its tabs do at once: they load
\* pages, let tokens expire, refresh and race, log out and in again. But for a
\* user who leaves a page while its refresh or its logout is under way: the
\* cookie of the answer is lost, and the next visit past the grace is a theft.
NoFalseTheft == swept => faults > 0 \/ aborted

\* Of two tabs opened together by a returning user neither is sent to the login
\* form: the loser of the race for the cookie waits once and finds the winner's.
\* (A third tab may lose twice; and one answer later than the 300 ms, or lost,
\* puts a tab out.)
ColdStartStaysIn ==
  Cardinality(Tab) <= 2 /\ faults = 0 /\ events = 0 => \A t \in Tab : page[t] # "login"

\* However many of a tab's calls are answered 401 at once, and however a refresh
\* ends, one of its calls' refreshes is under way at most, and it is the one the
\* promise stands for. (A guard's may be beside it, when the user of a tab that
\* came in by the login form is cleared, or one goes back after that.)
SingleFlight ==
  \A c \in Call : refreshes[c] # Quiet => promise[TabOf[c]] = c

\* No call of a page waits for ever, whether its refresh is answered, refused or
\* lost, and no page of (app) stays without a user: it gets one or gives way to
\* the login form. (What it shows of that is another matter: once waking, a page
\* that gets its user keeps the banner.)
NothingHangs ==
  \A t \in Tab : []<>(/\ \A c \in CallsOf(t) : calls[c] # "waiting"
                      /\ page[t] = "app" => access[t] # "none")

\* WakingBanner.tsx: the banner is shown when the silent refresh is still in
\* flight past three seconds. So it is gone when that refresh is over.
BannerGoes == \A t \in Tab : guard[t] = "waking" => refreshes[t] # Quiet
=============================================================================
