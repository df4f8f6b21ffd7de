# Formal model of the Customer Success Platform

TLA+ specifications of the platform's server and browser code, checked with TLC on small
instances and, where the table in section 6 says so, proved with TLAPS for every size.
Source paths below are relative to the repository; `app/` stands for `backend/app/`.

The system is a FastAPI backend (a pool of worker threads, one SQLAlchemy session per
request, PostgreSQL under READ COMMITTED, Redis as a cache, two LLM providers over HTTP)
and a Next.js frontend (Redux Toolkit stores, an axios client with a refresh
interceptor). The backend keeps nothing in memory between requests, so what can go wrong
there goes wrong between two statements of different requests, or between a database
statement and a call to Redis or to a provider. The frontend never cancels a request, so
what can go wrong there goes wrong between a request and its answer. That is what is
modelled: one action per statement, external call, user event or answer, in any
interleaving, with failures where the code handles them.

## 1. Inventory

| Component | State | Operations | Modelled by |
|---|---|---|---|
| Auth sessions: `app/services/auth_service.py`, `repositories/refresh_token.py` | `refresh_tokens`, `users.is_active` | login, refresh (rotation, grace window, reuse sweep), logout, register, update_me | `RefreshTokens`, `AccessControl` (register); not update_me |
| Dashboard cache: `app/core/cache.py`, `core/redis.py`, `services/cache_hooks.py`, `services/dashboard_service.py` | `csp:ver:dashboard`, cached entries | versioned read-through, invalidation after commit, fault-swallowing Redis calls | `DashboardCache`, `FreshReads` |
| AI insights: `app/services/insight_service.py`, `services/interaction_service.py` | `interactions`, `insights` | create, generate, regenerate, fail, delete | `InsightLifecycle` |
| LLM failover client: `app/llm/` | a deadline, the current provider | generate, repair, failover | `FailoverClient` |
| Users and roles: `app/services/user_service.py`, `core/deps.py`, `core/security.py` | `users.role`, `users.is_active` | create, update, deactivate, the role gates | `AccessControl` |
| Customers: `app/services/customer_service.py` | `customers.owner_id` and data | list, create, update, reassign, delete, scoping | `AccessControl`, `Listing`, `DashboardCache` |
| Interactions: `app/services/interaction_service.py` | `interactions` | create, update, delete, regenerate, list | `AccessControl`, `InsightLifecycle`, `Listing`, `DashboardCache` |
| Sessions and pool: `app/db.py` | ten connections, row locks, threads | one session per request | `ConnectionPool`; locks in `RefreshTokens` |
| Errors, request ids, rate limit, logging: `app/core/` | none (the limiter's window is slowapi's) | exception-to-response mapping | no: stateless |
| Schemas, migration, seed | none | validation, DDL, `Page.build` | `Listing` (the arithmetic of pages) |
| Browser session: `frontend/components/AuthGuard.tsx`, `lib/axios.ts`, `store/slices/authSlice.ts` | access token per tab, cookie shared by tabs, the shared refresh promise, the waking banner | load, reload and close a page, silent refresh with its retry, single-flight refresh, login, logout | `BrowserSession` |
| Frontend stores: `frontend/store/slices/` | lists, current item, trend, busy rows | thunks and reducers | `FrontendStores` |
| Pages and components | filters, page numbers, forms, chart rows | what they request, when they draw rows, how forms are filled and sent | `FrontendStores`, `Listing`, `EditForms`, `TrendSeries` |

How they interact. A request holds a pooled connection from its first statement until
its session is closed, an LLM call included. Every write to customers, interactions or
insights commits, then bumps the cache's version, then answers. Interaction creation
calls the insight service in the same request, and that calls the failover client. The
browser presents its refresh cookie to the auth service on every page load and after
every 401, from every tab. A page dispatches its requests when it is mounted, and their
answers change the one store whatever page is shown by then; a form is filled once from
that store and sends every field back.

What is hard about each, and what makes it correct:

* **Auth sessions.** Concurrent refreshes of one token, with logout, deactivation and
  reuse sweeps, all racing for row locks while each request judges the row by a
  timestamp it took before it waited. Correct means: rotation never forks a login's
  chain of tokens, an honest race is never taken for theft, the time from which a token's
  grace counts is not moved about, and every request is answered.
* **Dashboard cache.** Four round trips per read, a write's commit and its invalidation
  are not atomic, and any Redis call may fail alone. Correct means: once a write is
  answered, no read that starts later shows the state before it.
* **AI insights.** A second or longer between load and store, with other regenerations
  and deletions in between, partial-column UPDATEs, and a connection that was given back
  and must be got again before the outcome can be stored. Correct means: an insight stays
  pending only if the request that was to settle it was cut short, an error has a cause
  outside the LLM, and what generations write agrees.
* **Failover client.** Calls, repairs and providers share one budget, and a call can
  outlast its timeout. Correct means: what is granted keeps to the budget, all providers
  get their chance, and the call ends.
* **Users, customers, interactions.** Rights are checked on rows that others change
  before the write. Correct means: what is written was allowed by the state at some
  moment of the request, no request undoes another's edit, and an active administrator
  remains.
* **Sessions and pool.** A request holds a connection while it waits for a thread, and
  threads wait for connections. Correct means: every request is answered, and only a
  crowd can make requests block each other.
* **Browser session.** The cookie jar is shared by tabs that know nothing of each
  other's refreshes, and a page that is loaded anew or closed takes its requests with it
  while the server goes on. Correct means: an honest user with two tabs is neither sent to
  the login page by opening them nor taken for a thief, and nothing waits for ever.
* **Stores and pages.** Answers arrive out of order, and to other pages than asked.
  Correct means: every row that is drawn is there, nothing spins for ever, and, unless an
  answer overtook an older one, what is shown belongs to what is selected. A form saves
  what it showed and changes nothing else, and the server accepts what a button offers;
  paging shows every row once; the chart shows every date of its range.

`PROJECT.json` lists the individual hazards, each at its line, with the properties that
cover it.

## 2. The modules

### RefreshTokens (`MCRefreshTokens`, `RefreshTokensProofs`)

The table's columns are functions on tokens (`status`, `owner`, `revokedAt`,
`expiresAt`); a raw token and its SHA-256 are one. `lock` says which request holds a
row's lock. Each request has a program counter and its locals: `tok` (presented token),
`at` (the Python variable `now`), `snap` (the rows its sweep selected).

| Code | Actions |
|---|---|
| `login`, `_issue_pair` | `Login`, `LoginIssue` |
| `refresh`: timestamp, then `SELECT ... FOR UPDATE` | `Refresh`, `RefreshLock` |
| revoked and recent: REFRESH_RACE | `RefreshRace` |
| revoked earlier: `revoke_all_for_user`, commit, TOKEN_REUSED | `RefreshReuse`, `Sweep`, `SweepCommit` |
| expired, or user not active | `RefreshDenied` |
| rotation and commit | `RefreshAccepted`, `Rotate` |
| `logout` | `Logout`, `LogoutCommit` |
| `PATCH`, `DELETE /users/{id}` on `is_active` | `SetActive` |
| lost connection, rollback in `get_db` | `Abort` |

READ COMMITTED is modelled statement by statement. A locking read waits for the lock and
then sees the last committed row. The sweep's UPDATE takes its rows from a snapshot,
waits for locked ones in an order of the database's choosing, and re-checks
`revoked_at IS NULL` on each when it gets it. What a transaction wrote is published by
the step that commits. A logout's UPDATE goes by primary key: it waits, but does not
look again at whether the row was revoked.

### DashboardCache (`FreshReads`, `MCDashboardCache`, `DashboardCacheProofs`)

The database is the set of writes committed; an answer is the set of writes that every
statement behind it saw. A read is `BuildKey` (GET of the version), `Hit` or `Miss` (GET
of the entry), `Query`, `Store` (SETEX under the version read at the start) and
`Answered`; a write is `Commit` and `Invalidate`. The constant `Faults` names the Redis
calls that may fail (`LoseInvalidate`, `LoseStore`, a GET read as a missing key,
`Restart` with an empty store). `FreshReads` is the abstract specification: a database
read with no cache, which shows some state that includes every write answered before the
read began. The refinement maps a reader that looks up, queries and stores to one that
is reading.

### InsightLifecycle (`InsightLifecycleProofs`)

One interaction with its insight row (others share no state with it). A request keeps
the columns as it loaded them (`base`) and as it changed them (`mine`); `Save` is
SQLAlchemy's flush and commit, which updates only the columns whose value changed, finds
no row if it was deleted (StaleDataError), and sends nothing if nothing changed.
`Create`, `Regenerate`, `Reset`, `Load`, `Complete`, `Fail` and `Respond` are the steps
of the two requests; `LoadGone` and `RespondGone` what they meet after a deletion;
`Delete` and `Crash` the environment. The failover client appears as its outcomes.

A request has given its connection back with its first commit, so that from then on the
database may fail it in a process that lives: `LoadBreaks` and `RespondBreaks` are reloads
that raise with the row present (the pool's timeout, a lost connection), and the third
disjunct of `Save` is a flush or COMMIT that fails, before or after it took effect. The
history `cut` records at which stage that happened, or at which the process died.

### FailoverClient (part of `MCServing`, `ServingProofs`)

One call of `generate` against a clock. `CallProvider`, `Exhausted` and `OutOfBudget`
are the head of the loop; `Valid`, `Invalid`, `StillInvalid`, `LLMError` and
`OtherError` are how a first call or a repair can end. httpx applies a timeout to each
phase of an exchange (connect, write, every read), so a call may take up to `Overrun`
more than it was given; the history `late` records that one did. Parsing takes no time,
and what the answers say is left out.

### AccessControl (part of `MCRows`, `AccessControlProofs`)

Users (role, active), the owner of each customer, and customer and author of each
interaction, with requests that take one statement at a time.

| Code | Actions |
|---|---|
| `register` | `Register`, `WriteNewUser` |
| `get_current_user`, `require_roles`, the check on oneself | `Authenticate` |
| `get_or_404` and `ensure_access` of users, customers and interactions | `LoadUser`, `LoadCustomer`, `LoadInteraction` |
| commit of each operation of the three services | `WriteUser`, `WriteNewCustomer`, `WriteCustomer`, `DeleteCustomer` (with its cascade), `WriteNewInteraction`, `WriteInteraction`, `DeleteInteraction` |
| StaleDataError, IntegrityError | `WriteFails` |

`Column` is SQLAlchemy's unit of work: an attribute that is set to the value it was
loaded with is not in the UPDATE. `local` is what the request has read, `title` records
what has entitled its user since it arrived: "able" (active, in a role that may do
this), "privileged" and "owner". A request names rows that existed by the time it was sent
(`Known`): ids are UUIDs, and clients get them from the server.

### Listing (part of `MCRows`, `PagesProofs`)

A paged list: `Count` and `SelectPage` are the two statements of the server, `Before`
the ORDER BY with NULLs last and the id as the last key, `TotalPages` the arithmetic of
`Page.build`; `EditForm`, `Apply`, `NextPage` and `PreviousPage` what the user does. The
buttons ask with the filters as they are in the form, applied or not. `ChangeRow` is
somebody else. The history `walk` counts how often each row was shown since page 1, as
long as order, filter and table stay the same.

### FrontendStores (part of `MCRows`, `FrontendStoresProofs`)

One slice with its pages: `entities`, the `ids` of the last list, the statuses of list
and detail, and the rows that are busy. `flight` holds the requests under way, `here`
marks the one whose answer the mounted page awaits (it was orphaned when the page was
left). `ShowList`, `ShowRow` and `Leave` mount pages, `Press*` and `Submit*` are buttons
and forms, and each thunk has an action for its fulfilled and its rejected reducer. What
a slice lacks, it lacks here: interactions are merged into `entities` where customers
and users replace them, a dashboard section is a list and nothing else.

### EditForms (part of `MCRows`, `PagesProofs`)

One row (`record`), its copy in the store (`cached`), the mounted form (`fields`), the
PATCH under way (`payload`), and the user's role twice: `userRole` in the database, which
the server reads in every request, and `cachedRole` in `state.auth.user`, by which the
pages go. `ListFetched` and `DetailFetched` fill the store, and differ: a row of the list
of customers has no phone (`Missing`). `UserFetched` brings the role up to date and
`RoleChanged` changes or deactivates the account.

| Code | Definitions |
|---|---|
| `defaultValues`, `toDatetimeLocal` | `OpenForm` with `Filled`: a missing value becomes an empty input, a time what a clock on the wall shows (`Wall`: no seconds, and an hour that comes twice is read as its first time) |
| `canEdit`, the owner's select | `Offered`, `Inputtable` |
| `CustomerForm.submit`, `InteractionForm.submit` | `Save` with `Converted`: every field is sent, an empty input as null |
| `update_customer`, `update_interaction` | `Patch`: `Accepted`, then `Patched`, which strips and lowercases an address (`Lower`) |
| an answer that is lost, or a refusal | `PatchUnheard`, `PatchRefused` |

### TrendSeries (part of `MCRows`, `PagesProofs`)

`SentimentTrend` is the query, `TrendAnswered`, `Mount` and `Unmount` the browser;
`PointsAt` is GROUP BY date over the server's window and `SeriesAt` the gap filling of
`lib/trend.ts`. The clock moves between any two of them.

### BrowserSession (`MCBrowser`, `MCServing`, `BrowserSessionProofs`)

Tabs share the cookie jar (`jar`); each has what is mounted (`page`), the state of its
guard (`guard`: `attempted.current` and `waking`), its access token, its shared promise
(`promise`), its calls and its logout (`leaving`). A POST `/auth/refresh` is a slot of
`refreshes`, one for the guard of a tab and one for each call: on its way up with the
cookie it presents, or its answer on the way down with the cookie it sets. `orphans` are
requests whose page is gone: the server may still handle them, and nobody hears of it.
The server is reduced to what `RefreshTokens` shows: it knows of each token whether it is
unused, live, revoked recently or long ago.

| Code | Actions |
|---|---|
| a page is opened, loaded anew (F5, its address) or closed, by the user | `Load`, `Return` (routed back from the login form) |
| `AuthGuard`: silent refresh, banner after 3 s, wait of 300 ms, second try, redirect | `Load`, `Wake`, `GuardPasses`, `GuardSleeps`, `GuardRetries`, `GuardFails` |
| the guard's effect as the user is cleared, in a tab that came in by the login form | `Left` |
| request and answer of any call | `Send`, `Answered` |
| interceptor: first 401, shared promise, retry, logout and `window.location` | `Unauthorized` (`Join`), `Refreshed`, `RefreshFails`, `Left` |
| `/auth/refresh`, `/auth/logout` at the server | `HandleRefresh`, `HandleLogout` (`Outcome`, `Revoked`); of a page that is gone `HandleOrphan`, `Vanish` |
| login page, logout button | `Login`, `Logout`, `LoggedOut` |
| clock and network | `Expire`, `Age`, `LoseRefresh`, `LoseLogout` |

### ConnectionPool (part of `MCServing`, `ServingProofs`)

A synchronous dependency and an endpoint run on a thread of the framework's pool each,
one after the other; in between the request holds its connection and waits. `TakeThread`,
`Checkout`, `GiveUp` (the pool's timeout), `Authenticated`, `Commit` (the connection goes
back and the expired row must be read again), `Respond` and `Close` are the steps.

## 3. The runs

| Run | Instance | Distinct states | What it shows |
|---|---|---|---|
| `refresh_safety` | 1 user, 3 tokens, 2 threads, grace 1, TTL 3, clock to 4 | 2.6 million | `OneLivePerLogin`, `ConcurrentIsBenign`, `GraceHardlyMoves` |
| `refresh_live` | the same with grace 0, clock to 1, no deactivation | 270,000 | `RequestsFinish` |
| `refresh_chain` | as `refresh_safety` | violated | a sweep misses the successor of a token under rotation |
| `refresh_slow` | requests up to 3 long, grace 1, no logout | violated | a slow honest race is answered as theft |
| `cache_fresh` | 2 writes, 2 readers, 2 keys, SETEX may fail, eviction | 211,000 | `FreshAnswers`, and the refinement `ImplementsFreshReads` |
| `cache_faulty` | 2 writes, 2 readers, 1 key, all faults, clock to 4 | 1.2 million | `StaleBounded` |
| `cache_lost_incr` | 1 write, 1 reader, INCR may fail | violated | one lost INCR makes an answer stale |
| `insight_safety` | 3 requests, 2 providers, deletion, one of them cut short | 4.2 million | `PendingIsOwned`, `FailuresHaveCauses`, `SerialGenerationsAgree`, `PendingSettles` |
| `create_answered` | 2 requests | violated | POST /interactions ends with 500 after a concurrent deletion |
| `serving` | server: 4 clients, 2 threads, 2 connections, 1 commit each; then one generation: 2 providers, 15 s a call, 35 s in all, 8 s for a repair, overrun 15 s. Browser: 2 tabs, 3 calls, 8 tokens, 2 events, 1 fault | 504,000 (browser 439,000) | `OnlyACrowdBlocks`, `RequestsAnswered`; `BudgetKept`, `GivesUpOnlyWhenSpent`, `Terminates`; `NoFalseTheft`, `ColdStartStaysIn`, `SingleFlight`, `NothingHangs` |
| `rows` | five parts, see below | 1.6 million | `EntitledWrites`, `OnlyManagersReassign`, `EditsDoNotRevert`, `SerialAdminRemains`; `WalkShowsEachOnce`; `RowsRenderable`, `SpinnersHonest`, `InOrderShowsSelected`; `SavesOnlyEdits`, `OfferedIsAccepted`; `TrendComplete` |
| `banner` | the browser, no events, no faults | violated | `BannerGoes`: a guard whose refresh succeeds after 3 s keeps the banner |

`MCRows` runs `AccessControl`, `Listing`, `FrontendStores`, `EditForms` and `TrendSeries`
side by side: they share no state, so each behaviour is one of a single part (the
variable `part`) and the states are the sum, not the product, of theirs. `MCServing` runs
the pools to their end and then one generation, or the browser with the server's parts at
rest, for the same reason: the browser knows nothing of pools and providers but that an
answer may be late, which its own actions have.

Each passing run also checks the type invariants of its modules (but the liveness and
fault runs of a module whose safety run does). Several of these say more than types, as
their comments tell.

Why the bounds are enough.

* *RefreshTokens.* Every property relates at most a presented token, its successor and a
  concurrent request: three tokens give a rotation, a successor of the successor, and a
  sweep that meets both; two threads give every pairwise race, and two sweeps that wait
  for each other's rows (reachable in `refresh_live`: with one token logged out, another
  presented, and the third wanted by both). `grace = 1` and `clock = 4` separate before,
  within and after the grace window, and let tokens expire. `ReqTime = 1 <= Grace`
  states that no request outlasts the window; `refresh_slow` drops it.
* *DashboardCache.* A stale answer needs one reader that stores late, one that reads what
  was stored, and a write between: the second write checks that versions are not
  confused. The safety run has no clock, so entries never expire, the worst case for
  staleness; the fault run has one, as its bound is in time.
* *InsightLifecycle.* Two overlapping generations and one before or after them. Requests
  are handled once, so at most three attempts. One request is cut short (`MaxCuts`), at any
  stage: the properties relate the row to one such request and what others do after it;
  the theorems are about any number.
* *FailoverClient.* The settings of `app/core/config.py` and two providers, as shipped.
  The overrun, as much again as a call is given, is one more phase that takes its whole
  timeout (connecting, then reading).
* *ConnectionPool.* `Threads + PoolSize` requests are the fewest that can block each
  other, and that many arrive. One commit gives the reload after it.
* *AccessControl.* 2 users (the role of each, and whether it is active, as the database
  starts with), 1 customer, 1 interaction, 2 requests at once: every property relates one
  request to one that changes what it relied on. Bodies of PATCH are a demotion and a
  promotion with reactivation, as deactivation also has its own request; accounts are
  created as managers. Requests follow one another without bound.
* *Listing.* 3 rows, 2 keys and no key, 2 to a page, 1 row changed by others: two pages,
  ties across their border, and a row that appears or goes between them.
* *FrontendStores.* 2 rows, 2 queries (one matches a single row and is also the list on a
  customer's page), 3 requests under way: an answer, one that overtakes it, and a
  mutation in between.
* *EditForms.* 2 persons, 2 texts, each address in two spellings, the four instants that a
  clock shows as one minute (with and without a second, the first and the second time), 1
  edit by the user and 1 change by others, of the row or of the user's role; the form may
  be sent, left and opened again, and store and role fetched, without bound.
* *TrendSeries.* Series of 2 days, dates of 2 instants (so that the window begins in the
  midst of one), clock to 6, 2 meetings.
* *BrowserSession.* One tab has two calls, which can share a promise, the other one. An
  event is an access token that expires or is refused, a login, a logout, or a page that is
  loaded where one was, closed, or returned to from the login form; a fault is an answer
  that is lost, one that takes longer than the guard's 300 ms, or one that outlasts the
  grace window. Two events give an F5 during a refresh and what follows, or an expiry and a
  logout beside it; with them and one fault no behaviour uses the eighth token. Opening a
  tab is not an event.

Symmetry is used over tokens and threads, over writes and readers, and over users,
requests and texts, in runs without liveness only: no definition distinguishes among
them. Deadlock is checked wherever the environment can always move; the insight and
serving models handle each request once and then stop, and a browser stops when it has
used up its events.

## 4. Fairness

* `RequestsFinish`: a thread that can take its next statement does (weak fairness of
  `OtherStep`). Row locks get strong fairness (`LockingStep`), as PostgreSQL grants a
  lock in the order it was asked for: a waiter is not overtaken for ever. Weak fairness
  of `DeadlockVictim` is PostgreSQL's deadlock detector. Nothing is assumed of clients,
  time or the administrator. `OutOfTokens` stands for the bounded supply of tokens of
  the instance, not for code.
* `PendingSettles`: each request goes on (weak fairness of `Step`). It rests on the
  LLM call returning, which is what `Terminates` shows of the client. Crashes and failures
  of the database are not fair or unfair: the property excludes what was cut short.
* `Terminates`: every HTTP exchange ends, by httpx's timeouts.
* `RequestsAnswered`: each request goes on (weak fairness of its own steps). Endpoints
  return because their calls have timeouts; `GiveUp` is SQLAlchemy's `pool_timeout`.
  With a bounded number of requests nobody is overtaken for ever.
* `NothingHangs`: for each refresh, each call and each logout, weak fairness of whatever is
  its next step, at the server or in the browser (`SessionFairness`), as promises settle: an
  answer, an error, or the timeout of axios. Nothing is assumed of users, clocks, losses, or
  requests that nobody waits for.

## 5. Where the code and its documents disagree

* **A sweep can miss a token** (`refresh_chain`). `revoke_all_for_user` is one UPDATE on
  a snapshot; a rotation under way inserts a successor that the snapshot lacks.
  `plans/03-auth-rbac-errors-logging.md:65` says reuse invalidates *all* the user's
  tokens.
* **A slow race is theft** (`refresh_slow`). `now` is taken before the wait for the row
  lock, and the winner stamps `revoked_at` with its own early `now`. If the winner takes
  longer than the grace window, the loser, which began while the token was live, revokes
  everything. `app/repositories/refresh_token.py:25` says the second of two concurrent
  refreshes gets REFRESH_RACE.
* **Redis down can be wrong** (`cache_lost_incr`). `safe_incr` swallows a failed INCR; if
  the next GETs work, the old entries stay in use. `app/core/redis.py:1` says "slower,
  never wrong".
* **A create can fail** (`create_answered`). When the interaction is deleted during the
  LLM call, the handler that is to protect the request reads an expired, deleted object
  and raises. `README.md:231` says it always returns 201.

* **The banner stays** (`banner`). When the silent refresh succeeds after the banner went
  up, setting the user re-runs the guard's effect, whose cleanup sets `cancelled` before
  `finally` looks at it: `setWaking(false)` (`components/AuthGuard.tsx:52`) is skipped, and
  the banner covers the page until it is loaded anew. `components/WakingBanner.tsx:1` says
  it is shown while the refresh is in flight.

`StaleBounded` is what does hold when Redis fails: an answer is out of date by at most a
TTL and the duration of the read that cached it.

Disagreements that a passing run shows the extent of, as what its property allows:

* **The budget is not 35 s, nor under 45 s** (`BudgetKept`). `httpx.Client(timeout=t)`
  (`app/llm/base.py:69`) applies `t` to connecting and to each read, not to the call. A
  first call that takes 20 s and cannot be parsed leaves 15 s for a repair, which may
  connect for 15 s and read for 15 s: 50 s with the shipped settings and calls that last
  twice what they are given. `app/core/config.py:71-72` and `app/llm/client.py:3-6` say that
  the budget keeps the worst case under the browser's 45 s, `app/db.py:19` counts on 35 s at
  most, `plans/06-ai-insights.md:29,73` on about 35 s. The property bounds what is granted
  by the budget, and what is used by one overrun more.
* **F5 at the wrong moment ends the session** (`NoFalseTheft`, which excludes it by
  `aborted`). A page that is loaded anew or closed during its refresh takes the answer with
  it, and the server has rotated the token. The next refresh within ten seconds meets
  REFRESH_RACE with no winner to wait for, and goes to the login form; a later one is
  taken for theft and ends all sessions of the user.
  `plans/08-frontend-foundation.md:50` says that a hard refresh keeps the user logged in,
  `plans/12-deploy.md:35,43` that F5 does.
* **An edit can erase the phone** (`SavesOnlyEdits`, which excludes it). Rows of
  GET `/customers` have no phone (`app/schemas/customer.py:53-65`); the edit page mounts the
  form on such a row before the answer for the customer is in
  (`customers/[id]/edit/page.tsx:36,51,61`), the input is empty, and the form sends null
  (`components/customers/CustomerForm.tsx:60`).
* **An insight can stay pending for good** (`PendingIsOwned`, which names the request to
  blame). If the reload or the second commit fails after the pending row was committed
  (the pool's timeout, a lost connection), or the process dies, nothing settles the row, and
  the panel offers no retry while it is pending. A create answers 500 then, or 201 with the
  pending insight.

Observations no run is made of, most of them where no document promises otherwise:

* *Insights.* Two overlapping generations can lose an attempt and mix the columns of
  both, so `SerialGenerationsAgree` is about generations that do not overlap. A provider's
  200 without the expected envelope ends `generate` with an error no one but the insight
  service catches: the insight fails, and the other provider is not asked (`OtherError`).
* *Tokens.* A logout writes `revoked_at` whether or not the token was revoked meanwhile:
  that moves the start of its grace window, either way, by as much as a request takes
  (`GraceHardlyMoves`), so that a race at the window's edge may be judged differently.
* *Pool.* Only the pool's timeout ends a cycle of requests that hold a connection and wait
  for a thread with requests that do the opposite.
* *Users.* Two administrators that demote each other at the same time leave none.
* *Session.* The interceptor does not retry REFRESH_RACE, as `AuthGuard` does, but logs
  out; its logout sends the cookie as it is by then, the winner's
  (`README.md:273` says that the client retries REFRESH_RACE once). An answer to a
  refresh that arrives after a logout brings the session back. A 401 that arrives after
  a refresh has finished starts a second one, and so does a wrong current password
  (401 on PATCH `/auth/me`). In a tab that came in by the login form, the guard makes its
  one attempt when the logout clears the user, beside whatever refresh of the interceptor
  is under way: `SingleFlight` is about the interceptor's. The third of three tabs opened
  together may lose twice, and an answer later than the guard's 300 ms puts a tab out.
* *Stores.* A list that was answered before stays under new filters until the next
  answer. A late list removes the row of a detail page (customers), which then shows
  nothing. A row that was deleted can come back with a late list. `router.push` after a
  create, update or delete happens even if the user has left the page. The page of a
  customer whose list fails draws the list of another
  (`customers/[id]/page.tsx:155`). Stores are not reset on logout. The skeletons of a
  dashboard section are unreachable, against its own comment.
* *Forms.* A form is filled from a row that may be stale, and sends all of its fields
  back. Saving an interaction truncates the seconds of `occurred_at`, and moves a time of
  the hour that comes twice in autumn to its first. Buttons go by the role of the last
  refresh: after a demotion they offer what the server refuses. Inputs stay editable while
  a form is being saved, and these edits are lost. A form that was sent, left and mounted
  again can be sent a second time while the first is under way.
* *Lists.* Next and Previous use filters that were not applied, so that a page beyond the
  last can be asked for, which shows an empty table without page buttons. The count and
  the rows of a page are two statements.
* *Trend.* `trend.ts:13` promises a continuous series; it has gaps when a meeting is
  entered for a date to come, and when it is drawn on a later date than its points were
  counted on. `TrendComplete` says what holds.

## 6. Proofs

Every safety invariant and action property of a passing run is also a theorem. The
theorems hold for any number of users, tokens, threads, writes, readers, keys, requests,
providers, rows, queries, tabs and calls, and any settings. The assumptions on constants
are the named ASSUMEs of the modules: settings are natural numbers, `None` is none of the
rest, the rows of a list and the tabs of a browser are finitely many, ids are ordered.
Conditions that a theorem needs beyond these are in its property or in the table.

`ServingProofs` is about `FailoverClient` and `ConnectionPool`, `PagesProofs` about
`EditForms`, `Listing` and `TrendSeries`; every other module of proofs is about the one it
is named after (`DashboardCacheProofs` also about `FreshReads`).

| Module | Theorem | Property | Along which argument |
|---|---|---|---|
| `RefreshTokensProofs` | `TypeCorrect` | `TypeOK` | inductive as it stands |
| | `OneLiveTokenPerLogin` | `OneLivePerLogin` | `ChainInv` |
| | `ConcurrentRefreshIsBenign` | `ConcurrentIsBenign`, if `ReqTime <= Grace` | `BenignInv` |
| | `RevocationTimesHold` | `GraceHardlyMoves` | `StampInv`, on top of `ChainInv` |
| `DashboardCacheProofs` | `TypeCorrect` | `TypeOK` | inductive as it stands |
| | `AnswersAreFresh` | `FreshAnswers`, if only SETEX may fail | `FreshInv` |
| | `StalenessIsBounded` | `StaleBounded`, whatever fails | `StaleInv` |
| | `CacheImplementsFreshReads` | `ImplementsFreshReads`, if only SETEX may fail | step simulation under `FreshInv` |
| `InsightLifecycleProofs` | `TypeCorrect` | `TypeOK` | inductive as it stands |
| | `PendingHasAnOwner`, `FailuresAreCaused` | `PendingIsOwned`, `FailuresHaveCauses` | inductive with `TypeOK` and `CutShort` |
| | `SerialGenerationsWriteWhole` | `SerialGenerationsAgree` | `SerialInv` |
| `ServingProofs` | `TypeCorrect`, `BudgetIsKept`, `FailsOnlyWhenSpent` | `TypeOK`, `BudgetKept`, `GivesUpOnlyWhenSpent` | `Inv` |
| | `PoolTypeCorrect` | `PoolTypeOK` | inductive as it stands, by lemmas on cardinalities |
| | `CrowdCorrect` | `OnlyACrowdBlocks` | follows from `PoolTypeOK` by counting |
| `FrontendStoresProofs` | `StoresTypeCorrect` | `StoresTypeOK` | inductive as it stands |
| | `RowsCorrect` | `RowsRenderable` | inductive with `StoresTypeOK` |
| | `SpinnersCorrect` | `SpinnersHonest` | `Honest`, by lemmas on sequences |
| | `InOrderCorrect` | `InOrderShowsSelected` | `OrderInv` |
| `PagesProofs` | `SavesOnlyWhatWasEdited`, `OfferedFormIsAccepted` | `SavesOnlyEdits`, `OfferedIsAccepted` | `FormInv` |
| | `PagesAreBounded` | `ListTypeOK` | inductive as it stands, by cardinalities |
| | `WalksAreComplete` | `WalkShowsEachOnce` | `WalkInv`, and that ranks are unique |
| | `TrendIsComplete` | `TrendComplete` | `TrendInv`, and the arithmetic of the window |
| `AccessControlProofs` | `AccessTypes`, `WritesAreEntitled` | `AccessTypeOK`, `EntitledWrites` | `AccessInv` |
| | `ManagersReassign`, `NoEditReverts` | `OnlyManagersReassign`, `EditsDoNotRevert` | step by step under `AccessInv` |
| | `AnAdminRemains` | `SerialAdminRemains` | `AdminInv`, on top of `AccessInv` |
| `BrowserSessionProofs` | `SessionTypes`, `CallsShareOneRefresh` | `SessionTypeOK`, `SingleFlight` | `SessionInv` |
| | `NoTheftIsSeen` | `NoFalseTheft` | `PromptInv`, on top of `SessionInv` |
| | `NeitherTabIsPutOut` | `ColdStartStaysIn` | `ColdInv`, on top of both |

* `ChainInv`. That a chain has one live token is not inductive: a thread about to rotate
  could hold a token that is no longer live. The invariant adds that a thread past its
  lock holds it (`LockHeld`), that what it is about to rotate is live (`RotateLive`, kept
  because nobody revokes a row without its lock), and that chains are made of issued
  tokens (`Known`, `Chained`), so that the successor is the chain's only live token.
* `BenignInv`. A request is never older than `ReqTime` (`Punctual`), and a token that was
  live when a waiting request began was revoked no earlier than `ReqTime` before that
  (`RecentlyRevoked`): it cannot be outside the window if `ReqTime <= Grace`.
* `StampInv`. A logout overwrites the time of a revocation that happened after it read the
  row. Both requests are at most `ReqTime` old (`Punctual`), and the row was live when the
  logout began, so that the two times differ by no more (`LogoutNear`); everybody else
  writes the time only of a row that is live and locked by it.
* `FreshInv`. Entries and readers carry versions of the past (`VersionsPast`); an entry
  of the current version has seen every write answered (`CurrentFresh`), and
  whatever is stored under the version a reader holds has seen what that reader must
  show (`OwnVersionFresh`). Both rely on commit preceding
  INCR, and on INCR preceding the answer (`AckedCommitted`).
* `StaleInv`. What an entry has seen is as recent as its expiry says (`SeenInTime`),
  independently of versions, which is why it survives every fault.
* `PendingIsOwned` is inductive because a request that will settle the row, or was cut short
  before it did, keeps its `Stage`, and because a deletion ends the claim. `CutShort` says
  that who was cut short does nothing more to the row.
* `SerialInv`. That a completed row is the work of one generation says nothing of the
  time while one runs. The invariant adds that, as long as none has overlapped another, at
  most one is in flight (`Alone`), that what it has loaded is the row as it still is
  (`Current`), so that the columns it does not send are the ones it has already, and that
  a request has counted nothing before it loads (`Uncounted`), so that the attempts are as
  many as the generations whose outcome was committed, wherever any of them was cut short.
  A deletion ends the claim, as in the property.
* `Inv` of the client adds `AskedInOrder`: the providers asked are exactly those up to
  the current one.
* `PoolTypeOK` is the conservation of connections and threads, and carries
  `OnlyACrowdBlocks`: if nobody can move, every thread is with a request that waits for a
  connection and every connection with one that waits for a thread, which takes as many
  requests as there are of both.
* `StoresTypeOK` needs lemmas on sequences: what removing an answer from `flight`, adding
  a request and leaving a page do to the property that at most one is awaited.
* `Honest` is a relation of the requests under way and the store, proved once for each of
  the ways in which both change: a request that presses nothing is added, one that presses
  a row is added or removed, a fetch is answered. A row is busy if and only if a mutation
  of it is under way, and there is at most one: the second half keeps the first when the
  one that is under way is answered.
* `OrderInv`. The property is about the moment when nothing is under way. Until then the
  invariant has the last fetch that can still change what the page shows as the page's own
  (`Own`: `Rivals` are lists and details alike for customers, whose list replaces the
  entities, and fetches of the same kind for the rest); when none is left, what was asked
  for is what is shown (`Settled`). An answer that overtakes an older one is the
  only way out, and the history `overtaken` records it.
* `FormInv`. Neither property says anything of the time between filling a form and the
  commit, when the row, the store and the form all change. The invariant adds that what
  is under way is the conversion of what was submitted, and that what was submitted, and
  what the form holds, shows the row it was filled from wherever its user has set nothing
  (`Shows`), and that, as long as the browser knows the role, a form by the button is the
  owner's or a manager's (`Rightful`).
* `WalkInv`. As long as order, filter and table stay, the pages that were shown are a
  prefix of the rows in the order of the ORDER BY: a row was shown once if its rank is
  below the bound of the current page, else never, and the total is the number of rows.
  A row's rank is the number of its predecessors, and the only one that ORDER BY allows
  (`RankIsUnique`), because the id is the last key: without it, two statements could put
  equal rows in different orders. That the last page covers the total is the rounded
  division of `Page.build` (`TotalPagesCover`).
* `TrendInv`. The points in the store are those of the meetings counted at a recorded
  instant. A meeting on one of the last `Days` dates is inside the server's window
  whatever the time of day of the count (`WindowHoldsDates`), and the window holds one
  more date at most (`WindowHoldsOneMore`).
* `AccessInv`. What a request has read may be out of date, what has entitled its user may
  not be forgotten: per request, the invariant relates what it holds (`Prepared`) to the
  titles that it must have had by then (`Entitled`), and says that the accounts it names
  exist (`Named`), as accounts are never deleted. Requests do not rely on each other, so a
  step of one keeps that of the rest by one lemma (`OthersKeep`).
* `AdminInv`. Until two changes of users overlap, at most one is under way and whoever asked
  for it is an active administrator in the present state, not only when it was checked. As a
  change of oneself can take away neither the role nor the account, one is left after it.
* `SessionInv`, `PromptInv`, `ColdInv`. The first is about slots: a call's refresh is under
  way exactly as long as the tab's promise names that call, and a page of (app) without a
  user has its guard's. The second holds until the network does wrong or a page is left in
  the midst of a refresh or a logout: a cookie on its way is live and in nobody's hands, the
  jar holds a revoked token only while what replaces or drops it is on its way, and requests
  of pages that are gone concern another token than the jar's, so that all that can be
  presented is within its grace. The third is the argument for two tabs of a cold start: the
  one that loses the race has the other ahead of it, and by the time it tries again the
  winner's cookie is in the jar.

Only model-checked: the liveness properties (`RequestsFinish`, `PendingSettles`,
`Terminates`, `RequestsAnswered`, `NothingHangs`). They rest on fairness, whose formulas
are about ENABLED, and on orders of progress; TLAPS offers no support for either here. Nor
are the functions that would need induction over data proved to compute what they
should: where a sum or a fold could have been used, a set with its cardinality
is, and the lemmas of `FiniteSetTheorems` do the rest.

## 7. What is not modelled, and why

* Torn reads of the dashboard: the six statements of a summary may see six states. The
  model keeps the writes that all of them saw, which is what freshness is about; no
  document promises that the figures agree with one another.
* `update_me`: it writes name and password hash of the own row and nothing else depends
  on them. Its 401 is a call's in `BrowserSession`.
* Passwords, JWT contents, field validation, DDL, logging, the error envelope: no
  property depends on them, and they keep no state.
* The rate limiter, whose window is the library's.
* Redis persistence: a restart is with an empty store.
* Options of the selects (`useUserOptions`, `useCustomerOptions`), formatting, colours,
  layout and the generic components: rendering only.
* A minute that the clock skips when it is set forward: nobody enters one in `EditForms`.
* The other columns of a row: abstract values where a form or a list moves them, else
  left out.

## 8. Plan

Every component of section 1 that keeps state is modelled, and every safety property has
its theorem. What is left, most useful first:

1. Abstract specifications of components that have none, as `FreshReads` is one of the
   cache: a session that is either in use or ended (of `RefreshTokens`), an insight that is
   either pending or settled (of `InsightLifecycle`), and the refinements proved.
2. The safety halves of the liveness properties as invariants with theorems: that a waiting
   request always waits for one that can move (`RequestsAnswered` without fairness is
   `OnlyACrowdBlocks`, the others have no such half yet).
3. Shorter proofs where one lemma on sequences or on a single request's step could serve
   more actions than it does.

## 9. Running

    tlc -config MCRefreshTokens.cfg MCRefreshTokens     # and so on, see PROJECT.json "runs"
    tlapm RefreshTokensProofs.tla                       # and the other *Proofs.tla
