--------------------------- MODULE RefreshTokens ---------------------------
(***************************************************************************)
(* The server side of a login session: the refresh_tokens table, and the   *)
(* requests that read and write it concurrently (AuthService.login,        *)
(* refresh and logout; UserService toggling users.is_active).              *)
(*                                                                         *)
(* Each request runs in one database session under PostgreSQL's READ       *)
(* COMMITTED isolation.  The variables of the table hold its committed     *)
(* contents; a statement reads them in one step, and what a request wrote  *)
(* is published by the step that commits.  lock holds the row locks.       *)
(*                                                                         *)
(* Time is an integer clock.  chain and liveAtStart are history variables: *)
(* no guard reads them.                                                    *)
(***************************************************************************)
EXTENDS Integers, FiniteSets

CONSTANTS
  Users, Tokens,   \* token identities; a raw token and its hash are one
  Procs,           \* the server's worker threads, one request at a time each
  None,            \* no user, no token, no lock holder
  Grace,           \* REFRESH_REUSE_GRACE_SECONDS
  TTL,             \* REFRESH_TOKEN_TTL_DAYS
  ReqTime,         \* bound: the longest a request can take
  MaxTime          \* bound: the clock stops here

ASSUME ConstantsAssumption ==
  /\ None \notin Users \cup Tokens \cup Procs
  /\ Grace \in Nat /\ TTL \in Nat /\ ReqTime \in Nat /\ MaxTime \in Nat

VARIABLES
  now,
  active,      \* users.is_active
  status,      \* of a row: "unused" (no such row), "live", "revoked"
  owner,       \* refresh_tokens.user_id
  revokedAt,   \* refresh_tokens.revoked_at, of a revoked row
  expiresAt,   \* refresh_tokens.expires_at
  lock,        \* which request holds the row's lock
  pc, tok, usr, at, snap,   \* of a request, see TypeOK
  chain,       \* the login's token from which rotation led to this one
  liveAtStart  \* was the token live when its refresh request started?

table  == <<status, owner, revokedAt, expiresAt, chain>>
local  == <<pc, tok, usr, at, snap, liveAtStart>>
vars   == <<now, active, table, lock, local>>

TypeOK ==
  /\ now \in 0..MaxTime
  /\ active \in [Users -> BOOLEAN]
  /\ status \in [Tokens -> {"unused", "live", "revoked"}]
  /\ owner \in [Tokens -> Users \cup {None}]
  /\ revokedAt \in [Tokens -> 0..MaxTime]
  /\ expiresAt \in [Tokens -> Nat]
  /\ lock \in [Tokens -> Procs \cup {None}]
  /\ chain \in [Tokens -> Tokens \cup {None}]
  /\ pc \in [Procs -> {"idle", "issue", "lock", "found", "rotate", "sweep", "logout"}]
  /\ tok \in [Procs -> Tokens \cup {None}]   \* the token presented
  /\ usr \in [Procs -> Users \cup {None}]    \* the user logging in
  /\ at \in [Procs -> 0..MaxTime]            \* the request's own `now`
  /\ snap \in [Procs -> SUBSET Tokens]       \* rows matched by revoke_all's UPDATE
  /\ liveAtStart \in [Procs -> BOOLEAN]
  /\ \A p \in Procs : pc[p] \notin {"idle", "issue"} => tok[p] \in Tokens

Init ==
  /\ now = 0
  /\ active = [u \in Users |-> TRUE]
  /\ status = [t \in Tokens |-> "unused"]
  /\ owner = [t \in Tokens |-> None]
  /\ revokedAt = [t \in Tokens |-> 0]
  /\ expiresAt = [t \in Tokens |-> 0]
  /\ lock = [t \in Tokens |-> None]
  /\ chain = [t \in Tokens |-> None]
  /\ pc = [p \in Procs |-> "idle"]
  /\ tok = [p \in Procs |-> None]
  /\ usr = [p \in Procs |-> None]
  /\ at = [p \in Procs |-> 0]
  /\ snap = [p \in Procs |-> {}]
  /\ liveAtStart = [p \in Procs |-> FALSE]

-----------------------------------------------------------------------------
(* What the statements of a request share.                                 *)

\* A request arrives at an idle thread; it takes its timestamp.
Begin(p, next, t, u) ==
  /\ pc[p] = "idle"
  /\ pc' = [pc EXCEPT ![p] = next]
  /\ tok' = [tok EXCEPT ![p] = t]
  /\ usr' = [usr EXCEPT ![p] = u]
  /\ at' = [at EXCEPT ![p] = now]

\* Mutant: an answer leaves the row locks behind.
FinishKeepingLocks(p) ==
  /\ pc' = [pc EXCEPT ![p] = "idle"]
  /\ tok' = [tok EXCEPT ![p] = None]
  /\ usr' = [usr EXCEPT ![p] = None]
  /\ at' = [at EXCEPT ![p] = 0]
  /\ snap' = [snap EXCEPT ![p] = {}]
  /\ liveAtStart' = [liveAtStart EXCEPT ![p] = FALSE]
  /\ lock' = lock

\* The session is closed, by commit or rollback: its row locks are released.
Finish(p) ==
  /\ pc' = [pc EXCEPT ![p] = "idle"]
  /\ tok' = [tok EXCEPT ![p] = None]
  /\ usr' = [usr EXCEPT ![p] = None]
  /\ at' = [at EXCEPT ![p] = 0]
  /\ snap' = [snap EXCEPT ![p] = {}]
  /\ liveAtStart' = [liveAtStart EXCEPT ![p] = FALSE]
  /\ lock' = [t \in Tokens |-> IF lock[t] = p THEN None ELSE lock[t]]

\* Mutant: the row is read without FOR UPDATE.
AcquireUnlocked(p, t) == lock' = [lock EXCEPT ![t] = p]

\* SELECT ... FOR UPDATE or UPDATE takes the lock of row t once it is free.
Acquire(p, t) ==
  /\ lock[t] = None
  /\ lock' = [lock EXCEPT ![t] = p]

\* The rows revoke_all_for_user's WHERE clause selects, at its snapshot.
LiveTokensOf(u) == {t \in Tokens : status[t] = "live" /\ owner[t] = u}

\* The row _issue_pair adds for user u, in login chain c.
Issued(n, u, c) ==
  /\ status[n] = "unused"
  /\ owner' = [owner EXCEPT ![n] = u]
  /\ expiresAt' = [expiresAt EXCEPT ![n] = now + TTL]
  /\ chain' = [chain EXCEPT ![n] = c]

-----------------------------------------------------------------------------
(* POST /auth/login                                                        *)

\* The password was right and the user is active (else 401, nothing written).
Login(p, u) ==
  /\ active[u]
  /\ Begin(p, "issue", None, u)
  /\ UNCHANGED <<now, active, table, lock, snap, liveAtStart>>

LoginIssue(p) ==
  /\ pc[p] = "issue"
  /\ \E n \in Tokens :
       /\ Issued(n, usr[p], n)
       /\ status' = [status EXCEPT ![n] = "live"]
  /\ Finish(p)
  /\ UNCHANGED <<now, active, revokedAt>>

-----------------------------------------------------------------------------
(* POST /auth/refresh                                                      *)

\* `now` is read before the row is locked.  A token nobody was given is 401
\* and writes nothing, so only issued ones are presented here.
Refresh(p, t) ==
  /\ status[t] # "unused"
  /\ Begin(p, "lock", t, None)
  /\ liveAtStart' = [liveAtStart EXCEPT ![p] = (status[t] = "live")]
  /\ UNCHANGED <<now, active, table, lock, snap>>

\* Mutant: `now` is read after the row was locked.
RefreshLockStamped(p) ==
  /\ pc[p] = "lock"
  /\ Acquire(p, tok[p])
  /\ pc' = [pc EXCEPT ![p] = "found"]
  /\ at' = [at EXCEPT ![p] = now]
  /\ UNCHANGED <<now, active, table, tok, usr, snap, liveAtStart>>

\* get_by_hash(for_update=True): waits for the lock, then sees the row as
\* its last holder committed it.
RefreshLock(p) ==
  /\ pc[p] = "lock"
  /\ Acquire(p, tok[p])
  /\ pc' = [pc EXCEPT ![p] = "found"]
  /\ UNCHANGED <<now, active, table, tok, usr, at, snap, liveAtStart>>

WithinGrace(p) == at[p] - revokedAt[tok[p]] <= Grace

RefreshRace(p) ==
  /\ pc[p] = "found" /\ status[tok[p]] = "revoked" /\ WithinGrace(p)
  /\ Finish(p)
  /\ UNCHANGED <<now, active, table>>

\* Reuse: revoke_all_for_user's UPDATE starts, on the rows committed by now.
RefreshReuse(p) ==
  /\ pc[p] = "found" /\ status[tok[p]] = "revoked" /\ ~ WithinGrace(p)
  /\ pc' = [pc EXCEPT ![p] = "sweep"]
  /\ snap' = [snap EXCEPT ![p] = LiveTokensOf(owner[tok[p]])]
  /\ UNCHANGED <<now, active, table, lock, tok, usr, at, liveAtStart>>

\* The UPDATE reaches its rows in an order of the database's choosing, and
\* waits for those that other requests have locked.
Sweep(p) ==
  /\ pc[p] = "sweep"
  /\ \E r \in snap[p] : Acquire(p, r)
  /\ UNCHANGED <<now, active, table, local>>

\* The UPDATE is done, leaving alone the rows revoked meanwhile; commit.
SweepCommit(p) ==
  /\ pc[p] = "sweep"
  /\ \A r \in snap[p] : lock[r] = p
  /\ LET hit == {r \in snap[p] : status[r] = "live"} IN
       /\ status' = [t \in Tokens |-> IF t \in hit THEN "revoked" ELSE status[t]]
       /\ revokedAt' = [t \in Tokens |-> IF t \in hit THEN at[p] ELSE revokedAt[t]]
  /\ Finish(p)
  /\ UNCHANGED <<now, active, owner, expiresAt, chain>>

Expired(p) == expiresAt[tok[p]] <= at[p]

\* The token expired, or its user is not active: 401.
RefreshDenied(p) ==
  /\ pc[p] = "found" /\ status[tok[p]] = "live"
  /\ Expired(p) \/ ~ active[owner[tok[p]]]
  /\ Finish(p)
  /\ UNCHANGED <<now, active, table>>

RefreshAccepted(p) ==
  /\ pc[p] = "found" /\ status[tok[p]] = "live"
  /\ ~ Expired(p) /\ active[owner[tok[p]]]
  /\ pc' = [pc EXCEPT ![p] = "rotate"]
  /\ UNCHANGED <<now, active, table, lock, tok, usr, at, snap, liveAtStart>>

\* Mutant: the token is revoked as of the end of the grace window.
RotateStampedLate(p) ==
  /\ pc[p] = "rotate"
  /\ \E n \in Tokens :
       /\ Issued(n, owner[tok[p]], chain[tok[p]])
       /\ status' = [status EXCEPT ![tok[p]] = "revoked", ![n] = "live"]
  /\ revokedAt' = [revokedAt EXCEPT ![tok[p]] = at[p] + Grace]
  /\ Finish(p)
  /\ UNCHANGED <<now, active>>

\* Revoke the token, insert its successor, commit both.
Rotate(p) ==
  /\ pc[p] = "rotate"
  /\ \E n \in Tokens :
       /\ Issued(n, owner[tok[p]], chain[tok[p]])
       /\ status' = [status EXCEPT ![tok[p]] = "revoked", ![n] = "live"]
  /\ revokedAt' = [revokedAt EXCEPT ![tok[p]] = at[p]]
  /\ Finish(p)
  /\ UNCHANGED <<now, active>>

-----------------------------------------------------------------------------
(* POST /auth/logout                                                       *)

\* Mutant: a token that is revoked already is revoked again.
LogoutAgain(p, t) ==
  /\ status[t] # "unused"
  /\ Begin(p, "logout", t, None)
  /\ UNCHANGED <<now, active, table, lock, snap, liveAtStart>>

\* The row is read without a lock, and is live.  (Unknown and revoked tokens
\* are answered 204 and write nothing.)
Logout(p, t) ==
  /\ status[t] = "live"
  /\ Begin(p, "logout", t, None)
  /\ UNCHANGED <<now, active, table, lock, snap, liveAtStart>>

\* UPDATE ... SET revoked_at WHERE id: it waits for the row's lock, and does
\* not look again at whether the row was revoked meanwhile.
LogoutCommit(p) ==
  /\ pc[p] = "logout"
  /\ lock[tok[p]] = None
  /\ status' = [status EXCEPT ![tok[p]] = "revoked"]
  /\ revokedAt' = [revokedAt EXCEPT ![tok[p]] = at[p]]
  /\ Finish(p)
  /\ UNCHANGED <<now, active, owner, expiresAt, chain>>

-----------------------------------------------------------------------------
(* The administrator, failures and time.                                   *)

\* DELETE /users/{id}, and PATCH /users/{id} with is_active: no token is
\* touched.
SetActive(u, b) ==
  /\ active[u] # b
  /\ active' = [active EXCEPT ![u] = b]
  /\ UNCHANGED <<now, table, lock, local>>

\* The connection or the worker is lost: the transaction rolls back.
Abort(p) ==
  /\ pc[p] # "idle"
  /\ Finish(p)
  /\ UNCHANGED <<now, active, table>>

\* The rows request p still needs the lock of.
Wanted(p) ==
  CASE pc[p] = "sweep" -> snap[p]
    [] pc[p] \in {"lock", "logout"} -> {tok[p]}
    [] OTHER -> {}

WaitsFor(p, q) == q # p /\ \E r \in Wanted(p) : lock[r] = q

\* PostgreSQL's deadlock detector makes one of the requests that wait for
\* each other fail.
DeadlockVictim(p) ==
  /\ \E C \in SUBSET Procs :
       p \in C /\ \A q \in C : \E r \in C : WaitsFor(q, r)
  /\ Abort(p)

Tick ==
  /\ now < MaxTime
  /\ \A p \in Procs : pc[p] # "idle" => now - at[p] < ReqTime
  /\ now' = now + 1
  /\ UNCHANGED <<active, table, lock, local>>

\* The steps that wait for a row lock, and the others.
LockingStep(p) == RefreshLock(p) \/ Sweep(p) \/ LogoutCommit(p)

OtherStep(p) ==
  \/ LoginIssue(p)
  \/ RefreshRace(p) \/ RefreshReuse(p) \/ SweepCommit(p)
  \/ RefreshDenied(p) \/ RefreshAccepted(p) \/ Rotate(p)

Next ==
  \/ Tick
  \/ \E u \in Users, b \in BOOLEAN : SetActive(u, b)
  \/ \E p \in Procs :
       \/ \E u \in Users : Login(p, u)
       \/ \E t \in Tokens : Refresh(p, t) \/ Logout(p, t)
       \/ LockingStep(p) \/ OtherStep(p)
       \/ Abort(p)

Spec == Init /\ [][Next]_vars

\* A request that can take its next step eventually does; row locks are
\* granted in turn (hence SF), and every deadlock is broken.
Fairness ==
  \A p \in Procs :
    /\ WF_vars(OtherStep(p))
    /\ SF_vars(LockingStep(p))
    /\ WF_vars(DeadlockVictim(p))

FairSpec == Spec /\ Fairness

-----------------------------------------------------------------------------
(* What the server promises of its refresh tokens.                         *)

\* One login never has two usable refresh tokens: however many refreshes of a
\* token run at once, rotation replaces it by exactly one successor
\* (get_by_hash's row lock, RefreshTokenRepository).
OneLivePerLogin ==
  \A t, u \in Tokens :
    status[t] = "live" /\ status[u] = "live" /\ chain[t] = chain[u] => t = u

\* A refresh that started while its token was live is never taken for the
\* reuse of a stolen token, whoever revoked the token in the meantime: it is
\* answered REFRESH_RACE and costs nobody their session.
ConcurrentIsBenign ==
  \A p \in Procs : pc[p] = "sweep" => ~ liveAtStart[p]

\* The grace window is counted from revoked_at. A logout that read its token
\* live and meets it revoked overwrites that time with its own, whoever revoked
\* it, and several logouts may: none of them moves it by more than the time a
\* request takes, and nothing else moves it at all ("already-revoked tokens are
\* a no-op").
GraceHardlyMoves ==
  [][\A t \in Tokens : status[t] = "revoked" /\ revokedAt'[t] # revokedAt[t] =>
       /\ \E p \in Procs : pc[p] = "logout" /\ tok[p] = t /\ LogoutCommit(p)
       /\ revokedAt'[t] \in (revokedAt[t] - ReqTime)..(revokedAt[t] + ReqTime)]_vars

\* When reuse has been answered, no token that descends from the same login
\* as the reused one is live ("invalidates all that user's tokens").
ReuseEndsTheChain ==
  [][\A p \in Procs : SweepCommit(p) =>
       \A t \in Tokens : chain[t] = chain[tok[p]] => status'[t] # "live"]_vars

\* Every request is answered: no thread waits for ever for a row lock.
RequestsFinish == \A p \in Procs : pc[p] # "idle" ~> pc[p] = "idle"
=============================================================================
