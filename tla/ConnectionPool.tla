--------------------------- MODULE ConnectionPool ---------------------------
(***************************************************************************)
(* The two bounded resources every request needs: a thread of the server's *)
(* pool and a pooled database connection. A dependency and an endpoint run *)
(* on a thread each, one after the other; the session takes a connection   *)
(* at its first statement, returns it at each commit, takes one again at   *)
(* the next statement (a row is read again after the commit that expired   *)
(* it, and the LLM call is made holding one), and returns it when closed.  *)
(* Between get_current_user and the endpoint a request holds a connection  *)
(* and waits for a thread, while threads may all be waiting for            *)
(* connections: only the pool's timeout ends that.                         *)
(***************************************************************************)
EXTENDS Naturals, FiniteSets

CONSTANTS
  Client,       \* the requests that arrive
  PoolSize,     \* pool_size + max_overflow
  Threads,      \* the thread limit of the ASGI framework
  MaxCommits    \* commits of one request, a bound of the model

ASSUME PoolAssumption ==
  /\ IsFiniteSet(Client)
  /\ PoolSize \in Nat \ {0} /\ Threads \in Nat \ {0} /\ MaxCommits \in Nat

VARIABLES
  at,           \* where each request is
  conns,        \* connections in the pool, or not yet opened
  threads,      \* threads that are free
  holding,      \* the requests whose session holds a connection
  commits       \* how often each request has committed

poolVars == <<at, conns, threads, holding, commits>>

\* "new" and "queued" wait for a thread, "auth" and "reload" for a connection;
\* "auth" and "reload" keep their thread meanwhile, "queued" its connection.
Places == {"new", "auth", "authed", "queued", "work", "reload", "closing", "done"}
OnThread == {"auth", "authed", "work", "reload"}
NeedsConnection == {"auth", "reload"}

Move(r, place) == at' = [at EXCEPT ![r] = place]
LeaveThread(r, place) == Move(r, place) /\ threads' = threads + 1

\* The connection goes back to the pool, if the session has one.
Returned(r) ==
  /\ holding' = holding \ {r}
  /\ conns' = IF r \in holding THEN conns + 1 ELSE conns

PoolInit ==
  /\ at = [r \in Client |-> "new"]
  /\ conns = PoolSize
  /\ threads = Threads
  /\ holding = {}
  /\ commits = [r \in Client |-> 0]

\* A thread for get_current_user, later one for the endpoint.
TakeThread(r) ==
  /\ at[r] \in {"new", "queued"}
  /\ threads > 0
  /\ threads' = threads - 1
  /\ Move(r, IF at[r] = "new" THEN "auth" ELSE "work")
  /\ UNCHANGED <<conns, holding, commits>>

\* The session's first statement, or the first after a commit.
Checkout(r) ==
  /\ at[r] \in NeedsConnection
  /\ conns > 0
  /\ conns' = conns - 1
  /\ holding' = holding \cup {r}
  /\ Move(r, IF at[r] = "auth" THEN "authed" ELSE "work")
  /\ UNCHANGED <<threads, commits>>

\* Mutant: a pool that waits for ever.
WaitForever(r) == FALSE /\ UNCHANGED poolVars

\* No connection within the pool's timeout: TimeoutError, a 500 response, even
\* if the request has committed.
GiveUp(r) ==
  /\ at[r] \in NeedsConnection
  /\ conns = 0
  /\ LeaveThread(r, "closing")
  /\ UNCHANGED <<conns, holding, commits>>

\* get_current_user returns, or refuses with 401 or 403.
Authenticated(r) ==
  /\ at[r] = "authed"
  /\ \E place \in {"queued", "closing"} : LeaveThread(r, place)
  /\ UNCHANGED <<conns, holding, commits>>

\* Mutant: the connection is kept across the commit, and another one is asked for.
CommitKeeping(r) ==
  /\ at[r] = "work" /\ commits[r] < MaxCommits
  /\ commits' = [commits EXCEPT ![r] = @ + 1]
  /\ Move(r, "reload")
  /\ UNCHANGED <<conns, holding, threads>>

\* The endpoint commits, and the rows it returns are expired by that.
Commit(r) ==
  /\ at[r] = "work" /\ commits[r] < MaxCommits
  /\ commits' = [commits EXCEPT ![r] = @ + 1]
  /\ Returned(r)
  /\ Move(r, "reload")
  /\ UNCHANGED threads

\* The endpoint returns or raises, its transaction still open.
Respond(r) ==
  /\ at[r] = "work"
  /\ LeaveThread(r, "closing")
  /\ UNCHANGED <<conns, holding, commits>>

\* Mutant: a session that is closed only on the way that has no error.
CloseOnSuccess(r) ==
  /\ at[r] = "closing"
  /\ Move(r, "done")
  /\ IF commits[r] > 0 THEN Returned(r) ELSE UNCHANGED <<conns, holding>>
  /\ UNCHANGED <<threads, commits>>

\* The finally of get_db, which the framework runs on a thread kept for that.
Close(r) ==
  /\ at[r] = "closing"
  /\ Move(r, "done")
  /\ Returned(r)
  /\ UNCHANGED <<threads, commits>>

Serve(r) ==
  \/ TakeThread(r) \/ Checkout(r) \/ GiveUp(r) \/ Authenticated(r)
  \/ Commit(r) \/ Respond(r) \/ Close(r)

PoolNext == \E r \in Client : Serve(r)

PoolSpec == PoolInit /\ [][PoolNext]_poolVars

\* Endpoints return, as every call they make has a timeout, and whoever waits is
\* served in turn. A bounded number of requests makes weak fairness enough.
PoolFairness == \A r \in Client : WF_poolVars(Serve(r))

FairPoolSpec == PoolSpec /\ PoolFairness

------------------------------------------------------------------------------
(* Properties. *)

\* Connections and threads are neither lost nor made: those in use and those
\* that are free are always as many as configured. A request between get_db's
\* yield and its finally is all that can hold one.
PoolTypeOK ==
  /\ at \in [Client -> Places]
  /\ conns \in 0..PoolSize /\ threads \in 0..Threads
  /\ holding \subseteq {r \in Client : at[r] \in {"authed", "queued", "work", "closing"}}
  /\ commits \in [Client -> 0..MaxCommits]
  /\ conns + Cardinality(holding) = PoolSize
  /\ threads + Cardinality({r \in Client : at[r] \in OnThread}) = Threads

InProgress == {r \in Client : at[r] \notin {"new", "done"}}

CanMove(r) ==
  \/ at[r] \in {"authed", "work", "closing"}
  \/ at[r] \in NeedsConnection /\ conns > 0
  \/ at[r] = "queued" /\ threads > 0

\* As long as fewer requests are in progress than there are threads and
\* connections together, they do not block each other: one of them can go on
\* without anyone having to run into the pool's timeout.
OnlyACrowdBlocks ==
  InProgress # {} /\ Cardinality(InProgress) < Threads + PoolSize =>
    \E r \in InProgress : CanMove(r)

\* Every request is answered, although requests that hold a connection wait for
\* threads that other requests keep while they wait for a connection.
RequestsAnswered == <>(\A r \in Client : at[r] = "done")
==============================================================================
