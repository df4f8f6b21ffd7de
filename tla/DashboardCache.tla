--------------------------- MODULE DashboardCache ---------------------------
(***************************************************************************)
(* The versioned Redis cache in front of the dashboard (core/cache.py),    *)
(* its readers (DashboardService.summary, sentiment_trend, at_risk) and    *)
(* the writes that invalidate it (every CustomerService,                   *)
(* InteractionService and InsightService method that commits and then      *)
(* calls cache_hooks).                                                     *)
(*                                                                         *)
(* A write is a member of Writes, the content of the database the set of   *)
(* the writes committed so far, and the data a query returns the set of    *)
(* the writes it saw.  A reader asks Redis for the version, then for the   *)
(* entry, then queries PostgreSQL statement by statement, then stores the  *)
(* answer: four round trips and more, and any step of any other request    *)
(* may come between two of them.  Redis calls may fail one by one, those   *)
(* named in Faults.                                                        *)
(*                                                                         *)
(* commitAt, startAt and acked are history variables: no guard but Tick's  *)
(* reads them.                                                             *)
(***************************************************************************)
EXTENDS Integers, FiniteSets

CONSTANTS
  Writes,    \* one request each that commits a change
  Readers,   \* the server's threads that serve dashboard reads
  Keys,      \* (endpoint, scope, params) triples
  TTL,       \* seconds until an entry expires
  Faults,    \* the Redis calls that may fail: "get", "setex", "incr", "restart"
  ReqTime,   \* bound: the longest a read can take
  MaxTime    \* bound: the clock stops here

ASSUME CacheAssumption ==
  /\ Faults \subseteq {"get", "setex", "incr", "restart"}
  /\ TTL \in Nat \ {0} /\ ReqTime \in Nat /\ MaxTime \in Nat

VARIABLES
  now,
  committed,   \* what the database holds: the set of writes committed
  verKey,      \* csp:ver:dashboard; 0 when Redis has no such key
  entries,     \* the other keys of Redis: cached answers, live ones only
  wpc,         \* of a write's request: "idle", "committed", "done"
  rpc,         \* of a reader: "idle", "key", "miss", "store", "answer"
  rkey, rver,  \* the key it reads, and the version it saw
  seen,        \* the writes that every statement of its answer saw
  commitAt,    \* when a write was committed
  startAt,     \* when a read started
  acked        \* the writes answered to their clients when a read started

redis  == <<verKey, entries>>
reader == <<rpc, rkey, rver, seen, startAt, acked>>
vars   == <<now, committed, redis, wpc, reader, commitAt>>

Entry == [ver : Nat, key : Keys, seen : SUBSET Writes, exp : Nat]

TypeOK ==
  /\ now \in 0..MaxTime
  /\ committed \subseteq Writes
  /\ verKey \in Nat
  /\ entries \subseteq Entry
  /\ wpc \in [Writes -> {"idle", "committed", "done"}]
  /\ rpc \in [Readers -> {"idle", "key", "miss", "store", "answer"}]
  /\ rkey \in [Readers -> Keys]
  /\ rver \in [Readers -> Nat]
  /\ seen \in [Readers -> SUBSET Writes]
  /\ commitAt \in [Writes -> 0..MaxTime]
  /\ startAt \in [Readers -> 0..MaxTime]
  /\ acked \in [Readers -> SUBSET Writes]

Init ==
  /\ now = 0
  /\ committed = {}
  /\ verKey = 0
  /\ entries = {}
  /\ wpc = [w \in Writes |-> "idle"]
  /\ rpc = [r \in Readers |-> "idle"]
  /\ rkey \in [Readers -> Keys]
  /\ rver = [r \in Readers |-> 0]
  /\ seen = [r \in Readers |-> {}]
  /\ commitAt = [w \in Writes |-> 0]
  /\ startAt = [r \in Readers |-> 0]
  /\ acked = [r \in Readers |-> {}]

Acked == {w \in Writes : wpc[w] = "done"}

-----------------------------------------------------------------------------
(* A write: commit, then INCR the namespace's version, then answer.        *)

Commit(w) ==
  /\ wpc[w] = "idle"
  /\ wpc' = [wpc EXCEPT ![w] = "committed"]
  /\ committed' = committed \cup {w}
  /\ commitAt' = [commitAt EXCEPT ![w] = now]
  /\ UNCHANGED <<now, redis, reader>>

\* Mutant: the entries are deleted, and the version stays.
InvalidateByDelete(w) ==
  /\ wpc[w] = "committed"
  /\ wpc' = [wpc EXCEPT ![w] = "done"]
  /\ entries' = {}
  /\ UNCHANGED <<now, committed, verKey, reader, commitAt>>

Invalidate(w) ==
  /\ wpc[w] = "committed"
  /\ wpc' = [wpc EXCEPT ![w] = "done"]
  /\ verKey' = verKey + 1
  /\ UNCHANGED <<now, committed, entries, reader, commitAt>>

\* safe_incr swallows the failure of INCR, and the write is answered.
LoseInvalidate(w) ==
  /\ "incr" \in Faults
  /\ wpc[w] = "committed"
  /\ wpc' = [wpc EXCEPT ![w] = "done"]
  /\ UNCHANGED <<now, committed, redis, reader, commitAt>>

-----------------------------------------------------------------------------
(* A dashboard read.                                                       *)

\* Mutant: a key that was never INCRed counts as the first INCR's result.
VersionFrom1 == IF verKey = 0 THEN 1 ELSE verKey

\* Mutant: the version before the last INCR.
VersionBehind == verKey - 1

\* A key that was never INCRed counts as version 0.
Version == verKey

\* build_key: GET csp:ver:dashboard.  A GET that fails counts as a missing key.
BuildKey(r, k) ==
  /\ rpc[r] = "idle"
  /\ rpc' = [rpc EXCEPT ![r] = "key"]
  /\ rkey' = [rkey EXCEPT ![r] = k]
  /\ \E v \in {Version} \cup (IF "get" \in Faults THEN {0} ELSE {}) :
       rver' = [rver EXCEPT ![r] = v]
  /\ startAt' = [startAt EXCEPT ![r] = now]
  /\ acked' = [acked EXCEPT ![r] = Acked]
  /\ UNCHANGED <<now, committed, redis, wpc, seen, commitAt>>

Cached(r) == {e \in entries : e.ver = rver[r] /\ e.key = rkey[r]}

\* get_json finds the entry: it is the answer.
Hit(r) ==
  /\ rpc[r] = "key"
  /\ \E e \in Cached(r) : seen' = [seen EXCEPT ![r] = e.seen]
  /\ rpc' = [rpc EXCEPT ![r] = "answer"]
  /\ UNCHANGED <<now, committed, redis, wpc, rkey, rver, startAt, acked, commitAt>>

Miss(r) ==
  /\ rpc[r] = "key"
  /\ Cached(r) = {} \/ "get" \in Faults
  /\ rpc' = [rpc EXCEPT ![r] = "miss"]
  /\ UNCHANGED <<now, committed, redis, wpc, rkey, rver, seen, startAt, acked, commitAt>>

\* The repository's statements, six of them for the summary.  Under READ
\* COMMITTED each sees what is committed as it starts, so every one of them
\* sees at least what the first sees.
Query(r) ==
  /\ rpc[r] = "miss"
  /\ seen' = [seen EXCEPT ![r] = committed]
  /\ rpc' = [rpc EXCEPT ![r] = "store"]
  /\ UNCHANGED <<now, committed, redis, wpc, rkey, rver, startAt, acked, commitAt>>

\* Mutant: SET instead of SETEX.
StoreForGood(r) ==
  /\ rpc[r] = "store"
  /\ rpc' = [rpc EXCEPT ![r] = "answer"]
  /\ entries' = (entries \ Cached(r)) \cup
       {[ver |-> rver[r], key |-> rkey[r], seen |-> seen[r],
         exp |-> now + MaxTime + 1]}
  /\ UNCHANGED <<now, committed, verKey, wpc, rkey, rver, seen, startAt, acked, commitAt>>

\* set_json: SETEX under the version read at the start, whatever it is now.
Store(r) ==
  /\ rpc[r] = "store"
  /\ rpc' = [rpc EXCEPT ![r] = "answer"]
  /\ entries' = (entries \ Cached(r)) \cup
       {[ver |-> rver[r], key |-> rkey[r], seen |-> seen[r], exp |-> now + TTL]}
  /\ UNCHANGED <<now, committed, verKey, wpc, rkey, rver, seen, startAt, acked, commitAt>>

LoseStore(r) ==
  /\ "setex" \in Faults
  /\ rpc[r] = "store"
  /\ rpc' = [rpc EXCEPT ![r] = "answer"]
  /\ UNCHANGED <<now, committed, redis, wpc, rkey, rver, seen, startAt, acked, commitAt>>

\* The answer is sent; the thread forgets the request.
Answered(r) ==
  /\ rpc[r] = "answer"
  /\ rpc' = [rpc EXCEPT ![r] = "idle"]
  /\ rver' = [rver EXCEPT ![r] = 0]
  /\ seen' = [seen EXCEPT ![r] = {}]
  /\ startAt' = [startAt EXCEPT ![r] = 0]
  /\ acked' = [acked EXCEPT ![r] = {}]
  /\ UNCHANGED <<now, committed, redis, wpc, rkey, commitAt>>

-----------------------------------------------------------------------------
(* Redis and time.                                                         *)

\* Redis may drop an entry for want of memory.
Evict ==
  /\ \E e \in entries : entries' = entries \ {e}
  /\ UNCHANGED <<now, committed, verKey, wpc, reader, commitAt>>

\* Redis comes back empty: versions start again from 0.
Restart ==
  /\ "restart" \in Faults
  /\ verKey' = 0
  /\ entries' = {}
  /\ UNCHANGED <<now, committed, wpc, reader, commitAt>>

Tick ==
  /\ now < MaxTime
  /\ \A r \in Readers : rpc[r] # "idle" => now - startAt[r] < ReqTime
  /\ now' = now + 1
  /\ entries' = {e \in entries : now + 1 < e.exp}
  /\ UNCHANGED <<committed, verKey, wpc, reader, commitAt>>

Write(w) == Commit(w) \/ Invalidate(w) \/ LoseInvalidate(w)

Read(r) ==
  \/ \E k \in Keys : BuildKey(r, k)
  \/ Hit(r) \/ Miss(r) \/ Query(r)
  \/ Store(r) \/ LoseStore(r) \/ Answered(r)

Next ==
  \/ \E w \in Writes : Write(w)
  \/ \E r \in Readers : Read(r)
  \/ Evict \/ Restart \/ Tick

Spec == Init /\ [][Next]_vars

-----------------------------------------------------------------------------
(* What readers of the dashboard are promised.                             *)

\* Every statement of an answer saw every write that had been answered to its
\* client when the read began: once a write returns, no dashboard read, of any
\* user, shows the state before it ("always correct (never stale)").
FreshAnswers == \A r \in Readers : rpc[r] = "answer" => acked[r] \subseteq seen[r]

\* Whatever Redis loses, an answer is at most a TTL and the duration of the
\* read that cached it out of date.
StaleBounded ==
  \A r \in Readers : rpc[r] = "answer" =>
    \A w \in committed : commitAt[w] + TTL + ReqTime <= startAt[r] => w \in seen[r]

\* The cache implements the database read it stands in for.
Abstract == INSTANCE FreshReads WITH
  acked <- Acked,
  phase <- [r \in Readers |->
              CASE rpc[r] = "idle" -> "idle"
                [] rpc[r] = "answer" -> "answered"
                [] OTHER -> "reading"],
  must <- acked,
  seen <- [r \in Readers |-> IF rpc[r] = "answer" THEN seen[r] ELSE {}]

ImplementsFreshReads == Abstract!Spec
=============================================================================
