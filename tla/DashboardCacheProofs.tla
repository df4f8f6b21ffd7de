------------------------ MODULE DashboardCacheProofs ------------------------
(* Proofs about DashboardCache: what its reads promise holds of any number *)
(* of writes, readers and keys.                                            *)
EXTENDS DashboardCache, TLAPS

\* At first nothing is committed, cached or read.
LEMMA TypeInit == Init => TypeOK
  BY CacheAssumption DEF Init, TypeOK

\* Each step of a write, of a read and of Redis keeps the types.
LEMMA TypeInductive == TypeOK /\ [Next]_vars => TypeOK'
<1> SUFFICES ASSUME TypeOK, [Next]_vars PROVE TypeOK' OBVIOUS
<1> USE CacheAssumption DEF TypeOK
<1>1. ASSUME NEW w \in Writes, Write(w) PROVE TypeOK'
  <2>1. CASE Commit(w) BY <2>1 DEF Commit, redis, reader
  <2>2. CASE Invalidate(w) BY <2>2 DEF Invalidate, reader
  <2>3. CASE LoseInvalidate(w) BY <2>3 DEF LoseInvalidate, redis, reader
  <2> QED BY <1>1, <2>1, <2>2, <2>3 DEF Write
<1>2. ASSUME NEW r \in Readers, NEW k \in Keys, BuildKey(r, k) PROVE TypeOK'
  BY <1>2 DEF BuildKey, Version, Acked, redis
<1>3. ASSUME NEW r \in Readers, Hit(r) PROVE TypeOK'
  <2>1. PICK e \in Cached(r) : seen' = [seen EXCEPT ![r] = e.seen] BY <1>3 DEF Hit
  <2>2. e.seen \in SUBSET Writes BY DEF Cached, Entry
  <2> QED BY <1>3, <2>1, <2>2 DEF Hit, redis
<1>4. ASSUME NEW r \in Readers, Miss(r) PROVE TypeOK'
  BY <1>4 DEF Miss, redis
<1>5. ASSUME NEW r \in Readers, Query(r) PROVE TypeOK'
  BY <1>5 DEF Query, redis
<1>6. ASSUME NEW r \in Readers, Store(r) PROVE TypeOK'
  <2>1. entries' \subseteq Entry BY <1>6 DEF Store, Entry, Cached
  <2> QED BY <1>6, <2>1 DEF Store
<1>7. ASSUME NEW r \in Readers, LoseStore(r) PROVE TypeOK'
  BY <1>7 DEF LoseStore, redis
<1>8. ASSUME NEW r \in Readers, Answered(r) PROVE TypeOK'
  BY <1>8 DEF Answered, redis
<1>9. CASE Evict \/ Restart BY <1>9 DEF Evict, Restart, reader
<1>10. CASE Tick BY <1>10 DEF Tick, reader
<1>11. CASE UNCHANGED vars BY <1>11 DEF vars, redis, reader
<1> QED
  BY <1>1, <1>2, <1>3, <1>4, <1>5, <1>6, <1>7, <1>8, <1>9, <1>10, <1>11
  DEF Next, Read

\* Database, Redis and the requests hold only values of their types, for any
\* number of writes and readers.
THEOREM TypeCorrect == Spec => []TypeOK
  BY TypeInit, TypeInductive, PTL DEF Spec

-----------------------------------------------------------------------------
(* Fresh answers, as long as INCR and GET do not fail.                     *)

\* Versions only grow, and nothing is ahead of the current one.
VersionsPast ==
  /\ \A e \in entries : e.ver <= verKey
  /\ \A r \in Readers : rver[r] <= verKey

\* A write is answered only when it is in the database.
AckedCommitted ==
  /\ \A w \in Writes : wpc[w] # "idle" => w \in committed
  /\ \A r \in Readers : acked[r] \subseteq Acked /\ seen[r] \subseteq committed
  /\ \A e \in entries : e.seen \subseteq committed

\* Whatever is cached, or about to be, under the current version saw every
\* write answered so far.
CurrentFresh ==
  /\ \A e \in entries : e.ver = verKey => Acked \subseteq e.seen
  /\ \A q \in Readers : rpc[q] = "store" /\ rver[q] = verKey => Acked \subseteq seen[q]

\* Whatever is cached, or about to be, under the version that a reader works
\* with saw every write that reader has to show.
OwnVersionFresh ==
  \A r \in Readers : rpc[r] # "idle" =>
    /\ \A e \in entries : e.ver = rver[r] => acked[r] \subseteq e.seen
    /\ \A q \in Readers : rpc[q] = "store" /\ rver[q] = rver[r] =>
                            acked[r] \subseteq seen[q]
    /\ rpc[r] \in {"store", "answer"} => acked[r] \subseteq seen[r]

FreshInv == /\ TypeOK /\ VersionsPast /\ AckedCommitted
            /\ CurrentFresh /\ OwnVersionFresh

Reliable == Faults \subseteq {"setex"}

\* The empty cache is fresh.
LEMMA FreshInit == Init => FreshInv
  BY CacheAssumption
  DEF Init, FreshInv, TypeOK, VersionsPast, AckedCommitted, CurrentFresh,
      OwnVersionFresh, Acked

\* As long as only SETEX fails, each step keeps what is cached under the current
\* version fresh.
LEMMA FreshInductive == FreshInv /\ [Next]_vars /\ Reliable => FreshInv'
<1> SUFFICES ASSUME FreshInv, [Next]_vars, Reliable PROVE FreshInv' OBVIOUS
<1>0. TypeOK /\ TypeOK' BY TypeInductive DEF FreshInv
<1> USE CacheAssumption, <1>0 DEF FreshInv, TypeOK, Acked
<1> USE DEF VersionsPast, AckedCommitted, CurrentFresh, OwnVersionFresh
<1>1. ASSUME NEW w \in Writes, Write(w) PROVE FreshInv'
  <2>1. CASE Commit(w) BY <2>1 DEF Commit, redis, reader
  <2>2. CASE Invalidate(w)
    <3>1. \A e \in entries' : e \in entries /\ e.ver # verKey' /\ e.ver <= verKey'
      BY <2>2 DEF Invalidate, Entry
    <3>2. \A r \in Readers : rver'[r] = rver[r] /\ rver[r] # verKey' /\ rver[r] <= verKey'
      BY <2>2 DEF Invalidate, reader
    <3> QED BY <2>2, <3>1, <3>2 DEF Invalidate, reader
  <2>3. CASE LoseInvalidate(w) BY <2>3 DEF LoseInvalidate, Reliable
  <2> QED BY <1>1, <2>1, <2>2, <2>3 DEF Write
<1>2. ASSUME NEW r \in Readers, NEW k \in Keys, BuildKey(r, k) PROVE FreshInv'
  BY <1>2 DEF BuildKey, Version, redis, Reliable
<1>3. ASSUME NEW r \in Readers, Hit(r) PROVE FreshInv'
  <2>1. PICK e \in Cached(r) : seen' = [seen EXCEPT ![r] = e.seen] BY <1>3 DEF Hit
  <2>2. e \in entries /\ e.ver = rver[r] /\ e.seen \subseteq Writes BY DEF Cached, Entry
  <2>3. /\ rpc[r] = "key" /\ rpc' = [rpc EXCEPT ![r] = "answer"]
        /\ UNCHANGED <<committed, verKey, entries, wpc, rver, acked>>
    BY <1>3 DEF Hit, redis
  <2>4. VersionsPast' BY <2>3
  <2>5. AckedCommitted' BY <2>1, <2>2, <2>3
  <2>6. CurrentFresh' BY <2>1, <2>3
  <2>7. acked[r] \subseteq seen'[r] BY <2>1, <2>2, <2>3
  <2>8. \A q \in Readers \ {r} : seen'[q] = seen[q] /\ rpc'[q] = rpc[q] BY <2>1, <2>3
  <2>9. OwnVersionFresh' BY <2>3, <2>7, <2>8
  <2> QED BY <2>4, <2>5, <2>6, <2>9
<1>4. ASSUME NEW r \in Readers, Miss(r) PROVE FreshInv'
  BY <1>4 DEF Miss, redis
<1>5. ASSUME NEW r \in Readers, Query(r) PROVE FreshInv'
  BY <1>5 DEF Query, redis
<1>6. ASSUME NEW r \in Readers, Store(r) PROVE FreshInv'
  <2>1. \A e \in entries' : e \in entries \/ (e.ver = rver[r] /\ e.seen = seen[r])
    BY <1>6 DEF Store
  <2> QED BY <1>6, <2>1 DEF Store
<1>7. ASSUME NEW r \in Readers, LoseStore(r) PROVE FreshInv'
  BY <1>7 DEF LoseStore, redis
<1>8. ASSUME NEW r \in Readers, Answered(r) PROVE FreshInv'
  BY <1>8 DEF Answered, redis
<1>9. CASE Evict BY <1>9 DEF Evict, reader
<1>10. CASE Restart BY <1>10 DEF Restart, Reliable
<1>11. CASE Tick BY <1>11 DEF Tick, reader
<1>12. CASE UNCHANGED vars BY <1>12 DEF vars, redis, reader
<1> QED
  BY <1>1, <1>2, <1>3, <1>4, <1>5, <1>6, <1>7, <1>8, <1>9, <1>10, <1>11, <1>12
  DEF Next, Read

\* As long as neither GET nor INCR fails and Redis keeps its version keys, no
\* dashboard read misses a write that was answered before the read began.
THEOREM AnswersAreFresh ==
  ASSUME Reliable
  PROVE  Spec => []FreshAnswers
<1>1. FreshInv /\ [Next]_vars => FreshInv' BY FreshInductive
<1>2. FreshInv => FreshAnswers BY DEF FreshInv, OwnVersionFresh, FreshAnswers
<1> QED BY FreshInit, <1>1, <1>2, PTL DEF Spec

-----------------------------------------------------------------------------
(* Bounded staleness, whatever Redis loses.                                *)

\* A read's own query saw what was committed before the read began, and so did
\* what it cached, of which the expiry tells when that was.
SeenInTime ==
  /\ \A r \in Readers :
       /\ rpc[r] # "idle" => startAt[r] <= now /\ now <= startAt[r] + ReqTime
       /\ rpc[r] = "store" =>
            \A w \in committed : commitAt[w] < startAt[r] => w \in seen[r]
  /\ \A e \in entries :
       /\ now < e.exp /\ e.exp <= now + TTL
       /\ \A w \in committed : commitAt[w] + TTL + ReqTime < e.exp => w \in e.seen

StaleInv == TypeOK /\ SeenInTime /\ StaleBounded

\* Nothing is cached at first that could be stale.
LEMMA StaleInit == Init => StaleInv
  BY CacheAssumption DEF Init, StaleInv, TypeOK, SeenInTime, StaleBounded

\* Whatever fails, an entry that is not expired was read within the last TTL.
LEMMA StaleInductive == StaleInv /\ [Next]_vars => StaleInv'
<1> SUFFICES ASSUME StaleInv, [Next]_vars PROVE StaleInv' OBVIOUS
<1>0. TypeOK /\ TypeOK' BY TypeInductive DEF StaleInv
<1> USE CacheAssumption, <1>0 DEF StaleInv, TypeOK, SeenInTime, StaleBounded
<1>1. ASSUME NEW w \in Writes, Write(w) PROVE StaleInv'
  <2>1. CASE Commit(w) BY <2>1 DEF Commit, redis, reader, Entry
  <2>2. CASE Invalidate(w) BY <2>2 DEF Invalidate, reader
  <2>3. CASE LoseInvalidate(w) BY <2>3 DEF LoseInvalidate, redis, reader
  <2> QED BY <1>1, <2>1, <2>2, <2>3 DEF Write
<1>2. ASSUME NEW r \in Readers, NEW k \in Keys, BuildKey(r, k) PROVE StaleInv'
  BY <1>2 DEF BuildKey, redis
<1>3. ASSUME NEW r \in Readers, Hit(r) PROVE StaleInv'
  <2>1. PICK e \in Cached(r) : seen' = [seen EXCEPT ![r] = e.seen] BY <1>3 DEF Hit
  <2>2. e \in entries /\ e.exp \in Nat BY DEF Cached, Entry
  <2>3. \A w \in committed : commitAt[w] + TTL + ReqTime <= startAt[r] => w \in e.seen
    BY <1>3, <2>2 DEF Hit
  <2> QED BY <1>3, <2>1, <2>3 DEF Hit, redis
<1>4. ASSUME NEW r \in Readers, Miss(r) PROVE StaleInv'
  BY <1>4 DEF Miss, redis
<1>5. ASSUME NEW r \in Readers, Query(r) PROVE StaleInv'
  BY <1>5 DEF Query, redis
<1>6. ASSUME NEW r \in Readers, Store(r) PROVE StaleInv'
  <2>1. \A e \in entries' : e \in entries \/ (e.exp = now + TTL /\ e.seen = seen[r])
    BY <1>6 DEF Store
  <2> QED BY <1>6, <2>1 DEF Store
<1>7. ASSUME NEW r \in Readers, LoseStore(r) PROVE StaleInv'
  BY <1>7 DEF LoseStore, redis
<1>8. ASSUME NEW r \in Readers, Answered(r) PROVE StaleInv'
  BY <1>8 DEF Answered, redis
<1>9. CASE Evict \/ Restart BY <1>9 DEF Evict, Restart, reader
<1>10. CASE Tick BY <1>10 DEF Tick, reader, Entry
<1>11. CASE UNCHANGED vars BY <1>11 DEF vars, redis, reader
<1> QED
  BY <1>1, <1>2, <1>3, <1>4, <1>5, <1>6, <1>7, <1>8, <1>9, <1>10, <1>11
  DEF Next, Read

\* Whichever Redis calls fail, and however often Redis restarts, an answer misses
\* no write committed a TTL and a read's duration before the read began.
THEOREM StalenessIsBounded == Spec => []StaleBounded
<1>1. StaleInv => StaleBounded BY DEF StaleInv
<1> QED BY StaleInit, StaleInductive, <1>1, PTL DEF Spec

-----------------------------------------------------------------------------
(* The cache implements reads without a cache.                             *)

phaseBar == [r \in Readers |->
               CASE rpc[r] = "idle" -> "idle"
                 [] rpc[r] = "answer" -> "answered"
                 [] OTHER -> "reading"]

seenBar == [r \in Readers |-> IF rpc[r] = "answer" THEN seen[r] ELSE {}]

\* The refinement: a cache with nothing in it is a database without a cache.
LEMMA AbstractInit == Init => Abstract!Init
  BY DEF Init, Abstract!Init, Acked

\* A reader outside "answer" that does not reach it is invisible.
LEMMA InvisibleRead ==
  ASSUME TypeOK, NEW r \in Readers, rpc[r] \notin {"idle", "answer"},
         \E v \in {"key", "miss", "store"} : rpc' = [rpc EXCEPT ![r] = v],
         \A q \in Readers \ {r} : seen'[q] = seen[q],
         UNCHANGED <<committed, wpc, acked>>
  PROVE  UNCHANGED Abstract!vars
<1> USE DEF TypeOK
<1>1. phaseBar' = phaseBar BY DEF phaseBar
<1>2. seenBar' = seenBar BY DEF seenBar
<1> QED BY <1>1, <1>2 DEF Abstract!vars, Acked, phaseBar, seenBar

\* A reader that reaches "answer" with what it has to show responds.
LEMMA RespondingRead ==
  ASSUME TypeOK, NEW r \in Readers, rpc[r] \notin {"idle", "answer"},
         rpc' = [rpc EXCEPT ![r] = "answer"],
         \A q \in Readers \ {r} : seen'[q] = seen[q],
         acked[r] \subseteq seen'[r], seen'[r] \subseteq committed,
         UNCHANGED <<committed, wpc, acked>>
  PROVE  Abstract!Respond(r)
<1> USE DEF TypeOK
<1>1. phaseBar[r] = "reading" /\ phaseBar' = [phaseBar EXCEPT ![r] = "answered"]
  BY DEF phaseBar
<1>2. seenBar' = [seenBar EXCEPT ![r] = seen'[r]] BY DEF seenBar
<1> QED BY <1>1, <1>2 DEF Abstract!Respond, Acked, phaseBar, seenBar

\* The refinement: each step is one of a read with no cache, or a stutter.
LEMMA AbstractStep ==
  FreshInv /\ [Next]_vars /\ Reliable => [Abstract!Next]_(Abstract!vars)
<1> SUFFICES ASSUME FreshInv, [Next]_vars, Reliable
             PROVE  [Abstract!Next]_(Abstract!vars)
  OBVIOUS
<1> USE CacheAssumption DEF FreshInv, TypeOK
<1>1. ASSUME NEW w \in Writes, Write(w) PROVE [Abstract!Next]_(Abstract!vars)
  <2>1. CASE Commit(w)
    <3>1. Acked' = Acked BY <2>1 DEF Commit, Acked
    <3>2. CASE w \in committed
      <4>1. committed' = committed BY <2>1, <3>2 DEF Commit
      <4> QED BY <2>1, <3>1, <4>1 DEF Commit, reader, Abstract!vars
    <3>3. CASE w \notin committed
      <4>1. Abstract!Commit(w) BY <2>1, <3>1, <3>3 DEF Commit, reader, Abstract!Commit
      <4> QED BY <4>1 DEF Abstract!Next
    <3> QED BY <3>2, <3>3
  <2>2. CASE Invalidate(w)
    <3>1. Acked' = Acked \cup {w} /\ w \notin Acked BY <2>2 DEF Invalidate, Acked
    <3>2. w \in committed BY <2>2 DEF Invalidate, AckedCommitted
    <3>3. Abstract!Ack(w) BY <2>2, <3>1, <3>2 DEF Invalidate, reader, Abstract!Ack
    <3> QED BY <3>3 DEF Abstract!Next
  <2>3. CASE LoseInvalidate(w) BY <2>3 DEF LoseInvalidate, Reliable
  <2> QED BY <1>1, <2>1, <2>2, <2>3 DEF Write
<1>2. ASSUME NEW r \in Readers, NEW k \in Keys, BuildKey(r, k)
      PROVE  [Abstract!Next]_(Abstract!vars)
  <2>1. phaseBar[r] = "idle" /\ phaseBar' = [phaseBar EXCEPT ![r] = "reading"]
    BY <1>2 DEF BuildKey, phaseBar
  <2>2. seenBar' = seenBar BY <1>2 DEF BuildKey, seenBar
  <2>3. Abstract!Begin(r)
    BY <1>2, <2>1, <2>2 DEF BuildKey, Acked, Abstract!Begin, phaseBar, seenBar
  <2> QED BY <2>3 DEF Abstract!Next
<1>3. ASSUME NEW r \in Readers, Hit(r) PROVE [Abstract!Next]_(Abstract!vars)
  <2>1. PICK e \in Cached(r) : seen' = [seen EXCEPT ![r] = e.seen] BY <1>3 DEF Hit
  <2>2. e \in entries /\ e.ver = rver[r] BY DEF Cached
  <2>3. acked[r] \subseteq e.seen /\ e.seen \subseteq committed
    BY <1>3, <2>2 DEF Hit, OwnVersionFresh, AckedCommitted
  <2>4. Abstract!Respond(r) BY <1>3, <2>1, <2>3, RespondingRead DEF Hit
  <2> QED BY <2>4 DEF Abstract!Next
<1>4. ASSUME NEW r \in Readers, Miss(r) \/ Query(r)
      PROVE  [Abstract!Next]_(Abstract!vars)
  BY <1>4, InvisibleRead DEF Miss, Query
<1>5. ASSUME NEW r \in Readers, Store(r) \/ LoseStore(r)
      PROVE  [Abstract!Next]_(Abstract!vars)
  <2>1. acked[r] \subseteq seen[r] /\ seen[r] \subseteq committed
    BY <1>5 DEF Store, LoseStore, OwnVersionFresh, AckedCommitted
  <2>2. Abstract!Respond(r) BY <1>5, <2>1, RespondingRead DEF Store, LoseStore
  <2> QED BY <2>2 DEF Abstract!Next
<1>6. ASSUME NEW r \in Readers, Answered(r) PROVE [Abstract!Next]_(Abstract!vars)
  <2>1. phaseBar[r] = "answered" /\ phaseBar' = [phaseBar EXCEPT ![r] = "idle"]
    BY <1>6 DEF Answered, phaseBar
  <2>2. seenBar' = [seenBar EXCEPT ![r] = {}] BY <1>6 DEF Answered, seenBar
  <2>3. Abstract!End(r)
    BY <1>6, <2>1, <2>2 DEF Answered, Acked, Abstract!End, phaseBar, seenBar
  <2> QED BY <2>3 DEF Abstract!Next
<1>7. CASE Evict \/ Restart \/ Tick \/ UNCHANGED vars
  BY <1>7 DEF Evict, Restart, Tick, vars, reader, Acked, Abstract!vars
<1> QED BY <1>1, <1>2, <1>3, <1>4, <1>5, <1>6, <1>7 DEF Next, Read

\* As long as neither GET nor INCR fails and Redis keeps its version keys, the
\* cached dashboard cannot be told from one that reads the database directly.
THEOREM CacheImplementsFreshReads ==
  ASSUME Reliable
  PROVE  Spec => ImplementsFreshReads
<1>1. FreshInv /\ [Next]_vars => FreshInv' BY FreshInductive
<1>2. FreshInv /\ [Next]_vars => [Abstract!Next]_(Abstract!vars) BY AbstractStep
<1> QED
  BY FreshInit, AbstractInit, <1>1, <1>2, PTL
  DEF Spec, ImplementsFreshReads, Abstract!Spec
=============================================================================
