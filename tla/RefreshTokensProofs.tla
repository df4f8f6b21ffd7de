------------------------ MODULE RefreshTokensProofs ------------------------
(* Proofs about RefreshTokens: its invariants hold of any number of users, *)
(* tokens and concurrent requests.                                         *)
EXTENDS RefreshTokens, TLAPS

\* A request that ends gives back its locks and forgets its locals.
LEMMA FinishTypes ==
  ASSUME TypeOK, NEW p \in Procs, Finish(p)
  PROVE  /\ pc' \in [Procs -> {"idle", "issue", "lock", "found", "rotate", "sweep", "logout"}]
         /\ tok' \in [Procs -> Tokens \cup {None}]
         /\ usr' \in [Procs -> Users \cup {None}]
         /\ at' \in [Procs -> 0..MaxTime]
         /\ snap' \in [Procs -> SUBSET Tokens]
         /\ liveAtStart' \in [Procs -> BOOLEAN]
         /\ \A q \in Procs : pc'[q] \notin {"idle", "issue"} => tok'[q] \in Tokens
         /\ lock' \in [Tokens -> Procs \cup {None}]
  BY ConstantsAssumption DEF TypeOK, Finish

\* Each statement of a request keeps the types.
LEMMA TypeInductive == TypeOK /\ [Next]_vars => TypeOK'
<1> SUFFICES ASSUME TypeOK, [Next]_vars PROVE TypeOK' OBVIOUS
<1> USE ConstantsAssumption
<1>1. CASE Tick BY <1>1 DEF TypeOK, Tick, table, local
<1>2. ASSUME NEW u \in Users, NEW b \in BOOLEAN, SetActive(u, b) PROVE TypeOK'
  BY <1>2 DEF TypeOK, SetActive, table, local
<1>3. ASSUME NEW p \in Procs, NEW u \in Users, Login(p, u) PROVE TypeOK'
  BY <1>3 DEF TypeOK, Login, Begin, table
<1>4. ASSUME NEW p \in Procs, NEW t \in Tokens, Refresh(p, t) PROVE TypeOK'
  BY <1>4 DEF TypeOK, Refresh, Begin, table
<1>5. ASSUME NEW p \in Procs, NEW t \in Tokens, Logout(p, t) PROVE TypeOK'
  BY <1>5 DEF TypeOK, Logout, Begin, table
<1>6. ASSUME NEW p \in Procs, LoginIssue(p) PROVE TypeOK'
  BY <1>6, FinishTypes DEF TypeOK, LoginIssue, Issued
<1>7. ASSUME NEW p \in Procs, RefreshLock(p) PROVE TypeOK'
  BY <1>7 DEF TypeOK, RefreshLock, Acquire, table
<1>8. ASSUME NEW p \in Procs, RefreshReuse(p) PROVE TypeOK'
  BY <1>8 DEF TypeOK, RefreshReuse, LiveTokensOf, table
<1>9. ASSUME NEW p \in Procs, Sweep(p) PROVE TypeOK'
  BY <1>9 DEF TypeOK, Sweep, Acquire, table, local
<1>10. ASSUME NEW p \in Procs, SweepCommit(p) PROVE TypeOK'
  BY <1>10, FinishTypes DEF TypeOK, SweepCommit
<1>11. ASSUME NEW p \in Procs, RefreshAccepted(p) PROVE TypeOK'
  BY <1>11 DEF TypeOK, RefreshAccepted, table
<1>12. ASSUME NEW p \in Procs, Rotate(p) PROVE TypeOK'
  BY <1>12, FinishTypes DEF TypeOK, Rotate, Issued
<1>13. ASSUME NEW p \in Procs, LogoutCommit(p) PROVE TypeOK'
  BY <1>13, FinishTypes DEF TypeOK, LogoutCommit
<1>14. ASSUME NEW p \in Procs, RefreshRace(p) \/ RefreshDenied(p) \/ Abort(p)
       PROVE TypeOK'
  BY <1>14, FinishTypes DEF TypeOK, RefreshRace, RefreshDenied, Abort, table
<1>15. CASE UNCHANGED vars BY <1>15 DEF TypeOK, vars, table, local
<1> QED
  BY <1>1, <1>2, <1>3, <1>4, <1>5, <1>6, <1>7, <1>8, <1>9, <1>10, <1>11,
     <1>12, <1>13, <1>14, <1>15 DEF Next, LockingStep, OtherStep

\* The table and the requests hold only values of their types, for any number
\* of users, tokens and requests.
THEOREM TypeCorrect == Spec => []TypeOK
<1>1. Init => TypeOK BY ConstantsAssumption DEF Init, TypeOK
<1> QED BY <1>1, TypeInductive, PTL DEF Spec

-----------------------------------------------------------------------------
(* One live token per login.                                               *)

\* A request that has read its row FOR UPDATE still holds the row's lock.
LockHeld ==
  \A p \in Procs : pc[p] \in {"found", "rotate", "sweep"} => lock[tok[p]] = p

\* What a refresh decided on under the lock is still so when it rotates.
RotateLive == \A p \in Procs : pc[p] = "rotate" => status[tok[p]] = "live"

\* A token is presented, and matched by an UPDATE, only once it is issued.
Known ==
  \A p \in Procs :
    /\ pc[p] \notin {"idle", "issue"} => status[tok[p]] # "unused"
    /\ \A t \in snap[p] : status[t] # "unused"

\* The login a token descends from was issued: a new login starts a new chain.
Chained ==
  \A t \in Tokens :
    status[t] # "unused" => chain[t] \in Tokens /\ status[chain[t]] # "unused"

ChainInv == TypeOK /\ LockHeld /\ RotateLive /\ Known /\ Chained /\ OneLivePerLogin

\* No token is issued at first.
LEMMA ChainInit == Init => ChainInv
  BY ConstantsAssumption
  DEF Init, ChainInv, TypeOK, LockHeld, RotateLive, Known, Chained, OneLivePerLogin

\* The steps that leave the table alone.
LEMMA ChainReads ==
  ASSUME ChainInv, TypeOK', UNCHANGED table, LockHeld', RotateLive', Known'
  PROVE  ChainInv'
  BY DEF ChainInv, Chained, OneLivePerLogin, table

\* The steps that end request p and write only rows no other request locks.
LEMMA FinishKeeps ==
  ASSUME ChainInv, NEW p \in Procs, Finish(p),
         \A t \in Tokens : status[t] # "unused" => status'[t] # "unused",
         \A q \in Procs \ {p} : pc[q] = "rotate" => status'[tok[q]] = status[tok[q]]
  PROVE  LockHeld' /\ RotateLive' /\ Known'
<1> USE DEF ChainInv, TypeOK, Finish
<1>1. \A q \in Procs \ {p} : pc'[q] = pc[q] /\ tok'[q] = tok[q] /\ snap'[q] = snap[q]
  OBVIOUS
<1>2. pc'[p] = "idle" /\ snap'[p] = {} OBVIOUS
<1>3. \A t \in Tokens : lock[t] # p => lock'[t] = lock[t] OBVIOUS
<1>4. LockHeld' BY <1>1, <1>2, <1>3 DEF LockHeld
<1>5. RotateLive' BY <1>1, <1>2 DEF RotateLive
<1>6. Known' BY <1>1, <1>2 DEF Known
<1> QED BY <1>4, <1>5, <1>6

\* Each statement keeps the locks, and the chains with one live token.
LEMMA ChainInductive == ChainInv /\ [Next]_vars => ChainInv'
<1> SUFFICES ASSUME ChainInv, [Next]_vars PROVE ChainInv' OBVIOUS
<1>0. TypeOK /\ TypeOK' BY TypeInductive DEF ChainInv
<1> USE ConstantsAssumption, <1>0
<1> USE DEF LockHeld, RotateLive, Known
<1>1. CASE Tick \/ UNCHANGED vars
  BY <1>1, ChainReads DEF ChainInv, Tick, vars, local, table
<1>2. ASSUME NEW u \in Users, NEW b \in BOOLEAN, SetActive(u, b) PROVE ChainInv'
  BY <1>2, ChainReads DEF ChainInv, SetActive, local, table
<1>3. ASSUME NEW p \in Procs, NEW u \in Users, Login(p, u) PROVE ChainInv'
  BY <1>3, ChainReads DEF ChainInv, TypeOK, Login, Begin, table
<1>4. ASSUME NEW p \in Procs, NEW t \in Tokens, Refresh(p, t) PROVE ChainInv'
  BY <1>4, ChainReads DEF ChainInv, TypeOK, Refresh, Begin, table
<1>5. ASSUME NEW p \in Procs, NEW t \in Tokens, Logout(p, t) PROVE ChainInv'
  BY <1>5, ChainReads DEF ChainInv, TypeOK, Logout, Begin, table
<1>6. ASSUME NEW p \in Procs, LoginIssue(p) PROVE ChainInv'
  <2> PICK n \in Tokens : Issued(n, usr[p], n) /\ status' = [status EXCEPT ![n] = "live"]
    BY <1>6 DEF LoginIssue
  <2>1. LockHeld' /\ RotateLive' /\ Known'
    BY <1>6, FinishKeeps DEF LoginIssue, Issued, ChainInv, TypeOK
  <2>2. Chained' BY DEF Chained, Issued, ChainInv, TypeOK
  <2>3. OneLivePerLogin' BY DEF OneLivePerLogin, Chained, Issued, ChainInv, TypeOK
  <2> QED BY <2>1, <2>2, <2>3 DEF ChainInv
<1>7. ASSUME NEW p \in Procs, RefreshLock(p) PROVE ChainInv'
  BY <1>7, ChainReads DEF ChainInv, TypeOK, RefreshLock, Acquire, table
<1>8. ASSUME NEW p \in Procs, RefreshReuse(p) PROVE ChainInv'
  BY <1>8, ChainReads DEF ChainInv, TypeOK, RefreshReuse, LiveTokensOf, table
<1>9. ASSUME NEW p \in Procs, Sweep(p) PROVE ChainInv'
  BY <1>9, ChainReads DEF ChainInv, TypeOK, Sweep, Acquire, table, local
<1>10. ASSUME NEW p \in Procs, SweepCommit(p) PROVE ChainInv'
  <2>1. LockHeld' /\ RotateLive' /\ Known'
    BY <1>10, FinishKeeps DEF SweepCommit, ChainInv, TypeOK
  <2>2. Chained' /\ OneLivePerLogin'
    BY <1>10 DEF SweepCommit, Chained, OneLivePerLogin, ChainInv, TypeOK
  <2> QED BY <2>1, <2>2 DEF ChainInv
<1>11. ASSUME NEW p \in Procs, RefreshAccepted(p) PROVE ChainInv'
  BY <1>11, ChainReads DEF ChainInv, TypeOK, RefreshAccepted, table
<1>12. ASSUME NEW p \in Procs, Rotate(p) PROVE ChainInv'
  <2> PICK n \in Tokens :
         /\ Issued(n, owner[tok[p]], chain[tok[p]])
         /\ status' = [status EXCEPT ![tok[p]] = "revoked", ![n] = "live"]
    BY <1>12 DEF Rotate
  <2>1. tok[p] \in Tokens /\ status[tok[p]] = "live" /\ lock[tok[p]] = p
    BY <1>12 DEF Rotate, ChainInv, TypeOK
  <2>2. LockHeld' /\ RotateLive' /\ Known'
    <3>1. \A t \in Tokens : status[t] # "unused" => status'[t] # "unused"
      BY <2>1 DEF ChainInv, TypeOK
    <3>2. ASSUME NEW q \in Procs \ {p}, pc[q] = "rotate"
          PROVE  status'[tok[q]] = status[tok[q]]
      <4>1. tok[q] \in Tokens /\ status[tok[q]] = "live" /\ lock[tok[q]] = q
        BY <3>2 DEF ChainInv, TypeOK
      <4>2. tok[q] # tok[p] /\ tok[q] # n BY <2>1, <4>1 DEF Issued
      <4> QED BY <4>1, <4>2 DEF TypeOK
    <3>3. Finish(p) BY <1>12 DEF Rotate
    <3> QED BY <3>1, <3>2, <3>3, FinishKeeps
  <2>3. Chained' BY <2>1 DEF Chained, Issued, ChainInv, TypeOK
  <2>4. OneLivePerLogin'
    <3> SUFFICES ASSUME NEW t \in Tokens, NEW u \in Tokens, status'[t] = "live",
                        status'[u] = "live", chain'[t] = chain'[u]
                 PROVE  t = u
      BY DEF OneLivePerLogin
    <3>1. n # tok[p] /\ chain'[n] = chain[tok[p]] BY <2>1 DEF Issued, TypeOK
    <3>2. ASSUME NEW x \in Tokens \ {n}, status'[x] = "live"
          PROVE  status[x] = "live" /\ x # tok[p] /\ chain'[x] = chain[x]
      BY <2>1, <3>1, <3>2 DEF Issued, TypeOK
    <3>3. \A x, y \in Tokens : status[x] = "live" /\ status[y] = "live"
                               /\ chain[x] = chain[y] => x = y
      BY DEF ChainInv, OneLivePerLogin
    <3>4. \A x \in Tokens \ {n} : status'[x] = "live" => chain'[x] # chain'[n]
      BY <2>1, <3>1, <3>2, <3>3
    <3>5. CASE t # n /\ u # n BY <3>2, <3>3, <3>5
    <3>6. CASE t = n \/ u = n BY <3>4, <3>6
    <3> QED BY <3>5, <3>6
  <2> QED BY <2>2, <2>3, <2>4 DEF ChainInv
<1>13. ASSUME NEW p \in Procs, LogoutCommit(p) PROVE ChainInv'
  <2>1. LockHeld' /\ RotateLive' /\ Known'
    BY <1>13, FinishKeeps DEF LogoutCommit, ChainInv, TypeOK
  <2>2. Chained' /\ OneLivePerLogin'
    BY <1>13 DEF LogoutCommit, Chained, OneLivePerLogin, ChainInv, TypeOK
  <2> QED BY <2>1, <2>2 DEF ChainInv
<1>14. ASSUME NEW p \in Procs, RefreshRace(p) \/ RefreshDenied(p) \/ Abort(p)
       PROVE ChainInv'
  BY <1>14, FinishKeeps, ChainReads
  DEF RefreshRace, RefreshDenied, Abort, table, ChainInv, TypeOK
<1> QED
  BY <1>1, <1>2, <1>3, <1>4, <1>5, <1>6, <1>7, <1>8, <1>9, <1>10, <1>11,
     <1>12, <1>13, <1>14 DEF Next, LockingStep, OtherStep

\* However many refreshes, logouts, logins and reuse sweeps run at once, a login
\* never has two usable refresh tokens.
THEOREM OneLiveTokenPerLogin == Spec => []OneLivePerLogin
<1>1. ChainInv => OneLivePerLogin BY DEF ChainInv
<1> QED BY ChainInit, ChainInductive, <1>1, PTL DEF Spec

-----------------------------------------------------------------------------
(* Concurrent refreshes and reuse.                                         *)

\* No request outlives ReqTime.
Punctual ==
  \A p \in Procs : pc[p] # "idle" => at[p] <= now /\ now <= at[p] + ReqTime

\* A token that was live when its refresh started was revoked, if it is, by a
\* request that started at most ReqTime before that refresh.
RecentlyRevoked ==
  \A p \in Procs :
    /\ liveAtStart[p] => pc[p] \in {"lock", "found", "rotate"}
    /\ liveAtStart[p] /\ status[tok[p]] = "revoked" =>
         at[p] <= revokedAt[tok[p]] + ReqTime

BenignInv == TypeOK /\ Punctual /\ RecentlyRevoked

\* No request is under way at first.
LEMMA BenignInit == Init => BenignInv
  BY ConstantsAssumption DEF Init, BenignInv, TypeOK, Punctual, RecentlyRevoked

\* The steps that end request p, revoking tokens as of its timestamp if any.
LEMMA FinishBenign ==
  ASSUME BenignInv, TypeOK', NEW p \in Procs, pc[p] # "idle", Finish(p), now' = now,
         \A t \in Tokens :
           \/ status'[t] = "live"
           \/ status'[t] = status[t] /\ revokedAt'[t] = revokedAt[t]
           \/ revokedAt'[t] = at[p]
  PROVE  BenignInv'
<1> USE ConstantsAssumption DEF BenignInv, TypeOK, Finish
<1>1. \A q \in Procs \ {p} : /\ pc'[q] = pc[q] /\ tok'[q] = tok[q] /\ at'[q] = at[q]
                            /\ liveAtStart'[q] = liveAtStart[q]
  OBVIOUS
<1>2. pc'[p] = "idle" /\ ~ liveAtStart'[p] OBVIOUS
<1>3. Punctual' BY <1>1, <1>2 DEF Punctual
<1>4. ASSUME NEW q \in Procs, liveAtStart'[q]
      PROVE  /\ pc'[q] \in {"lock", "found", "rotate"}
             /\ status'[tok'[q]] = "revoked" => at'[q] <= revokedAt'[tok'[q]] + ReqTime
  <2>1. q # p BY <1>2, <1>4
  <2>2. liveAtStart[q] /\ pc[q] \in {"lock", "found", "rotate"} /\ tok[q] \in Tokens
    BY <1>1, <1>4, <2>1 DEF RecentlyRevoked
  <2>3. at[q] <= now /\ now <= at[p] + ReqTime /\ at[q] \in Nat /\ at[p] \in Nat /\ now \in Nat
    BY <2>2 DEF Punctual
  <2>4. at[q] <= at[p] + ReqTime BY <2>3
  <2> QED BY <1>1, <2>1, <2>2, <2>4 DEF RecentlyRevoked
<1> QED BY <1>3, <1>4 DEF RecentlyRevoked

\* As long as requests take no longer than the grace window, each statement keeps
\* a token that was live when it was presented within the window.
LEMMA BenignInductive == BenignInv /\ [Next]_vars /\ ReqTime <= Grace => BenignInv'
<1> SUFFICES ASSUME BenignInv, [Next]_vars, ReqTime <= Grace PROVE BenignInv' OBVIOUS
<1>0. TypeOK /\ TypeOK' BY TypeInductive DEF BenignInv
<1> USE ConstantsAssumption, <1>0 DEF BenignInv, Punctual, RecentlyRevoked
<1>1. CASE Tick BY <1>1 DEF Tick, TypeOK, table, local
<1>2. ASSUME NEW u \in Users, NEW b \in BOOLEAN, SetActive(u, b) PROVE BenignInv'
  BY <1>2 DEF SetActive, table, local
<1>3. ASSUME NEW p \in Procs, NEW u \in Users, Login(p, u) PROVE BenignInv'
  BY <1>3 DEF TypeOK, Login, Begin, table
<1>4. ASSUME NEW p \in Procs, NEW t \in Tokens, Refresh(p, t) PROVE BenignInv'
  BY <1>4 DEF TypeOK, Refresh, Begin, table
<1>5. ASSUME NEW p \in Procs, NEW t \in Tokens, Logout(p, t) PROVE BenignInv'
  BY <1>5 DEF TypeOK, Logout, Begin, table
<1>6. ASSUME NEW p \in Procs, LoginIssue(p) PROVE BenignInv'
  BY <1>6, FinishBenign DEF LoginIssue, Issued, TypeOK
<1>7. ASSUME NEW p \in Procs, RefreshLock(p) PROVE BenignInv'
  BY <1>7 DEF TypeOK, RefreshLock, table
<1>8. ASSUME NEW p \in Procs, RefreshReuse(p) PROVE BenignInv'
  <2>1. ~ liveAtStart[p]
    BY <1>8 DEF RefreshReuse, WithinGrace, TypeOK
  <2> QED BY <1>8, <2>1 DEF TypeOK, RefreshReuse, table
<1>9. ASSUME NEW p \in Procs, Sweep(p) PROVE BenignInv'
  BY <1>9 DEF Sweep, table, local
<1>10. ASSUME NEW p \in Procs, SweepCommit(p) PROVE BenignInv'
  BY <1>10, FinishBenign DEF SweepCommit, TypeOK
<1>11. ASSUME NEW p \in Procs, RefreshAccepted(p) PROVE BenignInv'
  BY <1>11 DEF TypeOK, RefreshAccepted, table
<1>12. ASSUME NEW p \in Procs, Rotate(p) PROVE BenignInv'
  BY <1>12, FinishBenign DEF Rotate, Issued, TypeOK
<1>13. ASSUME NEW p \in Procs, LogoutCommit(p) PROVE BenignInv'
  BY <1>13, FinishBenign DEF LogoutCommit, TypeOK
<1>14. ASSUME NEW p \in Procs, RefreshRace(p) \/ RefreshDenied(p) \/ Abort(p)
       PROVE BenignInv'
  BY <1>14, FinishBenign DEF RefreshRace, RefreshDenied, Abort, table, TypeOK
<1>15. CASE UNCHANGED vars BY <1>15 DEF vars, table, local
<1> QED
  BY <1>1, <1>2, <1>3, <1>4, <1>5, <1>6, <1>7, <1>8, <1>9, <1>10, <1>11,
     <1>12, <1>13, <1>14, <1>15 DEF Next, LockingStep, OtherStep

\* While requests take no longer than the grace window, a refresh that started
\* while its token was live is never answered as the reuse of a stolen token.
THEOREM ConcurrentRefreshIsBenign ==
  ASSUME ReqTime <= Grace
  PROVE  Spec => []ConcurrentIsBenign
<1>1. BenignInv /\ [Next]_vars => BenignInv' BY BenignInductive
<1>2. BenignInv => ConcurrentIsBenign
  BY DEF BenignInv, RecentlyRevoked, ConcurrentIsBenign
<1> QED BY BenignInit, <1>1, <1>2, PTL DEF Spec

-----------------------------------------------------------------------------
(* The time of a revocation.                                               *)

\* A logout whose token was revoked meanwhile began within ReqTime of the time
\* it was revoked as of.
LogoutNear ==
  \A p \in Procs : pc[p] = "logout" /\ status[tok[p]] = "revoked" =>
    /\ at[p] <= revokedAt[tok[p]] + ReqTime
    /\ revokedAt[tok[p]] <= at[p] + ReqTime

StampInv == ChainInv /\ Punctual /\ LogoutNear

\* Who is under way knows two times that differ by no more than ReqTime.
LEMMA StampsNear ==
  ASSUME StampInv, NEW p \in Procs, NEW q \in Procs, pc[p] # "idle", pc[q] # "idle"
  PROVE  at[p] <= at[q] + ReqTime
<1>1. now \in Nat /\ at[p] \in Nat /\ at[q] \in Nat /\ ReqTime \in Nat
  BY ConstantsAssumption DEF StampInv, ChainInv, TypeOK
<1>2. at[p] <= now /\ now <= at[q] + ReqTime BY DEF StampInv, Punctual
<1> QED BY <1>1, <1>2

\* The steps that end request p, revoking tokens as of its timestamp if any.
LEMMA FinishNear ==
  ASSUME StampInv, TypeOK', NEW p \in Procs, pc[p] # "idle", Finish(p), now' = now,
         \A t \in Tokens :
           \/ status'[t] = "live"
           \/ status'[t] = status[t] /\ revokedAt'[t] = revokedAt[t]
           \/ revokedAt'[t] = at[p]
  PROVE  Punctual' /\ LogoutNear'
<1> USE DEF StampInv, ChainInv, TypeOK
<1>1. \A q \in Procs \ {p} : pc'[q] = pc[q] /\ tok'[q] = tok[q] /\ at'[q] = at[q]
  BY DEF Finish
<1>2. pc'[p] = "idle" BY DEF Finish
<1>3. Punctual' BY <1>1, <1>2 DEF Punctual
<1>4. ASSUME NEW q \in Procs, pc'[q] = "logout", status'[tok'[q]] = "revoked"
      PROVE  /\ at'[q] <= revokedAt'[tok'[q]] + ReqTime
             /\ revokedAt'[tok'[q]] <= at'[q] + ReqTime
  <2>1. q # p /\ pc[q] = "logout" /\ tok[q] \in Tokens /\ tok'[q] = tok[q] /\ at'[q] = at[q]
    BY <1>1, <1>2, <1>4
  <2>2. CASE status'[tok[q]] = status[tok[q]] /\ revokedAt'[tok[q]] = revokedAt[tok[q]]
    BY <1>4, <2>1, <2>2 DEF LogoutNear
  <2>3. CASE revokedAt'[tok[q]] = at[p] BY <2>1, <2>3, StampsNear
  <2> QED BY <1>4, <2>1, <2>2, <2>3
<1> QED BY <1>3, <1>4 DEF LogoutNear

\* Each statement keeps the revocations that a logout may meet near to it.
LEMMA StampInductive == StampInv /\ [Next]_vars => StampInv'
<1> SUFFICES ASSUME StampInv, [Next]_vars PROVE Punctual' /\ LogoutNear'
  BY ChainInductive DEF StampInv
<1>0. TypeOK /\ TypeOK' BY TypeInductive DEF StampInv, ChainInv
<1> USE ConstantsAssumption, <1>0 DEF StampInv, Punctual, LogoutNear
<1>1. CASE Tick BY <1>1 DEF Tick, TypeOK, table, local
<1>2. ASSUME NEW u \in Users, NEW b \in BOOLEAN, SetActive(u, b) PROVE Punctual' /\ LogoutNear'
  BY <1>2 DEF SetActive, table, local
<1>3. ASSUME NEW p \in Procs, NEW u \in Users, Login(p, u) PROVE Punctual' /\ LogoutNear'
  BY <1>3 DEF TypeOK, Login, Begin, table
<1>4. ASSUME NEW p \in Procs, NEW t \in Tokens, Refresh(p, t) \/ Logout(p, t)
      PROVE  Punctual' /\ LogoutNear'
  BY <1>4 DEF TypeOK, Refresh, Logout, Begin, table
<1>5. ASSUME NEW p \in Procs, LoginIssue(p) PROVE Punctual' /\ LogoutNear'
  BY <1>5, FinishNear DEF LoginIssue, Issued, TypeOK
<1>6. ASSUME NEW p \in Procs, RefreshLock(p) \/ RefreshReuse(p) \/ RefreshAccepted(p)
      PROVE  Punctual' /\ LogoutNear'
  BY <1>6 DEF TypeOK, RefreshLock, RefreshReuse, RefreshAccepted, table
<1>7. ASSUME NEW p \in Procs, Sweep(p) PROVE Punctual' /\ LogoutNear'
  BY <1>7 DEF Sweep, table, local
<1>8. ASSUME NEW p \in Procs, SweepCommit(p) PROVE Punctual' /\ LogoutNear'
  BY <1>8, FinishNear DEF SweepCommit, TypeOK
<1>9. ASSUME NEW p \in Procs, Rotate(p) PROVE Punctual' /\ LogoutNear'
  BY <1>9, FinishNear DEF Rotate, Issued, TypeOK
<1>10. ASSUME NEW p \in Procs, LogoutCommit(p) PROVE Punctual' /\ LogoutNear'
  BY <1>10, FinishNear DEF LogoutCommit, TypeOK
<1>11. ASSUME NEW p \in Procs, RefreshRace(p) \/ RefreshDenied(p) \/ Abort(p)
       PROVE Punctual' /\ LogoutNear'
  BY <1>11, FinishNear DEF RefreshRace, RefreshDenied, Abort, table, TypeOK
<1>12. CASE UNCHANGED vars BY <1>12 DEF vars, table, local
<1> QED
  BY <1>1, <1>2, <1>3, <1>4, <1>5, <1>6, <1>7, <1>8, <1>9, <1>10, <1>11, <1>12
  DEF Next, LockingStep, OtherStep

\* What a step does to the time of a revocation.
LEMMA StepNear ==
  ASSUME StampInv, [Next]_vars, NEW t \in Tokens, status[t] = "revoked",
         revokedAt'[t] # revokedAt[t]
  PROVE  /\ \E p \in Procs : pc[p] = "logout" /\ tok[p] = t /\ LogoutCommit(p)
         /\ revokedAt'[t] \in (revokedAt[t] - ReqTime)..(revokedAt[t] + ReqTime)
<1> USE DEF StampInv, ChainInv, TypeOK
<1>1. PICK p \in Procs : LogoutCommit(p)
  <2>1. ASSUME NEW p \in Procs, Rotate(p) PROVE FALSE
    <3>1. tok[p] \in Tokens /\ status[tok[p]] = "live" BY <2>1 DEF Rotate, RotateLive
    <3>2. revokedAt'[t] = revokedAt[t] BY <2>1, <3>1 DEF Rotate
    <3> QED BY <3>2
  <2>2. ASSUME NEW p \in Procs, SweepCommit(p) PROVE FALSE
    BY <2>2 DEF SweepCommit
  <2> QED
    BY <2>1, <2>2
    DEF Next, vars, table, Tick, SetActive, Login, Refresh, Logout, LockingStep, OtherStep, Abort,
        RefreshLock, Sweep, LoginIssue, RefreshRace, RefreshReuse, RefreshDenied, RefreshAccepted
<1>2. tok[p] = t /\ pc[p] = "logout" /\ revokedAt'[t] = at[p] BY <1>1 DEF LogoutCommit
<1>3. /\ at[p] <= revokedAt[t] + ReqTime /\ revokedAt[t] <= at[p] + ReqTime
      /\ at[p] \in Nat /\ revokedAt[t] \in Nat /\ ReqTime \in Nat
  BY <1>2, ConstantsAssumption DEF LogoutNear
<1>4. revokedAt'[t] \in (revokedAt[t] - ReqTime)..(revokedAt[t] + ReqTime) BY <1>2, <1>3
<1> QED BY <1>1, <1>2, <1>4

\* However logouts, rotations and sweeps of one token overlap, the time from
\* which its grace is counted moves by no more than a request takes, and only
\* a logout moves it.
THEOREM RevocationTimesHold == Spec => GraceHardlyMoves
<1>1. Init => StampInv
  BY ChainInit, ConstantsAssumption DEF Init, StampInv, Punctual, LogoutNear
<1>2. StampInv /\ [Next]_vars =>
        [\A t \in Tokens : status[t] = "revoked" /\ revokedAt'[t] # revokedAt[t] =>
           /\ \E p \in Procs : pc[p] = "logout" /\ tok[p] = t /\ LogoutCommit(p)
           /\ revokedAt'[t] \in (revokedAt[t] - ReqTime)..(revokedAt[t] + ReqTime)]_vars
  BY StepNear
<1> QED BY <1>1, <1>2, StampInductive, PTL DEF Spec, GraceHardlyMoves
=============================================================================
