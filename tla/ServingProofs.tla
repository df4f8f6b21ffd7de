---------------------------- MODULE ServingProofs ----------------------------
(***************************************************************************)
(* Proofs about what a request waits for: what one call of                 *)
(* FailoverLLMClient.generate keeps to, for any number of providers and    *)
(* any settings, and when the pools block, for any number of requests,     *)
(* threads and connections. The two parts share no definition.             *)
(***************************************************************************)
EXTENDS FailoverClient, ConnectionPool, FiniteSetTheorems, TLAPS

\* The providers are asked in order, none is skipped, and a failure is only
\* reported at the end.
AskedInOrder ==
  /\ pc = "next" => asked = 1..(i - 1)
  /\ pc \in Calls => asked = 1..i
  /\ outcome = "failed" => pc = "done"

Inv == TypeOK /\ BudgetKept /\ AskedInOrder /\ GivesUpOnlyWhenSpent

USE BudgetAssumption

-----------------------------------------------------------------------------

\* The time granted to a call that starts while some budget is left is within
\* that budget.
LEMMA GrantWithinBudget ==
  ASSUME now \in Nat, Remaining >= 0
  PROVE  Timeout \in Nat /\ now + Timeout <= Budget
  BY DEF Timeout, Remaining

\* The same at any time n, for a repair.
LEMMA GrantAt ==
  ASSUME NEW n \in Nat, Budget - n >= MinRepair,
         NEW t, t = IF PerCall <= Budget - n THEN PerCall ELSE Budget - n
  PROVE  t \in Nat /\ n + t <= Budget
  OBVIOUS

\* A call that ends: the clock is past the budget only if a call was late.
LEMMA CallEnds ==
  ASSUME Inv, NEW c \in Calls, Lasting(c)
  PROVE  /\ now' \in Nat /\ late' \in BOOLEAN /\ pc = c
         /\ now' <= Budget + (IF late' THEN Overrun ELSE 0)
<1>1. PICK d \in 0..(timeout + Overrun) : now' = now + d /\ late' = (late \/ d > timeout)
  BY DEF Lasting
<1>2. timeout \in Nat /\ now \in Nat /\ late \in BOOLEAN /\ now + timeout <= Budget
  BY DEF Lasting, Inv, TypeOK, BudgetKept
<1>3. pc = c
  BY DEF Lasting
<1>4. late' \in BOOLEAN
  BY <1>1, <1>2
<1>5. CASE d > timeout
  <2>1. now' <= Budget + Overrun /\ now' \in Nat
    BY <1>1, <1>2
  <2>2. late'
    BY <1>1, <1>5
  <2> QED
    BY <1>3, <1>4, <2>1, <2>2
<1>6. CASE ~(d > timeout)
  <2>1. now' <= Budget /\ now' \in Nat
    BY <1>1, <1>2, <1>6
  <2>2. Overrun \in Nat
    OBVIOUS
  <2> QED
    <3>1. CASE late'
      BY <1>3, <1>4, <2>1, <2>2, <3>1
    <3>2. CASE ~late'
      BY <1>3, <1>4, <2>1, <3>2
    <3> QED
      BY <3>1, <3>2
<1> QED
  BY <1>5, <1>6

\* Going on with the next provider.
LEMMA AdvanceKeepsInv ==
  ASSUME Inv, NEW c \in Calls, Lasting(c), Advance, UNCHANGED asked
  PROVE  Inv'
<1>1. /\ now' \in Nat /\ late' \in BOOLEAN /\ pc = c
      /\ now' <= Budget + (IF late' THEN Overrun ELSE 0)
  BY CallEnds
<1>2. i \in 1..N /\ i' = i + 1 /\ pc' = "next" /\ asked' = 1..i
  BY <1>1 DEF Inv, TypeOK, Advance, AskedInOrder, Calls
<1>3. TypeOK'
  BY <1>1, <1>2 DEF Inv, TypeOK, Advance, Calls
<1>4. BudgetKept'
  BY <1>1, <1>2 DEF BudgetKept, Calls
<1>5. asked' = 1..(i' - 1)
  BY <1>2
<1>6. outcome' # "failed"
  BY <1>1 DEF Inv, Advance, AskedInOrder, Calls
<1>7. AskedInOrder' /\ GivesUpOnlyWhenSpent'
  BY <1>2, <1>5, <1>6 DEF AskedInOrder, GivesUpOnlyWhenSpent, Calls
<1> QED
  BY <1>3, <1>4, <1>7 DEF Inv

\* A call that ends the whole generation, otherwise than by a failure.
LEMMA EndKeepsInv ==
  ASSUME Inv, NEW c \in Calls, Lasting(c),
         NEW o \in {"result", "raised"}, End(o), UNCHANGED <<i, timeout, asked>>
  PROVE  Inv'
<1>1. /\ now' \in Nat /\ late' \in BOOLEAN /\ pc = c
      /\ now' <= Budget + (IF late' THEN Overrun ELSE 0)
  BY CallEnds
<1>2. TypeOK'
  BY <1>1 DEF Inv, TypeOK, End, Calls
<1>3. BudgetKept'
  BY <1>1 DEF BudgetKept, End, Calls
<1>4. AskedInOrder' /\ GivesUpOnlyWhenSpent'
  BY DEF AskedInOrder, GivesUpOnlyWhenSpent, End, Calls
<1> QED
  BY <1>2, <1>3, <1>4 DEF Inv

\* The invariant holds at the start and every step keeps it.
THEOREM Invariance == Spec => []Inv
<1>1. Init => Inv
  <2> SUFFICES ASSUME Init PROVE Inv
    OBVIOUS
  <2>1. TypeOK
    <3>1. late \in BOOLEAN
      BY Zenon DEF Init
    <3> QED
      BY <3>1 DEF Init, TypeOK, Calls
  <2>2. BudgetKept
    BY DEF Init, BudgetKept, Calls
  <2>3. AskedInOrder /\ GivesUpOnlyWhenSpent
    BY DEF Init, AskedInOrder, GivesUpOnlyWhenSpent, Calls
  <2> QED
    BY <2>1, <2>2, <2>3 DEF Inv
<1>2. Inv /\ [Next]_vars => Inv'
  <2> SUFFICES ASSUME Inv, [Next]_vars PROVE Inv'
    OBVIOUS
  <2>1. CASE CallProvider
    <3>1. Timeout \in Nat /\ now + Timeout <= Budget
      BY <2>1, GrantWithinBudget DEF CallProvider, Inv, TypeOK, Remaining
    <3>2. TypeOK' /\ BudgetKept'
      BY <2>1, <3>1 DEF CallProvider, Inv, TypeOK, BudgetKept, Calls
    <3>3. asked' = 1..i
      BY <2>1 DEF CallProvider, Inv, TypeOK, AskedInOrder
    <3>4. AskedInOrder' /\ GivesUpOnlyWhenSpent'
      BY <2>1, <3>3 DEF CallProvider, Inv, AskedInOrder, GivesUpOnlyWhenSpent, Calls
    <3> QED
      BY <3>2, <3>4 DEF Inv
  <2>2. CASE Exhausted
    <3>1. TypeOK' /\ BudgetKept' /\ AskedInOrder'
      BY <2>2 DEF Exhausted, End, Inv, TypeOK, BudgetKept, AskedInOrder, Calls
    <3>2. i - 1 = N
      BY <2>2 DEF Exhausted, Inv, TypeOK
    <3>3. asked' = 1..N
      BY <2>2, <3>2 DEF Exhausted, Inv, AskedInOrder
    <3> QED
      BY <3>1, <3>3 DEF Inv, GivesUpOnlyWhenSpent
  <2>3. CASE OutOfBudget
    BY <2>3 DEF OutOfBudget, Remaining, End, Inv, TypeOK, BudgetKept, AskedInOrder,
                GivesUpOnlyWhenSpent, Calls
  <2>4. CASE Invalid
    <3>1. Lasting("call") /\ "call" \in Calls /\ UNCHANGED asked
      BY <2>4 DEF Invalid, Calls
    <3>2. CASE ~(Budget - now' >= MinRepair)
      BY <2>4, <3>1, <3>2, AdvanceKeepsInv DEF Invalid
    <3>3. CASE Budget - now' >= MinRepair
      <4>1. /\ now' \in Nat /\ late' \in BOOLEAN /\ pc = "call"
            /\ now' <= Budget + (IF late' THEN Overrun ELSE 0)
        BY <3>1, CallEnds
      <4>2. pc' = "repair" /\ timeout' = Timeout' /\ UNCHANGED <<i, outcome>>
        BY <2>4, <3>3 DEF Invalid
      <4>3. timeout' \in Nat /\ now' + timeout' <= Budget
        <5>1. Timeout' = IF PerCall <= Budget - now' THEN PerCall ELSE Budget - now'
          BY DEF Timeout, Remaining
        <5> QED
          BY <3>3, <4>1, <4>2, <5>1, GrantAt
      <4>4. TypeOK' /\ BudgetKept'
        BY <3>1, <4>1, <4>2, <4>3 DEF Inv, TypeOK, BudgetKept, Calls
      <4>5. AskedInOrder' /\ GivesUpOnlyWhenSpent'
        BY <3>1, <4>1, <4>2 DEF Inv, AskedInOrder, GivesUpOnlyWhenSpent, Calls
      <4> QED
        BY <4>4, <4>5 DEF Inv
    <3> QED
      BY <3>2, <3>3
  <2>5. CASE StillInvalid
    BY <2>5, AdvanceKeepsInv DEF StillInvalid, Calls
  <2>6. ASSUME NEW c \in Calls, Valid(c)
        PROVE  Inv'
    BY <2>6, EndKeepsInv DEF Valid
  <2>7. ASSUME NEW c \in Calls, LLMError(c)
        PROVE  Inv'
    BY <2>7, AdvanceKeepsInv DEF LLMError
  <2>8. ASSUME NEW c \in Calls, OtherError(c)
        PROVE  Inv'
    BY <2>8, EndKeepsInv DEF OtherError
  <2>9. CASE UNCHANGED vars
    BY <2>9 DEF vars, Inv, TypeOK, BudgetKept, AskedInOrder, GivesUpOnlyWhenSpent, Calls
  <2> QED
    BY <2>1, <2>2, <2>3, <2>4, <2>5, <2>6, <2>7, <2>8, <2>9 DEF Next
<1> QED
  BY <1>1, <1>2, PTL DEF Spec

\* The clock, the current provider, the granted time and the outcome keep
\* their types, whatever the settings.
THEOREM TypeCorrect == Spec => []TypeOK
<1>1. Inv => TypeOK
  BY DEF Inv
<1> QED
  BY Invariance, <1>1, PTL

\* "One overall time budget": generate, repair calls included, is over by its
\* deadline if no call outlasts its timeout, and else one overrun later.
THEOREM BudgetIsKept == Spec => []BudgetKept
<1>1. Inv => BudgetKept
  BY DEF Inv
<1> QED
  BY Invariance, <1>1, PTL

\* "All LLM providers failed or timed out" is said only if all were asked or
\* the budget is spent.
THEOREM FailsOnlyWhenSpent == Spec => []GivesUpOnlyWhenSpent
<1>1. Inv => GivesUpOnlyWhenSpent
  BY DEF Inv
<1> QED
  BY Invariance, <1>1, PTL

-----------------------------------------------------------------------------
(* The pools. *)

Running == {r \in Client : at[r] \in OnThread}

\* A set of requests is finite, and grows or shrinks by one.
LEMMA Finite ==
  ASSUME NEW S \in SUBSET Client
  PROVE  IsFiniteSet(S) /\ Cardinality(S) \in Nat
BY PoolAssumption, FS_Subset, FS_CardinalityType

\* A resource that is taken counts one more.
LEMMA Grows ==
  ASSUME NEW S \in SUBSET Client, NEW r \in Client, r \notin S
  PROVE  Cardinality(S \cup {r}) = Cardinality(S) + 1
BY Finite, FS_AddElement

\* A resource that is given back counts one less.
LEMMA Shrinks ==
  ASSUME NEW S \in SUBSET Client, NEW r \in S
  PROVE  Cardinality(S \ {r}) = Cardinality(S) - 1 /\ Cardinality(S) > 0
<1>1. IsFiniteSet(S) /\ Cardinality(S) \in Nat BY Finite
<1>2. Cardinality(S) # 0 BY <1>1, FS_EmptySet
<1>3. Cardinality(S \ {r}) = IF r \in S THEN Cardinality(S) - 1 ELSE Cardinality(S)
  BY <1>1, FS_RemoveElement
<1> QED BY <1>1, <1>2, <1>3

\* What the moves of a request do to the set of those on a thread.
LEMMA ThreadMoves ==
  ASSUME PoolTypeOK, NEW r \in Client, NEW place \in Places, Move(r, place)
  PROVE  /\ at' \in [Client -> Places]
         /\ Running \subseteq Client
         /\ r \in Running <=> at[r] \in OnThread
         /\ place \in OnThread => Running' = Running \cup {r}
         /\ place \notin OnThread => Running' = Running \ {r}
BY DEF PoolTypeOK, Move, Running

\* The conservation of connections and threads is what makes PoolTypeOK
\* inductive.
LEMMA PoolTypeInductive == PoolTypeOK /\ [PoolNext]_poolVars => PoolTypeOK'
<1> SUFFICES ASSUME PoolTypeOK, [PoolNext]_poolVars PROVE PoolTypeOK' OBVIOUS
<1> USE PoolAssumption
<1>0. /\ conns \in Nat /\ threads \in Nat
      /\ conns + Cardinality(holding) = PoolSize
      /\ threads + Cardinality(Running) = Threads
      /\ holding \in SUBSET Client /\ Running \in SUBSET Client
      /\ Cardinality(holding) \in Nat /\ Cardinality(Running) \in Nat
  BY Finite DEF PoolTypeOK, Running
<1>1. CASE UNCHANGED poolVars BY <1>1 DEF PoolTypeOK, poolVars
<1>2. ASSUME NEW r \in Client, TakeThread(r) PROVE PoolTypeOK'
  <2>1. \E place \in {"auth", "work"} : Move(r, place) BY <1>2 DEF TakeThread
  <2>2. r \notin Running /\ Running' = Running \cup {r} /\ at' \in [Client -> Places]
    BY <1>2, <2>1, ThreadMoves DEF TakeThread, Places, OnThread
  <2>3. threads' + Cardinality(Running') = Threads /\ threads' \in 0..Threads
    BY <1>0, <1>2, <2>2, Grows, Finite DEF TakeThread
  <2>4. holding' \subseteq {q \in Client : at'[q] \in {"authed", "queued", "work", "closing"}}
    BY <1>2 DEF TakeThread, Move, PoolTypeOK
  <2> QED BY <1>0, <1>2, <2>2, <2>3, <2>4 DEF TakeThread, PoolTypeOK, Running
<1>3. ASSUME NEW r \in Client, Checkout(r) PROVE PoolTypeOK'
  <2>1. \E place \in {"authed", "work"} : Move(r, place) BY <1>3 DEF Checkout
  <2>2. Running' = Running /\ at' \in [Client -> Places]
    BY <1>3, <2>1, ThreadMoves DEF Checkout, Places, OnThread, NeedsConnection
  <2>3. r \notin holding BY <1>3 DEF Checkout, NeedsConnection, PoolTypeOK
  <2>4. conns' + Cardinality(holding') = PoolSize /\ conns' \in 0..PoolSize
    BY <1>0, <1>3, <2>3, Grows, Finite DEF Checkout
  <2>5. holding' \subseteq {q \in Client : at'[q] \in {"authed", "queued", "work", "closing"}}
    BY <1>3 DEF Checkout, Move, PoolTypeOK
  <2> QED BY <1>0, <1>3, <2>2, <2>4, <2>5 DEF Checkout, PoolTypeOK, Running
<1>4. ASSUME NEW r \in Client, GiveUp(r) \/ Authenticated(r) \/ Respond(r) PROVE PoolTypeOK'
  <2>1. \E place \in {"queued", "closing"} : LeaveThread(r, place)
    BY <1>4 DEF GiveUp, Authenticated, Respond
  <2>2. r \in Running /\ Running' = Running \ {r} /\ at' \in [Client -> Places]
    BY <1>4, <2>1, ThreadMoves
    DEF GiveUp, Authenticated, Respond, LeaveThread, Places, OnThread, NeedsConnection
  <2>3. threads' + Cardinality(Running') = Threads /\ threads' \in 0..Threads
    <3>1. Cardinality(Running') = Cardinality(Running) - 1 /\ Cardinality(Running) > 0
      BY <1>0, <2>2, Shrinks
    <3>2. threads' = threads + 1 BY <2>1 DEF LeaveThread
    <3> QED BY <1>0, <3>1, <3>2
  <2>4. holding' \subseteq {q \in Client : at'[q] \in {"authed", "queued", "work", "closing"}}
    BY <1>4, <2>1 DEF GiveUp, Authenticated, Respond, LeaveThread, Move, PoolTypeOK
  <2> QED BY <1>0, <1>4, <2>2, <2>3, <2>4
          DEF GiveUp, Authenticated, Respond, PoolTypeOK, Running
<1>5. ASSUME NEW r \in Client, Returned(r)
      PROVE  conns' + Cardinality(holding') = PoolSize /\ conns' \in 0..PoolSize
  <2>1. CASE r \in holding
    <3>1. Cardinality(holding \ {r}) = Cardinality(holding) - 1 /\ Cardinality(holding) > 0
      BY <1>0, <2>1, Shrinks
    <3>2. holding' = holding \ {r} /\ conns' = conns + 1 BY <1>5, <2>1 DEF Returned
    <3> QED BY <1>0, <3>1, <3>2
  <2>2. CASE r \notin holding
    <3>1. holding' = holding /\ conns' = conns BY <1>5, <2>2 DEF Returned
    <3> QED BY <1>0, <3>1
  <2> QED BY <2>1, <2>2
<1>6. ASSUME NEW r \in Client, Commit(r) PROVE PoolTypeOK'
  <2>1. Running' = Running /\ at' \in [Client -> Places]
    BY <1>6, ThreadMoves DEF Commit, Places, OnThread
  <2>2. holding' \subseteq {q \in Client : at'[q] \in {"authed", "queued", "work", "closing"}}
    BY <1>6 DEF Commit, Returned, Move, PoolTypeOK
  <2>3. commits' \in [Client -> 0..MaxCommits] BY <1>6 DEF Commit, PoolTypeOK
  <2>4. Returned(r) /\ threads' = threads BY <1>6 DEF Commit
  <2>5. conns' + Cardinality(holding') = PoolSize /\ conns' \in 0..PoolSize BY <1>5, <2>4
  <2>6. threads' + Cardinality(Running') = Threads /\ threads' \in 0..Threads
    BY <1>0, <2>1, <2>4 DEF PoolTypeOK
  <2> QED BY <2>1, <2>2, <2>3, <2>5, <2>6 DEF PoolTypeOK, Running
<1>7. ASSUME NEW r \in Client, Close(r) PROVE PoolTypeOK'
  <2>1. Running' = Running /\ at' \in [Client -> Places]
    BY <1>7, ThreadMoves DEF Close, Places, OnThread
  <2>2. holding' \subseteq {q \in Client : at'[q] \in {"authed", "queued", "work", "closing"}}
    BY <1>7 DEF Close, Returned, Move, PoolTypeOK
  <2> QED BY <1>0, <1>5, <1>7, <2>1, <2>2 DEF Close, PoolTypeOK, Running
<1> QED BY <1>1, <1>2, <1>3, <1>4, <1>6, <1>7 DEF PoolNext, Serve

\* No connection and no thread is ever lost or counted twice, whatever the sizes
\* of the pools and however many requests there are.
THEOREM PoolTypeCorrect == PoolSpec => []PoolTypeOK
<1>1. PoolInit => PoolTypeOK
  <2> SUFFICES ASSUME PoolInit PROVE PoolTypeOK OBVIOUS
  <2>1. Running = {} BY DEF PoolInit, Running, OnThread
  <2> QED BY <2>1, PoolAssumption, FS_EmptySet
          DEF PoolInit, PoolTypeOK, Places, Running
<1> QED BY <1>1, PoolTypeInductive, PTL DEF PoolSpec

\* If nobody in progress can move, those that wait for a thread hold every
\* connection and those that wait for a connection occupy every thread.
LEMMA CrowdNeeded == PoolTypeOK => OnlyACrowdBlocks
<1> SUFFICES ASSUME PoolTypeOK, InProgress # {}, \A r \in InProgress : ~CanMove(r)
             PROVE  Cardinality(InProgress) >= Threads + PoolSize
  BY PoolAssumption, Finite DEF OnlyACrowdBlocks, InProgress
<1> USE PoolAssumption
<1>0. /\ conns + Cardinality(holding) = PoolSize
      /\ threads + Cardinality(Running) = Threads
      /\ conns \in Nat /\ threads \in Nat
      /\ holding \in SUBSET Client /\ Running \in SUBSET Client
      /\ InProgress \in SUBSET Client
  BY DEF PoolTypeOK, Running, InProgress
<1>1. \A r \in InProgress : \/ at[r] = "queued" /\ threads = 0
                            \/ at[r] \in NeedsConnection /\ conns = 0
  BY <1>0 DEF CanMove, InProgress, PoolTypeOK, Places, NeedsConnection
<1>2. \A r \in holding : at[r] = "queued"
  BY <1>1 DEF PoolTypeOK, InProgress, NeedsConnection
<1>3. \A r \in Running : at[r] \in NeedsConnection
  BY <1>1 DEF Running, InProgress, OnThread
<1>4. conns = 0 /\ threads = 0
  <2>1. CASE \E r \in InProgress : at[r] = "queued"
    <3>1. threads = 0 BY <1>1, <2>1 DEF NeedsConnection
    <3>2. Running # {} BY <1>0, <3>1, FS_EmptySet
    <3>3. PICK r \in Running : TRUE BY <3>2
    <3>4. r \in InProgress BY DEF Running, InProgress, OnThread
    <3>5. conns = 0 BY <1>1, <1>3, <3>3, <3>4 DEF NeedsConnection
    <3> QED BY <3>1, <3>5
  <2>2. CASE \A r \in InProgress : at[r] # "queued"
    <3>1. conns = 0 BY <1>1, <2>2
    <3>2. holding # {} BY <1>0, <3>1, FS_EmptySet
    <3>3. PICK r \in holding : TRUE BY <3>2
    <3>4. r \in InProgress BY <1>2 DEF InProgress, PoolTypeOK
    <3> QED BY <1>2, <2>2, <3>3, <3>4
  <2> QED BY <2>1, <2>2
<1>5. holding \cap Running = {} BY <1>2, <1>3 DEF NeedsConnection
<1>6. holding \cup Running \in SUBSET InProgress
  BY <1>2, <1>0 DEF Running, InProgress, OnThread
<1>7. Cardinality(holding \cup Running) = Cardinality(holding) + Cardinality(Running)
  <2>1. Cardinality(holding \cap Running) = 0 BY <1>5, FS_EmptySet
  <2>2. /\ IsFiniteSet(holding) /\ IsFiniteSet(Running)
        /\ Cardinality(holding) \in Nat /\ Cardinality(Running) \in Nat
    BY <1>0, Finite
  <2>3. Cardinality(holding \cup Running)
          = Cardinality(holding) + Cardinality(Running) - Cardinality(holding \cap Running)
    BY <2>2, FS_Union
  <2> QED BY <2>1, <2>2, <2>3
<1>8. Cardinality(holding \cup Running) <= Cardinality(InProgress)
  BY <1>0, <1>6, Finite, FS_Subset
<1>9. /\ Cardinality(InProgress) \in Nat
      /\ Cardinality(holding) = PoolSize /\ Cardinality(Running) = Threads
  BY <1>0, <1>4, Finite
<1> QED BY <1>7, <1>8, <1>9

\* Fewer requests than threads and connections together never block each other.
THEOREM CrowdCorrect == PoolSpec => []OnlyACrowdBlocks
BY PoolTypeCorrect, CrowdNeeded, PTL
=============================================================================
