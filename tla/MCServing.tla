------------------------------ MODULE MCServing ------------------------------
(***************************************************************************)
(* What a request waits for at either end: at the server the pools of      *)
(* threads and connections, and the LLM call; in the browser the session.  *)
(* They share no state, so that their product would show nothing their sum *)
(* does not. A behaviour runs the pools to their end and then one call, or *)
(* it is one of the browser, with nothing under way at the server.         *)
(***************************************************************************)
EXTENDS FailoverClient, ConnectionPool, MCBrowser

VARIABLE part    \* "server" or "browser": which end the behaviour is of

servingVars == <<vars, poolVars, sessionVars, part>>

AllServed == \A r \in Client : at[r] = "done"

Pooled(A) == part = "server" /\ A /\ UNCHANGED <<vars, sessionVars, part>>
Generating(A) ==
  part = "server" /\ AllServed /\ A /\ UNCHANGED <<poolVars, sessionVars, part>>
Browsing(A) == part = "browser" /\ A /\ UNCHANGED <<vars, poolVars, part>>

ServeOne(r) ==
  \/ Pooled(TakeThread(r)) \/ Pooled(Checkout(r)) \/ Pooled(GiveUp(r))
  \/ Pooled(Authenticated(r)) \/ Pooled(Commit(r)) \/ Pooled(Respond(r)) \/ Pooled(Close(r))

Generate ==
  \/ Generating(CallProvider) \/ Generating(Exhausted) \/ Generating(OutOfBudget)
  \/ Generating(Invalid) \/ Generating(StillInvalid)
  \/ \E c \in Calls : Generating(Valid(c)) \/ Generating(LLMError(c)) \/ Generating(OtherError(c))

\* Nothing is under way at the server: the pools are full, and a call is over.
Idle ==
  /\ at = [r \in Client |-> "done"]
  /\ conns = PoolSize /\ threads = Threads
  /\ holding = {} /\ commits = [r \in Client |-> 0]
  /\ now = 0 /\ pc = "done" /\ i = 1 /\ timeout = PerCall
  /\ asked = {1} /\ late = FALSE /\ outcome = "result"

ServingInit ==
  \/ part = "server" /\ SessionInit /\ PoolInit /\ Init
  \/ part = "browser" /\ SessionInit /\ Idle

ServingNext == (\E r \in Client : ServeOne(r)) \/ Generate \/ Browsing(SessionNext)

ServingSpec ==
  /\ ServingInit
  /\ [][ServingNext]_servingVars
  /\ \A r \in Client : WF_servingVars(ServeOne(r))
  /\ WF_servingVars(Generate)
  /\ SessionFairness
==============================================================================
