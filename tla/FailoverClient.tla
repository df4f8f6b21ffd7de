--------------------------- MODULE FailoverClient ---------------------------
(***************************************************************************)
(* FailoverLLMClient.generate: one call of it, over the configured         *)
(* providers in their order, against a clock that starts at 0 when the     *)
(* deadline is set.                                                        *)
(*                                                                         *)
(* A provider's call is given a timeout, but httpx applies it to each of   *)
(* the phases of the exchange (connect, write, and every read), so a call  *)
(* may last longer than that: by Overrun at most, here; `late` remembers   *)
(* that one did.  Parsing takes no time.  What the answers say is left     *)
(* out, but for whether they parse.                                        *)
(***************************************************************************)
EXTENDS Integers

CONSTANTS
  N,           \* how many providers have a key
  PerCall,     \* LLM_TIMEOUT_SECONDS
  Budget,      \* LLM_TOTAL_BUDGET_SECONDS
  MinRepair,   \* MIN_REPAIR_BUDGET_SECONDS
  Overrun      \* by how much a call can outlast its timeout

ASSUME BudgetAssumption ==
  N \in Nat /\ PerCall \in Nat /\ Budget \in Nat /\ MinRepair \in Nat /\ Overrun \in Nat

VARIABLES
  now,
  pc,        \* "next" (the head of the loop), "call", "repair", "done"
  i,         \* the current provider
  timeout,   \* of the call in progress
  asked,     \* history: the providers called
  late,      \* history: a call has outlasted its timeout
  outcome    \* "none", "result", "failed" (ExternalServiceError), "raised"

vars == <<now, pc, i, timeout, asked, late, outcome>>

Calls == {"call", "repair"}

TypeOK ==
  /\ now \in Nat
  /\ pc \in {"next", "done"} \cup Calls
  /\ i \in 1..(N + 1) /\ (pc \in Calls => i <= N)
  /\ timeout \in Nat
  /\ asked \subseteq 1..N
  /\ late \in BOOLEAN
  /\ outcome \in {"none", "result", "failed", "raised"}

Init ==
  /\ now = 0
  /\ pc = "next"
  /\ i = 1
  /\ timeout = 0
  /\ asked = {}
  /\ late = FALSE
  /\ outcome = "none"

Remaining == Budget - now

\* Mutant: every call has the whole per-call timeout.
PerCallOnly == PerCall

\* What a call that starts now is given.
Timeout == IF PerCall <= Remaining THEN PerCall ELSE Remaining

End(o) == pc' = "done" /\ outcome' = o

-----------------------------------------------------------------------------
(* The head of the loop over the providers.                                *)

\* Mutant: the budget is not looked at before a provider is tried.
CallUnbudgeted ==
  /\ pc = "next" /\ i <= N
  /\ timeout' = Timeout
  /\ pc' = "call"
  /\ asked' = asked \cup {i}
  /\ UNCHANGED <<now, i, late, outcome>>

CallProvider ==
  /\ pc = "next" /\ i <= N
  /\ Remaining > 0
  /\ timeout' = Timeout
  /\ pc' = "call"
  /\ asked' = asked \cup {i}
  /\ UNCHANGED <<now, i, late, outcome>>

\* No provider is left (or none was configured).
Exhausted ==
  /\ pc = "next" /\ i > N
  /\ End("failed")
  /\ UNCHANGED <<now, i, timeout, asked, late>>

OutOfBudget ==
  /\ pc = "next" /\ i <= N
  /\ Remaining <= 0
  /\ End("failed")
  /\ UNCHANGED <<now, i, timeout, asked, late>>

-----------------------------------------------------------------------------
(* A call in progress: an answer that is valid, one that is not, an error  *)
(* of the LLMError family, or any other error.                             *)

Lasting(c) == /\ pc = c
              /\ \E d \in 0..(timeout + Overrun) :
                   now' = now + d /\ late' = (late \/ d > timeout)

\* Mutant: the same provider is tried again.
AdvanceRetries == pc' = "next" /\ UNCHANGED <<i, timeout, outcome>>

Advance == pc' = "next" /\ i' = i + 1 /\ UNCHANGED <<timeout, outcome>>

Valid(c) ==
  /\ Lasting(c)
  /\ End("result")
  /\ UNCHANGED <<i, timeout, asked>>

\* Mutant: an answer that cannot be parsed ends the generation.
InvalidGivesUp ==
  /\ Lasting("call")
  /\ IF Budget - now' >= MinRepair
       THEN pc' = "repair" /\ timeout' = Timeout' /\ UNCHANGED <<i, outcome>>
       ELSE End("failed") /\ UNCHANGED <<i, timeout>>
  /\ UNCHANGED asked

\* The first answer cannot be parsed: a repair call, if it is worth trying.
Invalid ==
  /\ Lasting("call")
  /\ IF Budget - now' >= MinRepair
       THEN pc' = "repair" /\ timeout' = Timeout' /\ UNCHANGED <<i, outcome>>
       ELSE Advance
  /\ UNCHANGED asked

StillInvalid ==
  /\ Lasting("repair")
  /\ Advance
  /\ UNCHANGED asked

\* A timeout, an HTTP error or bad credentials.
LLMError(c) ==
  /\ Lasting(c)
  /\ Advance
  /\ UNCHANGED asked

\* A 200 without the expected envelope (KeyError, IndexError, TypeError, or
\* the body is not JSON): nothing here catches that, and insight_service does.
OtherError(c) ==
  /\ Lasting(c)
  /\ End("raised")
  /\ UNCHANGED <<i, timeout, asked>>

Next ==
  \/ CallProvider \/ Exhausted \/ OutOfBudget
  \/ Invalid \/ StillInvalid
  \/ \E c \in Calls : Valid(c) \/ LLMError(c) \/ OtherError(c)

Spec == Init /\ [][Next]_vars

\* Every call returns: httpx gives up on a peer that sends nothing.
FairSpec == Spec /\ WF_vars(Next)

-----------------------------------------------------------------------------

\* "Two timeouts stack": a call, first or repair, is given no more than what
\* is left of the budget, so that generate is over by its deadline if no call
\* outlasts its timeout; and if calls do, past the deadline by the overrun of
\* one of them only, for none is begun after it.
\* (With the settings of config.py and calls that take up to twice the 15 s they
\* are given, that is 50 s, and not under the 45 s of its comment.)
BudgetKept ==
  /\ now <= Budget + (IF late THEN Overrun ELSE 0)
  /\ pc \in Calls => now + timeout <= Budget

\* All providers are reported to have failed only if each one was asked, in
\* order, or the budget was spent.
GivesUpOnlyWhenSpent ==
  outcome = "failed" => asked = 1..N \/ now >= Budget

\* generate ends.
Terminates == <>(pc = "done")
=============================================================================
