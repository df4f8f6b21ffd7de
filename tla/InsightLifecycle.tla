-------------------------- MODULE InsightLifecycle --------------------------
(***************************************************************************)
(* One interaction and its insight row: the request that creates them      *)
(* (InteractionService.create_interaction), the requests that regenerate   *)
(* the insight (regenerate_insight), the LLM call in the middle of both    *)
(* (InsightService), and a deletion at any moment.  Interactions share no  *)
(* state, so one is enough.                                                *)
(*                                                                         *)
(* A request works on the columns as it loaded them.  SQLAlchemy's UPDATE  *)
(* writes only the columns whose value it changed, WHERE id = the row's:   *)
(* what others committed meanwhile in the other columns stays, and a row   *)
(* that is gone is a StaleDataError.  Every transaction ends right after   *)
(* its UPDATE, so UPDATE and COMMIT are one step.  Every commit expires    *)
(* what was loaded.                                                        *)
(*                                                                         *)
(* The columns written on success only are one: summary names the request  *)
(* whose generation they hold.  Requests that end with 401, 403 or 404, or *)
(* cannot read the interaction at all, write nothing and are left out.     *)
(*                                                                         *)
(* A request gives its connection back with every commit.  From then on    *)
(* the database may fail it although its process lives: the pool has no    *)
(* connection left for it, the connection is lost, a flush or a COMMIT     *)
(* fails.  A COMMIT that fails may have taken effect.                      *)
(***************************************************************************)
EXTENDS Naturals, FiniteSets

CONSTANTS
  Reqs,       \* the requests, each handled once
  Providers,  \* the configured LLM providers
  MaxCuts,    \* how many requests are cut short: a bound of the model
  None        \* NULL, and no answer yet

ASSUME InsightAssumption ==
  /\ MaxCuts \in Nat
  /\ None \notin Reqs \cup Providers
  /\ None \notin {"ok", "null", "500", "message", "reset", "load", "call", "respond"}

VARIABLES
  state,      \* of the interaction: "absent", "there", "deleted"
  row,        \* the committed columns of its insight
  pc, kind,   \* of a request
  base,       \* the columns as the request loaded them
  mine,       \* the columns as it changed them
  answer,     \* what its client got
  cut,        \* history: the stage at which its process or the database cut its work short
  overlapped  \* history: was a generation requested during another one?

vars == <<state, row, pc, kind, base, mine, answer, cut, overlapped>>

Row == [status   : {"pending", "completed", "failed"},
        error    : {None, "message"},
        summary  : Reqs \cup {None},
        provider : Providers \cup {None},
        raw      : Reqs \cup {None},
        attempts : Nat]

\* The row Insight(interaction_id=...) is inserted as.
NewRow == [status |-> "pending", error |-> None, summary |-> None,
           provider |-> None, raw |-> None, attempts |-> 0]

TypeOK ==
  /\ state \in {"absent", "there", "deleted"}
  /\ row \in Row
  /\ pc \in [Reqs -> {"idle", "reset", "load", "call", "respond", "done"}]
  /\ kind \in [Reqs -> {"create", "regenerate"}]
  /\ base \in [Reqs -> Row]
  /\ mine \in [Reqs -> Row]
  /\ answer \in [Reqs -> {None, "ok", "null", "500"}]
  /\ cut \in [Reqs -> {None, "reset", "load", "call", "respond"}]
  /\ overlapped \in BOOLEAN

Init ==
  /\ state = "absent"
  /\ row = NewRow
  /\ pc = [r \in Reqs |-> "idle"]
  /\ kind = [r \in Reqs |-> "regenerate"]
  /\ base = [r \in Reqs |-> NewRow]
  /\ mine = [r \in Reqs |-> NewRow]
  /\ answer = [r \in Reqs |-> None]
  /\ cut = [r \in Reqs |-> None]
  /\ overlapped = FALSE

-----------------------------------------------------------------------------
(* The unit of work.                                                       *)

Go(r, next) == pc' = [pc EXCEPT ![r] = next]

\* The column after an UPDATE of the request that loaded old and set new.
Column(now, old, new) == IF new = old THEN now ELSE new

Updated(r, new) ==
  [status   |-> Column(row.status, base[r].status, new.status),
   error    |-> Column(row.error, base[r].error, new.error),
   summary  |-> Column(row.summary, base[r].summary, new.summary),
   provider |-> Column(row.provider, base[r].provider, new.provider),
   raw      |-> Column(row.raw, base[r].raw, new.raw),
   attempts |-> Column(row.attempts, base[r].attempts, new.attempts)]

Answers(r, some) == \E a \in some : answer' = [answer EXCEPT ![r] = a]

\* The work of r is cut short at a stage. The first time counts.
CutAt(r, stage) ==
  IF cut[r] # None THEN UNCHANGED cut
  ELSE /\ Cardinality({q \in Reqs : cut[q] # None}) < MaxCuts
       /\ cut' = [cut EXCEPT ![r] = stage]

\* The request fails with 500: nothing catches the error, or the handler of
\* create_interaction meets it again as it reads interaction.id for its log.
Crashing(r) ==
  /\ Go(r, "done")
  /\ Answers(r, {"500"})
  /\ UNCHANGED <<state, row, kind, base, cut, overlapped>>

\* flush and commit of the columns new.  Without a change there is no UPDATE,
\* and a row that is gone goes unnoticed.  When it fails for another reason,
\* create_interaction may find what it has in memory enough for its answer.
Save(r, new, next) ==
  \/ /\ state = "there" \/ new = base[r]
     /\ row' = Updated(r, new)
     /\ Go(r, next)
     /\ UNCHANGED <<state, kind, base, answer, cut, overlapped>>
  \/ /\ state = "deleted" /\ new # base[r]
     /\ Crashing(r)
  \/ /\ \/ UNCHANGED row /\ CutAt(r, pc[r])
        \/ state = "there" /\ row' = Updated(r, new) /\ CutAt(r, next)
     /\ Go(r, "done")
     /\ Answers(r, {"500"} \cup (IF kind[r] = "create" THEN {"ok"} ELSE {}))
     /\ UNCHANGED <<state, kind, base, overlapped>>

\* Reading the expired interaction, then its insight, when they are gone: an
\* ObjectDeletedError, or no insight if they went between the two SELECTs.
\* A regeneration cannot answer without an insight.
Gone(r) ==
  /\ state = "deleted"
  /\ Go(r, "done")
  /\ Answers(r, {"500"} \cup (IF kind[r] = "create" THEN {"null"} ELSE {}))
  /\ UNCHANGED <<state, row, kind, base, mine, cut, overlapped>>

InFlight == {r \in Reqs : pc[r] \in {"reset", "load", "call"}}

Began(r) == /\ pc[r] = "idle"
            /\ overlapped' = (overlapped \/ InFlight # {})

-----------------------------------------------------------------------------
(* POST /interactions and POST /interactions/{id}/insight/regenerate       *)

\* The interaction and its pending insight are inserted in one transaction. If
\* its COMMIT takes effect and fails all the same, nobody generates.
Create(r) ==
  /\ Began(r)
  /\ state = "absent" /\ state' = "there"
  /\ row' = NewRow
  /\ kind' = [kind EXCEPT ![r] = "create"]
  /\ \/ Go(r, "load") /\ UNCHANGED <<answer, cut>>
     \/ Go(r, "done") /\ Answers(r, {"500"}) /\ CutAt(r, "load")
  /\ UNCHANGED <<base, mine>>

\* regenerate_insight finds the interaction and loads its insight with it.
Regenerate(r) ==
  /\ Began(r)
  /\ state = "there"
  /\ base' = [base EXCEPT ![r] = row]
  /\ Go(r, "reset")
  /\ UNCHANGED <<state, row, kind, mine, answer, cut>>

\* InsightService.regenerate: pending again, committed before the LLM call.
Reset(r) ==
  /\ pc[r] = "reset"
  /\ Save(r, [base[r] EXCEPT !.status = "pending", !.error = None], "load")
  /\ UNCHANGED mine

\* generate_for_interaction loads the insight afresh and counts the attempt in
\* memory.
Load(r) ==
  /\ pc[r] = "load"
  /\ state = "there"
  /\ base' = [base EXCEPT ![r] = row]
  /\ mine' = [mine EXCEPT ![r] = [row EXCEPT !.attempts = @ + 1]]
  /\ Go(r, "call")
  /\ UNCHANGED <<state, row, kind, answer, cut, overlapped>>

LoadGone(r) == pc[r] = "load" /\ Gone(r)

\* The expired rows cannot be read. create_interaction catches that, and goes on
\* to its answer if it can read them now.
LoadBreaks(r) ==
  /\ pc[r] = "load"
  /\ CutAt(r, "load")
  /\ \/ Go(r, "done") /\ Answers(r, {"500"})
     \/ kind[r] = "create" /\ Go(r, "respond") /\ UNCHANGED answer
  /\ UNCHANGED <<state, row, kind, base, mine, overlapped>>

\* What a generation that succeeded sets.
Completed(r, p) ==
  [mine[r] EXCEPT !.status = "completed", !.summary = r, !.provider = p,
                  !.raw = r, !.error = None]

\* The LLM answered.
Complete(r) ==
  /\ pc[r] = "call"
  /\ \E p \in Providers :
       /\ mine' = [mine EXCEPT ![r] = Completed(r, p)]
       /\ Save(r, mine'[r], "respond")

\* Mutant: a failed call is not counted as an attempt.
FailUncounted(r) ==
  /\ pc[r] = "call"
  /\ \E raw \in {None, r, mine[r].raw} :
       mine' = [mine EXCEPT ![r] =
                  [base[r] EXCEPT !.status = "failed", !.error = "message", !.raw = raw]]
  /\ Save(r, mine'[r], "respond")

\* Mutant: an unexpected error of the client is not caught.
FailUncaught(r) ==
  /\ pc[r] = "call"
  /\ Crashing(r)
  /\ UNCHANGED mine

\* Mutant: the failure is not committed.
FailUncommitted(r) ==
  /\ pc[r] = "call"
  /\ mine' = [mine EXCEPT ![r] = [@ EXCEPT !.status = "failed", !.error = "message"]]
  /\ Go(r, "respond")
  /\ UNCHANGED <<state, row, kind, base, answer, cut, overlapped>>

\* Mutant: the message ends up in raw_response too.
FailRawMessage(r) ==
  /\ pc[r] = "call"
  /\ mine' = [mine EXCEPT ![r] =
       [@ EXCEPT !.status = "failed", !.error = "message", !.raw = "message"]]
  /\ Save(r, mine'[r], "respond")

\* All providers failed (raw_response is the last body, if there was one), AI
\* is disabled, or the client raised something else (raw_response is kept).
Fail(r) ==
  /\ pc[r] = "call"
  /\ \E raw \in {None, r, mine[r].raw} :
       mine' = [mine EXCEPT ![r] =
                  [@ EXCEPT !.status = "failed", !.error = "message", !.raw = raw]]
  /\ Save(r, mine'[r], "respond")

\* The router reads the expired interaction and insight for its answer.
Respond(r) ==
  /\ pc[r] = "respond"
  /\ state = "there"
  /\ Go(r, "done")
  /\ Answers(r, {"ok"})
  /\ UNCHANGED <<state, row, kind, base, mine, cut, overlapped>>

RespondGone(r) == pc[r] = "respond" /\ Gone(r)

RespondBreaks(r) ==
  /\ pc[r] = "respond"
  /\ CutAt(r, "respond")
  /\ Go(r, "done") /\ Answers(r, {"500"})
  /\ UNCHANGED <<state, row, kind, base, mine, overlapped>>

-----------------------------------------------------------------------------
(* What may happen meanwhile.                                              *)

\* DELETE /interactions/{id}, or of its customer: the rows cascade.
Delete ==
  /\ state = "there"
  /\ state' = "deleted"
  /\ UNCHANGED <<row, pc, kind, base, mine, answer, cut, overlapped>>

\* The worker process dies: its client gets no answer.
Crash(r) ==
  /\ pc[r] \in {"reset", "load", "call", "respond"}
  /\ CutAt(r, pc[r])
  /\ Go(r, "done")
  /\ UNCHANGED <<state, row, kind, base, mine, answer, overlapped>>

Step(r) ==
  \/ Reset(r) \/ Load(r) \/ LoadGone(r) \/ LoadBreaks(r)
  \/ Complete(r) \/ Fail(r)
  \/ Respond(r) \/ RespondGone(r) \/ RespondBreaks(r)

Next ==
  \/ \E r \in Reqs : Create(r) \/ Regenerate(r) \/ Step(r) \/ Crash(r)
  \/ Delete

Spec == Init /\ [][Next]_vars

\* The LLM client gives up when its budget is spent, so every request goes on.
FairSpec == Spec /\ \A r \in Reqs : WF_vars(Step(r))

-----------------------------------------------------------------------------

\* How far the work of a request has come, or had come when it was cut short.
Stage(r) == IF cut[r] = None THEN pc[r] ELSE cut[r]

\* The request that found the insight pending, or made it so, has yet to write
\* its outcome; if it was cut short before it did, nobody will.
Owns(r) ==
  \/ Stage(r) = "load"
  \/ Stage(r) = "call" /\ base[r].status = "pending"

\* However many generations run at once, and however they end, the insight is
\* left pending only by a request that was cut short between the commit that
\* made it pending and that of the outcome: never by a failure of the LLM, by a
\* request that runs to its end, or by one that is cut short before or after.
PendingIsOwned ==
  state = "there" /\ row.status = "pending" => \E r \in Reqs : Owns(r)

\* Whatever the LLM does and whoever regenerates meanwhile, a request fails only
\* if its interaction was deleted or the database failed it, and is answered
\* without an insight only if the interaction was deleted.
FailuresHaveCauses ==
  \A r \in Reqs :
    /\ answer[r] = "500" => state = "deleted" \/ cut[r] # None
    /\ answer[r] = "null" => state = "deleted"

\* The requests whose outcome was committed.
Generated == {r \in Reqs : Stage(r) \in {"respond", "done"} /\ mine[r].attempts > 0}

\* Generations that came one after the other leave the row as if written whole
\* by each, although each writes only what it changed, and wherever any of them
\* was cut short: attempts counts those whose outcome was committed, a completed
\* row bears no error, and its columns come from one generation.
SerialGenerationsAgree ==
  state = "there" /\ ~ overlapped /\ InFlight = {} =>
    /\ row.attempts = Cardinality(Generated)
    /\ row.status = "completed" =>
         /\ row.error = None
         /\ row.raw = row.summary
         /\ row.summary \in Generated /\ row.provider = mine[row.summary].provider

\* A pending insight becomes completed or failed, unless the request that should
\* have settled it was cut short.
PendingSettles ==
  (state = "there" /\ row.status = "pending") ~>
    (state # "there" \/ row.status # "pending" \/ \E r \in Reqs : cut[r] # None /\ Owns(r))

\* "POST /interactions always returns 201", as long as the database answers.
CreateAlwaysAnswered ==
  \A r \in Reqs : kind[r] = "create" /\ cut[r] = None => answer[r] # "500"
=============================================================================
