----------------------- MODULE InsightLifecycleProofs -----------------------
(***************************************************************************)
(* Proofs about InsightLifecycle, for any number of concurrent requests    *)
(* and any set of providers, however many requests are cut short. That a   *)
(* pending row has an owner needs little more than itself: the owner is a  *)
(* request about to load the row, or one that loaded it pending, and       *)
(* whatever the latter writes changes the status; CutShort says where a    *)
(* request can be that was cut short. That generations write whole rows is *)
(* not inductive, and needs SerialInv.                                     *)
(***************************************************************************)
EXTENDS InsightLifecycle, FiniteSetTheorems, TLAPS

\* An UPDATE of well-typed columns leaves a well-typed row.
LEMMA UpdatedTypes ==
  ASSUME TypeOK, NEW r \in Reqs, NEW new \in Row
  PROVE  Updated(r, new) \in Row
BY DEF TypeOK, Updated, Column, Row

\* To be cut short is to be cut short at a stage, and to stay so.
LEMMA CutFacts ==
  ASSUME TypeOK, NEW r \in Reqs, NEW stage \in {"reset", "load", "call", "respond"},
         CutAt(r, stage)
  PROVE  /\ cut' \in [Reqs -> {None, "reset", "load", "call", "respond"}]
         /\ cut[r] = None => cut'[r] = stage
         /\ cut[r] # None => cut'[r] = cut[r]
         /\ \A q \in Reqs \ {r} : cut'[q] = cut[q]
<1>1. CASE cut[r] # None BY <1>1 DEF CutAt, TypeOK
<1>2. CASE cut[r] = None BY <1>2 DEF CutAt, TypeOK
<1> QED BY <1>1, <1>2

\* An answer is one of those that were possible.
LEMMA AnswersTypes ==
  ASSUME TypeOK, NEW r \in Reqs, NEW some \in SUBSET {"ok", "null", "500"}, Answers(r, some)
  PROVE  answer' \in [Reqs -> {None, "ok", "null", "500"}]
BY DEF TypeOK, Answers

\* A flush and commit writes columns of their types.
LEMMA SaveTypes ==
  ASSUME TypeOK, NEW r \in Reqs, pc[r] \in {"reset", "call"}, NEW new \in Row,
         NEW next \in {"load", "respond"}, Save(r, new, next), mine' \in [Reqs -> Row]
  PROVE  TypeOK'
<1>1. Updated(r, new) \in Row BY UpdatedTypes
<1>2. CASE row' = Updated(r, new) /\ Go(r, next)
           /\ UNCHANGED <<state, kind, base, answer, cut, overlapped>>
  BY <1>1, <1>2 DEF TypeOK, Go
<1>3. CASE Crashing(r)
  <2>1. answer' \in [Reqs -> {None, "ok", "null", "500"}] BY <1>3, AnswersTypes DEF Crashing
  <2> QED BY <1>3, <2>1 DEF TypeOK, Crashing, Go
<1>4. CASE /\ \/ UNCHANGED row /\ CutAt(r, pc[r])
              \/ state = "there" /\ row' = Updated(r, new) /\ CutAt(r, next)
           /\ Go(r, "done")
           /\ Answers(r, {"500"} \cup (IF kind[r] = "create" THEN {"ok"} ELSE {}))
           /\ UNCHANGED <<state, kind, base, overlapped>>
  <2>1. answer' \in [Reqs -> {None, "ok", "null", "500"}] BY <1>4, AnswersTypes
  <2>2. row' \in Row BY <1>1, <1>4 DEF TypeOK
  <2>3. cut' \in [Reqs -> {None, "reset", "load", "call", "respond"}] BY <1>4, CutFacts
  <2> QED BY <1>4, <2>1, <2>2, <2>3 DEF TypeOK, Go
<1> QED BY <1>2, <1>3, <1>4 DEF Save

\* Each step of a request, a deletion and a crash keep the types.
LEMMA TypeInductive == TypeOK /\ [Next]_vars => TypeOK'
<1> SUFFICES ASSUME TypeOK, [Next]_vars PROVE TypeOK' OBVIOUS
<1>1. CASE UNCHANGED vars BY <1>1 DEF TypeOK, vars
<1>2. CASE Delete BY <1>2 DEF TypeOK, Delete
<1>3. ASSUME NEW r \in Reqs, Create(r) PROVE TypeOK'
  <2>1. /\ answer' \in [Reqs -> {None, "ok", "null", "500"}]
        /\ cut' \in [Reqs -> {None, "reset", "load", "call", "respond"}]
    BY <1>3, CutFacts, AnswersTypes DEF Create, TypeOK
  <2> QED BY <1>3, <2>1 DEF TypeOK, Create, Began, Go, NewRow, Row
<1>4. ASSUME NEW r \in Reqs, Regenerate(r) PROVE TypeOK'
  BY <1>4 DEF TypeOK, Regenerate, Began, Go
<1>5. ASSUME NEW r \in Reqs, Reset(r) PROVE TypeOK'
  <2>1. [base[r] EXCEPT !.status = "pending", !.error = None] \in Row
    BY DEF TypeOK, Row
  <2> QED BY <1>5, <2>1, SaveTypes DEF Reset, TypeOK
<1>6. ASSUME NEW r \in Reqs, Load(r) PROVE TypeOK'
  <2>1. [row EXCEPT !.attempts = @ + 1] \in Row BY DEF TypeOK, Row
  <2> QED BY <1>6, <2>1 DEF TypeOK, Load, Go
<1>7. ASSUME NEW r \in Reqs, Complete(r) PROVE TypeOK'
  <2> PICK p \in Providers : /\ mine' = [mine EXCEPT ![r] = Completed(r, p)]
                             /\ Save(r, mine'[r], "respond")
    BY <1>7 DEF Complete
  <2>1. Completed(r, p) \in Row BY DEF TypeOK, Completed, Row
  <2>2. mine' \in [Reqs -> Row] /\ mine'[r] \in Row BY <2>1 DEF TypeOK
  <2> QED BY <1>7, <2>2, SaveTypes DEF Complete
<1>8. ASSUME NEW r \in Reqs, Fail(r) PROVE TypeOK'
  <2> PICK raw \in {None, r, mine[r].raw} :
        mine' = [mine EXCEPT ![r] =
          [@ EXCEPT !.status = "failed", !.error = "message", !.raw = raw]]
    BY <1>8 DEF Fail
  <2>1. [mine[r] EXCEPT !.status = "failed", !.error = "message", !.raw = raw] \in Row
    BY DEF TypeOK, Row
  <2>2. mine' \in [Reqs -> Row] /\ mine'[r] \in Row BY <2>1 DEF TypeOK
  <2> QED BY <1>8, <2>2, SaveTypes DEF Fail
<1>9. ASSUME NEW r \in Reqs, LoadGone(r) \/ RespondGone(r) PROVE TypeOK'
  <2>1. Gone(r) BY <1>9 DEF LoadGone, RespondGone
  <2>2. answer' \in [Reqs -> {None, "ok", "null", "500"}] BY <2>1, AnswersTypes DEF Gone
  <2> QED BY <2>1, <2>2 DEF TypeOK, Gone, Go
<1>10. ASSUME NEW r \in Reqs, Respond(r) PROVE TypeOK'
  <2>1. answer' \in [Reqs -> {None, "ok", "null", "500"}] BY <1>10, AnswersTypes DEF Respond
  <2> QED BY <1>10, <2>1 DEF TypeOK, Respond, Go
<1>11. ASSUME NEW r \in Reqs, LoadBreaks(r) \/ RespondBreaks(r) \/ Crash(r) PROVE TypeOK'
  <2>1. cut' \in [Reqs -> {None, "reset", "load", "call", "respond"}]
    BY <1>11, CutFacts DEF LoadBreaks, RespondBreaks, Crash
  <2>2. answer' \in [Reqs -> {None, "ok", "null", "500"}]
    BY <1>11, AnswersTypes DEF LoadBreaks, RespondBreaks, Crash, TypeOK
  <2> QED BY <1>11, <2>1, <2>2 DEF TypeOK, LoadBreaks, RespondBreaks, Crash, Go
<1> QED BY <1>1, <1>2, <1>3, <1>4, <1>5, <1>6, <1>7, <1>8, <1>9, <1>10, <1>11 DEF Next, Step

\* No interaction and no request at first.
LEMMA TypeInit == Init => TypeOK
<1>1. NewRow \in Row BY DEF NewRow, Row
<1> QED BY <1>1 DEF Init, TypeOK

\* The columns of the row, and of every request's copy of it, keep their types.
THEOREM TypeCorrect == Spec => []TypeOK
<1> QED BY TypeInit, TypeInductive, PTL DEF Spec

-----------------------------------------------------------------------------

\* A request that was cut short is over, or about to answer.
CutShort == \A r \in Reqs : cut[r] # None => pc[r] \in {"respond", "done"}

Inv == TypeOK /\ CutShort /\ PendingIsOwned /\ FailuresHaveCauses

\* What a step of one request leaves alone.
OthersStay(r) ==
  \A q \in Reqs \ {r} :
    pc'[q] = pc[q] /\ mine'[q] = mine[q] /\ base'[q] = base[q] /\ cut'[q] = cut[q]

\* A step that saves leaves what the others have loaded alone.
LEMMA SaveMovesOne ==
  ASSUME TypeOK, NEW r \in Reqs, pc[r] \in {"reset", "call"}, NEW new,
         NEW next \in {"load", "respond"}, Save(r, new, next)
  PROVE  /\ \A q \in Reqs \ {r} : pc'[q] = pc[q] /\ cut'[q] = cut[q] /\ answer'[q] = answer[q]
         /\ UNCHANGED <<state, base, kind, overlapped>>
<1>1. CASE row' = Updated(r, new) /\ Go(r, next)
           /\ UNCHANGED <<state, kind, base, answer, cut, overlapped>>
  BY <1>1 DEF TypeOK, Go
<1>2. CASE Crashing(r) BY <1>2 DEF TypeOK, Crashing, Go, Answers
<1>3. CASE /\ CutAt(r, pc[r]) \/ CutAt(r, next)
           /\ Go(r, "done")
           /\ Answers(r, {"500"} \cup (IF kind[r] = "create" THEN {"ok"} ELSE {}))
           /\ UNCHANGED <<state, kind, base, overlapped>>
  <2>1. \A q \in Reqs \ {r} : cut'[q] = cut[q] BY <1>3, CutFacts
  <2> QED BY <1>3, <2>1 DEF TypeOK, Go, Answers
<1> QED BY <1>1, <1>2, <1>3 DEF Save

\* A step of one request leaves what the others have loaded alone.
LEMMA OneMoves ==
  ASSUME TypeOK, NEW r \in Reqs, Create(r) \/ Regenerate(r) \/ Step(r) \/ Crash(r)
  PROVE  OthersStay(r) /\ \A q \in Reqs \ {r} : answer'[q] = answer[q]
<1>1. CASE Create(r)
  <2>1. \A q \in Reqs \ {r} : cut'[q] = cut[q] BY <1>1, CutFacts DEF Create
  <2> QED BY <1>1, <2>1 DEF TypeOK, OthersStay, Create, Go, Answers
<1>2. CASE Regenerate(r) BY <1>2 DEF TypeOK, OthersStay, Regenerate, Go
<1>3. CASE Reset(r) BY <1>3, SaveMovesOne DEF OthersStay, Reset
<1>4. CASE Load(r) BY <1>4 DEF TypeOK, OthersStay, Load, Go
<1>5. CASE LoadBreaks(r) \/ RespondBreaks(r) \/ Crash(r)
  <2>1. \A q \in Reqs \ {r} : cut'[q] = cut[q]
    BY <1>5, CutFacts DEF LoadBreaks, RespondBreaks, Crash
  <2> QED BY <1>5, <2>1 DEF TypeOK, OthersStay, LoadBreaks, RespondBreaks, Crash, Go, Answers
<1>6. CASE Complete(r)
  <2>1. \A q \in Reqs \ {r} : mine'[q] = mine[q] BY <1>6 DEF Complete, TypeOK
  <2> QED BY <1>6, <2>1, SaveMovesOne DEF OthersStay, Complete
<1>7. CASE Fail(r)
  <2>1. \A q \in Reqs \ {r} : mine'[q] = mine[q] BY <1>7 DEF Fail, TypeOK
  <2> QED BY <1>7, <2>1, SaveMovesOne DEF OthersStay, Fail
<1>8. CASE LoadGone(r) \/ Respond(r) \/ RespondGone(r)
  BY <1>8 DEF TypeOK, OthersStay, LoadGone, Respond, RespondGone, Gone, Go, Answers
<1> QED BY <1>1, <1>2, <1>3, <1>4, <1>5, <1>6, <1>7, <1>8 DEF Step

\* A deleted interaction stays deleted.
LEMMA StaysDeleted == TypeOK /\ [Next]_vars /\ state = "deleted" => state' = "deleted"
BY SaveMovesOne
DEF TypeOK, Next, Step, vars, Create, Regenerate, Reset, Load, LoadGone, LoadBreaks, Complete,
    Fail, Respond, RespondGone, RespondBreaks, Delete, Crash, Save, Crashing, Gone

\* What a step does to the request that takes it: if it saves.
LEMMA SaveEnds ==
  ASSUME TypeOK, CutShort, NEW r \in Reqs, pc[r] \in {"reset", "call"}, NEW new,
         NEW next \in {"load", "respond"}, Save(r, new, next)
  PROVE  \/ state' = "deleted" /\ answer'[r] = "500" /\ cut'[r] = None /\ pc'[r] = "done"
         \/ answer'[r] = answer[r] /\ row' = Updated(r, new) /\ cut'[r] = None /\ pc'[r] = next
         \/ /\ answer'[r] \in {"500", "ok"} /\ pc'[r] = "done"
            /\ \/ row' = row /\ cut'[r] = pc[r]
               \/ row' = Updated(r, new) /\ cut'[r] = next
<1>0. cut[r] = None BY DEF CutShort
<1>1. CASE row' = Updated(r, new) /\ Go(r, next)
           /\ UNCHANGED <<state, kind, base, answer, cut, overlapped>>
  BY <1>0, <1>1 DEF TypeOK, Go
<1>2. CASE state = "deleted" /\ Crashing(r)
  BY <1>0, <1>2 DEF TypeOK, Crashing, Go, Answers
<1>3. CASE /\ \/ UNCHANGED row /\ CutAt(r, pc[r])
              \/ state = "there" /\ row' = Updated(r, new) /\ CutAt(r, next)
           /\ Go(r, "done")
           /\ Answers(r, {"500"} \cup (IF kind[r] = "create" THEN {"ok"} ELSE {}))
           /\ UNCHANGED <<state, kind, base, overlapped>>
  <2>1. \/ row' = row /\ cut'[r] = pc[r]
        \/ row' = Updated(r, new) /\ cut'[r] = next
    BY <1>0, <1>3, CutFacts
  <2>2. answer'[r] \in {"500", "ok"} /\ pc'[r] = "done" BY <1>3 DEF TypeOK, Go, Answers
  <2> QED BY <2>1, <2>2
<1> QED BY <1>1, <1>2, <1>3 DEF Save

\* The steps that save.
LEMMA Saves ==
  ASSUME NEW r \in Reqs, Reset(r) \/ Complete(r) \/ Fail(r)
  PROVE  \E new : \/ pc[r] = "reset" /\ mine' = mine /\ Save(r, new, "load")
                  \/ pc[r] = "call" /\ Save(r, new, "respond")
<1>1. CASE Reset(r)
  <2> DEFINE new == [base[r] EXCEPT !.status = "pending", !.error = None]
  <2>1. pc[r] = "reset" /\ mine' = mine /\ Save(r, new, "load") BY <1>1 DEF Reset
  <2> HIDE DEF new
  <2> QED BY <2>1
<1>2. CASE Complete(r) \/ Fail(r)
  <2> DEFINE new == mine'[r]
  <2>1. pc[r] = "call" /\ Save(r, new, "respond") BY <1>2 DEF Complete, Fail
  <2> HIDE DEF new
  <2> QED BY <2>1
<1> QED BY <1>1, <1>2

\* Where a step leaves the request that takes it, and with which answer.
LEMMA StepEnds ==
  ASSUME TypeOK, CutShort, NEW r \in Reqs, Create(r) \/ Regenerate(r) \/ Step(r) \/ Crash(r)
  PROVE  /\ cut'[r] # None => pc'[r] \in {"respond", "done"}
         /\ cut[r] # None => cut'[r] # None
         /\ answer'[r] = "500" => answer[r] = "500" \/ state' = "deleted" \/ cut'[r] # None
         /\ answer'[r] = "null" => answer[r] = "null" \/ state' = "deleted"
<1>0. None \notin {"reset", "load", "call", "respond"} BY InsightAssumption
<1>1. CASE Create(r)
  <2>1. pc[r] = "idle" /\ cut[r] = None BY <1>1 DEF Create, Began, CutShort
  <2>2. CASE Go(r, "load") /\ UNCHANGED <<answer, cut>> BY <2>1, <2>2
  <2>3. CASE Go(r, "done") /\ Answers(r, {"500"}) /\ CutAt(r, "load")
    <3>1. cut'[r] = "load" BY <2>1, <2>3, CutFacts
    <3>2. answer'[r] = "500" /\ pc'[r] = "done" BY <2>3 DEF TypeOK, Answers, Go
    <3> QED BY <1>0, <2>1, <3>1, <3>2
  <2> QED BY <1>1, <2>2, <2>3 DEF Create
<1>2. CASE Regenerate(r)
  BY <1>2 DEF Regenerate, Began, CutShort
<1>3. CASE Reset(r) \/ Complete(r) \/ Fail(r)
  <2>0. PICK new : \/ pc[r] = "reset" /\ Save(r, new, "load")
                   \/ pc[r] = "call" /\ Save(r, new, "respond")
    BY <1>3, Saves
  <2>1. PICK next \in {"load", "respond"} : pc[r] \in {"reset", "call"} /\ Save(r, new, next)
    BY <2>0
  <2>2. cut[r] = None BY <2>1 DEF CutShort
  <2>3. \/ state' = "deleted" /\ answer'[r] = "500" /\ cut'[r] = None
        \/ answer'[r] = answer[r] /\ cut'[r] = None
        \/ answer'[r] \in {"500", "ok"} /\ pc'[r] = "done" /\ cut'[r] \in {pc[r], next}
    BY <2>1, SaveEnds
  <2> QED BY <1>0, <2>1, <2>2, <2>3
<1>4. CASE Load(r) BY <1>4 DEF Load, CutShort
<1>5. CASE LoadGone(r) \/ RespondGone(r)
  <2>1. Gone(r) BY <1>5 DEF LoadGone, RespondGone
  <2>2. pc'[r] = "done" /\ cut' = cut /\ state' = "deleted" BY <2>1 DEF TypeOK, Gone, Go
  <2> QED BY <2>2
<1>6. CASE Respond(r)
  <2>1. pc'[r] = "done" /\ cut' = cut /\ answer'[r] = "ok"
    BY <1>6 DEF TypeOK, Respond, Go, Answers
  <2> QED BY <2>1
<1>7. CASE LoadBreaks(r) \/ RespondBreaks(r) \/ Crash(r)
  <2>1. PICK stage \in {"reset", "load", "call", "respond"} : CutAt(r, stage)
    BY <1>7 DEF LoadBreaks, RespondBreaks, Crash
  <2>2. cut'[r] # None BY <1>0, <2>1, CutFacts
  <2>3. pc'[r] \in {"respond", "done"}
    BY <1>7 DEF TypeOK, LoadBreaks, RespondBreaks, Crash, Go
  <2>4. answer'[r] \in {answer[r], "500"}
    BY <1>7 DEF TypeOK, LoadBreaks, RespondBreaks, Crash, Answers
  <2> QED BY <2>2, <2>3, <2>4
<1> QED BY <1>1, <1>2, <1>3, <1>4, <1>5, <1>6, <1>7 DEF Step

\* A request that is cut short goes no further than its answer.
LEMMA CutShortInductive ==
  ASSUME TypeOK, CutShort, [Next]_vars
  PROVE  CutShort'
<1>1. CASE Delete \/ UNCHANGED vars BY <1>1 DEF Delete, vars, CutShort
<1>2. ASSUME NEW r \in Reqs, Create(r) \/ Regenerate(r) \/ Step(r) \/ Crash(r) PROVE CutShort'
  BY <1>2, OneMoves, StepEnds DEF CutShort, OthersStay
<1> QED BY <1>1, <1>2 DEF Next

\* A request that fails has met the row's absence or a failure of the database.
LEMMA FailuresInductive == Inv /\ [Next]_vars => FailuresHaveCauses'
<1> SUFFICES ASSUME Inv, [Next]_vars, NEW q \in Reqs
             PROVE  /\ answer'[q] = "500" => state' = "deleted" \/ cut'[q] # None
                    /\ answer'[q] = "null" => state' = "deleted"
  BY DEF FailuresHaveCauses
<1>1. /\ answer[q] = "500" => state' = "deleted" \/ cut[q] # None
      /\ answer[q] = "null" => state' = "deleted"
  BY StaysDeleted DEF Inv, FailuresHaveCauses
<1>2. CASE Delete \/ UNCHANGED vars BY <1>1, <1>2 DEF Delete, vars
<1>3. ASSUME NEW r \in Reqs, Create(r) \/ Regenerate(r) \/ Step(r) \/ Crash(r)
      PROVE  /\ answer'[q] = "500" => state' = "deleted" \/ cut'[q] # None
             /\ answer'[q] = "null" => state' = "deleted"
  <2>1. CASE q = r BY <1>1, <1>3, <2>1, StepEnds DEF Inv
  <2>2. CASE q # r BY <1>1, <1>3, <2>2, OneMoves DEF Inv, OthersStay
  <2> QED BY <2>1, <2>2
<1> QED BY <1>2, <1>3 DEF Next

\* An UPDATE that sets the status to something else than pending leaves it
\* pending only if the request had not loaded it pending.
LEMMA SettlesStatus ==
  ASSUME Inv, NEW r \in Reqs, NEW new, new.status \in {"completed", "failed"},
         Updated(r, new).status = "pending"
  PROVE  row.status = "pending" /\ base[r].status # "pending"
BY DEF Updated, Column

\* Who owns the row still does after the step of another.
LEMMA OthersOwn ==
  ASSUME NEW r \in Reqs, NEW q \in Reqs, q # r, OthersStay(r), Owns(q)
  PROVE  Owns(q)'
BY DEF OthersStay, Owns, Stage

\* An outcome that leaves the row pending: another request has reset it since,
\* and owns it; or it did not take effect.
LEMMA OutcomeKeepsOwner ==
  ASSUME Inv, NEW r \in Reqs, NEW new, new.status \in {"completed", "failed"}, OthersStay(r),
         pc[r] = "call", Save(r, new, "respond"), state' = "there", row'.status = "pending"
  PROVE  \E q \in Reqs : Owns(q)'
<1>0. TypeOK /\ CutShort BY DEF Inv
<1>1. UNCHANGED <<state, base>> BY <1>0, SaveMovesOne
<1>2. cut[r] = None BY <1>0 DEF CutShort
<1>3. \/ row' = Updated(r, new)
      \/ row' = row /\ cut'[r] = "call"
  BY <1>0, SaveEnds
<1>4. CASE row' = Updated(r, new)
  <2>1. row.status = "pending" /\ base[r].status # "pending" BY <1>4, SettlesStatus
  <2>2. PICK q \in Reqs : Owns(q) BY <1>1, <2>1 DEF Inv, PendingIsOwned
  <2>3. q # r BY <1>2, <2>1, <2>2 DEF Owns, Stage
  <2> QED BY <2>2, <2>3, OthersOwn
<1>5. CASE row' = row /\ cut'[r] = "call"
  <2>1. PICK q \in Reqs : Owns(q) BY <1>1, <1>5 DEF Inv, PendingIsOwned
  <2>2. CASE q # r BY <2>1, <2>2, OthersOwn
  <2>3. CASE q = r
    <3>1. base[r].status = "pending" BY <1>2, <2>1, <2>3 DEF Owns, Stage
    <3>2. Stage(r)' = "call" BY <1>2, <1>5, InsightAssumption DEF Stage
    <3> QED BY <1>1, <3>1, <3>2 DEF Owns
  <2> QED BY <2>2, <2>3
<1> QED BY <1>3, <1>4, <1>5

\* Each step keeps an owner, or settles the row.
LEMMA OwnerInductive == Inv /\ [Next]_vars => PendingIsOwned'
<1> SUFFICES ASSUME Inv, [Next]_vars, state' = "there", row'.status = "pending"
             PROVE  \E q \in Reqs : Owns(q)'
  BY DEF PendingIsOwned
<1>0. TypeOK /\ CutShort BY DEF Inv
<1>1. ASSUME state = "there", row.status = "pending"
      PROVE  \E q \in Reqs : Owns(q)
  BY <1>1 DEF Inv, PendingIsOwned
<1>20. ASSUME NEW r \in Reqs, OthersStay(r), Owns(r) => Owns(r)',
              state = "there", row.status = "pending"
       PROVE  \E q \in Reqs : Owns(q)'
  <2>1. PICK q \in Reqs : Owns(q) BY <1>1, <1>20
  <2> QED BY <1>20, <2>1, OthersOwn
<1>2. CASE UNCHANGED vars BY <1>1, <1>2 DEF vars, Owns, Stage
<1>3. CASE Delete BY <1>3 DEF Delete
<1>4. ASSUME NEW r \in Reqs, Create(r) PROVE \E q \in Reqs : Owns(q)'
  <2>1. pc[r] = "idle" /\ cut[r] = None BY <1>0, <1>4 DEF Create, Began, CutShort
  <2>2. CASE Go(r, "load") /\ UNCHANGED cut
    <3>1. Stage(r)' = "load" BY <1>0, <2>1, <2>2 DEF Go, Stage, TypeOK
    <3> QED BY <3>1 DEF Owns
  <2>3. CASE CutAt(r, "load")
    <3>1. cut'[r] = "load" BY <1>0, <2>1, <2>3, CutFacts
    <3>2. Stage(r)' = "load" BY <3>1, InsightAssumption DEF Stage
    <3> QED BY <3>2 DEF Owns
  <2> QED BY <1>4, <2>2, <2>3 DEF Create
<1>5. ASSUME NEW r \in Reqs, Regenerate(r) PROVE \E q \in Reqs : Owns(q)'
  <2>1. pc[r] = "idle" /\ cut[r] = None BY <1>0, <1>5 DEF Regenerate, Began, CutShort
  <2>2. ~Owns(r) BY <2>1 DEF Owns, Stage
  <2>3. state = "there" /\ row.status = "pending" BY <1>5 DEF Regenerate
  <2> QED BY <1>0, <1>5, <1>20, <2>2, <2>3, OneMoves
<1>6. ASSUME NEW r \in Reqs, Reset(r) PROVE \E q \in Reqs : Owns(q)'
  <2> DEFINE new == [base[r] EXCEPT !.status = "pending", !.error = None]
  <2>1. pc[r] = "reset" /\ Save(r, new, "load") BY <1>6 DEF Reset
  <2>2. cut[r] = None /\ Stage(r) = "reset" BY <1>0, <2>1 DEF CutShort, Stage
  <2>3. UNCHANGED <<state, base>> BY <1>0, <2>1, SaveMovesOne
  <2> HIDE DEF new
  <2>4. \/ cut'[r] = None /\ pc'[r] = "load"
        \/ cut'[r] = "load"
        \/ row' = row
    BY <1>0, <2>1, SaveEnds
  <2>5. CASE (cut'[r] = None /\ pc'[r] = "load") \/ cut'[r] = "load"
    <3>1. Stage(r)' = "load" BY <2>5, InsightAssumption DEF Stage
    <3> QED BY <3>1 DEF Owns
  <2>6. CASE row' = row
    <3>1. ~Owns(r) BY <2>2 DEF Owns
    <3> QED BY <1>0, <1>6, <1>20, <2>3, <2>6, <3>1, OneMoves DEF Step
  <2> QED BY <2>4, <2>5, <2>6
<1>7. ASSUME NEW r \in Reqs, Load(r) PROVE \E q \in Reqs : Owns(q)'
  <2>1. cut'[r] = None /\ pc'[r] = "call" /\ base'[r] = row /\ row' = row
    BY <1>0, <1>7 DEF Load, Go, CutShort, TypeOK
  <2>2. Stage(r)' = "call" BY <2>1 DEF Stage
  <2> QED BY <2>1, <2>2 DEF Owns
<1>8. ASSUME NEW r \in Reqs, Complete(r) PROVE \E q \in Reqs : Owns(q)'
  <2> PICK p \in Providers : /\ mine' = [mine EXCEPT ![r] = Completed(r, p)]
                             /\ Save(r, mine'[r], "respond")
    BY <1>8 DEF Complete
  <2>1. mine'[r].status \in {"completed", "failed"}
    BY <1>0 DEF Completed, TypeOK, Row
  <2>2. pc[r] = "call" BY <1>8 DEF Complete
  <2> QED BY <1>0, <1>8, <2>1, <2>2, OutcomeKeepsOwner, OneMoves DEF Step
<1>9. ASSUME NEW r \in Reqs, Fail(r) PROVE \E q \in Reqs : Owns(q)'
  <2>1. mine'[r].status \in {"completed", "failed"}
    BY <1>0, <1>9 DEF Fail, TypeOK, Row
  <2>2. pc[r] = "call" /\ Save(r, mine'[r], "respond") BY <1>9 DEF Fail
  <2> QED BY <1>0, <1>9, <2>1, <2>2, OutcomeKeepsOwner, OneMoves DEF Step
<1>10. ASSUME NEW r \in Reqs, LoadGone(r) \/ RespondGone(r) PROVE \E q \in Reqs : Owns(q)'
  BY <1>10 DEF LoadGone, RespondGone, Gone
<1>11. ASSUME NEW r \in Reqs, Respond(r) PROVE \E q \in Reqs : Owns(q)'
  <2>1. /\ pc[r] = "respond" /\ pc'[r] = "done"
        /\ UNCHANGED <<state, row, base, cut>>
    BY <1>0, <1>11 DEF Respond, Go, TypeOK
  <2>2. Owns(r) => Owns(r)' BY <2>1 DEF Owns, Stage
  <2> QED BY <1>0, <1>11, <1>20, <2>1, <2>2, OneMoves DEF Step
<1>12. ASSUME NEW r \in Reqs, LoadBreaks(r) \/ RespondBreaks(r) \/ Crash(r)
       PROVE  \E q \in Reqs : Owns(q)'
  <2>1. UNCHANGED <<state, row, base>> BY <1>12 DEF LoadBreaks, RespondBreaks, Crash
  <2>2. CutAt(r, pc[r]) /\ pc[r] \in {"reset", "load", "call", "respond"}
    BY <1>12 DEF LoadBreaks, RespondBreaks, Crash
  <2>3. Stage(r)' = Stage(r)
    <3>1. None \notin {"reset", "load", "call", "respond"} BY InsightAssumption
    <3> QED BY <1>0, <2>2, <3>1, CutFacts DEF Stage
  <2>4. Owns(r) => Owns(r)' BY <2>1, <2>3 DEF Owns
  <2> QED BY <1>0, <1>12, <1>20, <2>1, <2>4, OneMoves DEF Step
<1> QED BY <1>2, <1>3, <1>4, <1>5, <1>6, <1>7, <1>8, <1>9, <1>10, <1>11, <1>12 DEF Next, Step

\* The parts together.
LEMMA InvInductive == Inv /\ [Next]_vars => Inv'
BY TypeInductive, CutShortInductive, FailuresInductive, OwnerInductive DEF Inv

\* No row is pending at first.
LEMMA InvInit == Init => Inv
<1> SUFFICES ASSUME Init PROVE Inv OBVIOUS
<1>1. TypeOK BY TypeInit
<1>2. PendingIsOwned /\ FailuresHaveCauses /\ CutShort
  BY InsightAssumption DEF Init, PendingIsOwned, FailuresHaveCauses, CutShort
<1> QED BY <1>1, <1>2 DEF Inv

\* However many generations of one insight run at once, and wherever the database
\* or a crash cuts requests short, a pending insight has a request that will
\* settle it, or was cut short between making it pending and its outcome.
THEOREM PendingHasAnOwner == Spec => []PendingIsOwned
<1>1. Inv => PendingIsOwned BY DEF Inv
<1> QED BY InvInit, InvInductive, <1>1, PTL DEF Spec

\* A request about an insight fails only when its interaction was deleted or the
\* database failed it, never for what the LLM does.
THEOREM FailuresAreCaused == Spec => []FailuresHaveCauses
<1>1. Inv => FailuresHaveCauses BY DEF Inv
<1> QED BY InvInit, InvInductive, <1>1, PTL DEF Spec

-----------------------------------------------------------------------------
(* Generations that follow each other: the one that is under way has loaded *)
(* the row as it still is, so what it writes is the row as a whole.         *)

Quiet == state = "there" /\ ~overlapped

Alone == ~overlapped => \A r, q \in InFlight : r = q

\* Nothing is asked about an interaction before it is created, and nothing is
\* counted before it was loaded.
Uncounted ==
  /\ state = "absent" => \A r \in Reqs : pc[r] = "idle"
  /\ \A r \in Reqs : pc[r] \in {"idle", "reset", "load"} => mine[r].attempts = 0

Current ==
  \A r \in Reqs :
    /\ pc[r] \in {"reset", "call"} => base[r] = row
    /\ pc[r] = "call" => mine[r] = [row EXCEPT !.attempts = @ + 1]

Whole ==
  /\ row.attempts = Cardinality(Generated)
  /\ row.status = "completed" =>
       /\ row.error = None
       /\ row.raw = row.summary
       /\ row.summary \in Generated /\ row.provider = mine[row.summary].provider

SerialInv ==
  /\ Alone /\ Uncounted /\ IsFiniteSet(Generated)
  /\ Quiet => Current /\ Whole

\* What every step of a request that is under way leaves alone.
LEMMA StepKeeps ==
  ASSUME TypeOK, NEW r \in Reqs, Step(r) \/ Crash(r)
  PROVE  /\ UNCHANGED <<state, overlapped>>
         /\ pc[r] \in {"reset", "load", "call", "respond"}
         /\ pc'[r] \in {"load", "call", "respond", "done"}
         /\ pc'[r] = "load" => pc[r] = "reset" /\ mine'[r] = mine[r]
         /\ pc[r] = "respond" => pc'[r] = "done"
<1>1. CASE Reset(r) \/ Complete(r) \/ Fail(r)
  <2>0. PICK new : \/ pc[r] = "reset" /\ mine' = mine /\ Save(r, new, "load")
                   \/ pc[r] = "call" /\ Save(r, new, "respond")
    BY <1>1, Saves
  <2>1. PICK next \in {"load", "respond"} :
          /\ pc[r] \in {"reset", "call"} /\ Save(r, new, next)
          /\ next = "load" => pc[r] = "reset" /\ mine' = mine
    BY <2>0
  <2>2. pc'[r] \in {next, "done"} BY <2>1 DEF TypeOK, Save, Crashing, Go
  <2> QED BY <2>1, <2>2, SaveMovesOne
<1>2. CASE Load(r) BY <1>2 DEF TypeOK, Load, Go
<1>3. CASE LoadGone(r) \/ RespondGone(r) \/ Respond(r) \/ LoadBreaks(r) \/ RespondBreaks(r) \/ Crash(r)
  BY <1>3 DEF TypeOK, LoadGone, RespondGone, Respond, LoadBreaks, RespondBreaks, Crash, Gone, Go
<1> QED BY <1>1, <1>2, <1>3 DEF Step

\* One step adds one generation at most.
LEMMA GeneratedFinite ==
  ASSUME TypeOK, IsFiniteSet(Generated), [Next]_vars
  PROVE  IsFiniteSet(Generated)'
<1>1. ASSUME NEW r \in Reqs, OthersStay(r) PROVE IsFiniteSet(Generated)'
  <2>1. Generated' \subseteq Generated \cup {r} BY <1>1 DEF OthersStay, Generated, Stage
  <2>2. IsFiniteSet(Generated \cup {r}) BY FS_AddElement
  <2> QED BY <2>1, <2>2, FS_Subset
<1>2. CASE Delete \/ UNCHANGED vars
  <2>1. Generated' = Generated BY <1>2 DEF Delete, vars, Generated, Stage
  <2> QED BY <2>1
<1> QED BY <1>1, <1>2, OneMoves DEF Next

\* A generation that begins while another runs has overlapped it.
LEMMA AloneInductive ==
  ASSUME TypeOK, Alone, [Next]_vars
  PROVE  Alone'
<1>1. ASSUME NEW r \in Reqs, Began(r), OthersStay(r) PROVE Alone'
  <2>1. ~overlapped' => InFlight = {} BY <1>1 DEF Began
  <2>2. InFlight' \subseteq InFlight \cup {r} BY <1>1 DEF InFlight, OthersStay
  <2> QED BY <2>1, <2>2 DEF Alone
<1>2. ASSUME NEW r \in Reqs, OthersStay(r), overlapped' = overlapped,
             pc[r] \in {"reset", "load", "call"} \/ pc'[r] \notin {"reset", "load", "call"}
      PROVE  Alone'
  <2>1. InFlight' \subseteq InFlight BY <1>2 DEF InFlight, OthersStay
  <2> QED BY <1>2, <2>1 DEF Alone
<1>3. ASSUME NEW r \in Reqs, Create(r) \/ Regenerate(r) PROVE Alone'
  BY <1>1, <1>3, OneMoves DEF Create, Regenerate
<1>4. ASSUME NEW r \in Reqs, Step(r) \/ Crash(r) PROVE Alone'
  <2>1. OthersStay(r) BY <1>4, OneMoves
  <2>2. overlapped' = overlapped BY <1>4, StepKeeps
  <2>3. pc[r] \in {"reset", "load", "call"} \/ pc'[r] \notin {"reset", "load", "call"}
    BY <1>4, StepKeeps
  <2> QED BY <1>2, <2>1, <2>2, <2>3
<1>5. CASE Delete \/ UNCHANGED vars BY <1>5 DEF Delete, vars, Alone, InFlight
<1> QED BY <1>3, <1>4, <1>5 DEF Next

\* A request has counted no attempt before it loads the row.
LEMMA UncountedInductive ==
  ASSUME TypeOK, Uncounted, [Next]_vars
  PROVE  Uncounted'
<1>1. CASE Delete \/ UNCHANGED vars BY <1>1 DEF Delete, vars, Uncounted
<1>2. ASSUME NEW r \in Reqs, OthersStay(r), state' # "absent",
             pc'[r] \in {"idle", "reset", "load"} => mine'[r].attempts = 0
      PROVE  Uncounted'
  BY <1>2 DEF OthersStay, Uncounted
<1>3. ASSUME NEW r \in Reqs, Create(r) \/ Regenerate(r) PROVE Uncounted'
  <2>1. OthersStay(r) BY <1>3, OneMoves
  <2>2. state' # "absent" BY <1>3 DEF Create, Regenerate
  <2>3. mine'[r].attempts = 0 BY <1>3 DEF Create, Regenerate, Began, Uncounted
  <2> QED BY <1>2, <2>1, <2>2, <2>3
<1>4. ASSUME NEW r \in Reqs, Step(r) \/ Crash(r) PROVE Uncounted'
  <2>1. OthersStay(r) BY <1>4, OneMoves
  <2>2. pc[r] # "idle" /\ state' = state BY <1>4, StepKeeps
  <2>3. pc'[r] \in {"idle", "reset", "load"} => pc[r] = "reset" /\ mine'[r] = mine[r]
    BY <1>4, StepKeeps
  <2> QED BY <1>2, <2>1, <2>2, <2>3 DEF Uncounted
<1> QED BY <1>1, <1>3, <1>4 DEF Next

\* A request that writes all columns it loaded, and loaded them as they are,
\* leaves the row as it wants it.
LEMMA UpdatedWhole ==
  ASSUME NEW r \in Reqs, row \in Row, base[r] = row, NEW new \in Row
  PROVE  Updated(r, new) = new
BY DEF Updated, Column, Row

\* Steps that leave the row and what was generated as they are.
LEMMA WholeKept ==
  ASSUME Whole, row' = row, Generated' = Generated,
         \A q \in Generated : mine'[q] = mine[q]
  PROVE  Whole'
BY DEF Whole

\* What is loaded by others is current when one that was under way saves.
LEMMA OthersRest ==
  ASSUME TypeOK, SerialInv, Quiet, NEW r \in Reqs, r \in InFlight,
         OthersStay(r), pc'[r] \notin {"reset", "call"}
  PROVE  Current'
<1>1. ASSUME NEW q \in Reqs PROVE pc'[q] \notin {"reset", "call"}
  <2>1. CASE q # r
    <3>1. q \notin InFlight BY <2>1 DEF SerialInv, Quiet, Alone
    <3> QED BY <2>1, <3>1 DEF InFlight, OthersStay
  <2> QED BY <2>1
<1> QED BY <1>1 DEF Current

\* A step that neither changes the row nor how far anyone has come.
LEMMA NothingSaved ==
  ASSUME TypeOK, SerialInv, Quiet, NEW r \in Reqs, OthersStay(r), row' = row,
         r \in Generated' <=> r \in Generated,
         r \in Generated => mine'[r] = mine[r]
  PROVE  Whole'
<1>1. Whole BY DEF SerialInv
<1>2. Generated' = Generated BY DEF OthersStay, Generated, Stage
<1>3. \A q \in Generated : mine'[q] = mine[q] BY DEF OthersStay, Generated
<1> QED BY <1>1, <1>2, <1>3, WholeKept

\* The outcome of r takes effect, and nobody else is under way.
LEMMA WholeSaved ==
  ASSUME TypeOK, SerialInv, Quiet, NEW r \in Reqs, pc[r] = "call", cut[r] = None,
         OthersStay(r), Stage(r)' = "respond",
         mine'[r] \in Row, mine'[r].attempts = mine[r].attempts, row' = Updated(r, mine'[r]),
         mine'[r].status = "completed" =>
           /\ mine'[r].error = None
           /\ mine'[r].raw = mine'[r].summary
           /\ mine'[r].summary = r
  PROVE  Whole'
<1>1. base[r] = row /\ mine[r] = [row EXCEPT !.attempts = @ + 1] /\ row \in Row
  <2>1. Current BY DEF SerialInv
  <2>2. row \in Row BY DEF TypeOK
  <2> QED BY <2>1, <2>2 DEF Current
<1>2. row' = mine'[r] BY <1>1, UpdatedWhole
<1>3. row.attempts \in Nat /\ mine[r].attempts = row.attempts + 1 BY <1>1 DEF Row
<1>4. Generated' = Generated \cup {r} /\ r \notin Generated
  <2>1. mine'[r].attempts > 0 BY <1>3
  <2>2. r \notin Generated BY DEF Generated, Stage
  <2>3. r \in Generated' BY <2>1 DEF Generated
  <2>4. \A q \in Reqs \ {r} : q \in Generated' <=> q \in Generated
    BY DEF OthersStay, Generated, Stage
  <2> QED BY <2>2, <2>3, <2>4 DEF Generated
<1>5. Cardinality(Generated') = Cardinality(Generated) + 1
  BY <1>4, FS_AddElement DEF SerialInv
<1>6. row'.attempts = Cardinality(Generated')
  <2>1. row.attempts = Cardinality(Generated) BY DEF SerialInv, Whole
  <2> QED BY <1>2, <1>3, <1>5, <2>1
<1> QED BY <1>2, <1>4, <1>6 DEF Whole

\* An outcome is saved, or is not.
LEMMA OutcomeSaved ==
  ASSUME TypeOK, CutShort, SerialInv, Quiet, state' = "there", NEW r \in Reqs, pc[r] = "call",
         OthersStay(r), Save(r, mine'[r], "respond"),
         mine'[r] \in Row, mine'[r].attempts = mine[r].attempts,
         mine'[r].status = "completed" =>
           /\ mine'[r].error = None
           /\ mine'[r].raw = mine'[r].summary
           /\ mine'[r].summary = r
  PROVE  Current' /\ Whole'
<1>0. None \notin {"call", "respond"} BY InsightAssumption
<1>1. cut[r] = None BY DEF CutShort
<1> DEFINE new == mine'[r]
<1>2. \/ row' = Updated(r, new) /\ cut'[r] = None /\ pc'[r] = "respond"
      \/ row' = row /\ cut'[r] = "call" /\ pc'[r] = "done"
      \/ row' = Updated(r, new) /\ cut'[r] = "respond" /\ pc'[r] = "done"
  <2>1. Save(r, new, "respond") OBVIOUS
  <2> HIDE DEF new
  <2> QED BY <2>1, SaveEnds
<1>3. Current'
  <2>1. r \in InFlight BY DEF InFlight
  <2> QED BY <1>2, <2>1, OthersRest
<1>4. CASE row' = row /\ cut'[r] = "call"
  <2>1. r \notin Generated /\ r \notin Generated' BY <1>0, <1>1, <1>4 DEF Generated, Stage
  <2>2. Whole' BY <1>4, <2>1, NothingSaved
  <2> QED BY <1>3, <2>2
<1>5. CASE /\ row' = Updated(r, new)
           /\ (cut'[r] = None /\ pc'[r] = "respond") \/ cut'[r] = "respond"
  <2>1. Stage(r)' = "respond" BY <1>0, <1>5 DEF Stage
  <2>2. row' = Updated(r, mine'[r]) BY <1>5
  <2>3. Whole' BY <1>1, <2>1, <2>2, WholeSaved
  <2> QED BY <1>3, <2>3
<1> QED BY <1>2, <1>4, <1>5

\* A generation that runs alone finds the row as it loaded it, and writes it
\* whole, unless it is cut short before.
LEMMA QuietInductive ==
  ASSUME TypeOK, CutShort, SerialInv, [Next]_vars, Quiet'
  PROVE  Current' /\ Whole'
<1>0. Alone /\ Uncounted /\ IsFiniteSet(Generated) BY DEF SerialInv
<1>1. CASE Delete \/ UNCHANGED vars
  <2>1. UNCHANGED vars BY <1>1 DEF Delete, Quiet
  <2>2. Quiet /\ Generated' = Generated BY <2>1 DEF vars, Quiet, Generated, Stage
  <2> QED BY <2>1, <2>2 DEF vars, SerialInv, Current, Whole
<1>2. ASSUME NEW r \in Reqs, Create(r) PROVE Current' /\ Whole'
  <2>1. \A q \in Reqs : pc[q] = "idle" BY <1>0, <1>2 DEF Create, Uncounted
  <2>2. \A q \in Reqs : mine'[q].attempts = 0 BY <1>0, <1>2, <2>1 DEF Create, Uncounted
  <2>3. Generated' = {} BY <2>2 DEF Generated
  <2>4. row' = NewRow BY <1>2 DEF Create
  <2>5. \A q \in Reqs : pc'[q] \in {"idle", "load", "done"}
    BY <1>2, <2>1 DEF Create, Go, TypeOK
  <2>6. Current' BY <2>5 DEF Current
  <2>7. row'.attempts = 0 /\ row'.status = "pending" BY <2>4 DEF NewRow
  <2>8. Whole' BY <2>3, <2>7, FS_EmptySet DEF Whole
  <2> QED BY <2>6, <2>8
<1>3. ASSUME NEW r \in Reqs, Regenerate(r) \/ Step(r) \/ Crash(r)
      PROVE  Quiet /\ Current /\ Whole /\ OthersStay(r) /\ state = "there"
  <2>1. OthersStay(r) BY <1>3, OneMoves
  <2>2. state' = state BY <1>3, StepKeeps DEF Regenerate
  <2>3. overlapped => overlapped'
    <3>1. CASE Regenerate(r) BY <3>1, Zenon DEF Regenerate, Began
    <3>2. CASE Step(r) \/ Crash(r)
      <4>1. overlapped' = overlapped BY <3>2, StepKeeps
      <4> QED BY <4>1, Zenon
    <3> QED BY <1>3, <3>1, <3>2
  <2>4. Quiet BY <2>2, <2>3 DEF Quiet
  <2> QED BY <2>1, <2>4 DEF SerialInv, Quiet
<1>4. ASSUME NEW r \in Reqs, Regenerate(r) PROVE Current' /\ Whole'
  <2>1. Quiet /\ Current /\ OthersStay(r) BY <1>3, <1>4
  <2>2. /\ pc[r] = "idle" /\ pc'[r] = "reset" /\ base'[r] = row
        /\ row' = row /\ mine' = mine /\ cut' = cut
    BY <1>4 DEF Regenerate, Began, Go, TypeOK
  <2>3. mine[r].attempts = 0 BY <1>0, <2>2 DEF Uncounted
  <2>4. r \notin Generated /\ r \notin Generated' BY <2>2, <2>3 DEF Generated
  <2>5. Whole' BY <2>1, <2>2, <2>4, NothingSaved
  <2>6. Current' BY <2>1, <2>2 DEF Current, OthersStay
  <2> QED BY <2>5, <2>6
<1>5. ASSUME NEW r \in Reqs, Reset(r) PROVE Current' /\ Whole'
  <2>1. Quiet /\ Current /\ Whole /\ OthersStay(r) /\ state = "there" BY <1>3, <1>5 DEF Step
  <2> DEFINE new == [base[r] EXCEPT !.status = "pending", !.error = None]
  <2>2. pc[r] = "reset" /\ base[r] = row /\ row \in Row
    BY <1>5, <2>1 DEF Reset, Current, TypeOK
  <2>3. Save(r, new, "load") /\ mine' = mine BY <1>5 DEF Reset
  <2>4. new \in Row /\ new.attempts = row.attempts /\ new.status = "pending"
    BY <2>2 DEF Row
  <2>5. mine[r].attempts = 0 BY <1>0, <2>2 DEF Uncounted
  <2>6. r \notin Generated /\ r \notin Generated' BY <2>3, <2>5 DEF Generated
  <2>7. Generated' = Generated BY <2>1, <2>6 DEF Generated, OthersStay, Stage
  <2> HIDE DEF new
  <2>8. Current'
    <3>1. r \in InFlight BY <2>2 DEF InFlight
    <3>2. pc'[r] \notin {"reset", "call"} BY <2>2, <2>3, SaveEnds
    <3> QED BY <2>1, <3>1, <3>2, OthersRest
  <2>9. CASE row' = row
    <3>1. Whole' BY <2>1, <2>6, <2>9, NothingSaved
    <3> QED BY <2>8, <3>1
  <2>10. CASE row' = Updated(r, new)
    <3>1. row' = new BY <2>2, <2>4, <2>10, UpdatedWhole
    <3>2. Whole' BY <2>1, <2>4, <2>7, <3>1 DEF Whole
    <3> QED BY <2>8, <3>2
  <2>11. row' = row \/ row' = Updated(r, new)
    <3>1. state' = "there" BY DEF Quiet
    <3> QED BY <2>2, <2>3, <3>1, SaveEnds
  <2> QED BY <2>9, <2>10, <2>11
<1>6. ASSUME NEW r \in Reqs, Load(r) PROVE Current' /\ Whole'
  <2>1. Quiet /\ Current /\ OthersStay(r) BY <1>3, <1>6 DEF Step
  <2>2. /\ pc[r] = "load" /\ pc'[r] = "call" /\ row' = row /\ cut' = cut /\ cut[r] = None
        /\ base'[r] = row /\ mine'[r] = [row EXCEPT !.attempts = @ + 1]
    BY <1>6 DEF Load, Go, TypeOK, CutShort
  <2>3. r \notin Generated /\ r \notin Generated' BY <2>2 DEF Generated, Stage
  <2>4. Whole' BY <2>1, <2>2, <2>3, NothingSaved
  <2>5. Current' BY <2>1, <2>2 DEF Current, OthersStay
  <2> QED BY <2>4, <2>5
<1>7. ASSUME NEW r \in Reqs, Complete(r) PROVE Current' /\ Whole'
  <2>1. Quiet /\ OthersStay(r) BY <1>3, <1>7 DEF Step
  <2> PICK p \in Providers : /\ mine' = [mine EXCEPT ![r] = Completed(r, p)]
                             /\ Save(r, mine'[r], "respond")
    BY <1>7 DEF Complete
  <2>2. pc[r] = "call" BY <1>7 DEF Complete
  <2>3. mine[r] \in Row /\ mine'[r] = Completed(r, p) BY DEF TypeOK
  <2>4. mine'[r] \in Row
    <3>1. Completed(r, p) \in Row BY DEF TypeOK, Completed, Row
    <3> QED BY <2>3, <3>1
  <2>5. /\ Completed(r, p).attempts = mine[r].attempts
        /\ Completed(r, p).error = None
        /\ Completed(r, p).summary = r
        /\ Completed(r, p).raw = r
    <3>1. DOMAIN mine[r] = {"status", "error", "summary", "provider", "raw", "attempts"}
      BY <2>3 DEF Row
    <3> QED BY <3>1 DEF Completed
  <2>6. /\ mine'[r].attempts = mine[r].attempts
        /\ mine'[r].error = None /\ mine'[r].summary = r /\ mine'[r].raw = r
    BY <2>3, <2>5
  <2>7. state' = "there" BY DEF Quiet
  <2> QED BY <2>1, <2>2, <2>4, <2>6, <2>7, OutcomeSaved
<1>8. ASSUME NEW r \in Reqs, Fail(r) PROVE Current' /\ Whole'
  <2>1. Quiet /\ OthersStay(r) BY <1>3, <1>8 DEF Step
  <2> PICK raw \in {None, r, mine[r].raw} :
        mine' = [mine EXCEPT ![r] =
          [@ EXCEPT !.status = "failed", !.error = "message", !.raw = raw]]
    BY <1>8 DEF Fail
  <2>2. pc[r] = "call" /\ Save(r, mine'[r], "respond") BY <1>8 DEF Fail
  <2>3. mine[r] \in Row /\ mine \in [Reqs -> Row] BY DEF TypeOK
  <2>4. /\ mine'[r] \in Row /\ mine'[r].attempts = mine[r].attempts
        /\ mine'[r].status = "failed"
    BY <2>3 DEF Row
  <2>5. state' = "there" BY DEF Quiet
  <2> QED BY <2>1, <2>2, <2>4, <2>5, OutcomeSaved
<1>9. ASSUME NEW r \in Reqs, Respond(r) PROVE Current' /\ Whole'
  <2>1. Quiet /\ Current /\ OthersStay(r) BY <1>3, <1>9 DEF Step
  <2>2. /\ pc[r] = "respond" /\ pc'[r] = "done" /\ row' = row /\ mine' = mine
        /\ base' = base /\ cut' = cut
    BY <1>9 DEF Respond, Go, TypeOK
  <2>3. r \in Generated' <=> r \in Generated BY <2>2 DEF Generated, Stage
  <2>4. Whole' BY <2>1, <2>2, <2>3, NothingSaved
  <2>5. Current' BY <2>1, <2>2 DEF Current, OthersStay
  <2> QED BY <2>4, <2>5
<1>10. ASSUME NEW r \in Reqs, LoadGone(r) \/ RespondGone(r) PROVE FALSE
  <2>1. state = "there" BY <1>3, <1>10 DEF Step
  <2> QED BY <1>10, <2>1 DEF LoadGone, RespondGone, Gone
<1>11. ASSUME NEW r \in Reqs, LoadBreaks(r) \/ RespondBreaks(r) \/ Crash(r)
       PROVE  Current' /\ Whole'
  <2>1. Quiet /\ Current /\ OthersStay(r) BY <1>3, <1>11 DEF Step
  <2>2. /\ row' = row /\ mine' = mine /\ base' = base
        /\ CutAt(r, pc[r]) /\ pc[r] \in {"reset", "load", "call", "respond"}
    BY <1>11 DEF LoadBreaks, RespondBreaks, Crash
  <2>3. pc'[r] \in {"respond", "done"}
    BY <1>11 DEF LoadBreaks, RespondBreaks, Crash, Go, TypeOK
  <2>4. Stage(r)' = Stage(r)
    <3>1. None \notin {"reset", "load", "call", "respond"} BY InsightAssumption
    <3> QED BY <2>2, <3>1, CutFacts DEF Stage
  <2>5. r \in Generated' <=> r \in Generated BY <2>2, <2>4 DEF Generated
  <2>6. Whole' BY <2>1, <2>2, <2>5, NothingSaved
  <2>7. Current' BY <2>1, <2>2, <2>3 DEF Current, OthersStay
  <2> QED BY <2>6, <2>7
<1> QED
  BY <1>1, <1>2, <1>4, <1>5, <1>6, <1>7, <1>8, <1>9, <1>10, <1>11 DEF Next, Step

\* The parts of the invariant together.
LEMMA SerialInductive == TypeOK /\ CutShort /\ SerialInv /\ [Next]_vars => SerialInv'
<1> SUFFICES ASSUME TypeOK, CutShort, SerialInv, [Next]_vars PROVE SerialInv' OBVIOUS
<1>1. Alone' /\ Uncounted' /\ IsFiniteSet(Generated)'
  BY AloneInductive, UncountedInductive, GeneratedFinite DEF SerialInv
<1>2. Quiet' => Current' /\ Whole' BY QuietInductive
<1> QED BY <1>1, <1>2 DEF SerialInv

\* Nothing is generated at first.
LEMMA SerialInit == Init => SerialInv
<1> SUFFICES ASSUME Init PROVE SerialInv OBVIOUS
<1>1. \A r \in Reqs : pc[r] = "idle" /\ mine[r] = NewRow BY DEF Init
<1>2. Generated = {} /\ InFlight = {} BY <1>1 DEF Generated, InFlight, NewRow
<1>3. Alone /\ Uncounted BY <1>1, <1>2 DEF Alone, Uncounted, NewRow
<1>4. ~Quiet BY DEF Init, Quiet
<1> QED BY <1>2, <1>3, <1>4, FS_EmptySet DEF SerialInv

\* Generations that came one after the other leave the row as if written whole
\* by each, although each writes only what it changed.
THEOREM SerialGenerationsWriteWhole == Spec => []SerialGenerationsAgree
<1>1. SerialInv => SerialGenerationsAgree
  BY DEF SerialInv, SerialGenerationsAgree, Quiet, Whole
<1>2. Inv => TypeOK /\ CutShort BY DEF Inv
<1>3. Spec => [](Inv /\ SerialInv)
  BY InvInit, InvInductive, SerialInit, SerialInductive, <1>2, PTL DEF Spec
<1> QED BY <1>1, <1>3, PTL
=============================================================================
