--------------------------- MODULE FrontendStores ---------------------------
(***************************************************************************)
(* One slice of the browser's store with the pages that use it: a cache of *)
(* rows by id (entities), the ids of the list that was answered last, and  *)
(* a status of each. Every page sends its requests when it is mounted, no  *)
(* request is ever cancelled, and the answers come in any order, to        *)
(* whatever page is shown by then.                                         *)
(*                                                                         *)
(* The slices differ in what they have: customers and interactions have    *)
(* pages of a single row and forms, users and interactions have buttons in *)
(* the row, and a section of the dashboard is a list and nothing else. The *)
(* server is here anyone who answers.                                      *)
(***************************************************************************)
EXTENDS Naturals, Sequences, FiniteSets, SequencesExt

CONSTANTS
  Row,
  Query,        \* what a list may be asked for: filters, the customer, a page
  OfCustomer,   \* those of the page of one customer
  Matching,     \* the rows a query may be answered with
  MaxFlight,    \* how many requests are under way at most, a bound of the model
  NoArg

ASSUME StoresAssumption ==
  /\ Matching \in [Query -> SUBSET Row]
  /\ OfCustomer \subseteq Query
  /\ MaxFlight \in Nat
  /\ NoArg \notin Row \cup Query

VARIABLES
  slice,        \* the slice this is
  store,        \* its state
  shown,        \* the page that is mounted
  flight,       \* the requests under way, in the order they were sent
  overtaken     \* history: an answer has overtaken an older one

storeVars == <<slice, store, shown, flight, overtaken>>

Slices == {"customers", "interactions", "users", "dashboard"}
HasRows == slice \in {"customers", "interactions"}

Status == {"idle", "loading", "succeeded", "failed"}

\* busy is mutatingIds, regeneratingIds.
Stores == [status : Status, ids : SUBSET Row, entities : SUBSET Row,
           detail : Status, busy : SUBSET Row]

\* "other": the form for a new row, or a page that asks nothing of this slice.
Pages == [kind : {"list"}, arg : Query]
         \cup [kind : {"detail", "edit"}, arg : Row]
         \cup [kind : {"other"}, arg : {NoArg}]

Fetch == {"list", "detail"}
Awaited == {"create", "update", "delete"}   \* by a form or a page
\* By a button or a select of the row.
InRow == {"updateUser", "deactivateUser", "regenerate"}

\* here: the page that awaits the answer is still mounted.
Requests == [kind : {"list"}, arg : Query, here : BOOLEAN]
            \cup [kind : {"detail", "update", "delete"} \cup InRow, arg : Row, here : BOOLEAN]
            \cup [kind : {"create"}, arg : {NoArg}, here : BOOLEAN]

UnderWay(kind) == \E i \in DOMAIN flight : flight[i].kind = kind
Submitting == \E i \in DOMAIN flight : flight[i].here

------------------------------------------------------------------------------
(* Pages. *)

Orphaned(requests) == [i \in DOMAIN requests |-> [requests[i] EXCEPT !.here = FALSE]]
Sent(requests, kind, arg, here) ==
  Append(requests, [kind |-> kind, arg |-> arg, here |-> here])

\* A page is mounted while these requests are under way, and sends its own.
MountList(q, requests, s) ==
  /\ shown' = [kind |-> "list", arg |-> q]
  /\ flight' = Sent(Orphaned(requests), "list", q, FALSE)
  /\ store' = [s EXCEPT !.status = "loading"]

MountRow(kind, r, requests, s) ==
  /\ shown' = [kind |-> kind, arg |-> r]
  /\ flight' = Sent(Orphaned(requests), "detail", r, FALSE)
  /\ store' = [s EXCEPT !.detail = "loading"]

\* Mutant: a list that was loaded before is not asked for again.
ShowListCached(q) ==
  /\ Len(flight) < MaxFlight
  /\ IF store.status = "succeeded"
       THEN shown' = [kind |-> "list", arg |-> q] /\ UNCHANGED <<flight, store>>
       ELSE MountList(q, flight, store)
  /\ UNCHANGED <<slice, overtaken>>

\* The page of a list, a filter, a page number, another customer, or Retry.
ShowList(q) ==
  /\ Len(flight) < MaxFlight
  /\ MountList(q, flight, store)
  /\ UNCHANGED <<slice, overtaken>>

ShowRow(kind, r) ==
  /\ HasRows
  /\ Len(flight) < MaxFlight
  /\ MountRow(kind, r, flight, store)
  /\ UNCHANGED <<slice, overtaken>>

Leave ==
  /\ shown.kind # "other"
  /\ shown' = [kind |-> "other", arg |-> NoArg]
  /\ flight' = Orphaned(flight)
  /\ UNCHANGED <<slice, store, overtaken>>

------------------------------------------------------------------------------
(* Clicks. *)

\* A row of a table: none is drawn until the list was answered.
InTable(r) == shown.kind = "list" /\ r \in store.ids /\ store.status = "succeeded"

\* A row on the page of a customer, which draws its interactions unless they are
\* being loaded, those of the list before when the load has failed.
OnCustomer(r) ==
  shown.kind = "list" /\ shown.arg \in OfCustomer /\ r \in store.ids /\ store.status # "loading"

\* The detail page shows its row if there is one, unless the fetch has failed.
Detailed(r) ==
  /\ shown = [kind |-> "detail", arg |-> r]
  /\ r \in store.entities /\ store.detail # "failed"

\* The button is disabled while the row is in mutatingIds, regeneratingIds.
Press(kind, r) ==
  /\ r \notin store.busy
  /\ Len(flight) < MaxFlight
  /\ flight' = Sent(flight, kind, r, FALSE)
  /\ store' = [store EXCEPT !.busy = @ \cup {r}]
  /\ UNCHANGED <<slice, shown, overtaken>>

\* The role of a user is selected, or Deactivate is clicked.
PressUser(kind, r) ==
  /\ slice = "users" /\ kind \in {"updateUser", "deactivateUser"}
  /\ InTable(r)
  /\ Press(kind, r)

\* Retry, in the panel of the insight.
PressRetry(r) ==
  /\ slice = "interactions"
  /\ OnCustomer(r) \/ Detailed(r)
  /\ Press("regenerate", r)

\* Mutant: the button can be pressed again.
SubmitAgain(kind, r) ==
  /\ HasRows
  /\ Len(flight) < MaxFlight
  /\ flight' = Sent(flight, kind, r, TRUE)
  /\ UNCHANGED <<slice, store, shown, overtaken>>

\* The button is disabled until the answer, for as long as the page is mounted.
Submit(kind, r) ==
  /\ HasRows
  /\ ~Submitting
  /\ Len(flight) < MaxFlight
  /\ flight' = Sent(flight, kind, r, TRUE)
  /\ UNCHANGED <<slice, store, shown, overtaken>>

SubmitNew == shown.kind = "other" /\ Submit("create", NoArg)

SubmitEdit(r) ==
  /\ shown = [kind |-> "edit", arg |-> r] /\ r \in store.entities
  /\ Submit("update", r)

ConfirmDelete(r) == slice = "customers" /\ Detailed(r) /\ Submit("delete", r)

------------------------------------------------------------------------------
(* Answers. *)

Rest(i) == RemoveAt(flight, i)

\* A fetch that another one was sent before, and that matters to the same rows.
Overtakes(i) ==
  \E j \in 1..(i - 1) :
    /\ {flight[j].kind, flight[i].kind} \subseteq Fetch
    /\ flight[j].kind = flight[i].kind \/ slice = "customers"

Arrives(i) == overtaken' = (overtaken \/ Overtakes(i)) /\ UNCHANGED slice

ListAnswered(i, q, rows, entities) ==
  /\ flight[i].kind = "list" /\ flight[i].arg = q
  /\ store' = [store EXCEPT !.status = "succeeded", !.ids = rows, !.entities = entities]
  /\ flight' = Rest(i)
  /\ UNCHANGED shown
  /\ Arrives(i)

\* Customers, users and the dashboard keep the rows of the page only.
PageReplaces(i, q, rows) == slice # "interactions" /\ ListAnswered(i, q, rows, rows)

\* A page of interactions is merged into those there are.
PageMerges(i, q, rows) ==
  slice = "interactions" /\ ListAnswered(i, q, rows, store.entities \cup rows)

DetailAnswered(i) ==
  /\ flight[i].kind = "detail"
  /\ store' = [store EXCEPT !.detail = "succeeded", !.entities = @ \cup {flight[i].arg}]
  /\ flight' = Rest(i)
  /\ UNCHANGED shown
  /\ Arrives(i)

\* router.push to the row, whether or not the form is still there.
Saved(i, r) ==
  /\ MountRow("detail", r, Rest(i), [store EXCEPT !.entities = @ \cup {r}])
  /\ Arrives(i)

Created(i, r) == flight[i].kind = "create" /\ Saved(i, r)
Updated(i, r) == flight[i].kind = "update" /\ flight[i].arg = r /\ Saved(i, r)

\* Mutant: the id stays in the list.
RemovedFromEntities(i, q) ==
  /\ flight[i].kind = "delete"
  /\ MountList(q, Rest(i), [store EXCEPT !.entities = @ \ {flight[i].arg}])
  /\ Arrives(i)

\* router.push to the list.
Removed(i, q) ==
  LET r == flight[i].arg
  IN /\ flight[i].kind = "delete"
     /\ MountList(q, Rest(i),
              [store EXCEPT !.entities = @ \ {r}, !.ids = @ \ {r}])
     /\ Arrives(i)

Pressed(i, entities) ==
  /\ store' = [store EXCEPT !.busy = @ \ {flight[i].arg}, !.entities = entities]
  /\ flight' = Rest(i)
  /\ UNCHANGED shown
  /\ Arrives(i)

\* A changed user is stored; a deactivated one, or the insight of an interaction,
\* is changed in place if the row is still there.
UserUpdated(i) ==
  flight[i].kind = "updateUser" /\ Pressed(i, store.entities \cup {flight[i].arg})
UserDeactivated(i) == flight[i].kind = "deactivateUser" /\ Pressed(i, store.entities)
InsightRegenerated(i) == flight[i].kind = "regenerate" /\ Pressed(i, store.entities)

\* Any request may be refused, time out or get lost.
Fails(i, s) ==
  /\ store' = s
  /\ flight' = Rest(i)
  /\ UNCHANGED shown
  /\ Arrives(i)

ListFails(i) == flight[i].kind = "list" /\ Fails(i, [store EXCEPT !.status = "failed"])
DetailFails(i) == flight[i].kind = "detail" /\ Fails(i, [store EXCEPT !.detail = "failed"])
SubmitFails(i) == flight[i].kind \in Awaited /\ Fails(i, store)

\* Mutant: no case for the rejected mutation.
PressFailsUnheard(i) == flight[i].kind \in InRow /\ Fails(i, store)

PressFails(i) ==
  /\ flight[i].kind \in InRow
  /\ Fails(i, [store EXCEPT !.busy = @ \ {flight[i].arg}])

------------------------------------------------------------------------------
StoresInit ==
  /\ slice \in Slices
  /\ store = [status |-> "idle", ids |-> {}, entities |-> {}, detail |-> "idle", busy |-> {}]
  /\ shown = [kind |-> "other", arg |-> NoArg]
  /\ flight = <<>>
  /\ overtaken = FALSE

Visit ==
  \/ \E q \in Query : ShowList(q)
  \/ \E r \in Row, kind \in {"detail", "edit"} : ShowRow(kind, r)
  \/ Leave

Click ==
  \/ \E r \in Row : \/ \E kind \in InRow : PressUser(kind, r)
                    \/ PressRetry(r)
                    \/ SubmitEdit(r)
                    \/ ConfirmDelete(r)
  \/ SubmitNew

Answer(i) ==
  \/ \E q \in Query : \/ \E rows \in SUBSET Matching[q] : PageReplaces(i, q, rows)
                      \/ \E rows \in SUBSET Matching[q] : PageMerges(i, q, rows)
                      \/ Removed(i, q)
  \/ \E r \in Row : Created(i, r) \/ Updated(i, r)
  \/ DetailAnswered(i)
  \/ UserUpdated(i) \/ UserDeactivated(i) \/ InsightRegenerated(i)

Failure(i) == ListFails(i) \/ DetailFails(i) \/ SubmitFails(i) \/ PressFails(i)

StoresNext == Visit \/ Click \/ \E i \in DOMAIN flight : Answer(i) \/ Failure(i)

StoresSpec == StoresInit /\ [][StoresNext]_storeVars

------------------------------------------------------------------------------
(* Properties. *)

\* A form is sent once: a page awaits one answer at most, however often it was
\* left and mounted again.
StoresTypeOK ==
  /\ slice \in Slices
  /\ store \in Stores
  /\ shown \in Pages
  /\ flight \in Seq(Requests) /\ Len(flight) <= MaxFlight
  /\ overtaken \in BOOLEAN
  /\ \A i, j \in DOMAIN flight : flight[i].here /\ flight[j].here => i = j

\* The tables look up each id of the list in entities and read its fields: no
\* order of answers, deletions and failures leaves an id without its row.
RowsRenderable == store.ids \subseteq store.entities

\* Nothing spins for ever: what is shown as loading is under way, and the rows
\* whose buttons are disabled are those with a mutation under way, one for each.
SpinnersHonest ==
  /\ store.status = "loading" => UnderWay("list")
  /\ store.detail = "loading" => UnderWay("detail")
  /\ store.busy = {flight[i].arg : i \in {j \in DOMAIN flight : flight[j].kind \in InRow}}
  /\ \A i, j \in DOMAIN flight :
       {flight[i].kind, flight[j].kind} \subseteq InRow /\ flight[i].arg = flight[j].arg => i = j

\* When no page or row is awaited any more and no answer has overtaken an older
\* one, the page shows what it asked for: the rows of its filter, or its row.
\* (Answers that do overtake put old rows under new filters.)
InOrderShowsSelected ==
  ~overtaken /\ ~UnderWay("list") /\ ~UnderWay("detail") =>
    /\ shown.kind = "list" /\ store.status = "succeeded" => store.ids \subseteq Matching[shown.arg]
    /\ shown.kind \in {"detail", "edit"} /\ store.detail = "succeeded" =>
         shown.arg \in store.entities
=============================================================================
