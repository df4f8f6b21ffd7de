------------------------------- MODULE MCRows -------------------------------
(***************************************************************************)
(* The rows of users, customers and interactions: who may write them, how  *)
(* they are listed, what the browser keeps of them, how a form changes     *)
(* one, and the series that the dashboard makes of many. The five parts    *)
(* share no state, and each behaviour is one of a part.                    *)
(***************************************************************************)
EXTENDS AccessControl, Listing, FrontendStores, EditForms, TrendSeries

CONSTANTS q1, x

VARIABLE part     \* what the behaviour is one of

rowsVars == <<accessVars, listVars, storeVars, formVars, trendVars, part>>

Edit(role, active) == [role |-> role, active |-> active]
MCUserEdits == {Edit("csm", Unset), Edit("admin", TRUE)}
MCNewRoles == {"manager"}
MCMatching == [q \in Query |-> IF q = q1 THEN {x} ELSE Row]
MCOfCustomer == {q1}
Symmetry == Permutations(User) \cup Permutations(Request) \cup Permutations(Text)

Writing(A) == part = "writes" /\ A /\ UNCHANGED <<listVars, storeVars, formVars, trendVars, part>>
Paging(A) == part = "lists" /\ A /\ UNCHANGED <<accessVars, storeVars, formVars, trendVars, part>>
Showing(A) == part = "stores" /\ A /\ UNCHANGED <<accessVars, listVars, formVars, trendVars, part>>
Editing(A) == part = "forms" /\ A /\ UNCHANGED <<accessVars, listVars, storeVars, trendVars, part>>
Drawing(A) == part = "trend" /\ A /\ UNCHANGED <<accessVars, listVars, storeVars, formVars, part>>

Served(r) ==
  \/ Writing(Register(r)) \/ Writing(Authenticate(r))
  \/ Writing(LoadUser(r)) \/ Writing(LoadCustomer(r)) \/ Writing(LoadInteraction(r))
  \/ Writing(WriteNewUser(r)) \/ Writing(WriteUser(r))
  \/ Writing(WriteNewCustomer(r)) \/ Writing(WriteCustomer(r)) \/ Writing(DeleteCustomer(r))
  \/ Writing(WriteNewInteraction(r)) \/ Writing(WriteInteraction(r)) \/ Writing(DeleteInteraction(r))
  \/ Writing(WriteFails(r))

Paged ==
  \/ \E f \in Forms : Paging(EditForm(f))
  \/ Paging(Apply) \/ Paging(NextPage) \/ Paging(PreviousPage)
  \/ Paging(Count) \/ Paging(SelectPage)
  \/ \E i \in Item : Paging(ChangeRow(i))

Browsed ==
  \/ \E q \in Query : Showing(ShowList(q))
  \/ \E r \in Row : \/ \E kind \in {"detail", "edit"} : Showing(ShowRow(kind, r))
                    \/ \E kind \in InRow : Showing(PressUser(kind, r))
                    \/ Showing(PressRetry(r)) \/ Showing(SubmitEdit(r)) \/ Showing(ConfirmDelete(r))
  \/ Showing(Leave) \/ Showing(SubmitNew)

Delivered(i) ==
  \/ \E q \in Query : \/ \E rows \in SUBSET Matching[q] : \/ Showing(PageReplaces(i, q, rows))
                                                        \/ Showing(PageMerges(i, q, rows))
                      \/ Showing(Removed(i, q))
  \/ \E r \in Row : Showing(Created(i, r)) \/ Showing(Updated(i, r))
  \/ Showing(DetailAnswered(i))
  \/ Showing(UserUpdated(i)) \/ Showing(UserDeactivated(i)) \/ Showing(InsightRegenerated(i))
  \/ Showing(ListFails(i)) \/ Showing(DetailFails(i)) \/ Showing(SubmitFails(i))
  \/ Showing(PressFails(i))

Edited ==
  \/ Editing(ListFetched) \/ Editing(DetailFetched) \/ Editing(UserFetched)
  \/ Editing(Save) \/ Editing(LeaveForm) \/ Editing(RowDropped)
  \/ \E byButton \in BOOLEAN : Editing(OpenForm(byButton))
  \/ Editing(Patch) \/ Editing(PatchUnheard) \/ Editing(PatchRefused)
  \/ \E f \in Field : \/ \E v \in InputsOf(f) : Editing(Enter(f, v))
                      \/ \E v \in ColumnsOf(f) : Editing(OtherEdits(f, v))
  \/ \E to \in UserRole : Editing(RoleChanged(to))

Drawn ==
  \/ Drawing(Tick) \/ Drawing(SentimentTrend) \/ Drawing(TrendAnswered)
  \/ Drawing(Unmount) \/ Drawing(Mount)
  \/ \E t \in 0..Horizon : Drawing(Meet(t))

\* The rows that are edited hold one text in all their fields, or no value; and
\* a part that a behaviour is not one of starts in one way.
RowsInit ==
  /\ part \in {"writes", "lists", "stores", "forms", "trend"}
  /\ FormsInit
  /\ record.email.who = record.text /\ {record.phone, record.optional} \subseteq {record.text, NoValue}
  /\ subject = "customer" => record.when = Wall(record.when)
  /\ subject = "interaction" => record.phone = NoValue
  /\ part # "forms" =>
       /\ subject = "customer" /\ userRole = "manager" /\ record.owner = Me
       /\ record.phone = NoValue /\ record.optional = NoValue
       /\ record.text = (CHOOSE t \in Text : TRUE)
  /\ AccessInit
  /\ part # "writes" => \A u \in User : users[u] = [role |-> "admin", active |-> TRUE]
  /\ ListInit
  /\ part # "lists" => form.order = "asc" /\ \A i \in Item : table[i] = Absent
  /\ StoresInit /\ TrendInit
  /\ part # "stores" => slice = "dashboard"

RowsNext ==
  \/ \E r \in Request : Served(r)
  \/ Paged
  \/ Browsed
  \/ \E i \in DOMAIN flight : Delivered(i)
  \/ Edited
  \/ Drawn

RowsSpec == RowsInit /\ [][RowsNext]_rowsVars
=============================================================================
