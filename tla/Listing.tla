------------------------------ MODULE Listing ------------------------------
(***************************************************************************)
(* A paged list of rows, from the table to the buttons under it. The       *)
(* server answers with two statements, the count of the rows that match    *)
(* and the rows of one page in the order asked for; the page derives from  *)
(* the count which pages there are, and asks for the next one with what    *)
(* its filter form holds by then, whether that was applied or not.         *)
(***************************************************************************)
EXTENDS Integers, FiniteSets

CONSTANTS
  Item,         \* ids, ordered as numbers
  Key,          \* values of the column that rows are sorted by
  Null,         \* no such value, as in customers.arr
  Filter, Unfiltered,  \* what the form selects, and its empty value
  PageSize,
  MaxChanges,   \* rows that others change, a bound of the model
  Absent, Broken

ASSUME ListingAssumption ==
  /\ Item \subseteq Nat /\ IsFiniteSet(Item)
  /\ Key \subseteq Nat /\ Null \notin Key
  /\ Unfiltered \in Filter
  /\ PageSize \in Nat \ {0} /\ MaxChanges \in Nat

VARIABLES
  table,        \* the rows this user may see, or Absent
  form,         \* the filters as they are in the form
  asked,        \* the last request
  phase,        \* the statement it is at, or "shown"
  total, items, \* its answer
  walk,         \* history: how often each row was shown since page 1, or Broken
  changes       \* history: how many rows others have changed

listVars == <<table, form, asked, phase, total, items, walk, changes>>

ItemRow == [key : Key \cup {Null}, matches : {fs \in SUBSET Filter : Unfiltered \in fs}]
Forms == [filter : Filter, order : {"asc", "desc"}]

\* apply_customer_scope and the where clauses.
Found(filter) == {i \in Item : table[i] # Absent /\ filter \in table[i].matches}

\* Mutant: rows with the same value come in any order.
BeforeByKey(i, j, order) ==
  LET a == table[i].key
      b == table[j].key
  IN /\ a # Null
     /\ b = Null \/ (IF order = "desc" THEN a > b ELSE a < b)

\* ORDER BY column DESC NULLS LAST, id.
Before(i, j, order) ==
  LET a == table[i].key
      b == table[j].key
  IN \/ /\ a # Null
        /\ b = Null \/ (IF order = "desc" THEN a > b ELSE a < b)
     \/ a = b /\ i < j

\* Every order of rows that ORDER BY allows, by the rank of each.
Rankings(rows, order) ==
  {rank \in [rows -> 0..(Cardinality(rows) - 1)] :
     \A i, j \in rows : i # j => /\ rank[i] # rank[j]
                                 /\ Before(i, j, order) => rank[i] < rank[j]}

\* max(1, ceil(total / page_size)), of the server and of Pagination.
TotalPages(n) == IF n = 0 THEN 1 ELSE (n + PageSize - 1) \div PageSize

------------------------------------------------------------------------------
NoneShown == [i \in Item |-> 0]

AskFor(page, what) ==
  /\ asked' = [page |-> page, form |-> what]
  /\ phase' = "count"
  /\ UNCHANGED <<table, total, items, changes>>

EditForm(f) ==
  /\ phase = "shown" /\ f # form
  /\ form' = f
  /\ UNCHANGED <<table, asked, phase, total, items, walk, changes>>

Apply ==
  /\ phase = "shown"
  /\ AskFor(1, form)
  /\ walk' = NoneShown
  /\ UNCHANGED form

HasNext == asked.page < TotalPages(total)

NextPage ==
  /\ phase = "shown" /\ HasNext
  /\ AskFor(asked.page + 1, form)
  /\ walk' = IF form = asked.form THEN walk ELSE Broken
  /\ UNCHANGED form

\* Mutant: the button is not disabled on the first page.
PreviousAlways ==
  /\ phase = "shown"
  /\ AskFor(asked.page - 1, form)
  /\ walk' = Broken
  /\ UNCHANGED form

\* No buttons are shown if there is one page only.
PreviousPage ==
  /\ phase = "shown" /\ asked.page > 1 /\ TotalPages(total) > 1
  /\ AskFor(asked.page - 1, form)
  /\ walk' = Broken
  /\ UNCHANGED form

Count ==
  /\ phase = "count"
  /\ total' = Cardinality(Found(asked.form.filter))
  /\ phase' = "select"
  /\ UNCHANGED <<table, form, asked, items, walk, changes>>

SelectPage ==
  LET rows == Found(asked.form.filter)
      offset == (asked.page - 1) * PageSize
  IN /\ phase = "select"
     /\ \E rank \in Rankings(rows, asked.form.order) :
          items' = {i \in rows : rank[i] \in offset..(offset + PageSize - 1)}
     /\ phase' = "shown"
     /\ walk' = IF walk = Broken THEN Broken
                ELSE [i \in Item |-> walk[i] + IF i \in items' THEN 1 ELSE 0]
     /\ UNCHANGED <<table, form, asked, total, changes>>

\* Someone else creates, changes or deletes a row, between any two statements.
ChangeRow(i) ==
  /\ changes < MaxChanges
  /\ \E row \in ItemRow \cup {Absent} : row # table[i] /\ table' = [table EXCEPT ![i] = row]
  /\ changes' = changes + 1
  /\ walk' = Broken
  /\ UNCHANGED <<form, asked, phase, total, items>>

------------------------------------------------------------------------------
ListInit ==
  /\ table \in [Item -> ItemRow \cup {Absent}]
  /\ form \in Forms /\ form.filter = Unfiltered
  /\ asked = [page |-> 1, form |-> form]
  /\ phase = "count"
  /\ total = 0 /\ items = {}
  /\ walk = NoneShown
  /\ changes = 0

ListNext ==
  \/ \E f \in Forms : EditForm(f)
  \/ Apply \/ NextPage \/ PreviousPage \/ Count \/ SelectPage
  \/ \E i \in Item : ChangeRow(i)

ListSpec == ListInit /\ [][ListNext]_listVars

------------------------------------------------------------------------------
(* Properties. *)

\* No request asks for a page before the first, and no page has more rows than
\* its size, whatever the form and the table have become since.
ListTypeOK ==
  /\ table \in [Item -> ItemRow \cup {Absent}]
  /\ form \in Forms
  /\ asked \in [page : Nat \ {0}, form : Forms]
  /\ phase \in {"count", "select", "shown"}
  /\ total \in 0..Cardinality(Item)
  /\ items \subseteq Item /\ Cardinality(items) <= PageSize
  /\ walk = Broken \/ walk \in [Item -> Nat]
  /\ changes \in 0..MaxChanges

\* Paging from the first page to the last shows every row that matches exactly
\* once, although many have the same value of the sorted column or none, and
\* every page is one statement of its own.
WalkShowsEachOnce ==
  phase = "shown" /\ walk # Broken /\ ~HasNext =>
    \A i \in Item : walk[i] = IF i \in Found(asked.form.filter) THEN 1 ELSE 0
=============================================================================
