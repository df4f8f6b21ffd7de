----------------------------- MODULE EditForms -----------------------------
(***************************************************************************)
(* One user edits a row, a customer or an interaction, that others may     *)
(* change meanwhile. The form is filled once, from the row as the store of *)
(* the browser holds it when the page is mounted; what is fetched later    *)
(* changes the store and not the form. Saving sends every field of the     *)
(* form, touched or not, converted back from what an input can hold. The   *)
(* pages go by the role that the browser remembers of its user, the server *)
(* by the one in the database.                                             *)
(***************************************************************************)
EXTENDS Naturals, FiniteSets

CONSTANTS
  Person, Me,   \* who may own a row, and the user of this browser
  Text,         \* values of a text, a choice or a number
  Minutes,      \* what a clock on the wall shows
  NoValue, Blank, \* no value in the database, and an empty input
  Missing,      \* a field that an answer of the server does not have
  NoRow, NotSent,
  MaxEdits, MaxOthers   \* bounds of the model

\* An instant is a minute on the wall, a second of it, and whether the clock
\* shows that minute for the second time, having been set back. An address may
\* have capitals in it and blanks around it.
Instant == [minute : Minutes, second : {0, 1}, fold : {0, 1}]
Address == [who : Text, spelt : {"plain", "anyhow"}]

ASSUME FormsAssumption ==
  /\ Me \in Person
  /\ NoValue \notin Text /\ Missing \notin Text /\ Blank \notin Text \cup Person
  /\ Missing # NoValue
  /\ NotSent \notin Text \cup Person \cup {NoValue} \cup Instant \cup Address
  /\ {NoValue, Missing, Blank} \cap (Instant \cup Address) = {}
  /\ MaxEdits \in Nat /\ MaxOthers \in Nat

VARIABLES
  subject,      \* "customer" or "interaction"
  userRole,     \* this user's, in the database: "csm", "manager" (or an
                \* administrator), or "inactive"
  cachedRole,   \* the role of state.auth.user
  record,       \* the row in the database
  cached,       \* entities[id], the row in the store
  fields,       \* what the form holds, or NoRow while it is not mounted
  payload,      \* the PATCH that is under way
  seen,         \* history: the row that the form was filled from
  submitted,    \* history: what the form held when it was sent
  offered,      \* history: the form was reached by the button Edit
  steady,       \* history: the browser has known the role since the form was filled
  touched,      \* history: the fields that the user has set
  edits, others \* history: how many changes there were

formVars == <<subject, userRole, cachedRole, record, cached, fields, payload, seen, submitted,
              offered, steady, touched, edits, others>>

\* text is name, company, status, health_score, type, title and notes; optional
\* is industry, arr and duration_minutes; when is occurred_at; owner is owner_id
\* of a customer, user_id of an interaction.
Field == {"text", "email", "phone", "optional", "when", "owner"}

ColumnsOf(f) ==
  CASE f = "text" -> Text [] f = "email" -> [who : Text, spelt : {"plain"}]
    [] f \in {"phone", "optional"} -> Text \cup {NoValue}
    [] f = "when" -> Instant [] f = "owner" -> Person

Records == [text : Text, email : ColumnsOf("email"), phone : Text \cup {NoValue},
            optional : Text \cup {NoValue}, when : Instant, owner : Person]

\* Rows of a list of customers have no phone.
CachedRows == [text : Text, email : ColumnsOf("email"), phone : Text \cup {NoValue, Missing},
         optional : Text \cup {NoValue}, when : Instant, owner : Person]

\* customerFormSchema, interactionFormSchema. The select of an owner is never
\* filled from the row: blank leaves the owner as it is.
Inputs == [text : Text, email : Address, phone : Text \cup {Blank},
           optional : Text \cup {Blank}, when : Instant, owner : Person \cup {Blank}]

\* The fields of the two forms, but for the select of the owner.
Shown == {"text", "optional"} \cup
         (IF subject = "customer" THEN {"email", "phone"} ELSE {"when"})

------------------------------------------------------------------------------
(* Conversions. *)

\* toDatetimeLocal and back: an input of type datetime-local has no seconds and
\* no time zone, and a minute that comes twice is read as its first time.
Wall(t) == [minute |-> t.minute, second |-> 0, fold |-> 0]

\* _lower, which also strips.
Lower(address) == [who |-> address.who, spelt |-> "plain"]

\* The default values of the form.
Filled(row) ==
  [f \in Field |-> CASE f = "owner" -> Blank
                     [] f = "when" -> Wall(row.when)
                     [] OTHER -> IF row[f] \in {NoValue, Missing} THEN Blank ELSE row[f]]

\* Mutant: the select of the owner is sent by everybody.
ConvertedWithOwner(form) ==
  [f \in Field |->
     IF f \in Shown THEN (IF form[f] = Blank THEN NoValue ELSE form[f])
     ELSE IF f # "owner" THEN NotSent ELSE IF form.owner = Blank THEN Me ELSE form.owner]

\* submit: an empty input is sent as null, and the owner of a customer if one was
\* chosen, for which the browser must take its user for a manager.
Converted(form) ==
  [f \in Field |->
     IF f \in Shown THEN (IF form[f] = Blank THEN NoValue ELSE form[f])
     ELSE IF /\ f = "owner" /\ subject = "customer" /\ cachedRole = "manager"
             /\ form.owner # Blank
       THEN form.owner ELSE NotSent]

------------------------------------------------------------------------------
(* Rights, of the page and of the server. *)

\* Mutant: the button is shown to everybody.
OfferedToAll(row) == TRUE

\* canEdit of the two detail pages.
Offered(row) == cachedRole = "manager" \/ row.owner = Me

\* get_current_user, then _assert_can_access and _resolve_owner_id for a customer,
\* _assert_can_update for an interaction.
Accepted(row, sent) ==
  \/ userRole = "manager"
  \/ (userRole = "csm" /\ row.owner = Me /\ sent.owner \in {NotSent, Me})

\* Who is answered with the row. Whether this user may read the customer of an
\* interaction is left open.
Readable ==
  \/ userRole = "manager"
  \/ (userRole = "csm" /\ (subject = "customer" => record.owner = Me))

------------------------------------------------------------------------------
(* The browser. *)

Mounted == fields # NoRow
Sending == payload # NoRow

\* What is remembered of a form, until it is gone and nothing it sent is under way.
Remember(until) ==
  \/ ~until /\ UNCHANGED <<seen, submitted, offered, steady, touched>>
  \/ /\ until
     /\ seen' = NoRow /\ submitted' = NoRow
     /\ offered' = FALSE /\ steady' = FALSE /\ touched' = {}

Cache(row) ==
  /\ cached' = row
  /\ UNCHANGED <<subject, userRole, cachedRole, record, fields, payload, seen, submitted,
                 offered, steady, touched, edits, others>>

\* A list has asked for its rows: CustomerListItem has no phone.
ListFetched ==
  /\ Readable
  /\ Cache(IF subject = "customer" THEN [record EXCEPT !.phone = Missing] ELSE record)

\* A detail page or the edit page itself has asked for the row.
DetailFetched == Readable /\ Cache(record)

\* The user is answered by /auth/refresh or PATCH /auth/me.
UserFetched ==
  /\ userRole \notin {"inactive", cachedRole}
  /\ cachedRole' = userRole
  /\ UNCHANGED <<subject, userRole, record, cached, fields, payload, seen, submitted,
                 offered, steady, touched, edits, others>>

\* By the button, or by the page's address. (No second form is filled here while
\* the PATCH of the first is under way.)
OpenForm(byButton) ==
  /\ ~Mounted /\ ~Sending /\ cached # NoRow
  /\ byButton => Offered(cached)
  /\ fields' = Filled(cached)
  /\ seen' = cached
  /\ offered' = byButton
  /\ steady' = (userRole = cachedRole)
  /\ touched' = {}
  /\ UNCHANGED <<subject, userRole, cachedRole, record, cached, payload, submitted, edits, others>>

\* No input for the owner of an interaction, nor for those who may not assign.
Inputtable(f) ==
  f \in Shown \/ (f = "owner" /\ subject = "customer" /\ cachedRole = "manager")

\* (No minute that the clock skips, set forward, is entered.)
InputsOf(f) ==
  CASE f = "text" -> Text [] f = "email" -> Address
    [] f \in {"phone", "optional"} -> Text \cup {Blank}
    [] f = "when" -> {Wall(t) : t \in Instant} [] f = "owner" -> Person \cup {Blank}

Enter(f, v) ==
  /\ Mounted /\ Inputtable(f)
  /\ edits < MaxEdits
  /\ fields[f] # v
  /\ fields' = [fields EXCEPT ![f] = v]
  /\ touched' = touched \cup {f}
  /\ edits' = edits + 1
  /\ UNCHANGED <<subject, userRole, cachedRole, record, cached, payload, seen, submitted,
                 offered, steady, others>>

Save ==
  /\ Mounted /\ ~Sending
  /\ payload' = Converted(fields)
  /\ submitted' = fields
  /\ UNCHANGED <<subject, userRole, cachedRole, record, cached, fields, seen, offered, steady,
                 touched, edits, others>>

\* What was sent is still under way.
LeaveForm ==
  /\ Mounted
  /\ fields' = NoRow
  /\ Remember(~Sending)
  /\ UNCHANGED <<subject, userRole, cachedRole, record, cached, payload, edits, others>>

\* A list without the row is shown, or the store is emptied by a reload: there is
\* nothing left to mount the form on.
RowDropped ==
  /\ cached' = NoRow
  /\ fields' = NoRow
  /\ Remember(~Sending)
  /\ UNCHANGED <<subject, userRole, cachedRole, record, payload, edits, others>>

------------------------------------------------------------------------------
(* The server. *)

\* model_dump(exclude_unset), the validators, and setattr of each field.
Patched(row, sent) ==
  [f \in Field |-> IF sent[f] = NotSent THEN row[f]
                   ELSE IF f = "email" THEN Lower(sent[f]) ELSE sent[f]]

\* The PATCH is committed and answered, and the form gives way to the detail page.
Patch ==
  /\ Sending /\ Accepted(record, payload)
  /\ record' = Patched(record, payload)
  /\ cached' = record'
  /\ fields' = NoRow /\ payload' = NoRow
  /\ Remember(TRUE)
  /\ UNCHANGED <<subject, userRole, cachedRole, edits, others>>

\* It is committed and its answer is lost: the form shows an error and may be
\* sent again.
PatchUnheard ==
  /\ Sending /\ Accepted(record, payload)
  /\ record' = Patched(record, payload)
  /\ payload' = NoRow
  /\ Remember(~Mounted)
  /\ UNCHANGED <<subject, userRole, cachedRole, cached, fields, edits, others>>

\* Refused, for the user's rights or a duplicate email address, or lost.
PatchRefused ==
  /\ Sending
  /\ payload' = NoRow
  /\ Remember(~Mounted)
  /\ UNCHANGED <<subject, userRole, cachedRole, record, cached, fields, edits, others>>

\* Someone else changes a field. The author of an interaction never changes.
OtherEdits(f, v) ==
  /\ others < MaxOthers
  /\ f \in Shown \/ (f = "owner" /\ subject = "customer")
  /\ record[f] # v
  /\ record' = [record EXCEPT ![f] = v]
  /\ others' = others + 1
  /\ UNCHANGED <<subject, userRole, cachedRole, cached, fields, payload, seen, submitted,
                 offered, steady, touched, edits>>

UserRole == {"csm", "manager", "inactive"}

\* An administrator changes this user's role, or deactivates the account.
RoleChanged(to) ==
  /\ others < MaxOthers
  /\ userRole # to
  /\ userRole' = to
  /\ steady' = FALSE
  /\ others' = others + 1
  /\ UNCHANGED <<subject, cachedRole, record, cached, fields, payload, seen, submitted,
                 offered, touched, edits>>

------------------------------------------------------------------------------
FormsInit ==
  /\ subject \in {"customer", "interaction"}
  /\ userRole \in {"csm", "manager"} /\ cachedRole = userRole
  /\ record \in Records
  /\ cached = NoRow /\ fields = NoRow /\ payload = NoRow
  /\ seen = NoRow /\ submitted = NoRow
  /\ offered = FALSE /\ steady = FALSE /\ touched = {}
  /\ edits = 0 /\ others = 0

FormsNext ==
  \/ ListFetched \/ DetailFetched \/ UserFetched \/ Save \/ LeaveForm \/ RowDropped
  \/ \E byButton \in BOOLEAN : OpenForm(byButton)
  \/ Patch \/ PatchUnheard \/ PatchRefused
  \/ \E f \in Field : \/ \E v \in InputsOf(f) : Enter(f, v)
                      \/ \E v \in ColumnsOf(f) : OtherEdits(f, v)
  \/ \E to \in UserRole : RoleChanged(to)

FormsSpec == FormsInit /\ [][FormsNext]_formVars

------------------------------------------------------------------------------
(* Properties. *)

\* Saving a form stores what it showed, and changes no field that its user has
\* not set, however stale the store is and however often the form is sent:
\* unless someone else has changed that field since the form was filled (the
\* form then puts the old value back), it is a time with seconds or of an hour
\* that comes twice (it becomes what the input showed), or it is the phone of a
\* form that was filled from a row of the list (it is erased).
SavesOnlyEdits ==
  [][payload # NoRow /\ payload' = NoRow /\ record' # record =>
       /\ \A f \in Field : record'[f] # record[f] =>
            \/ f \in touched
            \/ seen[f] = Missing /\ record'[f] = NoValue
            \/ record[f] # seen[f] /\ seen[f] # Missing
            \/ f = "when" /\ record'[f] = Wall(record[f])
       /\ \A f \in Shown : Filled(record')[f] =
            IF f = "email" THEN Lower(submitted.email) ELSE submitted[f]]_formVars

\* A form that the button Edit has led to is not refused for its user's rights,
\* unless the customer was reassigned since, or the user's role is, or for a
\* while was, another than the browser took it for.
OfferedIsAccepted ==
  Sending /\ offered /\ steady /\ record.owner = seen.owner => Accepted(record, payload)
=============================================================================
