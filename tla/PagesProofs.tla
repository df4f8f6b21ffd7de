---------------------------- MODULE PagesProofs ----------------------------
(***************************************************************************)
(* What the pages show and save: the forms (EditForms), the paged lists    *)
(* (Listing) and the trend series (TrendSeries), each for all values of    *)
(* its constants. The three share nothing but this module.                 *)
(***************************************************************************)
EXTENDS EditForms, Listing, TrendSeries, FiniteSetTheorems, TLAPS

-----------------------------------------------------------------------------
(* What a form saves, and to whom it is offered, for any rows, persons and *)
(* times. What is under way is the conversion of what was submitted, and   *)
(* what was submitted shows the row the form was filled from wherever its  *)
(* user has set nothing: an invariant, of which both properties follow.    *)

\* The row and its copies, the role and its copy.
RowsTyped ==
  /\ subject \in {"customer", "interaction"}
  /\ userRole \in UserRole /\ cachedRole \in {"csm", "manager"}
  /\ record \in Records
  /\ cached \in CachedRows \cup {NoRow}
  /\ seen \in CachedRows \cup {NoRow}

\* A form that shows what seen has, but for the fields that were set. A time is
\* one that an input can hold.
Shows(input) ==
  /\ seen \in CachedRows
  /\ input \in Inputs
  /\ \A f \in Field \ touched : input[f] = Filled(seen)[f]
  /\ Wall(input.when) = input.when

\* A payload that was made of a form, by a user of either role.
MadeOf(sent, input) ==
  /\ \A f \in Shown : sent[f] = IF input[f] = Blank THEN NoValue ELSE input[f]
  /\ \A f \in Field \ (Shown \cup {"owner"}) : sent[f] = NotSent
  /\ sent["owner"] # NotSent => sent["owner"] = input.owner /\ input.owner # Blank

\* As long as the browser knows the role, a form by the button is one of the
\* owner or of a manager, and only a manager assigns.
Rightful ==
  /\ userRole = cachedRole
  /\ offered => userRole = "manager" \/ seen.owner = Me
  /\ Sending /\ payload["owner"] # NotSent => userRole = "manager"

FormInv ==
  /\ RowsTyped
  /\ Mounted => Shows(fields)
  /\ Sending => Shows(submitted) /\ MadeOf(payload, submitted)
  /\ steady => Rightful

\* What an input shows of a time it shows again.
LEMMA WallOfInstant ==
  \A t \in Instant : Wall(t) \in Instant /\ Wall(Wall(t)) = Wall(t)
BY DEF Wall, Instant

\* The fields of a row, and of a form.
LEMMA FieldsTyped ==
  /\ Records \subseteq CachedRows
  /\ \A row \in CachedRows :
       /\ row.text \in Text /\ row.email \in [who : Text, spelt : {"plain"}]
       /\ row.phone \in Text \cup {NoValue, Missing} /\ row.optional \in Text \cup {NoValue}
       /\ row.when \in Instant /\ row.owner \in Person
  /\ \A input \in Inputs :
       /\ input.text \in Text /\ input.email \in Address
       /\ input.phone \in Text \cup {Blank} /\ input.optional \in Text \cup {Blank}
       /\ input.when \in Instant /\ input.owner \in Person \cup {Blank}
BY DEF Records, CachedRows, Inputs, ColumnsOf

\* The fields of what a row is shown by.
LEMMA FilledFields ==
  ASSUME NEW row
  PROVE  /\ Filled(row) = [text |-> Filled(row)["text"], email |-> Filled(row)["email"],
                           phone |-> Filled(row)["phone"], optional |-> Filled(row)["optional"],
                           when |-> Filled(row)["when"], owner |-> Filled(row)["owner"]]
         /\ Filled(row)["owner"] = Blank
         /\ Filled(row)["when"] = Wall(row.when)
         /\ \A f \in {"text", "email", "phone", "optional"} :
              Filled(row)[f] = IF row[f] \in {NoValue, Missing} THEN Blank ELSE row[f]
BY DEF Filled, Field

\* A row is shown by inputs.
LEMMA FilledIsInput ==
  ASSUME NEW row \in CachedRows
  PROVE  Filled(row) \in Inputs /\ Wall(Filled(row).when) = Filled(row).when
<1>1. /\ row.text \in Text /\ row.email \in [who : Text, spelt : {"plain"}]
      /\ row.phone \in Text \cup {NoValue, Missing} /\ row.optional \in Text \cup {NoValue}
      /\ row.when \in Instant
  BY FieldsTyped
<1>2. row.email \in Address
  BY <1>1 DEF Address
<1>3. Filled(row)["text"] \in Text /\ Filled(row)["email"] \in Address
  BY <1>1, <1>2, FilledFields, FormsAssumption
<1>4. Filled(row)["phone"] \in Text \cup {Blank} /\ Filled(row)["optional"] \in Text \cup {Blank}
  BY <1>1, FilledFields
<1>5. /\ Filled(row)["when"] \in Instant
      /\ Wall(Filled(row)["when"]) = Filled(row)["when"]
  BY <1>1, WallOfInstant, FilledFields
<1>6. Filled(row)["owner"] = Blank
  BY FilledFields
<1> HIDE DEF Filled
<1> QED
  BY <1>3, <1>4, <1>5, <1>6, FilledFields DEF Inputs

\* What is stored of an address, a text and an optional field.
LEMMA StoredField ==
  ASSUME NEW row, NEW sent, NEW f \in Field
  PROVE  Patched(row, sent)[f] =
           IF sent[f] = NotSent THEN row[f] ELSE IF f = "email" THEN Lower(sent[f]) ELSE sent[f]
BY DEF Patched

\* What is sent can be stored, and then shows what was submitted.
LEMMA PatchStores ==
  ASSUME NEW row \in Records, NEW input \in Inputs, NEW sent, MadeOf(sent, input),
         Wall(input.when) = input.when, subject \in {"customer", "interaction"}
  PROVE  /\ Patched(row, sent) \in Records
         /\ \A f \in Shown : Filled(Patched(row, sent))[f] =
              IF f = "email" THEN Lower(input.email) ELSE input[f]
<1> DEFINE new == Patched(row, sent)
<1>1. /\ input.text \in Text /\ input.email \in Address
      /\ input.phone \in Text \cup {Blank} /\ input.optional \in Text \cup {Blank}
      /\ input.when \in Instant /\ input.owner \in Person \cup {Blank}
  BY FieldsTyped
<1>2. /\ row.text \in Text /\ row.email \in [who : Text, spelt : {"plain"}]
      /\ row.phone \in Text \cup {NoValue} /\ row.optional \in Text \cup {NoValue}
      /\ row.when \in Instant /\ row.owner \in Person
  BY DEF Records, ColumnsOf
<1>3. new["text"] = input.text
  <2>1. sent["text"] = input.text /\ sent["text"] # NotSent
    BY <1>1, FormsAssumption DEF MadeOf, Shown
  <2> QED
    BY <2>1, StoredField DEF Field
<1>4. new["optional"] = IF input.optional = Blank THEN NoValue ELSE input.optional
  <2>1. sent["optional"] = IF input.optional = Blank THEN NoValue ELSE input.optional
    BY DEF MadeOf, Shown
  <2>2. sent["optional"] # NotSent
    BY <2>1, <1>1, FormsAssumption
  <2> QED
    BY <2>1, <2>2, StoredField DEF Field
<1>5. IF subject = "customer"
        THEN new["phone"] = IF input.phone = Blank THEN NoValue ELSE input.phone
        ELSE new["phone"] = row.phone
  <2>1. CASE subject = "customer"
    <3>1. sent["phone"] = IF input.phone = Blank THEN NoValue ELSE input.phone
      BY <2>1 DEF MadeOf, Shown
    <3>2. sent["phone"] # NotSent
      BY <3>1, <1>1, FormsAssumption
    <3> QED
      BY <2>1, <3>1, <3>2, StoredField DEF Field
  <2>2. CASE subject # "customer"
    BY <2>2, StoredField DEF MadeOf, Shown, Field
  <2> QED
    BY <2>1, <2>2
<1>6. IF subject = "customer" THEN new["email"] = Lower(input.email) ELSE new["email"] = row.email
  <2>1. CASE subject = "customer"
    <3>1. sent["email"] = input.email /\ sent["email"] # NotSent
      BY <2>1, <1>1, FormsAssumption DEF MadeOf, Shown
    <3> QED
      BY <2>1, <3>1, StoredField DEF Field
  <2>2. CASE subject # "customer"
    BY <2>2, StoredField DEF MadeOf, Shown, Field
  <2> QED
    BY <2>1, <2>2
<1>7. IF subject = "interaction" THEN new["when"] = input.when ELSE new["when"] = row.when
  <2>1. CASE subject = "interaction"
    <3>1. sent["when"] = input.when /\ sent["when"] # NotSent
      BY <2>1, <1>1, FormsAssumption DEF MadeOf, Shown
    <3> QED
      BY <2>1, <3>1, StoredField DEF Field
  <2>2. CASE subject # "interaction"
    BY <2>2, StoredField DEF MadeOf, Shown, Field
  <2> QED
    BY <2>1, <2>2
<1>8. new["owner"] \in Person
  BY <1>1, <1>2, StoredField DEF MadeOf, Field
<1>9. Lower(input.email) \in [who : Text, spelt : {"plain"}]
  BY <1>1 DEF Lower, Address
<1>10. new = [text |-> new["text"], email |-> new["email"], phone |-> new["phone"],
              optional |-> new["optional"], when |-> new["when"], owner |-> new["owner"]]
  BY DEF Patched, Field
<1>11. new \in Records
  <2> HIDE DEF new
  <2> QED
    BY <1>1, <1>2, <1>3, <1>4, <1>5, <1>6, <1>7, <1>8, <1>9, <1>10 DEF Records, ColumnsOf
<1>12. ASSUME NEW f \in Shown
       PROVE  Filled(new)[f] = IF f = "email" THEN Lower(input.email) ELSE input[f]
  <2> HIDE DEF new
  <2>1. CASE f = "text"
    BY <2>1, <1>1, <1>3, FilledFields, FormsAssumption
  <2>2. CASE f = "optional"
    BY <2>2, <1>1, <1>4, FilledFields, FormsAssumption
  <2>3. CASE f = "phone"
    <3>1. subject = "customer"
      BY <2>3 DEF Shown
    <3> QED
      BY <2>3, <3>1, <1>1, <1>5, FilledFields, FormsAssumption
  <2>4. CASE f = "email"
    <3>1. subject = "customer"
      BY <2>4 DEF Shown
    <3>2. Lower(input.email) \in Address
      BY <1>9 DEF Address
    <3> QED
      BY <2>4, <3>1, <3>2, <1>6, FilledFields, FormsAssumption
  <2>5. CASE f = "when"
    <3>1. subject = "interaction"
      BY <2>5 DEF Shown
    <3> QED
      BY <2>5, <3>1, <1>7, FilledFields
  <2> QED
    BY <2>1, <2>2, <2>3, <2>4, <2>5 DEF Shown
<1> QED
  BY <1>11, <1>12

\* No form is mounted at first.
LEMMA FormInit == FormsInit => FormInv
BY DEF FormsInit, FormInv, RowsTyped, Mounted, Sending, UserRole

\* What a step must leave as it is for what is mounted, and for what is under way.
LEMMA FormKept ==
  ASSUME UNCHANGED <<subject, seen, touched>>
  PROVE  /\ \A input : Shows(input) <=> Shows(input)'
         /\ \A sent, input : MadeOf(sent, input) <=> MadeOf(sent, input)'
BY DEF Shows, MadeOf, Shown, Filled

\* Every step of the browser, the server and the others.
LEMMA FormInductive == FormInv /\ [FormsNext]_formVars => FormInv'
<1> SUFFICES ASSUME FormInv, [FormsNext]_formVars PROVE FormInv'
  OBVIOUS
<1>0. /\ RowsTyped
      /\ Mounted => Shows(fields)
      /\ Sending => Shows(submitted) /\ MadeOf(payload, submitted)
      /\ steady => Rightful
  BY DEF FormInv
<1>1. ASSUME NEW row \in CachedRows, Cache(row) PROVE FormInv'
  <2>1. UNCHANGED <<subject, userRole, cachedRole, record, fields, payload, seen, submitted,
                    offered, steady, touched>>
    BY <1>1 DEF Cache
  <2>2. RowsTyped' /\ (steady => Rightful)'
    BY <1>0, <1>1, <2>1 DEF Cache, RowsTyped, Rightful, Sending
  <2> QED
    BY <1>0, <2>1, <2>2, FormKept DEF FormInv, Mounted, Sending
<1>2. CASE ListFetched
  <2>1. [record EXCEPT !.phone = Missing] \in CachedRows
    BY <1>0 DEF RowsTyped, Records, CachedRows
  <2>2. record \in CachedRows
    BY <1>0, FieldsTyped DEF RowsTyped
  <2> QED
    BY <1>1, <1>2, <2>1, <2>2 DEF ListFetched
<1>3. CASE DetailFetched
  BY <1>0, <1>1, <1>3, FieldsTyped DEF DetailFetched, RowsTyped
<1>4. CASE UserFetched
  <2>1. ~steady /\ UNCHANGED <<subject, userRole, record, cached, fields, payload, seen,
                               submitted, offered, steady, touched>>
    BY <1>0, <1>4 DEF UserFetched, Rightful
  <2>2. RowsTyped'
    BY <1>0, <1>4, <2>1 DEF UserFetched, RowsTyped, UserRole
  <2> QED
    BY <1>0, <2>1, <2>2, FormKept DEF FormInv, Mounted, Sending
<1>5. ASSUME NEW byButton \in BOOLEAN, OpenForm(byButton) PROVE FormInv'
  <2>1. /\ cached \in CachedRows /\ seen' = cached /\ fields' = Filled(cached) /\ touched' = {}
        /\ payload = NoRow /\ UNCHANGED <<subject, userRole, cachedRole, record, cached, payload>>
    BY <1>0, <1>5 DEF OpenForm, RowsTyped, Sending
  <2>2. Shows(fields)'
    <3>1. Filled(cached)' = Filled(seen)'
      BY <2>1 DEF Filled
    <3>2. Filled(cached)' = Filled(cached)
      BY <2>1 DEF Filled
    <3> QED
      BY <2>1, <3>1, <3>2, FilledIsInput DEF Shows
  <2>3. RowsTyped'
    BY <1>0, <2>1 DEF RowsTyped
  <2>4. steady' => Rightful'
    <3> SUFFICES ASSUME steady' PROVE Rightful'
      OBVIOUS
    <3>1. userRole = cachedRole
      BY <1>5 DEF OpenForm
    <3>2. offered' => Offered(cached)
      BY <1>5 DEF OpenForm
    <3> QED
      BY <2>1, <3>1, <3>2 DEF Rightful, Offered, Sending
  <2> QED
    BY <2>1, <2>2, <2>3, <2>4 DEF FormInv, Sending
<1>6. ASSUME NEW f \in Field, NEW v \in InputsOf(f), Enter(f, v) PROVE FormInv'
  <2>1. /\ Shows(fields) /\ fields' = [fields EXCEPT ![f] = v] /\ touched' = touched \cup {f}
        /\ UNCHANGED <<subject, userRole, cachedRole, record, cached, payload, seen, submitted,
                       offered, steady>>
    BY <1>0, <1>6 DEF Enter
  <2>2. fields \in Inputs /\ Wall(fields.when) = fields.when
    BY <2>1 DEF Shows
  <2>3. f = "when" => v \in Instant /\ Wall(v) = v
    BY WallOfInstant DEF InputsOf
  <2>4. fields' \in Inputs
    BY <2>1, <2>2, <2>3 DEF InputsOf, Inputs, Field
  <2>5. Wall(fields'.when) = fields'.when
    BY <2>1, <2>2, <2>3 DEF Inputs, Field
  <2>6. \A g \in Field \ touched' : fields'[g] = Filled(seen)[g]
    BY <2>1, <2>2 DEF Shows, Inputs
  <2>7. Filled(seen)' = Filled(seen)
    BY <2>1 DEF Filled
  <2>8. Shows(fields)'
    BY <2>1, <2>4, <2>5, <2>6, <2>7 DEF Shows
  <2>9. Sending' => Shows(submitted)' /\ MadeOf(payload, submitted)'
    <3> SUFFICES ASSUME Sending' PROVE Shows(submitted)' /\ MadeOf(payload, submitted)'
      OBVIOUS
    <3>1. Shows(submitted) /\ MadeOf(payload, submitted)
      BY <1>0, <2>1 DEF Sending
    <3>2. Shows(submitted)'
      BY <2>1, <2>7, <3>1 DEF Shows
    <3> QED
      BY <2>1, <3>1, <3>2 DEF MadeOf, Shown
  <2>10. RowsTyped' /\ (steady => Rightful)'
    BY <1>0, <2>1 DEF RowsTyped, Rightful, Sending
  <2> QED
    BY <2>8, <2>9, <2>10 DEF FormInv
<1>7. CASE Save
  <2>1. /\ Shows(fields) /\ payload' = Converted(fields) /\ submitted' = fields
        /\ UNCHANGED <<subject, userRole, cachedRole, record, cached, fields, seen, offered,
                       steady, touched>>
    BY <1>0, <1>7 DEF Save
  <2>2. MadeOf(Converted(fields), fields)
    BY DEF MadeOf, Converted, Shown, Field
  <2>3. payload'["owner"] # NotSent => cachedRole = "manager"
    BY <2>1 DEF Converted, Shown, Field
  <2>4. Shows(fields)' /\ Shows(submitted)'
    BY <2>1 DEF Shows, Filled
  <2>5. (steady => Rightful)'
    BY <1>0, <2>1, <2>3 DEF Rightful
  <2>6. MadeOf(payload, submitted)'
    BY <2>1, <2>2 DEF MadeOf, Shown
  <2> QED
    BY <1>0, <2>1, <2>4, <2>5, <2>6 DEF FormInv, RowsTyped
<1>8. ASSUME UNCHANGED <<subject, userRole, cachedRole>>, record' \in Records,
             cached' \in CachedRows \cup {NoRow},
             fields' \in {fields, NoRow}, payload' \in {payload, NoRow},
             Remember(fields' = NoRow /\ payload' = NoRow)
      PROVE  FormInv'
  <2>1. CASE fields' = NoRow /\ payload' = NoRow
    BY <1>0, <1>8, <2>1 DEF Remember, FormInv, RowsTyped, Mounted, Sending
  <2>2. CASE ~(fields' = NoRow /\ payload' = NoRow)
    <3>1. UNCHANGED <<seen, submitted, offered, steady, touched>>
      BY <1>8, <2>2 DEF Remember
    <3>2. RowsTyped' /\ (steady => Rightful)'
      BY <1>0, <1>8, <3>1 DEF RowsTyped, Rightful, Sending
    <3>3. Mounted' => Shows(fields)'
      BY <1>0, <1>8, <3>1 DEF Mounted, Shows, Filled
    <3>4. Sending' => Shows(submitted)'
      BY <1>0, <1>8, <3>1 DEF Sending, Shows, Filled
    <3>5. Sending' => MadeOf(payload, submitted)'
      BY <1>0, <1>8, <3>1 DEF Sending, MadeOf, Shown
    <3> QED
      BY <3>2, <3>3, <3>4, <3>5 DEF FormInv
  <2> QED
    BY <2>1, <2>2
<1>9. CASE LeaveForm
  BY <1>0, <1>8, <1>9 DEF LeaveForm, Sending, RowsTyped
<1>10. CASE RowDropped
  BY <1>0, <1>8, <1>10 DEF RowDropped, Sending, RowsTyped
<1>11. ASSUME Sending PROVE Patched(record, payload) \in Records
  BY <1>0, <1>11, PatchStores DEF RowsTyped, Shows
<1>12. CASE Patch
  BY <1>8, <1>11, <1>12, FieldsTyped DEF Patch, Remember
<1>13. CASE PatchUnheard
  BY <1>0, <1>8, <1>11, <1>13 DEF PatchUnheard, Mounted, RowsTyped
<1>14. CASE PatchRefused
  BY <1>0, <1>8, <1>14 DEF PatchRefused, Mounted, RowsTyped
<1>15. ASSUME NEW f \in Field, NEW v \in ColumnsOf(f), OtherEdits(f, v) PROVE FormInv'
  <2>1. record' = [record EXCEPT ![f] = v]
    BY <1>15 DEF OtherEdits
  <2>2. record' \in Records
    BY <1>0, <2>1 DEF ColumnsOf, RowsTyped, Records, Field
  <2>3. UNCHANGED <<subject, userRole, cachedRole, cached, fields, payload, seen, submitted,
                    offered, steady, touched>>
    BY <1>15 DEF OtherEdits
  <2>4. RowsTyped' /\ (steady => Rightful)'
    BY <1>0, <2>2, <2>3 DEF RowsTyped, Rightful, Sending
  <2> QED
    BY <1>0, <2>3, <2>4, FormKept DEF FormInv, Mounted, Sending
<1>16. ASSUME NEW to \in UserRole, RoleChanged(to) PROVE FormInv'
  <2>1. /\ userRole' \in UserRole /\ ~steady'
        /\ UNCHANGED <<subject, cachedRole, record, cached, fields, payload, seen, submitted,
                       touched>>
    BY <1>16 DEF RoleChanged
  <2>2. RowsTyped'
    BY <1>0, <2>1 DEF RowsTyped
  <2> QED
    BY <1>0, <2>1, <2>2, FormKept DEF FormInv, Mounted, Sending
<1>17. CASE UNCHANGED formVars
  <2>1. RowsTyped' /\ (steady => Rightful)'
    BY <1>0, <1>17 DEF formVars, RowsTyped, Rightful, Sending
  <2> QED
    BY <1>0, <1>17, <2>1, FormKept DEF FormInv, formVars, Mounted, Sending
<1> QED
  BY <1>2, <1>3, <1>4, <1>5, <1>6, <1>7, <1>9, <1>10, <1>12, <1>13, <1>14, <1>15, <1>16, <1>17
     DEF FormsNext

\* What is under way shows the row that the form was filled from, always.
LEMMA FormInvariant == FormsSpec => []FormInv
BY FormInit, FormInductive, PTL DEF FormsSpec

\* The pages' canEdit and canAssignOwner ask for no more than the server grants:
\* with a role that the browser knows, a form that the button Edit has led to is
\* refused only if the customer was given to someone else.
THEOREM OfferedFormIsAccepted == FormsSpec => []OfferedIsAccepted
<1>1. FormInv => OfferedIsAccepted
  <2> SUFFICES ASSUME FormInv, Sending, offered, steady, record.owner = seen.owner
               PROVE  Accepted(record, payload)
    BY DEF OfferedIsAccepted
  <2>1. Rightful /\ userRole \in {"csm", "manager"}
    BY DEF FormInv, RowsTyped, Rightful
  <2>2. CASE userRole = "manager"
    BY <2>2 DEF Accepted
  <2>3. CASE userRole # "manager"
    BY <2>1, <2>3 DEF Accepted, Rightful
  <2> QED
    BY <2>2, <2>3
<1>2. QED
  BY <1>1, FormInvariant, PTL

\* Saving a form stores what it showed and changes no field that its user has not
\* set, but for the edits of others that it puts back, a time that an input does
\* not show whole, and a phone that the row of a list did not have.
THEOREM SavesOnlyWhatWasEdited == FormsSpec => SavesOnlyEdits
<1> DEFINE Excused(f) ==
             \/ f \in touched
             \/ seen[f] = Missing /\ record'[f] = NoValue
             \/ record[f] # seen[f] /\ seen[f] # Missing
             \/ f = "when" /\ record'[f] = Wall(record[f])
           Saves ==
             payload # NoRow /\ payload' = NoRow /\ record' # record =>
               /\ \A f \in Field : record'[f] # record[f] => Excused(f)
               /\ \A f \in Shown : Filled(record')[f] =
                    IF f = "email" THEN Lower(submitted.email) ELSE submitted[f]
<1>1. ASSUME FormInv, [FormsNext]_formVars, payload # NoRow, payload' = NoRow, record' # record
      PROVE  /\ \A f \in Field : record'[f] # record[f] => Excused(f)
             /\ \A f \in Shown : Filled(record')[f] =
                  IF f = "email" THEN Lower(submitted.email) ELSE submitted[f]
  <2>1. record' = Patched(record, payload)
    BY <1>1 DEF FormsNext, formVars, ListFetched, DetailFetched, UserFetched, Cache, OpenForm,
                Enter, Save, LeaveForm, RowDropped, Patch, PatchUnheard, PatchRefused,
                OtherEdits, RoleChanged
  <2>2. /\ record \in Records /\ Shows(submitted) /\ MadeOf(payload, submitted)
        /\ subject \in {"customer", "interaction"}
    BY <1>1 DEF FormInv, RowsTyped, Sending
  <2>3. \A f \in Shown : Filled(Patched(record, payload))[f] =
          IF f = "email" THEN Lower(submitted.email) ELSE submitted[f]
    BY <2>2, PatchStores DEF Shows
  <2>4. Filled(record') = Filled(Patched(record, payload))
    BY <2>1 DEF Filled
  <2>5. /\ seen.text \in Text /\ seen.email \in [who : Text, spelt : {"plain"}]
        /\ seen.phone \in Text \cup {NoValue, Missing} /\ seen.optional \in Text \cup {NoValue}
        /\ seen.when \in Instant
    BY <2>2, FieldsTyped DEF Shows
  <2>6. ASSUME NEW f \in Field, record'[f] # record[f], f \notin touched
        PROVE  Excused(f)
    <3>1. submitted[f] = Filled(seen)[f]
      BY <2>2, <2>6 DEF Shows
    <3>2. payload[f] # NotSent
      BY <2>1, <2>6, StoredField
    <3>3. record'[f] = IF f = "email" THEN Lower(payload[f]) ELSE payload[f]
      BY <2>1, <3>2, StoredField
    <3>4. f # "owner"
      BY <2>2, <3>1, <3>2, FilledFields DEF MadeOf
    <3>5. payload[f] = IF submitted[f] = Blank THEN NoValue ELSE submitted[f]
      BY <2>2, <3>2, <3>4 DEF MadeOf
    <3>6. CASE f = "text"
      <4>1. record'[f] = seen[f] /\ seen[f] # Missing
        BY <2>5, <3>1, <3>3, <3>5, <3>6, FilledFields, FormsAssumption
      <4> QED
        BY <2>6, <4>1
    <3>7. CASE f = "optional"
      <4>1. record'[f] = seen[f] /\ seen[f] # Missing
        BY <2>5, <3>1, <3>3, <3>5, <3>7, FilledFields, FormsAssumption
      <4> QED
        BY <2>6, <4>1
    <3>8. CASE f = "phone"
      <4>1. CASE seen.phone = Missing
        BY <3>1, <3>3, <3>5, <3>8, <4>1, FilledFields
      <4>2. CASE seen.phone # Missing
        <5>1. record'[f] = seen[f]
          BY <2>5, <3>1, <3>3, <3>5, <3>8, <4>2, FilledFields, FormsAssumption
        <5> QED
          BY <2>6, <3>8, <4>2, <5>1
      <4> QED
        BY <4>1, <4>2
    <3>9. CASE f = "email"
      <4>1. seen.email \in Address
        BY <2>5 DEF Address
      <4>2. payload[f] = seen.email /\ seen[f] # Missing
        BY <3>1, <3>5, <3>9, <4>1, FilledFields, FormsAssumption
      <4>3. Lower(seen.email) = seen.email
        BY <2>5 DEF Lower
      <4>4. record'[f] = seen[f]
        BY <3>3, <3>9, <4>2, <4>3
      <4> QED
        BY <2>6, <4>2, <4>4
    <3>10. CASE f = "when"
      <4>1. Wall(seen.when) \in Instant
        BY <2>5, WallOfInstant
      <4>2. record'[f] = Wall(seen.when) /\ seen[f] # Missing
        BY <2>5, <3>1, <3>3, <3>5, <3>10, <4>1, FilledFields, FormsAssumption
      <4> QED
        BY <3>10, <4>2
    <3> QED
      BY <3>4, <3>6, <3>7, <3>8, <3>9, <3>10 DEF Field
  <2> QED
    BY <2>3, <2>4, <2>6
<1>2. FormInv /\ [FormsNext]_formVars => Saves
  BY <1>1
<1>3. FormsSpec => [][Saves]_formVars
  BY <1>2, FormInvariant, PTL DEF FormsSpec
<1>4. QED
  BY <1>3 DEF SavesOnlyEdits

-----------------------------------------------------------------------------
(* Walking a list, for any table, filters and size of a page. ORDER BY ends *)
(* with the id, so that every statement ranks the rows alike; a walk that   *)
(* nobody has disturbed has shown those of the first ranks, once each.      *)

\* The rows before another one.
Predecessors(i, rows, order) == {j \in rows : Before(j, i, order)}
Rank(i, rows, order) == Cardinality(Predecessors(i, rows, order))

\* The order of rows is total: equal values, or none, are told apart by the id.
LEMMA BeforeIsTotal ==
  ASSUME NEW rows \in SUBSET Item, \A i \in rows : table[i] \in ItemRow,
         NEW order, NEW i \in rows, NEW j \in rows
  PROVE  /\ ~Before(i, i, order)
         /\ i # j => Before(i, j, order) \/ Before(j, i, order)
<1>1. table[i].key \in Key \cup {Null} /\ table[j].key \in Key \cup {Null}
  BY DEF ItemRow
<1>2. i \in Nat /\ j \in Nat /\ Key \subseteq Nat /\ Null \notin Key BY ListingAssumption
<1>3. PICK a, b : a = table[i].key /\ b = table[j].key OBVIOUS
<1>4. ~Before(i, i, order)
  <2>1. CASE a = Null BY <1>2, <1>3, <2>1 DEF Before
  <2>2. CASE a # Null
    <3>1. a \in Nat BY <1>1, <1>2, <1>3, <2>2
    <3> QED BY <1>2, <1>3, <3>1 DEF Before
  <2> QED BY <2>1, <2>2
<1>5. ASSUME i # j PROVE Before(i, j, order) \/ Before(j, i, order)
  <2>1. CASE a = b BY <1>2, <1>3, <1>5, <2>1 DEF Before
  <2>2. CASE a # b /\ (a = Null \/ b = Null) BY <1>3, <2>2 DEF Before
  <2>3. CASE a # b /\ a # Null /\ b # Null
    <3>1. a \in Nat /\ b \in Nat BY <1>1, <1>2, <1>3, <2>3
    <3>2. a < b \/ a > b BY <2>3, <3>1
    <3>3. CASE order = "desc" BY <1>3, <2>3, <3>1, <3>2, <3>3 DEF Before
    <3>4. CASE order # "desc" BY <1>3, <2>3, <3>1, <3>2, <3>4 DEF Before
    <3> QED BY <3>3, <3>4
  <2> QED BY <2>1, <2>2, <2>3
<1> QED BY <1>4, <1>5

\* There is one order of the rows that ORDER BY allows: places in it are unique.
LEMMA RankIsUnique ==
  ASSUME NEW rows \in SUBSET Item, \A i \in rows : table[i] \in ItemRow,
         NEW order, NEW rank \in Rankings(rows, order), NEW i \in rows
  PROVE  rank[i] = Rank(i, rows, order)
<1> DEFINE n == Cardinality(rows)
           D == Predecessors(i, rows, order)
           f == [j \in D |-> rank[j]]
<1>1. IsFiniteSet(rows) /\ n \in Nat
  BY ListingAssumption, FS_Subset, FS_CardinalityType
<1>2. /\ rank \in [rows -> 0..(n - 1)]
      /\ \A k, j \in rows : k # j => /\ rank[k] # rank[j]
                                     /\ Before(k, j, order) => rank[k] < rank[j]
  BY DEF Rankings
<1>3. Cardinality(0..(n - 1)) = n /\ IsFiniteSet(0..(n - 1))
  BY <1>1, FS_Interval
<1> HIDE DEF n
<1>4. rank \in Injection(rows, 0..(n - 1)) BY <1>2 DEF Injection, IsInjective
<1>5. rank \in Surjection(rows, 0..(n - 1))
  BY <1>3, <1>4, FS_Injection DEF n
<1>6. rank[i] \in 0..(n - 1) BY <1>2
<1>7. \A j \in rows : Before(j, i, order) <=> rank[j] < rank[i]
  <2> TAKE j \in rows
  <2>1. rank[j] \in Nat /\ rank[i] \in Nat BY <1>1, <1>2 DEF n
  <2>2. CASE j = i
    <3>1. ~Before(i, i, order) BY BeforeIsTotal
    <3>2. ~(rank[i] < rank[i]) BY <2>1
    <3> QED BY <2>2, <3>1, <3>2
  <2>3. CASE j # i
    <3>1. Before(i, j, order) \/ Before(j, i, order) BY <2>3, BeforeIsTotal
    <3> QED BY <1>2, <2>1, <2>3, <3>1
  <2> QED BY <2>2, <2>3
<1>8. \A j \in D : j \in rows /\ rank[j] \in 0..(rank[i] - 1)
  <2>1. \A j \in D : j \in rows /\ rank[j] < rank[i] BY <1>7 DEF Predecessors
  <2>2. \A j \in rows : rank[j] \in Nat BY <1>1, <1>2 DEF n
  <2> QED BY <1>6, <2>1, <2>2
<1>9. f \in Injection(D, 0..(rank[i] - 1))
  BY <1>2, <1>8 DEF Injection, IsInjective
<1>10. f \in Surjection(D, 0..(rank[i] - 1))
  <2>1. ASSUME NEW k \in 0..(rank[i] - 1) PROVE \E j \in D : f[j] = k
    <3>1. k \in 0..(n - 1) /\ k < rank[i] BY <1>1, <1>6 DEF n
    <3>2. PICK j \in rows : rank[j] = k BY <1>5, <3>1 DEF Surjection
    <3>3. j \in D BY <1>7, <3>1, <3>2 DEF Predecessors
    <3> QED BY <3>2, <3>3
  <2>2. f \in [D -> 0..(rank[i] - 1)] BY <1>8
  <2> QED BY <2>1, <2>2 DEF Surjection
<1>11. IsFiniteSet(0..(rank[i] - 1)) /\ Cardinality(0..(rank[i] - 1)) = rank[i]
  <2>1. PICK m \in Nat : m = rank[i] BY <1>1, <1>6 DEF n
  <2>2. /\ IsFiniteSet(0..(m - 1))
        /\ Cardinality(0..(m - 1)) = IF 0 > m - 1 THEN 0 ELSE (m - 1) - 0 + 1
    BY FS_Interval
  <2> QED BY <2>1, <2>2
<1> HIDE DEF f, D
<1>12. Cardinality(D) = rank[i] BY <1>9, <1>10, <1>11, FS_Injection
<1> QED BY <1>12 DEF Rank, D

\* A row comes before the end.
LEMMA RankIsBelow ==
  ASSUME NEW rows \in SUBSET Item, \A i \in rows : table[i] \in ItemRow,
         NEW order, NEW i \in rows
  PROVE  Rank(i, rows, order) \in Nat /\ Rank(i, rows, order) < Cardinality(rows)
<1>1. Predecessors(i, rows, order) \subseteq rows \ {i} BY BeforeIsTotal DEF Predecessors
<1>2. IsFiniteSet(rows) BY ListingAssumption, FS_Subset
<1>3. IsFiniteSet(rows \ {i}) /\ Cardinality(rows \ {i}) = Cardinality(rows) - 1
  BY <1>2, FS_RemoveElement
<1>4. IsFiniteSet(Predecessors(i, rows, order)) /\ Rank(i, rows, order) <= Cardinality(rows \ {i})
  BY <1>1, <1>3, FS_Subset DEF Rank
<1>5. Cardinality(rows) \in Nat /\ Rank(i, rows, order) \in Nat
  BY <1>2, <1>4, FS_CardinalityType DEF Rank
<1> QED BY <1>3, <1>4, <1>5

\* The rows of one page are no more than its size.
LEMMA PageIsBounded ==
  ASSUME NEW rows \in SUBSET Item, NEW order, NEW rank \in Rankings(rows, order),
         NEW offset \in Nat
  PROVE  LET page == {i \in rows : rank[i] \in offset..(offset + PageSize - 1)}
         IN  IsFiniteSet(page) /\ Cardinality(page) <= PageSize
<1> DEFINE page == {i \in rows : rank[i] \in offset..(offset + PageSize - 1)}
           f == [i \in page |-> rank[i]]
<1>1. f \in Injection(page, offset..(offset + PageSize - 1))
  <2>1. /\ DOMAIN rank = rows
        /\ \A k, j \in rows : k # j => rank[k] # rank[j]
    BY DEF Rankings
  <2>2. f \in [page -> offset..(offset + PageSize - 1)] OBVIOUS
  <2>3. \A k, j \in page : f[k] = f[j] => k = j BY <2>1
  <2> HIDE DEF f, page
  <2> QED BY <2>2, <2>3 DEF Injection, IsInjective
<1>2. /\ IsFiniteSet(offset..(offset + PageSize - 1))
      /\ Cardinality(offset..(offset + PageSize - 1)) = PageSize
  BY FS_Interval, ListingAssumption
<1> HIDE DEF f, page
<1>3. IsFiniteSet(page) /\ Cardinality(page) <= PageSize BY <1>1, <1>2, FS_Injection
<1> QED BY <1>3 DEF page

\* The rows that a filter finds are finitely many rows of the table.
LEMMA FoundRows ==
  ASSUME ListTypeOK, NEW filter
  PROVE  /\ Found(filter) \in SUBSET Item
         /\ \A i \in Found(filter) : table[i] \in ItemRow
         /\ IsFiniteSet(Found(filter))
         /\ Cardinality(Found(filter)) \in 0..Cardinality(Item)
<1>1. Found(filter) \in SUBSET Item /\ \A i \in Found(filter) : table[i] \in ItemRow
  BY DEF Found, ListTypeOK
<1>2. IsFiniteSet(Item) BY ListingAssumption
<1>3. IsFiniteSet(Found(filter)) /\ Cardinality(Found(filter)) <= Cardinality(Item)
  BY <1>1, <1>2, FS_Subset
<1>4. Cardinality(Found(filter)) \in Nat /\ Cardinality(Item) \in Nat
  BY <1>2, <1>3, FS_CardinalityType
<1> QED BY <1>1, <1>3, <1>4

\* A page begins where the one before it ends.
LEMMA OffsetIsNat ==
  ASSUME NEW page \in Nat \ {0}
  PROVE  /\ (page - 1) * PageSize \in Nat
         /\ page * PageSize = (page - 1) * PageSize + PageSize
<1>1. PageSize \in Nat /\ page - 1 \in Nat BY ListingAssumption
<1> QED BY <1>1

\* Whatever is applied, asked for or changed, pages keep their type.
LEMMA ListInductive ==
  ASSUME ListTypeOK, [ListNext]_listVars
  PROVE  ListTypeOK'
<1>0. MaxChanges \in Nat /\ PageSize \in Nat \ {0} BY ListingAssumption
<1>1. ASSUME NEW f \in Forms, EditForm(f) PROVE ListTypeOK'
  BY <1>1 DEF EditForm, ListTypeOK
<1>2. ASSUME NEW page \in Nat \ {0}, AskFor(page, form), form' = form,
             walk' = Broken \/ walk' = walk \/ walk' = NoneShown
      PROVE  ListTypeOK'
  <2>1. asked' \in [page : Nat \ {0}, form : Forms] BY <1>2 DEF AskFor, ListTypeOK
  <2>2. NoneShown \in [Item -> Nat] BY DEF NoneShown
  <2> QED BY <1>2, <2>1, <2>2 DEF AskFor, ListTypeOK
<1>3. CASE Apply BY <1>2, <1>3 DEF Apply
<1>4. CASE NextPage
  <2>1. asked.page + 1 \in Nat \ {0} BY DEF ListTypeOK
  <2> QED BY <1>2, <1>4, <2>1 DEF NextPage
<1>5. CASE PreviousPage
  <2>1. asked.page - 1 \in Nat \ {0} BY <1>5 DEF PreviousPage, ListTypeOK
  <2> QED BY <1>2, <1>5, <2>1 DEF PreviousPage
<1>6. CASE Count
  <2>1. total' \in 0..Cardinality(Item) BY <1>6, FoundRows DEF Count
  <2> QED BY <1>6, <2>1 DEF Count, ListTypeOK
<1>7. CASE SelectPage
  <2> DEFINE rows == Found(asked.form.filter)
             offset == (asked.page - 1) * PageSize
  <2>1. offset \in Nat BY OffsetIsNat DEF ListTypeOK
  <2>2. PICK rank \in Rankings(rows, asked.form.order) :
          items' = {i \in rows : rank[i] \in offset..(offset + PageSize - 1)}
    BY <1>7 DEF SelectPage
  <2>3. rows \in SUBSET Item BY FoundRows
  <2> HIDE DEF rows, offset
  <2>4. items' \subseteq Item /\ Cardinality(items') <= PageSize
    BY <2>1, <2>2, <2>3, PageIsBounded
  <2>5. walk' = Broken \/ walk' \in [Item -> Nat]
    BY <1>7 DEF SelectPage, ListTypeOK
  <2>6. phase' = "shown" /\ UNCHANGED <<table, form, asked, total, changes>>
    BY <1>7 DEF SelectPage
  <2> QED BY <2>4, <2>5, <2>6 DEF ListTypeOK
<1>8. ASSUME NEW i \in Item, ChangeRow(i) PROVE ListTypeOK'
  <2>1. table' \in [Item -> ItemRow \cup {Absent}] BY <1>8 DEF ChangeRow, ListTypeOK
  <2>2. changes' \in 0..MaxChanges BY <1>0, <1>8 DEF ChangeRow, ListTypeOK
  <2> QED BY <1>8, <2>1, <2>2 DEF ChangeRow, ListTypeOK
<1>9. CASE UNCHANGED listVars BY <1>9 DEF listVars, ListTypeOK
<1> QED BY <1>1, <1>3, <1>4, <1>5, <1>6, <1>7, <1>8, <1>9 DEF ListNext

\* No request asks for a page before the first, and no page has more rows than
\* its size, whatever the form and the table have become since.
THEOREM PagesAreBounded == ListSpec => []ListTypeOK
<1>1. ListInit => ListTypeOK
  <2> SUFFICES ASSUME ListInit PROVE ListTypeOK OBVIOUS
  <2>1. /\ IsFiniteSet({}) /\ Cardinality({}) = 0 /\ Cardinality(Item) \in Nat
        /\ PageSize \in Nat /\ MaxChanges \in Nat
    BY ListingAssumption, FS_EmptySet, FS_CardinalityType
  <2>2. NoneShown \in [Item -> Nat] BY DEF NoneShown
  <2>3. items \subseteq Item /\ Cardinality(items) <= PageSize BY <2>1 DEF ListInit
  <2>4. asked \in [page : Nat \ {0}, form : Forms] BY DEF ListInit
  <2> QED BY <2>1, <2>2, <2>3, <2>4 DEF ListInit, ListTypeOK
<1> QED BY <1>1, ListInductive, PTL DEF ListSpec

\* The rows that the last request asks for, and the place of one among them.
Selected == Found(asked.form.filter)
Place(i) == Rank(i, Selected, asked.form.order)

\* What a walk has shown by now is the first pages as a whole.
Bound == IF phase = "shown" THEN asked.page * PageSize ELSE (asked.page - 1) * PageSize

WalkInv ==
  walk # Broken =>
    /\ \A i \in Item : walk[i] = IF i \in Selected /\ Place(i) < Bound THEN 1 ELSE 0
    /\ phase # "count" => total = Cardinality(Selected)

\* A row keeps its place as long as table, filter and order stay.
LEMMA PlaceStays ==
  ASSUME table' = table, asked'.form = asked.form
  PROVE  Selected' = Selected /\ \A i : Place(i)' = Place(i)
<1>1. Selected' = Selected BY DEF Selected, Found
<1>2. ASSUME NEW i PROVE Place(i)' = Place(i)
  <2>1. \A j : Before(j, i, asked.form.order)' = Before(j, i, asked.form.order)
    BY Zenon DEF Before
  <2> QED BY <1>1, <2>1 DEF Place, Rank, Predecessors
<1> QED BY <1>1, <1>2

\* The places of the rows that are found are below their number.
LEMMA PlaceIsBelow ==
  ASSUME ListTypeOK, NEW i \in Selected
  PROVE  i \in Item /\ Place(i) \in Nat /\ Place(i) < Cardinality(Selected)
BY FoundRows, RankIsBelow DEF Selected, Place

\* Each page adds its rows, once, to the pages before it.
LEMMA WalkInductive ==
  ASSUME ListTypeOK, WalkInv, [ListNext]_listVars
  PROVE  WalkInv'
<1>0. asked.page \in Nat \ {0} /\ PageSize \in Nat \ {0}
  BY ListingAssumption DEF ListTypeOK
<1>1. ASSUME walk' = walk, table' = table, asked' = asked, Bound' = Bound,
             phase' # "count" => total' = Cardinality(Selected)
      PROVE  WalkInv'
  <2>1. Selected' = Selected /\ \A i : Place(i)' = Place(i) BY <1>1, PlaceStays
  <2> QED BY <1>1, <2>1 DEF WalkInv
<1>2. ASSUME NEW f \in Forms, EditForm(f) PROVE WalkInv'
  <2>1. CASE walk = Broken BY <1>2, <2>1 DEF EditForm, WalkInv
  <2>2. CASE walk # Broken
    <3>1. total = Cardinality(Selected) BY <1>2, <2>2 DEF WalkInv, EditForm
    <3> QED BY <1>1, <1>2, <3>1 DEF EditForm, Bound
  <2> QED BY <2>1, <2>2
<1>3. CASE Apply
  <2>1. asked'.page = 1 /\ phase' = "count" /\ walk' = NoneShown BY <1>3 DEF Apply, AskFor
  <2>2. Bound' = 0
    <3>1. (1 - 1) * PageSize = 0 BY <1>0
    <3> QED BY <2>1, <3>1 DEF Bound
  <2>3. ASSUME NEW i \in Selected' PROVE ~(Place(i)' < 0)
    <3>1. table' = table /\ asked'.form = form /\ form' = form BY <1>3 DEF Apply, AskFor
    <3>2. Selected' = Found(form.filter) BY <3>1 DEF Selected, Found
    <3>3. \A j : Before(j, i, form.order)' = Before(j, i, form.order)
      BY <3>1, Zenon DEF Before
    <3>4. Place(i)' = Rank(i, Found(form.filter), form.order)
      BY <3>1, <3>2, <3>3 DEF Place, Rank, Predecessors
    <3>5. Rank(i, Found(form.filter), form.order) \in Nat
      BY <2>3, <3>2, FoundRows, RankIsBelow
    <3> QED BY <3>4, <3>5
  <2> QED BY <2>1, <2>2, <2>3 DEF WalkInv, NoneShown
<1>4. CASE NextPage
  <2>1. CASE form = asked.form /\ walk # Broken
    <3>1. /\ asked'.page = asked.page + 1 /\ asked'.form = asked.form /\ phase' = "count"
          /\ phase = "shown" /\ walk' = walk /\ table' = table
      BY <1>4, <2>1 DEF NextPage, AskFor
    <3>2. Bound' = Bound
      <4>1. (asked.page + 1) - 1 = asked.page BY <1>0
      <4> QED BY <3>1, <4>1 DEF Bound
    <3>3. Selected' = Selected /\ \A i : Place(i)' = Place(i) BY <3>1, PlaceStays
    <3> QED BY <3>1, <3>2, <3>3 DEF WalkInv
  <2>2. CASE ~(form = asked.form /\ walk # Broken) BY <1>4, <2>2 DEF NextPage, WalkInv
  <2> QED BY <2>1, <2>2
<1>5. CASE PreviousPage BY <1>5 DEF PreviousPage, WalkInv
<1>6. CASE Count
  <2>1. Bound' = Bound BY <1>6 DEF Count, Bound
  <2> QED BY <1>1, <1>6, <2>1 DEF Count, Selected
<1>7. CASE SelectPage
  <2> SUFFICES ASSUME walk' # Broken PROVE WalkInv' BY DEF WalkInv
  <2> DEFINE offset == (asked.page - 1) * PageSize
  <2>1. /\ walk # Broken
        /\ walk' = [i \in Item |-> walk[i] + IF i \in items' THEN 1 ELSE 0]
        /\ phase = "select" /\ phase' = "shown"
        /\ table' = table /\ asked' = asked /\ total' = total
    BY <1>7 DEF SelectPage
  <2>2. PICK rank \in Rankings(Selected, asked.form.order) :
          items' = {i \in Selected : rank[i] \in offset..(offset + PageSize - 1)}
    BY <1>7 DEF SelectPage, Selected
  <2>3. \A i \in Selected : rank[i] = Place(i)
    BY FoundRows, RankIsUnique DEF Selected, Place
  <2>4. Bound = offset /\ Bound' = offset + PageSize /\ offset \in Nat
    BY <1>0, <2>1, OffsetIsNat DEF Bound
  <2> HIDE DEF offset
  <2>5. ASSUME NEW i \in Item
        PROVE  walk'[i] = IF i \in Selected /\ Place(i) < offset + PageSize THEN 1 ELSE 0
    <3>1. walk[i] = IF i \in Selected /\ Place(i) < offset THEN 1 ELSE 0
      BY <2>1, <2>4 DEF WalkInv
    <3>2. walk'[i] = walk[i] + IF i \in items' THEN 1 ELSE 0 BY <2>1
    <3>3. CASE i \in Selected
      <4>1. Place(i) \in Nat BY <3>3, PlaceIsBelow
      <4>2. i \in items' <=> Place(i) >= offset /\ Place(i) <= offset + PageSize - 1
        BY <2>2, <2>3, <2>4, <3>3, <4>1, <1>0
      <4> QED BY <1>0, <2>4, <3>1, <3>2, <3>3, <4>1, <4>2
    <3>4. CASE i \notin Selected BY <2>2, <3>1, <3>2, <3>4
    <3> QED BY <3>3, <3>4
  <2>6. Selected' = Selected /\ \A i : Place(i)' = Place(i) BY <2>1, PlaceStays
  <2>7. total' = Cardinality(Selected) BY <2>1 DEF WalkInv
  <2> QED BY <2>4, <2>5, <2>6, <2>7 DEF WalkInv
<1>8. ASSUME NEW i \in Item, ChangeRow(i) PROVE WalkInv'
  BY <1>8 DEF ChangeRow, WalkInv
<1>9. CASE UNCHANGED listVars
  <2>1. CASE walk = Broken BY <1>9, <2>1 DEF listVars, WalkInv
  <2>2. CASE walk # Broken
    <3>1. phase # "count" => total = Cardinality(Selected) BY <2>2 DEF WalkInv
    <3> QED BY <1>1, <1>9, <3>1 DEF listVars, Bound
  <2> QED BY <2>1, <2>2
<1> QED BY <1>2, <1>3, <1>4, <1>5, <1>6, <1>7, <1>8, <1>9 DEF ListNext

\* A quotient that is rounded up covers what is divided.
LEMMA TotalPagesCover ==
  ASSUME NEW n \in Nat, NEW p \in Nat \ {0}, ~(p < TotalPages(n))
  PROVE  n <= p * PageSize
<1>0. PageSize \in Nat \ {0} BY ListingAssumption
<1>1. CASE n = 0 BY <1>0, <1>1
<1>2. CASE n # 0
  <2>1. PICK m \in Nat : m = n + PageSize - 1 BY <1>0, <1>2
  <2>2. PICK k : k = m \div PageSize OBVIOUS
  <2>3. k \in Int /\ m < k * PageSize + PageSize BY <1>0, <2>1, <2>2
  <2>4. k <= p BY <1>2, <2>1, <2>2, <2>3 DEF TotalPages
  <2>5. k * PageSize <= p * PageSize BY <1>0, <2>3, <2>4
  <2>6. k * PageSize \in Int /\ p * PageSize \in Int BY <1>0, <2>3
  <2> QED BY <1>0, <2>1, <2>3, <2>5, <2>6
<1> QED BY <1>1, <1>2

\* Paging from the first page to the last shows every row that matches exactly
\* once, although many have the same value of the sorted column or none.
THEOREM WalksAreComplete == ListSpec => []WalkShowsEachOnce
<1>1. ListInit => WalkInv
  <2> SUFFICES ASSUME ListInit PROVE WalkInv OBVIOUS
  <2>1. ListInit => ListTypeOK
    <3>1. /\ Cardinality({}) = 0 /\ Cardinality(Item) \in Nat
          /\ PageSize \in Nat /\ MaxChanges \in Nat
      BY ListingAssumption, FS_EmptySet, FS_CardinalityType
    <3> QED BY <3>1 DEF ListInit, ListTypeOK, NoneShown
  <2>2. Bound = 0
    <3>1. (1 - 1) * PageSize = 0 BY ListingAssumption
    <3> QED BY <3>1 DEF ListInit, Bound
  <2>3. \A i \in Selected : ~(Place(i) < 0)
    <3>1. \A i \in Selected : Place(i) \in Nat BY <2>1, PlaceIsBelow
    <3> QED BY <3>1
  <2> QED BY <2>2, <2>3 DEF ListInit, WalkInv, NoneShown
<1>2. ListTypeOK /\ WalkInv => WalkShowsEachOnce
  <2> SUFFICES ASSUME ListTypeOK, WalkInv, phase = "shown", walk # Broken, ~HasNext,
                      NEW i \in Item
               PROVE  walk[i] = IF i \in Selected THEN 1 ELSE 0
    BY DEF WalkShowsEachOnce, Selected
  <2>1. asked.page \in Nat \ {0} /\ total = Cardinality(Selected) /\ total \in Nat
    <3>1. Cardinality(Item) \in Nat BY ListingAssumption, FS_CardinalityType
    <3> QED BY <3>1 DEF ListTypeOK, WalkInv
  <2>2. total <= asked.page * PageSize BY <2>1, TotalPagesCover DEF HasNext
  <2>3. asked.page * PageSize \in Nat BY <2>1, ListingAssumption
  <2>4. i \in Selected => Place(i) < asked.page * PageSize
    BY <2>1, <2>2, <2>3, PlaceIsBelow
  <2> QED BY <2>4 DEF WalkInv, Bound
<1> QED BY <1>1, <1>2, WalkInductive, PagesAreBounded, PTL DEF ListSpec

-----------------------------------------------------------------------------
(* The trend series, for any length of a date and any number of days: the  *)
(* points in the store are those of the meetings that were counted, and    *)
(* the server's window holds every date of the browser's as a whole.       *)

\* The dates of instants.
LEMMA DateBounds ==
  ASSUME NEW t \in Nat
  PROVE  /\ Date(t) \in Int
         /\ Date(t) * DayLength <= t /\ t < Date(t) * DayLength + DayLength
<1>1. DayLength \in Nat \ {0} BY TrendAssumption
<1>2. PICK k : k = t \div DayLength OBVIOUS
<1>3. k \in Int /\ k * DayLength <= t /\ t < k * DayLength + DayLength BY <1>1, <1>2
<1> QED BY <1>2, <1>3 DEF Date

\* A meeting of one of the last dates is not older than the server's window.
LEMMA WindowHoldsDates ==
  ASSUME NEW m \in Nat, NEW at \in Nat, Date(m) >= Date(at) - (Days - 1)
  PROVE  m >= at - Days * DayLength
<1>0. DayLength \in Nat \ {0} /\ Days \in Nat BY TrendAssumption
<1>1. PICK x, y : x = Date(m) /\ y = Date(at) OBVIOUS
<1>2. /\ x \in Int /\ y \in Int /\ x >= y - (Days - 1)
      /\ x * DayLength <= m /\ at < y * DayLength + DayLength
  BY <1>1, DateBounds
<1>3. (y - (Days - 1)) * DayLength <= x * DayLength BY <1>0, <1>2
<1>4. (y - (Days - 1)) * DayLength = y * DayLength - Days * DayLength + DayLength
  BY <1>0, <1>2
<1>5. x * DayLength \in Int /\ y * DayLength \in Int /\ Days * DayLength \in Int
  BY <1>0, <1>2
<1> QED BY <1>0, <1>2, <1>3, <1>4, <1>5

\* A meeting of the server's window is at most one date older than those.
LEMMA WindowHoldsOneMore ==
  ASSUME NEW m \in Nat, NEW at \in Nat, m >= at - Days * DayLength
  PROVE  Date(m) >= Date(at) - Days
<1>0. DayLength \in Nat \ {0} /\ Days \in Nat BY TrendAssumption
<1>1. PICK x, y : x = Date(m) /\ y = Date(at) OBVIOUS
<1>2. /\ x \in Int /\ y \in Int
      /\ y * DayLength <= at /\ m < x * DayLength + DayLength
  BY <1>1, DateBounds
<1>3. SUFFICES ASSUME x < y - Days PROVE FALSE BY <1>0, <1>1, <1>2
<1>4. (x + 1) * DayLength <= (y - Days) * DayLength BY <1>0, <1>2, <1>3
<1>5. /\ (x + 1) * DayLength = x * DayLength + DayLength
      /\ (y - Days) * DayLength = y * DayLength - Days * DayLength
  BY <1>0, <1>2
<1>6. x * DayLength \in Int /\ y * DayLength \in Int /\ Days * DayLength \in Int
  BY <1>0, <1>2
<1> QED BY <1>0, <1>2, <1>4, <1>5, <1>6

\* The points that a server finds at an instant.
Recent(what, t) == {m \in what : m >= t - Days * DayLength}
Counting(what, t) ==
  [d \in {Date(m) : m \in Recent(what, t)} |-> Tally(Recent(what, t), d)]

CountedAs(points, count) ==
  /\ count.meetings \in SUBSET Nat /\ count.at \in Nat
  /\ points = Counting(count.meetings, count.at)

TrendInv ==
  /\ now \in Nat /\ drawn \in Nat /\ meetings \in SUBSET Nat
  /\ DOMAIN counted = {"answer", "trend"}
  /\ counted = [part \in DOMAIN counted |-> counted[part]]
  /\ answer # NoSeries => CountedAs(answer, counted.answer)
  /\ trend # NoSeries => CountedAs(trend, counted.trend)
  /\ series # NoSeries => trend # NoSeries /\ series = SeriesAt(trend, drawn)

\* The points that are stored stay those of the meetings that were counted.
LEMMA TrendInductive ==
  ASSUME TrendInv, [TrendNext]_trendVars
  PROVE  TrendInv'
<1> USE DEF TrendInv
<1>1. CASE Tick BY <1>1 DEF Tick
<1>2. ASSUME NEW t \in 0..Horizon, Meet(t) PROVE TrendInv'
  <2>1. t \in Nat BY TrendAssumption
  <2> QED BY <1>2, <2>1 DEF Meet
<1>3. CASE SentimentTrend
  <2> DEFINE count == [meetings |-> meetings, at |-> now]
  <2>1. counted' = [counted EXCEPT !.answer = count] BY <1>3 DEF SentimentTrend
  <2>2. CountedAs(answer', count)
    <3>1. PointsAt(now) = Counting(meetings, now) BY DEF PointsAt, Counting, Recent
    <3> QED BY <1>3, <3>1 DEF SentimentTrend, CountedAs
  <2> HIDE DEF count
  <2>3. counted'.answer = count /\ counted'.trend = counted.trend BY <2>1
  <2> QED BY <1>3, <2>1, <2>2, <2>3 DEF SentimentTrend
<1>4. CASE TrendAnswered
  <2>1. counted' = [counted EXCEPT !.trend = counted.answer] BY <1>4 DEF TrendAnswered
  <2>2. counted'.trend = counted.answer /\ counted'.answer = counted.answer BY <2>1
  <2>3. series' = SeriesAt(trend', drawn') BY <1>4 DEF TrendAnswered
  <2> QED BY <1>4, <2>1, <2>2, <2>3 DEF TrendAnswered
<1>5. CASE Unmount BY <1>5 DEF Unmount
<1>6. CASE Mount BY <1>6 DEF Mount
<1>7. CASE UNCHANGED trendVars BY <1>7 DEF trendVars
<1> QED BY <1>1, <1>2, <1>3, <1>4, <1>5, <1>6, <1>7 DEF TrendNext

\* The points of the last dates are those of all meetings that were counted.
LEMMA PointsAreComplete ==
  ASSUME NEW what \in SUBSET Nat, NEW at \in Nat,
         NEW d \in (Date(at) - (Days - 1))..Date(at)
  PROVE  /\ d \in DOMAIN Counting(what, at) => Counting(what, at)[d] = Tally(what, d)
         /\ d \notin DOMAIN Counting(what, at) => Tally(what, d) = 0
<1>1. \A m \in what : Date(m) = d => m \in Recent(what, at)
  BY WindowHoldsDates DEF Recent
<1>2. Recent(what, at) \subseteq what BY DEF Recent
<1>3. {m \in Recent(what, at) : Date(m) = d} = {m \in what : Date(m) = d} BY <1>1, <1>2
<1>4. Tally(Recent(what, at), d) = Tally(what, d) BY <1>3 DEF Tally
<1>5. ASSUME d \notin DOMAIN Counting(what, at) PROVE Tally(what, d) = 0
  <2>1. \A m \in Recent(what, at) : Date(m) # d BY <1>5 DEF Counting
  <2>2. {m \in what : Date(m) = d} = {} BY <1>1, <2>1
  <2> QED BY <2>2, FS_EmptySet DEF Tally
<1> QED BY <1>4, <1>5 DEF Counting

\* A chart that was drawn on the date its points were counted on shows each of
\* the last dates, with every meeting of that date, and its rows follow each
\* other day by day unless a meeting was entered for a date to come.
THEOREM TrendIsComplete == TrendSpec => []TrendComplete
<1>1. TrendInit => TrendInv BY DEF TrendInit, TrendInv
<1>2. TrendInv => TrendComplete
  <2> SUFFICES ASSUME TrendInv, series # NoSeries, Date(drawn) = Date(counted.trend.at)
               PROVE  LET today == Date(drawn)
                          rows == DOMAIN series
                      IN /\ \A d \in (today - (Days - 1))..today :
                              d \in rows /\ series[d] = Tally(counted.trend.meetings, d)
                         /\ \A d \in DOMAIN trend : d \in rows /\ series[d] = trend[d]
                         /\ (\A t \in counted.trend.meetings : Date(t) <= today) =>
                              \A d \in rows : d >= today - Days /\ d <= today
    BY DEF TrendComplete
  <2>1. PICK what \in SUBSET Nat, at \in Nat :
          what = counted.trend.meetings /\ at = counted.trend.at /\ trend = Counting(what, at)
    BY DEF TrendInv, CountedAs
  <2>2. PICK today : today = Date(drawn) OBVIOUS
  <2>3. today = Date(at) /\ today \in Int BY <2>1, <2>2, DateBounds
  <2>4. /\ DOMAIN series = (today - (Days - 1))..today \cup DOMAIN trend
        /\ \A d \in DOMAIN series : series[d] = IF d \in DOMAIN trend THEN trend[d] ELSE 0
    BY <2>2 DEF TrendInv, SeriesAt
  <2>5. ASSUME NEW d \in (today - (Days - 1))..today
        PROVE  d \in DOMAIN series /\ series[d] = Tally(what, d)
    <3>1. d \in DOMAIN series BY <2>4
    <3>2. /\ d \in DOMAIN trend => trend[d] = Tally(what, d)
          /\ d \notin DOMAIN trend => Tally(what, d) = 0
      BY <2>1, <2>3, PointsAreComplete
    <3> QED BY <2>4, <3>1, <3>2
  <2>6. \A d \in DOMAIN trend : d \in DOMAIN series /\ series[d] = trend[d] BY <2>4
  <2>7. ASSUME \A t \in what : Date(t) <= today, NEW d \in DOMAIN series
        PROVE  d >= today - Days /\ d <= today
    <3>1. CASE d \in (today - (Days - 1))..today BY <2>3, <3>1, TrendAssumption
    <3>2. CASE d \in DOMAIN trend
      <4>1. PICK m \in Recent(what, at) : d = Date(m) BY <2>1, <3>2 DEF Counting
      <4>2. m \in what /\ m \in Nat /\ m >= at - Days * DayLength BY DEF Recent
      <4> QED BY <2>3, <2>7, <4>1, <4>2, WindowHoldsOneMore
    <3> QED BY <2>4, <3>1, <3>2
  <2> QED BY <2>1, <2>2, <2>5, <2>6, <2>7
<1> QED BY <1>1, <1>2, TrendInductive, PTL DEF TrendSpec
=============================================================================
