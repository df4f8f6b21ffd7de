------------------------ MODULE FrontendStoresProofs ------------------------
(* Proofs about FrontendStores: any rows and queries, any number of        *)
(* requests under way, every order of their answers.                       *)
EXTENDS FrontendStores, SequenceTheorems, TLAPS

\* Where the k-th of the requests was before the i-th was answered.
Before(k, i) == IF k < i THEN k ELSE k + 1

\* What is left of a sequence without its i-th element, and where it was.
LEMMA Removal ==
  ASSUME NEW S, NEW s \in Seq(S), NEW i \in 1..Len(s)
  PROVE  /\ RemoveAt(s, i) \in Seq(S)
         /\ Len(RemoveAt(s, i)) = Len(s) - 1
         /\ \A k \in 1..(Len(s) - 1) : RemoveAt(s, i)[k] = s[Before(k, i)]
<1> DEFINE a == SubSeq(s, 1, i - 1)
           b == SubSeq(s, i + 1, Len(s))
<1>1. /\ a \in Seq(S) /\ Len(a) = i - 1
      /\ \A k \in 1..(i - 1) : a[k] = s[k]
  <2>1. \A k \in 1..(i - 1) : s[k] \in S OBVIOUS
  <2>2. /\ a \in Seq(S) /\ Len(a) = IF 1 <= i - 1 THEN (i - 1) - 1 + 1 ELSE 0
        /\ \A k \in 1..((i - 1) - 1 + 1) : a[k] = s[1 + k - 1]
    BY <2>1, SubSeqProperties
  <2> QED BY <2>2
<1>2. /\ b \in Seq(S) /\ Len(b) = Len(s) - i
      /\ \A k \in 1..(Len(s) - i) : b[k] = s[i + k]
  <2>1. \A k \in (i + 1)..Len(s) : s[k] \in S OBVIOUS
  <2>2. /\ b \in Seq(S) /\ Len(b) = IF i + 1 <= Len(s) THEN Len(s) - (i + 1) + 1 ELSE 0
        /\ \A k \in 1..(Len(s) - (i + 1) + 1) : b[k] = s[(i + 1) + k - 1]
    BY <2>1, SubSeqProperties
  <2> QED BY <2>2
<1>5. RemoveAt(s, i) = a \o b BY DEF RemoveAt
<1> HIDE DEF a, b
<1>3. /\ a \o b \in Seq(S) /\ Len(a \o b) = Len(s) - 1
      /\ \A k \in 1..(Len(s) - 1) :
           (a \o b)[k] = IF k <= i - 1 THEN a[k] ELSE b[k - (i - 1)]
  <2>1. /\ a \o b \in Seq(S) /\ Len(a \o b) = Len(a) + Len(b)
        /\ \A k \in 1..(Len(a) + Len(b)) :
             (a \o b)[k] = IF k <= Len(a) THEN a[k] ELSE b[k - Len(a)]
    BY <1>1, <1>2, ConcatProperties
  <2> QED BY <1>1, <1>2, <2>1
<1>4. ASSUME NEW k \in 1..(Len(s) - 1) PROVE (a \o b)[k] = s[Before(k, i)]
  <2>1. CASE k <= i - 1
    <3>1. k \in 1..(i - 1) /\ Before(k, i) = k BY <2>1 DEF Before
    <3> QED BY <1>1, <1>3, <3>1
  <2>2. CASE k > i - 1
    <3>1. k - (i - 1) \in 1..(Len(s) - i) BY <2>2
    <3>2. b[k - (i - 1)] = s[i + (k - (i - 1))] BY <1>2, <3>1
    <3>3. i + (k - (i - 1)) = k + 1 /\ Before(k, i) = k + 1 BY <2>2 DEF Before
    <3>4. (a \o b)[k] = b[k - (i - 1)] BY <1>3, <2>2
    <3> QED BY <3>2, <3>3, <3>4
  <2>3. k <= i - 1 \/ k > i - 1 OBVIOUS
  <2> QED BY <2>1, <2>2, <2>3
<1> QED BY <1>3, <1>4, <1>5

\* The requests of a page that is left are the same, awaited by nobody.
LEMMA Orphans ==
  ASSUME NEW s \in Seq(Requests)
  PROVE  /\ Orphaned(s) \in Seq(Requests)
         /\ Len(Orphaned(s)) = Len(s)
         /\ \A k \in 1..Len(s) : /\ Orphaned(s)[k].kind = s[k].kind
                                 /\ Orphaned(s)[k].arg = s[k].arg
                                 /\ ~Orphaned(s)[k].here
<1>1. \A k \in 1..Len(s) : s[k] \in Requests OBVIOUS
<1>2. \A k \in 1..Len(s) : [s[k] EXCEPT !.here = FALSE] \in Requests
  BY <1>1 DEF Requests
<1>3. DOMAIN s = 1..Len(s) /\ Len(s) \in Nat OBVIOUS
<1>4. Orphaned(s) = [k \in 1..Len(s) |-> [s[k] EXCEPT !.here = FALSE]]
  BY <1>3 DEF Orphaned
<1>5. Orphaned(s) \in Seq(Requests) /\ Len(Orphaned(s)) = Len(s)
  BY <1>2, <1>3, <1>4
<1>6. \A k \in 1..Len(s) : /\ [s[k] EXCEPT !.here = FALSE].kind = s[k].kind
                           /\ [s[k] EXCEPT !.here = FALSE].arg = s[k].arg
                           /\ [s[k] EXCEPT !.here = FALSE].here = FALSE
  BY <1>1 DEF Requests
<1> QED BY <1>4, <1>5, <1>6

\* The requests with one more at the end.
LEMMA Appending ==
  ASSUME NEW s \in Seq(Requests), NEW q \in Requests, NEW f, f = Append(s, q)
  PROVE  /\ f \in Seq(Requests)
         /\ Len(f) = Len(s) + 1 /\ Len(s) \in Nat
         /\ DOMAIN f = 1..(Len(s) + 1)
         /\ \A k \in 1..Len(s) : f[k] = s[k]
         /\ f[Len(f)] = q
OBVIOUS

\* The requests after a page was mounted that sends one.
LEMMA Following ==
  ASSUME NEW requests \in Seq(Requests), NEW q \in Requests, ~q.here,
         NEW f, f = Append(Orphaned(requests), q)
  PROVE  /\ f \in Seq(Requests) /\ Len(f) = Len(requests) + 1
         /\ \A k \in 1..Len(requests) : /\ f[k].kind = requests[k].kind
                                        /\ f[k].arg = requests[k].arg
         /\ f[Len(f)] = q
         /\ \A k \in DOMAIN f : ~f[k].here
<1>1. PICK o \in Seq(Requests) :
         /\ o = Orphaned(requests) /\ Len(o) = Len(requests)
         /\ \A k \in 1..Len(requests) : /\ o[k].kind = requests[k].kind
                                        /\ o[k].arg = requests[k].arg
                                        /\ ~o[k].here
  BY Orphans
<1>2. /\ f \in Seq(Requests) /\ Len(f) = Len(o) + 1 /\ Len(o) \in Nat
      /\ DOMAIN f = 1..(Len(o) + 1)
      /\ \A k \in 1..Len(o) : f[k] = o[k]
      /\ f[Len(f)] = q
  BY <1>1, Appending
<1>3. ASSUME NEW k \in DOMAIN f PROVE ~f[k].here
  <2>1. k \in 1..Len(o) \/ k = Len(f) BY <1>2
  <2> QED BY <1>1, <1>2, <2>1
<1> QED BY <1>1, <1>2, <1>3

\* A page is mounted that sends a request.
Mounted(requests, s) ==
  \/ \E q \in Query : MountList(q, requests, s)
  \/ \E kind \in {"detail", "edit"}, r \in Row : MountRow(kind, r, requests, s)

\* A mounted page awaits nothing yet.
LEMMA Mounting ==
  ASSUME NEW requests \in Seq(Requests), NEW s \in Stores, Mounted(requests, s)
  PROVE  /\ store' \in Stores /\ shown' \in Pages
         /\ flight' \in Seq(Requests)
         /\ Len(flight') = Len(requests) + 1
         /\ \A k \in DOMAIN flight' : ~flight'[k].here
         /\ store'.ids = s.ids /\ store'.entities = s.entities /\ store'.busy = s.busy
<1>1. ASSUME NEW arg \in Query, MountList(arg, requests, s)
      PROVE  /\ store' \in Stores /\ shown' \in Pages
             /\ flight' \in Seq(Requests)
             /\ Len(flight') = Len(requests) + 1
             /\ \A k \in DOMAIN flight' : ~flight'[k].here
             /\ store'.ids = s.ids /\ store'.entities = s.entities /\ store'.busy = s.busy
  <2> DEFINE q == [kind |-> "list", arg |-> arg, here |-> FALSE]
  <2>1. q \in Requests /\ ~q.here BY DEF Requests
  <2>2. flight' = Append(Orphaned(requests), q) BY <1>1 DEF MountList, Sent
  <2>3. store' = [s EXCEPT !.status = "loading"] /\ shown' \in Pages
    BY <1>1 DEF MountList, Pages
  <2>4. store' \in Stores /\ store'.ids = s.ids /\ store'.entities = s.entities
        /\ store'.busy = s.busy
    BY <2>3 DEF Stores, Status
  <2>5. /\ flight' \in Seq(Requests) /\ Len(flight') = Len(requests) + 1
        /\ \A k \in DOMAIN flight' : ~flight'[k].here
    <3> HIDE DEF q
    <3> QED BY <2>1, <2>2, Following
  <2> QED BY <2>3, <2>4, <2>5
<1>2. ASSUME NEW kind \in {"detail", "edit"}, NEW arg \in Row, MountRow(kind, arg, requests, s)
      PROVE  /\ store' \in Stores /\ shown' \in Pages
             /\ flight' \in Seq(Requests)
             /\ Len(flight') = Len(requests) + 1
             /\ \A k \in DOMAIN flight' : ~flight'[k].here
             /\ store'.ids = s.ids /\ store'.entities = s.entities /\ store'.busy = s.busy
  <2> DEFINE q == [kind |-> "detail", arg |-> arg, here |-> FALSE]
  <2>1. q \in Requests /\ ~q.here BY DEF Requests
  <2>2. flight' = Append(Orphaned(requests), q) BY <1>2 DEF MountRow, Sent
  <2>3. store' = [s EXCEPT !.detail = "loading"] /\ shown' \in Pages
    BY <1>2 DEF MountRow, Pages
  <2>4. store' \in Stores /\ store'.ids = s.ids /\ store'.entities = s.entities
        /\ store'.busy = s.busy
    BY <2>3 DEF Stores, Status
  <2>5. /\ flight' \in Seq(Requests) /\ Len(flight') = Len(requests) + 1
        /\ \A k \in DOMAIN flight' : ~flight'[k].here
    <3> HIDE DEF q
    <3> QED BY <2>1, <2>2, Following
  <2> QED BY <2>3, <2>4, <2>5
<1> QED BY <1>1, <1>2 DEF Mounted

\* What is under way after the i-th answer is what was under way without it.
LEMMA Remaining ==
  ASSUME flight \in Seq(Requests), NEW i \in DOMAIN flight
  PROVE  /\ flight[i] \in Requests /\ i \in 1..Len(flight)
         /\ Rest(i) \in Seq(Requests)
         /\ Len(Rest(i)) = Len(flight) - 1
         /\ \A k \in DOMAIN Rest(i) : /\ Before(k, i) \in DOMAIN flight \ {i}
                                     /\ Rest(i)[k] = flight[Before(k, i)]
         /\ \A k, l \in DOMAIN Rest(i) : Before(k, i) = Before(l, i) => k = l
         /\ \A j \in DOMAIN flight \ {i} :
              \E k \in DOMAIN Rest(i) : k <= j /\ Before(k, i) = j
<1>1. i \in 1..Len(flight) /\ flight[i] \in Requests OBVIOUS
<1>2. PICK t \in Seq(Requests) :
         /\ t = Rest(i) /\ Len(t) = Len(flight) - 1
         /\ \A k \in 1..(Len(flight) - 1) : t[k] = flight[Before(k, i)]
  BY <1>1, Removal DEF Rest
<1>3. DOMAIN t = 1..(Len(flight) - 1) /\ DOMAIN flight = 1..Len(flight) BY <1>2
<1>4. \A k \in DOMAIN t : Before(k, i) \in DOMAIN flight \ {i}
  BY <1>1, <1>3 DEF Before
<1>5. \A k, l \in DOMAIN t : Before(k, i) = Before(l, i) => k = l
  BY <1>1, <1>3 DEF Before
<1>6. ASSUME NEW j \in DOMAIN flight \ {i}
      PROVE  \E k \in DOMAIN t : k <= j /\ Before(k, i) = j
  <2>1. CASE j < i BY <1>1, <1>3, <2>1 DEF Before
  <2>2. CASE j > i
    <3>1. j - 1 \in DOMAIN t /\ Before(j - 1, i) = j /\ j - 1 <= j
      BY <1>1, <1>3, <2>2 DEF Before
    <3> QED BY <3>1
  <2> QED BY <1>1, <1>3, <2>1, <2>2
<1> QED BY <1>1, <1>2, <1>3, <1>4, <1>5, <1>6

-----------------------------------------------------------------------------

Alone(requests) == \A k, l \in DOMAIN requests : requests[k].here /\ requests[l].here => k = l

\* The page that is mounted awaits nothing yet.
LEMMA TypeOfMount ==
  ASSUME StoresTypeOK, NEW requests \in Seq(Requests), NEW s \in Stores, Mounted(requests, s),
         Len(requests) < MaxFlight, slice' = slice, overtaken' \in BOOLEAN
  PROVE  StoresTypeOK'
<1>1. /\ store' \in Stores /\ shown' \in Pages /\ flight' \in Seq(Requests)
      /\ Len(flight') = Len(requests) + 1
      /\ \A k \in DOMAIN flight' : ~flight'[k].here
  BY Mounting
<1>2. Len(flight') <= MaxFlight
  <2>1. Len(requests) \in Nat BY <1>1
  <2> QED BY <1>1, <2>1, StoresAssumption
<1> QED BY <1>1, <1>2 DEF StoresTypeOK

\* A button or a form sends a request: it is awaited only if no other is.
LEMMA TypeOfSent ==
  ASSUME StoresTypeOK, NEW q \in Requests, flight' = Append(flight, q),
         Len(flight) < MaxFlight, ~q.here \/ ~Submitting,
         store' \in Stores, shown' = shown, slice' = slice, overtaken' = overtaken
  PROVE  StoresTypeOK'
<1>1. flight \in Seq(Requests) /\ Alone(flight) BY DEF StoresTypeOK, Alone
<1>2. /\ flight' \in Seq(Requests) /\ Len(flight') = Len(flight) + 1 /\ Len(flight) \in Nat
      /\ DOMAIN flight' = 1..(Len(flight) + 1)
      /\ \A k \in 1..Len(flight) : flight'[k] = flight[k]
      /\ flight'[Len(flight')] = q
  BY <1>1, Appending
<1>3. DOMAIN flight = 1..Len(flight) BY <1>1
<1>4. ASSUME NEW k \in DOMAIN flight', NEW l \in DOMAIN flight',
             flight'[k].here, flight'[l].here
      PROVE  k = l
  <2>1. (k \in DOMAIN flight \/ k = Len(flight')) /\ (l \in DOMAIN flight \/ l = Len(flight'))
    BY <1>2, <1>3
  <2>2. CASE q.here BY <1>2, <1>3, <1>4, <2>1, <2>2 DEF Submitting
  <2>3. CASE ~q.here BY <1>1, <1>2, <1>3, <1>4, <2>1, <2>3 DEF Alone
  <2> QED BY <2>2, <2>3
<1>5. Len(flight') <= MaxFlight BY <1>2, StoresAssumption
<1> QED BY <1>2, <1>4, <1>5 DEF StoresTypeOK

\* An answer arrives, and the page that awaited it awaits nothing any more.
LEMMA TypeOfArrival ==
  ASSUME StoresTypeOK, NEW i \in DOMAIN flight, flight' = Rest(i),
         store' \in Stores, shown' = shown, Arrives(i)
  PROVE  StoresTypeOK'
<1>1. flight \in Seq(Requests) /\ Alone(flight) BY DEF StoresTypeOK, Alone
<1>2. /\ Rest(i) \in Seq(Requests) /\ Len(Rest(i)) = Len(flight) - 1
      /\ \A k \in DOMAIN Rest(i) : /\ Before(k, i) \in DOMAIN flight \ {i}
                                  /\ Rest(i)[k] = flight[Before(k, i)]
      /\ \A k, l \in DOMAIN Rest(i) : Before(k, i) = Before(l, i) => k = l
  BY <1>1, Remaining
<1>3. Alone(Rest(i)) BY <1>1, <1>2 DEF Alone
<1>4. Len(Rest(i)) <= MaxFlight
  <2>1. Len(flight) \in Nat /\ Len(flight) <= MaxFlight BY <1>1 DEF StoresTypeOK
  <2> QED BY <1>2, <2>1, StoresAssumption
<1>5. slice' = slice /\ overtaken' \in BOOLEAN BY DEF Arrives, StoresTypeOK
<1> QED BY <1>2, <1>3, <1>4, <1>5 DEF StoresTypeOK, Alone

\* An answer arrives and opens another page (the push of the router).
LEMMA MountedAfter ==
  ASSUME StoresTypeOK, NEW i \in DOMAIN flight, NEW s \in Stores, Mounted(Rest(i), s), Arrives(i)
  PROVE  StoresTypeOK'
<1>1. flight \in Seq(Requests) BY DEF StoresTypeOK
<1>2. Rest(i) \in Seq(Requests) /\ Len(Rest(i)) = Len(flight) - 1 BY <1>1, Remaining
<1>3. Len(Rest(i)) < MaxFlight
  <2>1. Len(flight) \in Nat /\ Len(flight) <= MaxFlight BY <1>1 DEF StoresTypeOK
  <2> QED BY <1>2, <2>1, StoresAssumption
<1>4. slice' = slice /\ overtaken' \in BOOLEAN BY DEF Arrives, StoresTypeOK
<1> HIDE DEF Rest
<1> QED BY <1>2, <1>3, <1>4, TypeOfMount

\* Every thunk, reducer and page keeps the types.
LEMMA StoresTypeInductive ==
  ASSUME StoresTypeOK, [StoresNext]_storeVars
  PROVE  StoresTypeOK'
<1>0. /\ store \in Stores /\ flight \in Seq(Requests) /\ shown \in Pages
      /\ slice \in Slices /\ overtaken \in BOOLEAN
      /\ \A q \in Query : Matching[q] \subseteq Row
      /\ \A i \in DOMAIN flight : flight[i] \in Requests
  BY Remaining, StoresAssumption DEF StoresTypeOK
<1>1. ASSUME NEW q \in Query, ShowList(q) PROVE StoresTypeOK'
  BY <1>0, <1>1, TypeOfMount DEF ShowList, Mounted
<1>2. ASSUME NEW r \in Row, NEW kind \in {"detail", "edit"}, ShowRow(kind, r)
      PROVE  StoresTypeOK'
  BY <1>0, <1>2, TypeOfMount DEF ShowRow, Mounted
<1>3. CASE Leave
  <2>1. /\ flight' = Orphaned(flight) /\ store' = store /\ slice' = slice
        /\ overtaken' = overtaken /\ shown' \in Pages
    BY <1>3 DEF Leave, Pages
  <2>2. /\ flight' \in Seq(Requests) /\ Len(flight') <= MaxFlight
        /\ \A k \in DOMAIN flight' : ~flight'[k].here
    BY <1>0, <2>1, Orphans DEF StoresTypeOK
  <2> QED BY <1>0, <2>1, <2>2 DEF StoresTypeOK
<1>4. ASSUME NEW r \in Row, NEW kind \in InRow, Press(kind, r) PROVE StoresTypeOK'
  <2> DEFINE q == [kind |-> kind, arg |-> r, here |-> FALSE]
  <2>1. q \in Requests /\ ~q.here BY DEF Requests
  <2>2. flight' = Append(flight, q) BY <1>4 DEF Press, Sent
  <2>3. store' \in Stores BY <1>0, <1>4 DEF Press, Stores
  <2>4. Len(flight) < MaxFlight /\ shown' = shown /\ slice' = slice /\ overtaken' = overtaken
    BY <1>4 DEF Press
  <2> HIDE DEF q
  <2> QED BY <2>1, <2>2, <2>3, <2>4, TypeOfSent
<1>5. ASSUME NEW r, NEW kind, Submit(kind, r),
             \/ r = NoArg /\ kind = "create"
             \/ r \in Row /\ kind \in {"update", "delete"}
      PROVE  StoresTypeOK'
  <2> DEFINE q == [kind |-> kind, arg |-> r, here |-> TRUE]
  <2>1. q \in Requests BY <1>5 DEF Requests
  <2>2. flight' = Append(flight, q) BY <1>5 DEF Submit, Sent
  <2>3. /\ Len(flight) < MaxFlight /\ ~Submitting /\ store' = store
        /\ shown' = shown /\ slice' = slice /\ overtaken' = overtaken
    BY <1>5 DEF Submit
  <2> HIDE DEF q
  <2> QED BY <1>0, <2>1, <2>2, <2>3, TypeOfSent
<1>6. CASE Visit BY <1>1, <1>2, <1>3, <1>6 DEF Visit
<1>7. CASE Click
  BY <1>4, <1>5, <1>7 DEF Click, PressUser, PressRetry, SubmitNew, SubmitEdit, ConfirmDelete, InRow
<1>8. ASSUME NEW i \in DOMAIN flight, NEW q \in Query, NEW rows \in SUBSET Matching[q],
             NEW entities \in SUBSET Row, ListAnswered(i, q, rows, entities)
      PROVE  StoresTypeOK'
  <2>1. rows \subseteq Row BY <1>0
  <2>2. store' \in Stores BY <1>0, <1>8, <2>1 DEF ListAnswered, Stores, Status
  <2> QED BY <1>8, <2>2, TypeOfArrival DEF ListAnswered
<1>9. ASSUME NEW i \in DOMAIN flight, DetailAnswered(i) PROVE StoresTypeOK'
  <2>1. flight[i].arg \in Row BY <1>0, <1>9 DEF DetailAnswered, Requests
  <2>2. store' \in Stores BY <1>0, <1>9, <2>1 DEF DetailAnswered, Stores, Status
  <2> QED BY <1>9, <2>2, TypeOfArrival DEF DetailAnswered
<1>10. ASSUME NEW i \in DOMAIN flight, NEW r \in Row, Saved(i, r) PROVE StoresTypeOK'
  <2>1. PICK s \in Stores : s = [store EXCEPT !.entities = @ \cup {r}]
    BY <1>0 DEF Stores
  <2>2. Mounted(Rest(i), s) /\ Arrives(i) BY <1>10, <2>1 DEF Saved, Mounted
  <2> QED BY <2>2, MountedAfter
<1>11. ASSUME NEW i \in DOMAIN flight, NEW q \in Query, Removed(i, q) PROVE StoresTypeOK'
  <2>1. PICK s \in Stores :
          s = [store EXCEPT !.entities = @ \ {flight[i].arg}, !.ids = @ \ {flight[i].arg}]
    BY <1>0 DEF Stores
  <2>2. Mounted(Rest(i), s) /\ Arrives(i) BY <1>11, <2>1 DEF Removed, Mounted
  <2> QED BY <2>2, MountedAfter
<1>12. ASSUME NEW i \in DOMAIN flight, NEW entities \in SUBSET Row, Pressed(i, entities)
       PROVE  StoresTypeOK'
  <2>1. store' \in Stores BY <1>0, <1>12 DEF Pressed, Stores, Status
  <2> QED BY <1>12, <2>1, TypeOfArrival DEF Pressed
<1>13. ASSUME NEW i \in DOMAIN flight, NEW s \in Stores, Fails(i, s) PROVE StoresTypeOK'
  BY <1>13, TypeOfArrival DEF Fails
<1>14. ASSUME NEW i \in DOMAIN flight, Answer(i) PROVE StoresTypeOK'
  <2>1. ASSUME NEW q \in Query, NEW rows \in SUBSET Matching[q],
               PageReplaces(i, q, rows) \/ PageMerges(i, q, rows)
        PROVE  StoresTypeOK'
    <3>1. rows \in SUBSET Row /\ store.entities \cup rows \in SUBSET Row
      BY <1>0 DEF Stores
    <3> QED BY <1>8, <2>1, <3>1 DEF PageReplaces, PageMerges
  <2>2. CASE UserUpdated(i) \/ UserDeactivated(i) \/ InsightRegenerated(i)
    <3>1. /\ store.entities \in SUBSET Row
          /\ UserUpdated(i) => store.entities \cup {flight[i].arg} \in SUBSET Row
      BY <1>0 DEF Stores, UserUpdated, Requests, InRow
    <3> QED BY <1>12, <2>2, <3>1 DEF UserUpdated, UserDeactivated, InsightRegenerated
  <2> QED BY <1>9, <1>10, <1>11, <1>14, <2>1, <2>2 DEF Answer, Created, Updated
<1>15. ASSUME NEW i \in DOMAIN flight, Failure(i) PROVE StoresTypeOK'
  <2>1. /\ [store EXCEPT !.status = "failed"] \in Stores
        /\ [store EXCEPT !.detail = "failed"] \in Stores
        /\ [store EXCEPT !.busy = @ \ {flight[i].arg}] \in Stores
    BY <1>0 DEF Stores, Status
  <2> QED
    BY <1>0, <1>13, <1>15, <2>1 DEF Failure, ListFails, DetailFails, SubmitFails, PressFails
<1>16. CASE UNCHANGED storeVars BY <1>16 DEF storeVars, StoresTypeOK
<1> QED BY <1>6, <1>7, <1>14, <1>15, <1>16 DEF StoresNext

\* Slices, pages and requests keep their types, the requests under way stay
\* within their bound, and a page never awaits two answers: no form is sent
\* twice, wherever the user goes in between.
THEOREM StoresTypeCorrect == StoresSpec => []StoresTypeOK
<1>1. StoresInit => StoresTypeOK
  <2> SUFFICES ASSUME StoresInit PROVE StoresTypeOK OBVIOUS
  <2>1. store \in Stores BY DEF StoresInit, Stores, Status
  <2>2. slice \in Slices /\ shown \in Pages /\ overtaken \in BOOLEAN
    BY DEF StoresInit, Slices, Pages
  <2>3. flight \in Seq(Requests) /\ Len(flight) = 0 /\ DOMAIN flight = {}
    BY DEF StoresInit
  <2>4. Len(flight) <= MaxFlight BY <2>3, StoresAssumption
  <2> QED BY <2>1, <2>2, <2>3, <2>4 DEF StoresTypeOK
<1> QED BY <1>1, StoresTypeInductive, PTL DEF StoresSpec

\* The page that is mounted changes no rows of the store.
LEMMA RowsOfMount ==
  ASSUME NEW requests \in Seq(Requests), NEW s \in Stores, Mounted(requests, s),
         s.ids \subseteq s.entities
  PROVE  RowsRenderable'
BY Mounting DEF RowsRenderable

\* Every reducer that adds an id has its row, and every one that drops a row
\* drops its id.
LEMMA RowsInductive ==
  ASSUME StoresTypeOK, RowsRenderable, [StoresNext]_storeVars
  PROVE  RowsRenderable'
<1>0. /\ store \in Stores /\ flight \in Seq(Requests) /\ store.ids \subseteq store.entities
      /\ \A i \in DOMAIN flight : Rest(i) \in Seq(Requests)
  BY Remaining DEF StoresTypeOK, RowsRenderable
<1> HIDE DEF Rest
<1>1. CASE Visit
  BY <1>0, <1>1, RowsOfMount DEF Visit, ShowList, ShowRow, Leave, Mounted, RowsRenderable
<1>2. CASE Click
  <2>1. store'.ids = store.ids /\ store'.entities = store.entities
    BY <1>0, <1>2 DEF Click, PressUser, PressRetry, Press, SubmitNew, SubmitEdit, ConfirmDelete,
                      Submit, Stores
  <2> QED BY <1>0, <2>1 DEF RowsRenderable
<1>3. ASSUME NEW i \in DOMAIN flight, NEW r \in Row, Saved(i, r) PROVE RowsRenderable'
  <2>1. PICK s \in Stores : s = [store EXCEPT !.entities = @ \cup {r}]
    BY <1>0 DEF Stores
  <2>2. Mounted(Rest(i), s) BY <1>3, <2>1 DEF Saved, Mounted
  <2>3. s.ids = store.ids /\ s.entities = store.entities \cup {r} BY <1>0, <2>1 DEF Stores
  <2>4. s.ids \subseteq s.entities BY <1>0, <2>3
  <2> QED BY <1>0, <2>2, <2>4, RowsOfMount
<1>4. ASSUME NEW i \in DOMAIN flight, NEW q \in Query, Removed(i, q) PROVE RowsRenderable'
  <2>1. PICK s \in Stores :
          s = [store EXCEPT !.entities = @ \ {flight[i].arg}, !.ids = @ \ {flight[i].arg}]
    BY <1>0 DEF Stores
  <2>2. Mounted(Rest(i), s) BY <1>4, <2>1 DEF Removed, Mounted
  <2>3. /\ s.ids = store.ids \ {flight[i].arg}
        /\ s.entities = store.entities \ {flight[i].arg}
    BY <1>0, <2>1 DEF Stores
  <2>4. s.ids \subseteq s.entities BY <1>0, <2>3
  <2> QED BY <1>0, <2>2, <2>4, RowsOfMount
<1>5. ASSUME NEW i \in DOMAIN flight, Answer(i) PROVE RowsRenderable'
  <2>1. ASSUME NEW q \in Query, NEW rows \in SUBSET Matching[q],
               PageReplaces(i, q, rows) \/ PageMerges(i, q, rows)
        PROVE  RowsRenderable'
    BY <1>0, <2>1 DEF PageReplaces, PageMerges, ListAnswered, Stores, RowsRenderable
  <2>2. CASE DetailAnswered(i)
    BY <1>0, <2>2 DEF DetailAnswered, Stores, RowsRenderable
  <2>3. CASE UserUpdated(i) \/ UserDeactivated(i) \/ InsightRegenerated(i)
    BY <1>0, <2>3 DEF UserUpdated, UserDeactivated, InsightRegenerated, Pressed, Stores,
                      RowsRenderable
  <2> QED BY <1>3, <1>4, <1>5, <2>1, <2>2, <2>3 DEF Answer, Created, Updated
<1>6. ASSUME NEW i \in DOMAIN flight, Failure(i) PROVE RowsRenderable'
  BY <1>0, <1>6 DEF Failure, ListFails, DetailFails, SubmitFails, PressFails, Fails, Stores,
                    RowsRenderable
<1>7. CASE UNCHANGED storeVars BY <1>7 DEF storeVars, RowsRenderable
<1> QED BY <1>1, <1>2, <1>5, <1>6, <1>7 DEF StoresNext

\* Whatever the order of the answers, no list holds an id without its row.
THEOREM RowsCorrect == StoresSpec => []RowsRenderable
<1>1. StoresInit => RowsRenderable BY DEF StoresInit, RowsRenderable
<1> QED BY <1>1, RowsInductive, StoresTypeCorrect, PTL DEF StoresSpec

-----------------------------------------------------------------------------
(* What spins: the requests under way and the state of the store agree. *)

Pressings(requests) == {k \in DOMAIN requests : requests[k].kind \in InRow}

Honest(requests, s) ==
  /\ s.status = "loading" => \E k \in DOMAIN requests : requests[k].kind = "list"
  /\ s.detail = "loading" => \E k \in DOMAIN requests : requests[k].kind = "detail"
  /\ \A r : r \in s.busy <=> \E k \in Pressings(requests) : requests[k].arg = r
  /\ \A k, l \in Pressings(requests) : requests[k].arg = requests[l].arg => k = l

\* A request is added that presses nothing: its own spinner may spin.
LEMMA HonestFollowing ==
  ASSUME NEW requests \in Seq(Requests), NEW s \in Stores, Honest(requests, s),
         NEW f \in Seq(Requests), Len(f) = Len(requests) + 1,
         \A k \in 1..Len(requests) : /\ f[k].kind = requests[k].kind
                                    /\ f[k].arg = requests[k].arg,
         f[Len(f)].kind \notin InRow,
         NEW t, t.busy = s.busy,
         t.status = s.status \/ f[Len(f)].kind = "list",
         t.detail = s.detail \/ f[Len(f)].kind = "detail"
  PROVE  Honest(f, t)
<1>1. /\ DOMAIN requests = 1..Len(requests) /\ DOMAIN f = 1..(Len(requests) + 1)
      /\ Len(requests) \in Nat /\ Len(f) \in DOMAIN f
  OBVIOUS
<1>2. Pressings(f) = Pressings(requests) /\ Pressings(f) \subseteq 1..Len(requests)
  BY <1>1 DEF Pressings
<1>3. t.status = "loading" => \E k \in DOMAIN f : f[k].kind = "list"
  BY <1>1 DEF Honest
<1>4. t.detail = "loading" => \E k \in DOMAIN f : f[k].kind = "detail"
  BY <1>1 DEF Honest
<1>5. \A r : r \in t.busy <=> \E k \in Pressings(f) : f[k].arg = r
  BY <1>2 DEF Honest
<1>6. \A k, l \in Pressings(f) : f[k].arg = f[l].arg => k = l
  BY <1>2 DEF Honest
<1> QED BY <1>3, <1>4, <1>5, <1>6 DEF Honest

\* A button is pressed: its row had no mutation under way.
LEMMA HonestPress ==
  ASSUME NEW s \in Stores, NEW requests \in Seq(Requests), Honest(requests, s),
         NEW q \in Requests, q.kind \in InRow, q.arg \notin s.busy,
         NEW f, f = Append(requests, q),
         NEW t, t.status = s.status, t.detail = s.detail, t.busy = s.busy \cup {q.arg}
  PROVE  Honest(f, t)
<1>1. /\ Len(requests) \in Nat
      /\ DOMAIN requests = 1..Len(requests) /\ DOMAIN f = 1..(Len(requests) + 1)
      /\ \A k \in 1..Len(requests) : f[k] = requests[k]
      /\ f[Len(requests) + 1] = q
  BY Appending
<1> DEFINE last == Len(requests) + 1
<1>2. Pressings(f) = Pressings(requests) \cup {last}
  BY <1>1 DEF Pressings
<1>3. \A k \in Pressings(requests) : f[k] = requests[k] /\ requests[k].arg \in s.busy
  BY <1>1 DEF Pressings, Honest
<1>4. t.status = "loading" => \E k \in DOMAIN f : f[k].kind = "list"
  BY <1>1 DEF Honest
<1>5. t.detail = "loading" => \E k \in DOMAIN f : f[k].kind = "detail"
  BY <1>1 DEF Honest
<1>6. f[last] = q BY <1>1
<1> HIDE DEF last
<1>7. ASSUME NEW k \in Pressings(f), k # last
      PROVE  k \in Pressings(requests) /\ f[k].arg \in s.busy
  <2>1. k \in Pressings(requests) BY <1>2, <1>7
  <2>2. f[k] = requests[k] /\ requests[k].arg \in s.busy BY <1>3, <2>1
  <2> QED BY <2>1, <2>2
<1>8. ASSUME NEW r PROVE r \in t.busy <=> \E k \in Pressings(f) : f[k].arg = r
  <2>1. r \in t.busy <=> r = q.arg \/ r \in s.busy OBVIOUS
  <2>2. r \in s.busy <=> \E k \in Pressings(requests) : requests[k].arg = r
    BY DEF Honest
  <2>3. r \in s.busy <=> \E k \in Pressings(requests) : f[k].arg = r
    BY <1>3, <2>2
  <2>4. r = q.arg <=> f[last].arg = r BY <1>6
  <2> QED BY <1>2, <2>1, <2>3, <2>4, Zenon
<1>9. ASSUME NEW k \in Pressings(f), NEW l \in Pressings(f), f[k].arg = f[l].arg PROVE k = l
  <2>1. CASE k = last BY <1>6, <1>7, <1>9, <2>1
  <2>2. CASE l = last BY <1>6, <1>7, <1>9, <2>2
  <2>3. CASE k # last /\ l # last
    <3>1. k \in Pressings(requests) /\ l \in Pressings(requests) BY <1>2, <2>3
    <3>2. requests[k].arg = requests[l].arg BY <1>3, <1>9, <3>1
    <3> QED BY <3>1, <3>2 DEF Honest
  <2> QED BY <2>1, <2>2, <2>3
<1> QED BY <1>4, <1>5, <1>8, <1>9 DEF Honest

\* An answer: its spinner stops, and its row is no longer busy.
LEMMA HonestArrival ==
  ASSUME flight \in Seq(Requests), NEW i \in DOMAIN flight, Honest(flight, store),
         NEW t,
         (t.status = store.status /\ flight[i].kind # "list") \/ t.status # "loading",
         (t.detail = store.detail /\ flight[i].kind # "detail") \/ t.detail # "loading",
         t.busy = IF flight[i].kind \in InRow THEN store.busy \ {flight[i].arg} ELSE store.busy
  PROVE  Honest(Rest(i), t)
<1> DEFINE f == Rest(i)
<1>1. /\ \A k \in DOMAIN f : Before(k, i) \in DOMAIN flight \ {i} /\ f[k] = flight[Before(k, i)]
      /\ \A k, l \in DOMAIN f : Before(k, i) = Before(l, i) => k = l
      /\ \A j \in DOMAIN flight \ {i} : \E k \in DOMAIN f : k <= j /\ Before(k, i) = j
  BY Remaining
<1> HIDE DEF f
<1>2. t.status = "loading" => \E k \in DOMAIN f : f[k].kind = "list"
  BY <1>1 DEF Honest
<1>3. t.detail = "loading" => \E k \in DOMAIN f : f[k].kind = "detail"
  BY <1>1 DEF Honest
<1>4. \A k \in Pressings(f) : Before(k, i) \in Pressings(flight) \ {i}
  BY <1>1 DEF Pressings
<1>5. \A k, l \in Pressings(f) : f[k].arg = f[l].arg => k = l
  BY <1>1, <1>4 DEF Honest, Pressings
<1>6. ASSUME NEW r PROVE r \in t.busy <=> \E k \in Pressings(f) : f[k].arg = r
  <2>1. ASSUME r \in t.busy PROVE \E k \in Pressings(f) : f[k].arg = r
    <3>1. PICK j \in Pressings(flight) : flight[j].arg = r
      BY <2>1 DEF Honest
    <3>2. j # i BY <2>1, <3>1 DEF Pressings
    <3>3. PICK k \in DOMAIN f : Before(k, i) = j BY <1>1, <3>1, <3>2 DEF Pressings
    <3> QED BY <1>1, <3>1, <3>3 DEF Pressings
  <2>2. ASSUME NEW k \in Pressings(f), f[k].arg = r PROVE r \in t.busy
    <3>1. /\ Before(k, i) \in Pressings(flight) \ {i}
          /\ flight[Before(k, i)].arg = r
      BY <1>1, <1>4, <2>2 DEF Pressings
    <3>2. r \in store.busy BY <3>1 DEF Honest
    <3>3. flight[i].kind \in InRow => flight[i].arg # r
      BY <3>1 DEF Honest, Pressings
    <3> QED BY <3>2, <3>3
  <2> QED BY <2>1, <2>2
<1> QED BY <1>2, <1>3, <1>5, <1>6 DEF Honest, f

\* A page is mounted: its request is under way, and it spins.
LEMMA HonestMount ==
  ASSUME NEW requests \in Seq(Requests), NEW s \in Stores, Honest(requests, s),
         Mounted(requests, s)
  PROVE  Honest(flight', store')
<1>1. ASSUME NEW arg \in Query, MountList(arg, requests, s)
      PROVE  Honest(flight', store')
  <2> DEFINE q == [kind |-> "list", arg |-> arg, here |-> FALSE]
  <2>1. q \in Requests /\ ~q.here BY DEF Requests
  <2>2. flight' = Append(Orphaned(requests), q) BY <1>1 DEF MountList, Sent
  <2>3. store'.busy = s.busy /\ store'.detail = s.detail
    BY <1>1 DEF MountList, Stores
  <2>4. q.kind = "list" OBVIOUS
  <2>5. /\ flight' \in Seq(Requests) /\ Len(flight') = Len(requests) + 1
        /\ \A k \in 1..Len(requests) : /\ flight'[k].kind = requests[k].kind
                                       /\ flight'[k].arg = requests[k].arg
        /\ flight'[Len(flight')] = q
    <3> HIDE DEF q
    <3>1. flight' \in Seq(Requests) /\ Len(flight') = Len(requests) + 1
      BY <2>1, <2>2, Following
    <3>2. \A k \in 1..Len(requests) : flight'[k].kind = requests[k].kind
      BY <2>1, <2>2, Following
    <3>3. \A k \in 1..Len(requests) : flight'[k].arg = requests[k].arg
      BY <2>1, <2>2, Following
    <3>4. flight'[Len(flight')] = q
      BY <2>1, <2>2, Following
    <3> QED BY <3>1, <3>2, <3>3, <3>4
  <2>6. flight'[Len(flight')].kind = "list" /\ flight'[Len(flight')].kind \notin InRow
    <3> HIDE DEF q
    <3> QED BY <2>4, <2>5 DEF InRow
  <2> QED BY <2>3, <2>5, <2>6, HonestFollowing
<1>2. ASSUME NEW kind \in {"detail", "edit"}, NEW arg \in Row, MountRow(kind, arg, requests, s)
      PROVE  Honest(flight', store')
  <2> DEFINE q == [kind |-> "detail", arg |-> arg, here |-> FALSE]
  <2>1. q \in Requests /\ ~q.here BY DEF Requests
  <2>2. flight' = Append(Orphaned(requests), q) BY <1>2 DEF MountRow, Sent
  <2>3. store'.busy = s.busy /\ store'.status = s.status
    BY <1>2 DEF MountRow, Stores
  <2>4. q.kind = "detail" OBVIOUS
  <2>5. /\ flight' \in Seq(Requests) /\ Len(flight') = Len(requests) + 1
        /\ \A k \in 1..Len(requests) : /\ flight'[k].kind = requests[k].kind
                                       /\ flight'[k].arg = requests[k].arg
        /\ flight'[Len(flight')] = q
    <3> HIDE DEF q
    <3>1. flight' \in Seq(Requests) /\ Len(flight') = Len(requests) + 1
      BY <2>1, <2>2, Following
    <3>2. \A k \in 1..Len(requests) : flight'[k].kind = requests[k].kind
      BY <2>1, <2>2, Following
    <3>3. \A k \in 1..Len(requests) : flight'[k].arg = requests[k].arg
      BY <2>1, <2>2, Following
    <3>4. flight'[Len(flight')] = q
      BY <2>1, <2>2, Following
    <3> QED BY <3>1, <3>2, <3>3, <3>4
  <2>6. flight'[Len(flight')].kind = "detail" /\ flight'[Len(flight')].kind \notin InRow
    <3> HIDE DEF q
    <3> QED BY <2>4, <2>5 DEF InRow
  <2> QED BY <2>3, <2>5, <2>6, HonestFollowing
<1> QED BY <1>1, <1>2 DEF Mounted

\* What spins agrees with the requests under way after every step.
LEMMA HonestInductive ==
  ASSUME StoresTypeOK, Honest(flight, store), [StoresNext]_storeVars
  PROVE  Honest(flight', store')
<1>0. /\ store \in Stores /\ flight \in Seq(Requests)
      /\ \A i \in DOMAIN flight : Rest(i) \in Seq(Requests) /\ flight[i] \in Requests
  BY Remaining DEF StoresTypeOK
<1> HIDE DEF Rest
<1>1. ASSUME NEW q \in Query, ShowList(q) PROVE Honest(flight', store')
  BY <1>0, <1>1, HonestMount DEF ShowList, Mounted
<1>2. ASSUME NEW r \in Row, NEW kind \in {"detail", "edit"}, ShowRow(kind, r)
      PROVE  Honest(flight', store')
  BY <1>0, <1>2, HonestMount DEF ShowRow, Mounted
<1>3. CASE Leave
  <2>1. flight' = Orphaned(flight) /\ store' = store BY <1>3 DEF Leave
  <2>2. /\ DOMAIN flight' = DOMAIN flight
        /\ \A k \in DOMAIN flight : /\ flight'[k].kind = flight[k].kind
                                    /\ flight'[k].arg = flight[k].arg
    BY <1>0, <2>1, Orphans
  <2>3. Pressings(flight') = Pressings(flight) BY <2>2 DEF Pressings
  <2>4. Pressings(flight) \subseteq DOMAIN flight BY DEF Pressings
  <2> QED BY <2>1, <2>2, <2>3, <2>4 DEF Honest
<1>4. ASSUME NEW r \in Row, NEW kind \in InRow, Press(kind, r) PROVE Honest(flight', store')
  <2>1. PICK q \in Requests : q = [kind |-> kind, arg |-> r, here |-> FALSE]
    BY DEF Requests
  <2>2. flight' = Append(flight, q) /\ q.kind \in InRow /\ q.arg = r
    BY <1>4, <2>1 DEF Press, Sent
  <2>3. /\ r \notin store.busy /\ store'.busy = store.busy \cup {r}
        /\ store'.status = store.status /\ store'.detail = store.detail
    BY <1>0, <1>4 DEF Press, Stores
  <2> QED BY <1>0, <2>2, <2>3, HonestPress
<1>5. ASSUME NEW r, NEW kind, Submit(kind, r),
             \/ r = NoArg /\ kind = "create"
             \/ r \in Row /\ kind \in {"update", "delete"}
      PROVE  Honest(flight', store')
  <2>1. PICK q \in Requests : q = [kind |-> kind, arg |-> r, here |-> TRUE]
    BY <1>5 DEF Requests
  <2>2. flight' = Append(flight, q) /\ store' = store /\ q.kind \notin InRow
    BY <1>5, <2>1 DEF Submit, Sent, InRow
  <2>3. /\ flight' \in Seq(Requests) /\ Len(flight') = Len(flight) + 1
        /\ \A k \in 1..Len(flight) : flight'[k] = flight[k]
        /\ flight'[Len(flight')] = q
    BY <1>0, <2>2, Appending
  <2>4. \A k \in 1..Len(flight) : /\ flight'[k].kind = flight[k].kind
                                  /\ flight'[k].arg = flight[k].arg
    BY <2>3
  <2> QED BY <1>0, <2>2, <2>3, <2>4, HonestFollowing
<1>6. CASE Visit BY <1>1, <1>2, <1>3, <1>6 DEF Visit
<1>7. CASE Click
  BY <1>4, <1>5, <1>7 DEF Click, PressUser, PressRetry, SubmitNew, SubmitEdit, ConfirmDelete, InRow
<1>8. ASSUME NEW i \in DOMAIN flight, NEW r \in Row, flight[i].kind \in {"create", "update"},
             Saved(i, r)
      PROVE  Honest(flight', store')
  <2>1. PICK s \in Stores : s = [store EXCEPT !.entities = @ \cup {r}]
    BY <1>0 DEF Stores
  <2>2. s.status = store.status /\ s.detail = store.detail /\ s.busy = store.busy
    BY <1>0, <2>1 DEF Stores
  <2>3. Honest(Rest(i), s) BY <1>0, <1>8, <2>2, HonestArrival DEF InRow
  <2>4. Mounted(Rest(i), s) BY <1>8, <2>1 DEF Saved, Mounted
  <2> QED BY <1>0, <2>3, <2>4, HonestMount
<1>9. ASSUME NEW i \in DOMAIN flight, NEW q \in Query, Removed(i, q)
      PROVE  Honest(flight', store')
  <2>1. PICK s \in Stores :
          s = [store EXCEPT !.entities = @ \ {flight[i].arg}, !.ids = @ \ {flight[i].arg}]
    BY <1>0 DEF Stores
  <2>2. s.status = store.status /\ s.detail = store.detail /\ s.busy = store.busy
    BY <1>0, <2>1 DEF Stores
  <2>3. Honest(Rest(i), s) BY <1>0, <1>9, <2>2, HonestArrival DEF Removed, InRow
  <2>4. Mounted(Rest(i), s) BY <1>9, <2>1 DEF Removed, Mounted
  <2> QED BY <1>0, <2>3, <2>4, HonestMount
<1>10. ASSUME NEW i \in DOMAIN flight, Answer(i) PROVE Honest(flight', store')
  <2>1. ASSUME NEW q \in Query, NEW rows, NEW entities, ListAnswered(i, q, rows, entities)
        PROVE  Honest(flight', store')
    <3>1. /\ flight' = Rest(i) /\ flight[i].kind = "list"
          /\ store'.status # "loading"
          /\ store'.detail = store.detail /\ store'.busy = store.busy
      BY <1>0, <2>1 DEF ListAnswered, Stores
    <3> QED BY <1>0, <3>1, HonestArrival DEF InRow
  <2>2. CASE DetailAnswered(i)
    <3>1. /\ flight' = Rest(i) /\ flight[i].kind = "detail"
          /\ store'.detail # "loading"
          /\ store'.status = store.status /\ store'.busy = store.busy
      BY <1>0, <2>2 DEF DetailAnswered, Stores
    <3> QED BY <1>0, <3>1, HonestArrival DEF InRow
  <2>3. ASSUME NEW entities, flight[i].kind \in InRow, Pressed(i, entities)
        PROVE  Honest(flight', store')
    <3>1. /\ flight' = Rest(i) /\ store'.busy = store.busy \ {flight[i].arg}
          /\ store'.status = store.status /\ store'.detail = store.detail
      BY <1>0, <2>3 DEF Pressed, Stores
    <3> QED BY <1>0, <2>3, <3>1, HonestArrival DEF InRow
  <2>4. UserUpdated(i) \/ UserDeactivated(i) \/ InsightRegenerated(i) =>
          flight[i].kind \in InRow /\ \E entities : Pressed(i, entities)
    BY DEF UserUpdated, UserDeactivated, InsightRegenerated, InRow
  <2>5. \A r \in Row : Created(i, r) \/ Updated(i, r) =>
          flight[i].kind \in {"create", "update"} /\ Saved(i, r)
    BY DEF Created, Updated
  <2>6. \A q \in Query : \A rows : PageReplaces(i, q, rows) \/ PageMerges(i, q, rows) =>
          \E entities : ListAnswered(i, q, rows, entities)
    BY DEF PageReplaces, PageMerges
  <2> QED BY <1>8, <1>9, <1>10, <2>1, <2>2, <2>3, <2>4, <2>5, <2>6 DEF Answer
<1>11. ASSUME NEW i \in DOMAIN flight, Failure(i) PROVE Honest(flight', store')
  <2>1. CASE ListFails(i)
    <3>1. /\ flight' = Rest(i) /\ flight[i].kind = "list"
          /\ store'.status # "loading"
          /\ store'.detail = store.detail /\ store'.busy = store.busy
      BY <1>0, <2>1 DEF ListFails, Fails, Stores
    <3> QED BY <1>0, <3>1, HonestArrival DEF InRow
  <2>2. CASE DetailFails(i)
    <3>1. /\ flight' = Rest(i) /\ flight[i].kind = "detail"
          /\ store'.detail # "loading"
          /\ store'.status = store.status /\ store'.busy = store.busy
      BY <1>0, <2>2 DEF DetailFails, Fails, Stores
    <3> QED BY <1>0, <3>1, HonestArrival DEF InRow
  <2>3. CASE SubmitFails(i)
    BY <1>0, <2>3, HonestArrival DEF SubmitFails, Fails, Awaited, InRow
  <2>4. CASE PressFails(i)
    <3>1. /\ flight' = Rest(i) /\ store'.busy = store.busy \ {flight[i].arg}
          /\ store'.status = store.status /\ store'.detail = store.detail
      BY <1>0, <2>4 DEF PressFails, Fails, Stores
    <3> QED BY <1>0, <2>4, <3>1, HonestArrival DEF InRow, PressFails
  <2> QED BY <1>11, <2>1, <2>2, <2>3, <2>4 DEF Failure
<1>12. CASE UNCHANGED storeVars
  <2>1. flight' = flight /\ store' = store BY <1>12 DEF storeVars
  <2> QED BY <2>1, Zenon
<1> QED BY <1>6, <1>7, <1>10, <1>11, <1>12 DEF StoresNext

\* Nothing spins for ever: what the store shows as loading is under way, and
\* the rows with disabled buttons are those with a mutation under way.
THEOREM SpinnersCorrect == StoresSpec => []SpinnersHonest
<1>1. StoresInit => Honest(flight, store)
  <2> SUFFICES ASSUME StoresInit PROVE Honest(flight, store) OBVIOUS
  <2>1. DOMAIN flight = {} BY DEF StoresInit
  <2>2. store.status = "idle" /\ store.detail = "idle" /\ store.busy = {} BY DEF StoresInit
  <2>3. Pressings(flight) = {} BY <2>1 DEF Pressings
  <2> QED BY <2>2, <2>3 DEF Honest
<1>2. StoresTypeOK /\ Honest(flight, store) => SpinnersHonest
  <2> SUFFICES ASSUME StoresTypeOK, Honest(flight, store) PROVE SpinnersHonest OBVIOUS
  <2>1. {flight[i].arg : i \in {j \in DOMAIN flight : flight[j].kind \in InRow}}
          = {flight[i].arg : i \in Pressings(flight)}
    BY DEF Pressings
  <2>2. \A r : r \in store.busy <=> r \in {flight[i].arg : i \in Pressings(flight)}
    BY DEF Honest
  <2>3. store.busy = {flight[i].arg : i \in Pressings(flight)} BY <2>2
  <2>4. \A i, j \in DOMAIN flight :
          {flight[i].kind, flight[j].kind} \subseteq InRow /\ flight[i].arg = flight[j].arg => i = j
    BY DEF Honest, Pressings
  <2> QED BY <2>1, <2>3, <2>4 DEF SpinnersHonest, Honest, UnderWay
<1> DEFINE Inv == Honest(flight, store)
<1>3. StoresInit => Inv BY <1>1
<1>4. StoresTypeOK /\ Inv => SpinnersHonest BY <1>2
<1>5. StoresTypeOK /\ Inv /\ [StoresNext]_storeVars => Inv'
  BY HonestInductive
<1> QED
  <2> HIDE DEF Inv
  <2> QED BY <1>3, <1>4, <1>5, StoresTypeCorrect, PTL DEF StoresSpec

-----------------------------------------------------------------------------
(* What is shown, as long as no answer has overtaken an older one: the last *)
(* fetch that matters to the page is its own, and when none is under way    *)
(* the page has what it asked for.                                          *)

\* The fetches whose answers change the same rows.
Rivals(kind) == IF slice = "customers" THEN Fetch ELSE {kind}

Wanted == IF shown.kind = "list" THEN "list" ELSE "detail"

\* The k-th request is the fetch of the page, and no rival was sent after it.
Own(k) == /\ flight[k].kind = Wanted /\ flight[k].arg = shown.arg
          /\ \A l \in DOMAIN flight : flight[l].kind \in Rivals(Wanted) => l <= k

Shows(s) ==
  /\ shown.kind = "list" /\ s.status = "succeeded" => s.ids \subseteq Matching[shown.arg]
  /\ shown.kind \in {"detail", "edit"} /\ s.detail = "succeeded" => shown.arg \in s.entities

Settled == /\ \A l \in DOMAIN flight : flight[l].kind \notin Rivals(Wanted)
           /\ Shows(store)

\* Forms and pages of a row are for customers and interactions.
OnlyRows ==
  /\ shown.kind \in {"detail", "edit"} => HasRows
  /\ \A k \in DOMAIN flight : flight[k].kind \in {"create", "update"} => HasRows

InTime == ~overtaken /\ shown.kind # "other" => Settled \/ \E k \in DOMAIN flight : Own(k)

OrderInv == OnlyRows /\ InTime

\* The fetch that a page sends when it is mounted is the last one.
LEMMA OwnLast ==
  ASSUME NEW requests \in Seq(Requests), NEW q \in Requests, ~q.here,
         flight' = Append(Orphaned(requests), q),
         q.kind = Wanted', q.arg = shown'.arg
  PROVE  \E k \in DOMAIN flight' : Own(k)'
<1>1. flight' \in Seq(Requests) /\ Len(flight') = Len(requests) + 1 BY Following
<1>2. flight'[Len(flight')] = q BY Following
<1>3. PICK k : k = Len(flight') OBVIOUS
<1>4. Len(requests) \in Nat OBVIOUS
<1>5. k \in DOMAIN flight' /\ \A l \in DOMAIN flight' : l <= k BY <1>1, <1>3, <1>4
<1>6. flight'[k].kind = Wanted' /\ flight'[k].arg = shown'.arg BY <1>2, <1>3
<1>7. Own(k)' BY <1>5, <1>6 DEF Own
<1> QED BY <1>5, <1>7

\* A page that is mounted has asked for what it shows.
LEMMA OwnMount ==
  ASSUME NEW requests \in Seq(Requests), NEW s \in Stores, Mounted(requests, s)
  PROVE  InTime'
<1> SUFFICES \E k \in DOMAIN flight' : Own(k)' BY DEF InTime
<1>1. ASSUME NEW arg \in Query, MountList(arg, requests, s)
      PROVE  \E k \in DOMAIN flight' : Own(k)'
  <2> DEFINE q == [kind |-> "list", arg |-> arg, here |-> FALSE]
  <2>1. q \in Requests /\ ~q.here BY DEF Requests
  <2>2. flight' = Append(Orphaned(requests), q) BY <1>1 DEF MountList, Sent
  <2>3. shown'.kind = "list" /\ shown'.arg = arg BY <1>1 DEF MountList
  <2>4. q.kind = Wanted' /\ q.arg = shown'.arg BY <2>3 DEF Wanted
  <2> HIDE DEF q
  <2> QED BY <2>1, <2>2, <2>4, OwnLast
<1>2. ASSUME NEW kind \in {"detail", "edit"}, NEW arg \in Row, MountRow(kind, arg, requests, s)
      PROVE  \E k \in DOMAIN flight' : Own(k)'
  <2> DEFINE q == [kind |-> "detail", arg |-> arg, here |-> FALSE]
  <2>1. q \in Requests /\ ~q.here BY DEF Requests
  <2>2. flight' = Append(Orphaned(requests), q) BY <1>2 DEF MountRow, Sent
  <2>3. shown'.kind = kind /\ shown'.arg = arg BY <1>2 DEF MountRow
  <2>4. q.kind = Wanted' /\ q.arg = shown'.arg BY <2>3 DEF Wanted
  <2> HIDE DEF q
  <2> QED BY <2>1, <2>2, <2>4, OwnLast
<1> QED BY <1>1, <1>2 DEF Mounted

\* A request that fetches nothing comes after the fetch of the page.
LEMMA OwnSent ==
  ASSUME flight \in Seq(Requests), NEW q \in Requests, q.kind \notin Fetch,
         flight' = Append(flight, q), InTime,
         slice' = slice, shown' = shown, overtaken' = overtaken,
         Shows(store) => Shows(store)'
  PROVE  InTime'
<1>1. /\ Len(flight) \in Nat
      /\ DOMAIN flight = 1..Len(flight) /\ DOMAIN flight' = 1..(Len(flight) + 1)
      /\ \A k \in 1..Len(flight) : flight'[k] = flight[k]
      /\ flight'[Len(flight) + 1] = q
  BY Appending
<1>2. Wanted' = Wanted /\ Rivals(Wanted)' = Rivals(Wanted) /\ Rivals(Wanted) \subseteq Fetch
  BY DEF Wanted, Rivals, Fetch
<1>3. \A l \in DOMAIN flight' : flight'[l].kind \in Rivals(Wanted) =>
        l \in DOMAIN flight /\ flight[l].kind \in Rivals(Wanted)
  BY <1>1, <1>2
<1>4. Settled => Settled' BY <1>2, <1>3 DEF Settled
<1>5. \A k \in DOMAIN flight : Own(k) => k \in DOMAIN flight' /\ Own(k)'
  BY <1>1, <1>2, <1>3 DEF Own
<1> QED BY <1>4, <1>5 DEF InTime

\* An answer, to the page that is still shown: that of a rival comes before its
\* own, that of any other fetch changes nothing it shows, and its own settles it
\* unless it has overtaken an older one.
LEMMA OwnArrival ==
  ASSUME flight \in Seq(Requests), NEW i \in DOMAIN flight, flight' = Rest(i),
         shown' = shown, shown \in Pages, Arrives(i), InTime, overtaken \in BOOLEAN,
         flight[i].kind = Wanted /\ flight[i].arg = shown.arg => Shows(store)',
         flight[i].kind \notin Rivals(Wanted) /\ Shows(store) => Shows(store)'
  PROVE  InTime'
<1>1. /\ \A k \in DOMAIN flight' : /\ Before(k, i) \in DOMAIN flight \ {i}
                                  /\ flight'[k] = flight[Before(k, i)]
      /\ \A j \in DOMAIN flight \ {i} : \E k \in DOMAIN flight' : k <= j /\ Before(k, i) = j
      /\ DOMAIN flight = 1..Len(flight)
  BY Remaining
<1>2. slice' = slice /\ overtaken' = (overtaken \/ Overtakes(i)) BY DEF Arrives
<1>3. Wanted' = Wanted /\ Rivals(Wanted)' = Rivals(Wanted) BY <1>2 DEF Wanted, Rivals
<1> SUFFICES ASSUME ~overtaken', shown.kind # "other"
             PROVE  Settled' \/ \E k \in DOMAIN flight' : Own(k)'
  BY DEF InTime
<1>4. ~overtaken /\ ~Overtakes(i) BY <1>2
<1>5. CASE Settled
  <2>1. \A l \in DOMAIN flight' : flight'[l].kind \notin Rivals(Wanted)
    BY <1>1, <1>5 DEF Settled
  <2>2. Shows(store)' BY <1>5 DEF Settled
  <2> QED BY <1>3, <2>1, <2>2 DEF Settled
<1>6. ASSUME NEW j \in DOMAIN flight, Own(j), j # i PROVE \E k \in DOMAIN flight' : Own(k)'
  <2>1. PICK k \in DOMAIN flight' : Before(k, i) = j BY <1>1, <1>6
  <2>2. flight'[k].kind = Wanted /\ flight'[k].arg = shown.arg
    BY <1>1, <1>6, <2>1 DEF Own
  <2>3. ASSUME NEW l \in DOMAIN flight', flight'[l].kind \in Rivals(Wanted) PROVE l <= k
    <3>1. Before(l, i) <= j BY <1>1, <1>6, <2>3 DEF Own
    <3>2. DOMAIN flight' \subseteq Nat /\ i \in Nat
      <4>1. Rest(i) \in Seq(Requests) BY Remaining
      <4> QED BY <1>1, <4>1
    <3> QED BY <2>1, <3>1, <3>2 DEF Before
  <2> QED BY <1>3, <2>2, <2>3 DEF Own
<1>7. CASE Own(i)
  <2>1. Shows(store)' BY <1>7 DEF Own
  <2>2. ASSUME NEW l \in DOMAIN flight' PROVE flight'[l].kind \notin Rivals(Wanted)
    <3>1. PICK j \in DOMAIN flight \ {i} : flight'[l] = flight[j] BY <1>1
    <3>2. SUFFICES ASSUME flight[j].kind \in Rivals(Wanted) PROVE FALSE BY <3>1
    <3>3. j <= i BY <1>7, <3>2 DEF Own
    <3>4. j \in 1..(i - 1) BY <1>1, <3>3
    <3>5. flight[i].kind = Wanted BY <1>7 DEF Own
    <3>6. Wanted \in Fetch BY DEF Wanted, Fetch
    <3>7. {flight[j].kind, flight[i].kind} \subseteq Fetch
      BY <3>2, <3>5, <3>6 DEF Rivals
    <3>8. flight[j].kind = flight[i].kind \/ slice = "customers"
      BY <3>2, <3>5 DEF Rivals
    <3> QED BY <1>4, <3>4, <3>7, <3>8 DEF Overtakes
  <2> QED BY <1>3, <2>1, <2>2 DEF Settled
<1> QED BY <1>4, <1>5, <1>6, <1>7 DEF InTime

\* Mounting a page sends no form.
LEMMA OnlyRowsMount ==
  ASSUME NEW requests \in Seq(Requests), NEW s \in Stores, Mounted(requests, s),
         \A k \in DOMAIN requests : requests[k].kind \in {"create", "update"} => HasRows,
         shown'.kind \in {"detail", "edit"} => HasRows, slice' = slice
  PROVE  OnlyRows'
<1>1. ASSUME NEW arg \in Query, MountList(arg, requests, s)
      PROVE  OnlyRows'
  <2> DEFINE q == [kind |-> "list", arg |-> arg, here |-> FALSE]
  <2>1. q \in Requests /\ ~q.here BY DEF Requests
  <2>2. flight' = Append(Orphaned(requests), q) BY <1>1 DEF MountList, Sent
  <2>3. q.kind = "list" OBVIOUS
  <2> HIDE DEF q
  <2>4. flight' \in Seq(Requests) /\ Len(flight') = Len(requests) + 1
    BY <2>1, <2>2, Following
  <2>5. \A k \in 1..Len(requests) : flight'[k].kind = requests[k].kind
    BY <2>1, <2>2, Following
  <2>6. flight'[Len(flight')] = q BY <2>1, <2>2, Following
  <2>7. ASSUME NEW k \in DOMAIN flight', flight'[k].kind \in {"create", "update"}
        PROVE  HasRows'
    <3>1. k # Len(flight') BY <2>3, <2>6, <2>7
    <3>2. Len(requests) \in Nat /\ DOMAIN requests = 1..Len(requests) OBVIOUS
    <3>3. k \in DOMAIN requests BY <2>4, <3>1, <3>2
    <3> QED BY <2>5, <2>7, <3>2, <3>3 DEF HasRows
  <2>8. shown'.kind \in {"detail", "edit"} => HasRows'
    BY DEF HasRows
  <2> QED BY <2>7, <2>8 DEF OnlyRows
<1>2. ASSUME NEW kind \in {"detail", "edit"}, NEW arg \in Row, MountRow(kind, arg, requests, s)
      PROVE  OnlyRows'
  <2> DEFINE q == [kind |-> "detail", arg |-> arg, here |-> FALSE]
  <2>1. q \in Requests /\ ~q.here BY DEF Requests
  <2>2. flight' = Append(Orphaned(requests), q) BY <1>2 DEF MountRow, Sent
  <2>3. q.kind = "detail" OBVIOUS
  <2> HIDE DEF q
  <2>4. flight' \in Seq(Requests) /\ Len(flight') = Len(requests) + 1
    BY <2>1, <2>2, Following
  <2>5. \A k \in 1..Len(requests) : flight'[k].kind = requests[k].kind
    BY <2>1, <2>2, Following
  <2>6. flight'[Len(flight')] = q BY <2>1, <2>2, Following
  <2>7. ASSUME NEW k \in DOMAIN flight', flight'[k].kind \in {"create", "update"}
        PROVE  HasRows'
    <3>1. k # Len(flight') BY <2>3, <2>6, <2>7
    <3>2. Len(requests) \in Nat /\ DOMAIN requests = 1..Len(requests) OBVIOUS
    <3>3. k \in DOMAIN requests BY <2>4, <3>1, <3>2
    <3> QED BY <2>5, <2>7, <3>2, <3>3 DEF HasRows
  <2>8. shown'.kind \in {"detail", "edit"} => HasRows'
    BY DEF HasRows
  <2> QED BY <2>7, <2>8 DEF OnlyRows
<1> QED BY <1>1, <1>2 DEF Mounted

\* An answer, to the page that is still shown.
LEMMA OrderArrival ==
  ASSUME StoresTypeOK, OrderInv, NEW i \in DOMAIN flight, flight' = Rest(i),
         shown' = shown, Arrives(i),
         flight[i].kind = Wanted /\ flight[i].arg = shown.arg => Shows(store)',
         flight[i].kind \notin Rivals(Wanted) /\ Shows(store) => Shows(store)'
  PROVE  OrderInv'
<1>0. flight \in Seq(Requests) /\ shown \in Pages /\ overtaken \in BOOLEAN
  BY DEF StoresTypeOK
<1>1. InTime' BY <1>0, OwnArrival DEF OrderInv
<1>2. \A k \in DOMAIN flight' : \E j \in DOMAIN flight : flight'[k] = flight[j]
  BY <1>0, Remaining
<1>3. slice' = slice BY DEF Arrives
<1>4. OnlyRows' BY <1>2, <1>3 DEF OrderInv, OnlyRows, HasRows
<1> QED BY <1>1, <1>4 DEF OrderInv

\* A page is mounted.
LEMMA OrderMount ==
  ASSUME NEW requests \in Seq(Requests), NEW s \in Stores, Mounted(requests, s),
         \A k \in DOMAIN requests : requests[k].kind \in {"create", "update"} => HasRows,
         shown'.kind \in {"detail", "edit"} => HasRows, slice' = slice
  PROVE  OrderInv'
BY OwnMount, OnlyRowsMount DEF OrderInv

\* A button is pressed, or a form sent.
LEMMA OrderSent ==
  ASSUME StoresTypeOK, OrderInv, NEW q \in Requests, flight' = Append(flight, q),
         q.kind \notin Fetch, q.kind \in {"create", "update"} => HasRows,
         slice' = slice, shown' = shown, overtaken' = overtaken,
         store'.ids = store.ids, store'.entities = store.entities,
         store'.status = store.status, store'.detail = store.detail
  PROVE  OrderInv'
<1>0. flight \in Seq(Requests) BY DEF StoresTypeOK
<1>1. Shows(store) => Shows(store)' BY DEF Shows
<1>2. InTime' BY <1>0, <1>1, OwnSent DEF OrderInv
<1>3. /\ Len(flight) \in Nat
      /\ DOMAIN flight = 1..Len(flight) /\ DOMAIN flight' = 1..(Len(flight) + 1)
      /\ \A k \in 1..Len(flight) : flight'[k] = flight[k]
      /\ flight'[Len(flight) + 1] = q
  BY <1>0, Appending
<1>4. ASSUME NEW k \in DOMAIN flight', flight'[k].kind \in {"create", "update"} PROVE HasRows
  <2>1. CASE k \in DOMAIN flight BY <1>3, <1>4, <2>1 DEF OrderInv, OnlyRows
  <2>2. CASE k = Len(flight) + 1 BY <1>3, <1>4, <2>2
  <2> QED BY <1>3, <2>1, <2>2
<1>5. OnlyRows' BY <1>4 DEF OrderInv, OnlyRows, HasRows
<1> QED BY <1>2, <1>5 DEF OrderInv

\* A fetch of the page stays the last one until its answer, and what it brings is
\* kept until the next.
LEMMA OrderInductive ==
  ASSUME StoresTypeOK, OrderInv, [StoresNext]_storeVars
  PROVE  OrderInv'
<1>0. /\ store \in Stores /\ flight \in Seq(Requests) /\ shown \in Pages /\ slice \in Slices
      /\ \A q \in Query : Matching[q] \subseteq Row
      /\ \A i \in DOMAIN flight : Rest(i) \in Seq(Requests) /\ flight[i] \in Requests
      /\ \A i \in DOMAIN flight : \A k \in DOMAIN Rest(i) :
           \E j \in DOMAIN flight : Rest(i)[k] = flight[j]
      /\ \A k \in DOMAIN flight : flight[k].kind \in {"create", "update"} => HasRows
  BY Remaining, StoresAssumption DEF StoresTypeOK, OrderInv, OnlyRows
<1> HIDE DEF Rest
<1>1. ASSUME NEW q \in Query, ShowList(q) PROVE OrderInv'
  <2>1. Mounted(flight, store) /\ shown'.kind = "list" /\ slice' = slice
    BY <1>1 DEF ShowList, Mounted, MountList
  <2> QED BY <1>0, <2>1, OrderMount
<1>2. ASSUME NEW r \in Row, NEW kind \in {"detail", "edit"}, ShowRow(kind, r) PROVE OrderInv'
  <2>1. Mounted(flight, store) /\ HasRows /\ slice' = slice
    BY <1>2 DEF ShowRow, Mounted
  <2> QED BY <1>0, <2>1, OrderMount
<1>3. CASE Leave
  <2>1. flight' = Orphaned(flight) /\ slice' = slice /\ shown'.kind = "other"
    BY <1>3 DEF Leave
  <2>2. /\ DOMAIN flight' = DOMAIN flight
        /\ \A k \in DOMAIN flight : flight'[k].kind = flight[k].kind
    BY <1>0, <2>1, Orphans
  <2> QED BY <1>0, <2>1, <2>2 DEF OrderInv, OnlyRows, InTime, HasRows
<1>4. ASSUME NEW r \in Row, NEW kind \in InRow, Press(kind, r) PROVE OrderInv'
  <2>1. PICK q \in Requests : q = [kind |-> kind, arg |-> r, here |-> FALSE]
    BY DEF Requests
  <2>2. flight' = Append(flight, q) BY <1>4, <2>1 DEF Press, Sent
  <2>3. q.kind \notin Fetch /\ q.kind \notin {"create", "update"} BY <2>1 DEF InRow, Fetch
  <2>4. /\ store'.ids = store.ids /\ store'.entities = store.entities
        /\ store'.status = store.status /\ store'.detail = store.detail
        /\ slice' = slice /\ shown' = shown /\ overtaken' = overtaken
    BY <1>0, <1>4 DEF Press, Stores
  <2> QED BY <2>2, <2>3, <2>4, OrderSent
<1>5. ASSUME NEW r, NEW kind, Submit(kind, r),
             \/ r = NoArg /\ kind = "create"
             \/ r \in Row /\ kind \in {"update", "delete"}
      PROVE  OrderInv'
  <2>1. PICK q \in Requests : q = [kind |-> kind, arg |-> r, here |-> TRUE]
    BY <1>5 DEF Requests
  <2>2. flight' = Append(flight, q) BY <1>5, <2>1 DEF Submit, Sent
  <2>3. q.kind \notin Fetch BY <1>5, <2>1 DEF Fetch
  <2>4. /\ HasRows /\ store' = store
        /\ slice' = slice /\ shown' = shown /\ overtaken' = overtaken
    BY <1>5 DEF Submit
  <2> QED BY <2>2, <2>3, <2>4, OrderSent
<1>6. CASE Visit BY <1>1, <1>2, <1>3, <1>6 DEF Visit
<1>7. CASE Click
  BY <1>4, <1>5, <1>7 DEF Click, PressUser, PressRetry, SubmitNew, SubmitEdit, ConfirmDelete, InRow
<1>8. ASSUME NEW i \in DOMAIN flight, NEW r \in Row, flight[i].kind \in {"create", "update"},
             Saved(i, r)
      PROVE  OrderInv'
  <2>1. PICK s \in Stores : s = [store EXCEPT !.entities = @ \cup {r}]
    BY <1>0 DEF Stores
  <2>2. Mounted(Rest(i), s) /\ slice' = slice BY <1>8, <2>1 DEF Saved, Mounted, Arrives
  <2>3. HasRows BY <1>0, <1>8
  <2> QED BY <1>0, <2>2, <2>3, OrderMount
<1>9. ASSUME NEW i \in DOMAIN flight, NEW q \in Query, Removed(i, q) PROVE OrderInv'
  <2>1. PICK s \in Stores :
          s = [store EXCEPT !.entities = @ \ {flight[i].arg}, !.ids = @ \ {flight[i].arg}]
    BY <1>0 DEF Stores
  <2>2. Mounted(Rest(i), s) /\ slice' = slice /\ shown'.kind = "list"
    BY <1>9, <2>1 DEF Removed, Mounted, MountList, Arrives
  <2>3. \A k \in DOMAIN Rest(i) : Rest(i)[k].kind \in {"create", "update"} => HasRows
    BY <1>0
  <2> QED BY <1>0, <2>2, <2>3, OrderMount
<1>10. ASSUME NEW i \in DOMAIN flight, NEW q \in Query, NEW rows \in SUBSET Matching[q],
              PageReplaces(i, q, rows) \/ PageMerges(i, q, rows)
       PROVE  OrderInv'
  <2>1. /\ flight' = Rest(i) /\ flight[i].kind = "list" /\ flight[i].arg = q
        /\ shown' = shown /\ Arrives(i)
        /\ store'.ids = rows /\ store'.detail = store.detail
    BY <1>0, <1>10 DEF PageReplaces, PageMerges, ListAnswered, Stores
  <2>2. ASSUME Wanted = "list", shown.arg = q PROVE Shows(store)'
    <3>1. shown.kind = "list" BY <2>2 DEF Wanted
    <3> QED BY <2>1, <2>2, <3>1 DEF Shows
  <2>3. ASSUME "list" \notin Rivals(Wanted), Shows(store) PROVE Shows(store)'
    <3>1. Wanted = "detail" /\ shown.kind # "list" /\ slice # "customers"
      BY <2>3 DEF Rivals, Fetch, Wanted
    <3>2. CASE shown.kind \in {"detail", "edit"}
      <4>1. slice = "interactions" BY <3>1, <3>2 DEF OrderInv, OnlyRows, HasRows
      <4>2. store'.entities = store.entities \cup rows
        BY <1>0, <1>10, <4>1 DEF PageReplaces, PageMerges, ListAnswered, Stores
      <4> QED BY <2>1, <2>3, <3>1, <4>2 DEF Shows
    <3>3. CASE shown.kind \notin {"detail", "edit"} BY <2>1, <3>1, <3>3 DEF Shows
    <3> QED BY <3>2, <3>3
  <2> QED BY <2>1, <2>2, <2>3, OrderArrival
<1>11. ASSUME NEW i \in DOMAIN flight, DetailAnswered(i) PROVE OrderInv'
  <2>1. /\ flight' = Rest(i) /\ flight[i].kind = "detail" /\ shown' = shown /\ Arrives(i)
        /\ store'.ids = store.ids /\ store'.status = store.status
        /\ store'.entities = store.entities \cup {flight[i].arg}
    BY <1>0, <1>11 DEF DetailAnswered, Stores
  <2>2. ASSUME Wanted = "detail", flight[i].arg = shown.arg PROVE Shows(store)'
    <3>1. shown.kind # "list" BY <2>2 DEF Wanted
    <3> QED BY <2>1, <2>2, <3>1 DEF Shows
  <2>3. ASSUME "detail" \notin Rivals(Wanted), Shows(store) PROVE Shows(store)'
    <3>1. shown.kind = "list" BY <2>3 DEF Rivals, Fetch, Wanted
    <3> QED BY <2>1, <2>3, <3>1 DEF Shows
  <2> QED BY <2>1, <2>2, <2>3, OrderArrival
<1>12. ASSUME NEW i \in DOMAIN flight, flight[i].kind \notin Fetch, flight' = Rest(i),
              shown' = shown, Arrives(i),
              store'.ids = store.ids, store.entities \subseteq store'.entities,
              store'.status = store.status, store'.detail = store.detail
       PROVE  OrderInv'
  <2>1. flight[i].kind # Wanted BY <1>12 DEF Wanted, Fetch
  <2>2. Shows(store) => Shows(store)' BY <1>12 DEF Shows
  <2> QED BY <1>12, <2>1, <2>2, OrderArrival
<1>13. ASSUME NEW i \in DOMAIN flight, UserUpdated(i) \/ UserDeactivated(i) \/ InsightRegenerated(i)
       PROVE  OrderInv'
  <2>1. /\ flight' = Rest(i) /\ shown' = shown /\ Arrives(i) /\ flight[i].kind \notin Fetch
    BY <1>13 DEF UserUpdated, UserDeactivated, InsightRegenerated, Pressed, Fetch
  <2>2. /\ store'.ids = store.ids /\ store.entities \subseteq store'.entities
        /\ store'.status = store.status /\ store'.detail = store.detail
    BY <1>0, <1>13 DEF UserUpdated, UserDeactivated, InsightRegenerated, Pressed, Stores
  <2> QED BY <1>12, <2>1, <2>2
<1>14. ASSUME NEW i \in DOMAIN flight, Answer(i) PROVE OrderInv'
  BY <1>8, <1>9, <1>10, <1>11, <1>13, <1>14 DEF Answer, Created, Updated
<1>15. ASSUME NEW i \in DOMAIN flight, Failure(i) PROVE OrderInv'
  <2>1. CASE ListFails(i)
    <3>1. /\ flight' = Rest(i) /\ flight[i].kind = "list" /\ shown' = shown /\ Arrives(i)
          /\ store'.status = "failed" /\ store'.detail = store.detail
          /\ store'.entities = store.entities
      BY <1>0, <2>1 DEF ListFails, Fails, Stores
    <3>2. Wanted = "list" => Shows(store)' BY <3>1 DEF Wanted, Shows
    <3>3. Shows(store) => Shows(store)' BY <3>1 DEF Shows
    <3> QED BY <3>1, <3>2, <3>3, OrderArrival
  <2>2. CASE DetailFails(i)
    <3>1. /\ flight' = Rest(i) /\ flight[i].kind = "detail" /\ shown' = shown /\ Arrives(i)
          /\ store'.detail = "failed" /\ store'.status = store.status /\ store'.ids = store.ids
      BY <1>0, <2>2 DEF DetailFails, Fails, Stores
    <3>2. Wanted = "detail" => Shows(store)' BY <3>1 DEF Wanted, Shows
    <3>3. Shows(store) => Shows(store)' BY <3>1 DEF Shows
    <3> QED BY <3>1, <3>2, <3>3, OrderArrival
  <2>3. CASE SubmitFails(i) \/ PressFails(i)
    <3>1. /\ flight' = Rest(i) /\ shown' = shown /\ Arrives(i) /\ flight[i].kind \notin Fetch
      BY <2>3 DEF SubmitFails, PressFails, Fails, Fetch, Awaited, InRow
    <3>2. /\ store'.ids = store.ids /\ store'.entities = store.entities
          /\ store'.status = store.status /\ store'.detail = store.detail
      BY <1>0, <2>3 DEF SubmitFails, PressFails, Fails, Stores
    <3> QED BY <1>12, <3>1, <3>2
  <2> QED BY <1>15, <2>1, <2>2, <2>3 DEF Failure
<1>16. CASE UNCHANGED storeVars
  BY <1>16 DEF storeVars, OrderInv, OnlyRows, InTime, Settled, Own, Shows, Wanted, Rivals, HasRows
<1> QED BY <1>6, <1>7, <1>14, <1>15, <1>16 DEF StoresNext

\* When no answer has overtaken an older one and no fetch is under way, the page
\* shows what it asked for: the rows of its filter, or its row.
THEOREM InOrderCorrect == StoresSpec => []InOrderShowsSelected
<1>1. StoresInit => OrderInv
  BY DEF StoresInit, OrderInv, OnlyRows, InTime
<1>2. OrderInv => InOrderShowsSelected
  <2> SUFFICES ASSUME OrderInv, ~overtaken, ~UnderWay("list"), ~UnderWay("detail")
               PROVE  /\ shown.kind = "list" /\ store.status = "succeeded" =>
                           store.ids \subseteq Matching[shown.arg]
                      /\ shown.kind \in {"detail", "edit"} /\ store.detail = "succeeded" =>
                           shown.arg \in store.entities
    BY DEF InOrderShowsSelected
  <2>1. \A k \in DOMAIN flight : ~Own(k) BY DEF UnderWay, Own, Wanted
  <2>2. CASE shown.kind = "other" BY <2>2
  <2>3. CASE shown.kind # "other" BY <2>1, <2>3 DEF OrderInv, InTime, Settled, Shows
  <2> QED BY <2>2, <2>3
<1> QED BY <1>1, <1>2, OrderInductive, StoresTypeCorrect, PTL DEF StoresSpec
=============================================================================
