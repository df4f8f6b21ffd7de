------------------------- MODULE AccessControlProofs -------------------------
(***************************************************************************)
(* Proofs about AccessControl: any number of users, rows and requests, any *)
(* bodies. What one request has read and decided says nothing of the other *)
(* requests, so the invariant is one of each request, and of the users     *)
(* that it names.                                                          *)
(***************************************************************************)
EXTENDS AccessControl, TLAPS

Locals == [role : Role \cup {None}, row : UserRow \cup {None},
           owner : User \cup {None}, assign : User \cup {None}]

Admin == [role |-> "admin", active |-> TRUE]

\* What is at hand when a request is about to load its row, and to write it.
Prepared(r) ==
  /\ pc[r] = "load" =>
       /\ call[r].op \in UserOps \cup CustomerOps \cup InteractionOps
       /\ local[r].role \in Gate(call[r].op)
  /\ pc[r] = "write" /\ call[r].op \in UserOps => local[r].row \in UserRow /\ KeepsSelf(call[r])
  /\ pc[r] = "write" /\ call[r].op = "patchCustomer" =>
       local[r].owner \in User /\ local[r].assign \in User
  /\ pc[r] = "write" /\ call[r].op = "createCustomer" => local[r].assign \in User

\* What has entitled the user of a request that has come that far.
Entitled(r) ==
  /\ call[r].op # "register" => "able" \in title[r]
  /\ pc[r] = "load" /\ NeedsOwner(call[r].op) /\ local[r].role \in Privileged =>
       "privileged" \in title[r]
  /\ pc[r] = "write" /\ NeedsOwner(call[r].op) => title[r] \cap {"privileged", "owner"} # {}
  /\ pc[r] = "write" /\ call[r].op = "patchCustomer" /\ local[r].assign # local[r].owner =>
       "privileged" \in title[r]

\* Accounts are never deleted.
Named(r) ==
  /\ call[r].op # "register" => users[call[r].actor] # None
  /\ call[r].op \in UserOps => users[call[r].target] # None

RequestOK(r) ==
  /\ pc[r] = "idle" <=> call[r] = None
  /\ call[r] # None => Prepared(r) /\ Entitled(r) /\ Named(r)

RowsOK ==
  /\ users \in [User -> UserRow \cup {None}]
  /\ customers \in [Customer -> User \cup {None, Deleted}]
  /\ interactions \in [Interaction -> InteractionRow \cup {None, Deleted}]
  /\ crossed \in BOOLEAN

RequestsTyped ==
  /\ pc \in [Request -> {"idle", "load", "write"}]
  /\ call \in [Request -> Sendable \cup {None}]
  /\ local \in [Request -> Locals]
  /\ title \in [Request -> SUBSET Titles]

AccessInv == RowsOK /\ RequestsTyped /\ \A r \in Request : RequestOK(r)

\* As long as no two changes of users have overlapped, at most one is under way,
\* and its administrator is still one.
AdminInv ==
  ~crossed =>
    /\ SomeAdmin
    /\ \A r, s \in Request : Changing(r) /\ Changing(s) => r = s
    /\ \A r \in Request : Changing(r) => users[call[r].actor] = Admin

\* The edit that deactivates an account is one that a body may hold.
LEMMA SwitchOffTyped == SwitchOff \in [role : Role \cup {Unset}, active : BOOLEAN \cup {Unset}]
<1>1. \A x \in BOOLEAN \cup {Unset} :
        [role |-> Unset, active |-> x] \in [role : Role \cup {Unset}, active : BOOLEAN \cup {Unset}]
  OBVIOUS
<1>2. FALSE \in BOOLEAN \cup {Unset}
  BY Zenon
<1>3. QED
  BY <1>1, <1>2, Zenon DEF SwitchOff

\* What clients send is well-formed.
LEMMA SendableTyped ==
  ASSUME NEW c \in Sendable
  PROVE  /\ c \in Calls /\ c # None
         /\ c.op \in UserOps => c.target \in User
         /\ c.op = "createUser" => c.target \in User /\ c.edit.role \in Role
         /\ c.op \in CustomerOps => c.target \in Customer
         /\ c.op = "createCustomer" => c.owner \in User \cup {None}
         /\ c.op \in InteractionOps => c.target \in Interaction
<1> USE AccessAssumption DEF Ask, NoEdit, Calls, Op, UserOps, CustomerOps, InteractionOps
<1>1. c \in SignUps => c \in Calls /\ c.op = "register"
  BY DEF SignUps
<1>2. c \in NewUsers =>
        c \in Calls /\ c.op = "createUser" /\ c.target \in User /\ c.edit.role \in Role
  BY DEF NewUsers
<1>3. c \in UserPatches => c \in Calls /\ c.op = "patchUser" /\ c.target \in User
  BY DEF UserPatches
<1>4. c \in Deactivations => c \in Calls /\ c.op = "deactivateUser" /\ c.target \in User
  BY SwitchOffTyped DEF Deactivations
<1>5. c \in NewCustomers =>
        c \in Calls /\ c.op = "createCustomer" /\ c.owner \in User \cup {None}
  BY DEF NewCustomers
<1>6. c \in CustomerPatches => c \in Calls /\ c.op = "patchCustomer" /\ c.target \in Customer
  BY DEF CustomerPatches
<1>7. c \in OnCustomers =>
        c \in Calls /\ c.op \in {"deleteCustomer", "createInteraction"} /\ c.target \in Customer
  BY DEF OnCustomers
<1>8. c \in OnInteractions => c \in Calls /\ c.op \in InteractionOps /\ c.target \in Interaction
  BY DEF OnInteractions
<1>9. QED
  BY <1>1, <1>2, <1>3, <1>4, <1>5, <1>6, <1>7, <1>8 DEF Sendable

\* A column that is written back takes a value of its type, and keeps one that
\* was asked to be what it is.
LEMMA ColumnTyped ==
  ASSUME NEW S, NEW now \in S, NEW loaded, NEW asked \in S \cup {Unset}
  PROVE  /\ Column(now, loaded, asked) \in S
         /\ asked \in {Unset, now} => Column(now, loaded, asked) = now
         /\ Column(now, loaded, asked) # now => Column(now, loaded, asked) # loaded
BY DEF Column

\* The titles of a request that goes on are kept, and those of the new state are
\* added to them.
LEMMA TitlesGrow ==
  ASSUME RequestsTyped, Observe
  PROVE  /\ title' \in [Request -> SUBSET Titles]
         /\ \A r \in Request : call'[r] # None /\ call'[r].op # "register" =>
              /\ TitlesNow(call'[r], users', customers', interactions') \subseteq title'[r]
              /\ call'[r] = call[r] => title[r] \subseteq title'[r]
<1>1. \A r \in Request : TitlesNow(call'[r], users', customers', interactions') \subseteq Titles
  BY DEF TitlesNow
<1>2. \A r \in Request : title[r] \subseteq Titles
  BY DEF RequestsTyped
<1>3. QED
  BY <1>1, <1>2 DEF Observe

\* A step of one request, and what it leaves of the others.
OnlyOf(r) ==
  \A q \in Request \ {r} : pc'[q] = pc[q] /\ call'[q] = call[q] /\ local'[q] = local[q]

AccountsStay == \A u \in User : users[u] # None => users'[u] # None

\* A step of one request leaves the others with what they have read and what
\* entitled them.
LEMMA OthersKeep ==
  ASSUME AccessInv, Observe, AccountsStay, NEW r \in Request, OnlyOf(r),
         NEW q \in Request \ {r}
  PROVE  RequestOK(q)'
<1>1. pc'[q] = pc[q] /\ call'[q] = call[q] /\ local'[q] = local[q]
  BY DEF OnlyOf
<1>2. CASE call[q] = None
  BY <1>1, <1>2 DEF AccessInv, RequestOK
<1>3. CASE call[q] # None
  <2>1. RequestOK(q) /\ call[q] \in Sendable
    BY <1>3 DEF AccessInv, RequestsTyped
  <2>2. Prepared(q)'
    BY <1>1, <1>3, <2>1 DEF RequestOK, Prepared, KeepsSelf, Gate
  <2>3. call[q].op # "register" => title[q] \subseteq title'[q]
    BY <1>1, <1>3, TitlesGrow DEF AccessInv
  <2>4. Entitled(q)'
    BY <1>1, <1>3, <2>1, <2>3 DEF RequestOK, Entitled, NeedsOwner, CustomerOps
  <2>5. Named(q)'
    BY <1>1, <1>3, <2>1, SendableTyped DEF RequestOK, Named, AccountsStay, Calls
  <2>6. QED
    BY <1>1, <1>3, <2>1, <2>2, <2>4, <2>5 DEF RequestOK
<1>4. QED
  BY <1>2, <1>3

\* So a step that ends its request has only its rows to answer for,
LEMMA EndKeeps ==
  ASSUME AccessInv, NEW r \in Request, End(r), Observe, RowsOK', AccountsStay
  PROVE  AccessInv'
<1>1. RequestsTyped' /\ OnlyOf(r) /\ pc'[r] = "idle" /\ call'[r] = None
  BY TitlesGrow, AccessAssumption DEF AccessInv, RequestsTyped, End, Goto, OnlyOf, Idle, Locals
<1>2. RequestOK(r)'
  BY <1>1 DEF RequestOK
<1>3. QED
  BY <1>1, <1>2, OthersKeep DEF AccessInv

\* and one that goes on only for that request.
LEMMA StepKeeps ==
  ASSUME AccessInv, NEW r \in Request, OnlyOf(r), Observe, UNCHANGED Rows, crossed' \in BOOLEAN,
         pc' \in [Request -> {"idle", "load", "write"}],
         call' \in [Request -> Sendable \cup {None}],
         local' \in [Request -> Locals],
         RequestOK(r)'
  PROVE  AccessInv'
<1>1. RowsOK' /\ RequestsTyped' /\ AccountsStay
  BY TitlesGrow DEF AccessInv, RowsOK, RequestsTyped, Rows, AccountsStay
<1>2. QED
  BY <1>1, OthersKeep DEF AccessInv

\* The program starts in the invariant.
LEMMA AccessInitInv == AccessInit => AccessInv
<1> SUFFICES ASSUME AccessInit PROVE AccessInv
  OBVIOUS
<1>1. crossed \in BOOLEAN
  BY Zenon DEF AccessInit
<1>2. RowsOK
  BY <1>1 DEF AccessInit, RowsOK
<1>3. Idle \in Locals
  BY DEF Idle, Locals
<1>4. RequestsTyped
  BY <1>3 DEF AccessInit, RequestsTyped
<1>5. \A r \in Request : RequestOK(r)
  BY DEF AccessInit, RequestOK
<1>6. QED
  BY <1>2, <1>4, <1>5 DEF AccessInv

\* A request that begins, with the right of its user checked or not needed.
LEMMA RegisterKeeps ==
  ASSUME AccessInv, NEW r \in Request, Register(r)
  PROVE  AccessInv'
<1>1. PICK c \in Sendable : c.op = "register" /\ Begin(r, c, "write")
  BY DEF Register
<1>2. c # None /\ c \in Calls
  BY SendableTyped
<1>3. /\ OnlyOf(r) /\ Observe /\ UNCHANGED Rows /\ UNCHANGED <<local, crossed>>
      /\ pc'[r] = "write" /\ call'[r] = c
      /\ pc' \in [Request -> {"idle", "load", "write"}]
      /\ call' \in [Request -> Sendable \cup {None}]
  BY <1>1 DEF Register, Begin, Goto, OnlyOf, AccessInv, RequestsTyped
<1>4. RequestOK(r)'
  BY <1>1, <1>2, <1>3
     DEF RequestOK, Prepared, Entitled, Named, NeedsOwner, UserOps, CustomerOps
<1>5. QED
  BY <1>3, <1>4, StepKeeps DEF AccessInv, RowsOK, RequestsTyped

\* The owner that is resolved is a user, and another than the current one only
\* for a manager or an administrator.
LEMMA ResolvedTyped ==
  ASSUME NEW role \in Role, NEW actor \in User, NEW asked \in User \cup {None},
         NEW current \in User \cup {None}
  PROVE  LET o == Resolved(role, actor, asked, current)
         IN  /\ o \in User \cup {None}
             /\ o # None /\ current # None /\ o # current =>
                  role \in Privileged \/ ~MayTouch(role, actor, current)
BY AccessAssumption DEF Resolved, Role, Privileged, MayTouch

\* What the row of the user shows is noted as its titles.
LEMMA AuthenticateKeeps ==
  ASSUME AccessInv, NEW r \in Request, Authenticate(r)
  PROVE  AccessInv'
<1>1. PICK c \in Sendable :
        LET row == users[c.actor]
            o == Resolved(row.role, c.actor, c.owner, None)
        IN /\ c.op # "register" /\ Known(c)
           /\ MayPass(row, c.op)
           /\ \/ /\ c.op \in UserOps \cup CustomerOps \cup InteractionOps
                 /\ Begin(r, c, "load")
                 /\ local' = [local EXCEPT ![r].role = row.role]
              \/ c.op = "createUser" /\ Begin(r, c, "write") /\ UNCHANGED local
              \/ /\ c.op = "createCustomer" /\ o # None
                 /\ Begin(r, c, "write")
                 /\ local' = [local EXCEPT ![r].assign = o]
           /\ crossed' = (crossed \/ (c.op \in UserOps /\ \E s \in Request : Changing(s)))
  BY DEF Authenticate
<1>2. c # None /\ c \in Calls /\ (c.op = "createCustomer" => c.owner \in User \cup {None})
  BY SendableTyped
<1>3. c.actor \in User /\ users[c.actor] \in UserRow /\ users[c.actor].role \in Role
  BY <1>1, <1>2 DEF MayPass, Calls, AccessInv, RowsOK, UserRow
<1>4. /\ OnlyOf(r) /\ Observe /\ UNCHANGED Rows
      /\ call'[r] = c /\ pc'[r] \in {"load", "write"}
      /\ pc' \in [Request -> {"idle", "load", "write"}]
      /\ call' \in [Request -> Sendable \cup {None}]
  BY <1>1 DEF Authenticate, Begin, Goto, OnlyOf, AccessInv, RequestsTyped
<1>5. /\ local' \in [Request -> Locals]
      /\ pc'[r] = "load" => local'[r].role = users[c.actor].role
      /\ c.op = "createCustomer" => local'[r].assign \in User
  <2>1. CASE local' = [local EXCEPT ![r].role = users[c.actor].role]
                /\ c.op \in UserOps \cup CustomerOps \cup InteractionOps
    BY <2>1, <1>3 DEF AccessInv, RequestsTyped, Locals, UserOps, CustomerOps, InteractionOps
  <2>2. CASE c.op = "createUser" /\ Begin(r, c, "write") /\ UNCHANGED local
    BY <2>2 DEF AccessInv, RequestsTyped, Begin, Goto
  <2>3. CASE /\ c.op = "createCustomer" /\ Begin(r, c, "write")
             /\ Resolved(users[c.actor].role, c.actor, c.owner, None) # None
             /\ local' = [local EXCEPT ![r].assign =
                             Resolved(users[c.actor].role, c.actor, c.owner, None)]
    <3>1. Resolved(users[c.actor].role, c.actor, c.owner, None) \in User
      BY <2>3, <1>2, <1>3, ResolvedTyped
    <3>2. QED
      BY <2>3, <3>1 DEF AccessInv, RequestsTyped, Locals, Begin, Goto
  <2>4. QED
    BY <1>1, <2>1, <2>2, <2>3
<1>6. TitlesNow(c, users, customers, interactions) \subseteq title'[r]
  BY <1>1, <1>2, <1>4, TitlesGrow DEF AccessInv, Rows
<1>7. "able" \in title'[r]
  BY <1>1, <1>6 DEF TitlesNow, Titles, MayPass
<1>8. NeedsOwner(c.op) /\ users[c.actor].role \in Privileged => "privileged" \in title'[r]
  BY <1>1, <1>6 DEF TitlesNow, Titles, MayPass
<1>9. pc'[r] = "write" => c.op \in {"createUser", "createCustomer"}
  BY <1>1 DEF Begin, Goto, AccessInv, RequestsTyped
<1>10. pc'[r] = "load" => c.op \in UserOps \cup CustomerOps \cup InteractionOps
  BY <1>1 DEF Begin, Goto, AccessInv, RequestsTyped
<1>11. Prepared(r)'
  BY <1>1, <1>4, <1>5, <1>9, <1>10 DEF Prepared, MayPass, UserOps, CustomerOps, InteractionOps
<1>12. Entitled(r)'
  BY <1>4, <1>5, <1>7, <1>8, <1>9 DEF Entitled, NeedsOwner, CustomerOps
<1>13. Named(r)'
  BY <1>1, <1>4 DEF Named, Known, Rows
<1>14. RequestOK(r)'
  BY <1>2, <1>4, <1>11, <1>12, <1>13 DEF RequestOK
<1>15. crossed' \in BOOLEAN
  BY <1>1
<1>16. QED
  BY <1>4, <1>5, <1>14, <1>15, StepKeeps

\* A request that is refused after it has read leaves all rows as they are.
LEMMA RefusalKeeps ==
  ASSUME AccessInv, NEW r \in Request, End(r), UNCHANGED <<Rows, crossed>>, Observe
  PROVE  AccessInv'
BY EndKeeps DEF AccessInv, RowsOK, Rows, AccountsStay

\* One that has read its row goes on to write it, with all titles it has had.
LEMMA LoadedKeeps ==
  ASSUME AccessInv, NEW r \in Request, NEW what \in Locals, Loaded(r, what),
         UNCHANGED <<Rows, crossed>>, Observe, pc[r] = "load"
  PROVE  /\ pc'[r] = "write" /\ call'[r] = call[r] /\ local'[r] = what
         /\ call[r] \in Sendable /\ RequestOK(r) /\ Prepared(r) /\ Entitled(r) /\ Named(r)
         /\ title[r] \cup TitlesNow(call[r], users, customers, interactions) \subseteq title'[r]
         /\ Prepared(r)' /\ Entitled(r)' => AccessInv'
<1>1. /\ OnlyOf(r) /\ UNCHANGED Rows /\ UNCHANGED <<call, crossed>>
      /\ pc'[r] = "write" /\ local'[r] = what
      /\ pc' \in [Request -> {"idle", "load", "write"}]
      /\ call' \in [Request -> Sendable \cup {None}]
      /\ local' \in [Request -> Locals]
  BY DEF Loaded, Goto, OnlyOf, AccessInv, RequestsTyped, Rows
<1>2. call[r] \in Sendable /\ RequestOK(r) /\ Prepared(r) /\ Entitled(r) /\ Named(r)
  BY DEF AccessInv, RequestsTyped, RequestOK
<1>3. call[r] # None /\ call[r].op # "register"
  BY <1>2, SendableTyped DEF Prepared, UserOps, CustomerOps, InteractionOps
<1>4. title[r] \cup TitlesNow(call[r], users, customers, interactions) \subseteq title'[r]
  BY <1>1, <1>3, TitlesGrow DEF AccessInv, Rows
<1>5. Named(r)'
  BY <1>1, <1>2 DEF Named, Rows
<1>6. Prepared(r)' /\ Entitled(r)' => RequestOK(r)'
  BY <1>1, <1>3, <1>5 DEF RequestOK
<1>7. Prepared(r)' /\ Entitled(r)' => AccessInv'
  BY <1>1, <1>6, StepKeeps DEF AccessInv, RowsOK
<1>8. QED
  BY <1>1, <1>2, <1>4, <1>7

\* The account that is loaded has a row, and is not one that the edit locks out.
LEMMA LoadUserKeeps ==
  ASSUME AccessInv, NEW r \in Request, LoadUser(r)
  PROVE  AccessInv'
<1> DEFINE c == call[r]
           row == IF c.target = c.actor THEN [role |-> local[r].role, active |-> TRUE]
                  ELSE users[c.target]
<1>1. /\ pc[r] = "load" /\ c.op \in UserOps /\ UNCHANGED <<Rows, crossed>> /\ Observe
      /\ \/ KeepsSelf(c) /\ Loaded(r, [Idle EXCEPT !.row = row])
         \/ End(r)
  BY DEF LoadUser
<1>2. CASE End(r)
  BY <1>1, <1>2, RefusalKeeps
<1>3. CASE KeepsSelf(c) /\ Loaded(r, [Idle EXCEPT !.row = row])
  <2>1. c \in Sendable /\ Prepared(r) /\ Named(r)
    BY <1>1 DEF AccessInv, RequestsTyped, RequestOK
  <2>2. c.target \in User /\ users[c.target] \in UserRow
    BY <1>1, <2>1, SendableTyped DEF Named, AccessInv, RowsOK
  <2>3. local[r].role \in Role
    BY <1>1, <2>1 DEF Prepared, Gate, Role, Privileged
  <2>4. row \in UserRow
    BY <2>2, <2>3 DEF UserRow
  <2>5. [Idle EXCEPT !.row = row] \in Locals
    BY <2>4 DEF Idle, Locals
  <2>6. /\ pc'[r] = "write" /\ call'[r] = c /\ local'[r] = [Idle EXCEPT !.row = row]
        /\ Entitled(r) /\ title[r] \subseteq title'[r]
        /\ Prepared(r)' /\ Entitled(r)' => AccessInv'
    BY <1>1, <1>3, <2>5, LoadedKeeps
  <2>7. Prepared(r)'
    BY <1>1, <1>3, <2>4, <2>6 DEF Prepared, UserOps, KeepsSelf, Idle
  <2>8. Entitled(r)'
    BY <1>1, <2>6 DEF Entitled, NeedsOwner, UserOps, CustomerOps
  <2>9. QED
    BY <2>6, <2>7, <2>8
<1>4. QED
  BY <1>1, <1>2, <1>3

\* The customer that is loaded is the user's own unless its role may touch all.
LEMMA LoadCustomerKeeps ==
  ASSUME AccessInv, NEW r \in Request, LoadCustomer(r)
  PROVE  AccessInv'
<1> DEFINE c == call[r]
           owner == customers[c.target]
           assign == IF c.owner = Unset THEN owner
                     ELSE Resolved(local[r].role, c.actor, c.owner, owner)
           what == IF c.op = "patchCustomer"
                   THEN [Idle EXCEPT !.owner = owner, !.assign = assign] ELSE Idle
           may == /\ Exists(customers, c.target)
                  /\ MayTouch(local[r].role, c.actor, owner)
                  /\ assign # None
<1>1. /\ pc[r] = "load" /\ c.op \in CustomerOps /\ UNCHANGED <<Rows, crossed>> /\ Observe
      /\ \/ may /\ Loaded(r, what)
         \/ End(r)
  BY DEF LoadCustomer
<1>2. CASE End(r)
  BY <1>1, <1>2, RefusalKeeps
<1>3. CASE may /\ Loaded(r, what)
  <2>1. c \in Sendable /\ Prepared(r)
    BY <1>1 DEF AccessInv, RequestsTyped, RequestOK
  <2>2. /\ c.target \in Customer /\ owner \in User /\ c.actor \in User
        /\ c.owner \in User \cup {None, Unset}
    BY <1>1, <1>3, <2>1, SendableTyped DEF Exists, AccessInv, RowsOK, Calls
  <2>3. local[r].role \in Role
    BY <1>1, <2>1 DEF Prepared, Gate, Role, Privileged
  <2>4. /\ assign \in User
        /\ assign # owner => local[r].role \in Privileged
    <3>1. CASE c.owner = Unset
      BY <3>1, <2>2
    <3>2. CASE c.owner # Unset
      <4>1. c.owner \in User \cup {None}
        BY <3>2, <2>2
      <4>2. LET o == Resolved(local[r].role, c.actor, c.owner, owner)
            IN  /\ o \in User \cup {None}
                /\ o # None /\ owner # None /\ o # owner =>
                     local[r].role \in Privileged \/ ~MayTouch(local[r].role, c.actor, owner)
        BY <4>1, <2>2, <2>3, ResolvedTyped
      <4>3. owner # None
        BY <2>2, AccessAssumption
      <4>4. QED
        BY <1>3, <3>2, <4>2, <4>3
    <3>3. QED
      BY <3>1, <3>2
  <2>5. what \in Locals
    BY <2>2, <2>4 DEF Idle, Locals
  <2>6. /\ pc'[r] = "write" /\ call'[r] = c /\ local'[r] = what
        /\ Entitled(r)
        /\ title[r] \cup TitlesNow(c, users, customers, interactions) \subseteq title'[r]
        /\ Prepared(r)' /\ Entitled(r)' => AccessInv'
    BY <1>1, <1>3, <2>5, LoadedKeeps
  <2>7. c.op = "patchCustomer" => local'[r].owner = owner /\ local'[r].assign = assign
    BY <2>6 DEF Idle
  <2>8. Prepared(r)'
    BY <1>1, <2>2, <2>4, <2>6, <2>7 DEF Prepared, UserOps, CustomerOps
  <2>9. owner = c.actor => "owner" \in TitlesNow(c, users, customers, interactions)
    BY <1>1 DEF TitlesNow, Titles
  <2>10. local[r].role \in Privileged => "privileged" \in title[r]
    BY <1>1, <2>6 DEF Entitled, NeedsOwner
  <2>11. title'[r] \cap {"privileged", "owner"} # {}
    BY <1>3, <2>6, <2>9, <2>10 DEF MayTouch
  <2>12. Entitled(r)'
    BY <1>1, <2>4, <2>6, <2>7, <2>10, <2>11 DEF Entitled, CustomerOps
  <2>13. QED
    BY <2>6, <2>8, <2>12
<1>4. QED
  BY <1>1, <1>2, <1>3

\* So is the interaction that is loaded to be changed.
LEMMA LoadInteractionKeeps ==
  ASSUME AccessInv, NEW r \in Request, LoadInteraction(r)
  PROVE  AccessInv'
<1> DEFINE c == call[r]
           may == /\ Exists(interactions, c.target)
                  /\ c.op = "patchInteraction" =>
                       MayTouch(local[r].role, c.actor, interactions[c.target].author)
<1>1. /\ pc[r] = "load" /\ c.op \in InteractionOps /\ UNCHANGED <<Rows, crossed>> /\ Observe
      /\ \/ may /\ Loaded(r, Idle)
         \/ End(r)
  BY DEF LoadInteraction
<1>2. CASE End(r)
  BY <1>1, <1>2, RefusalKeeps
<1>3. CASE may /\ Loaded(r, Idle)
  <2>1. c \in Sendable
    BY <1>1 DEF AccessInv, RequestsTyped, RequestOK
  <2>2. c.target \in Interaction /\ interactions[c.target] \in InteractionRow
    BY <1>1, <1>3, <2>1, SendableTyped DEF Exists, AccessInv, RowsOK
  <2>3. Idle \in Locals
    BY DEF Idle, Locals
  <2>4. /\ pc'[r] = "write" /\ call'[r] = c
        /\ Entitled(r)
        /\ title[r] \cup TitlesNow(c, users, customers, interactions) \subseteq title'[r]
        /\ Prepared(r)' /\ Entitled(r)' => AccessInv'
    BY <1>1, <1>3, <2>3, LoadedKeeps
  <2>5. Prepared(r)'
    BY <1>1, <2>4 DEF Prepared, UserOps, InteractionOps
  <2>6. c.op = "patchInteraction" /\ interactions[c.target].author = c.actor =>
          "owner" \in TitlesNow(c, users, customers, interactions)
    BY <2>2 DEF TitlesNow, Titles
  <2>7. c.op = "patchInteraction" /\ local[r].role \in Privileged => "privileged" \in title[r]
    BY <1>1, <2>4 DEF Entitled, NeedsOwner
  <2>8. c.op = "patchInteraction" => title'[r] \cap {"privileged", "owner"} # {}
    BY <1>3, <2>4, <2>6, <2>7 DEF MayTouch
  <2>9. Entitled(r)'
    BY <1>1, <2>4, <2>8 DEF Entitled, NeedsOwner, CustomerOps, InteractionOps
  <2>10. QED
    BY <2>4, <2>5, <2>9
<1>4. QED
  BY <1>1, <1>2, <1>3

\* What the writes of a user do to the table: the account is a new one, or one
\* that stays.
LEMMA NewUserKeeps ==
  ASSUME AccessInv, NEW r \in Request, WriteNewUser(r)
  PROVE  AccessInv' /\ \A v \in User : users[v] # None => users'[v] = users[v]
<1> DEFINE c == call[r]
           u == IF c.op = "register" THEN c.actor ELSE c.target
           role == IF c.op = "register" THEN "csm" ELSE c.edit.role
<1>1. /\ pc[r] = "write" /\ c.op \in {"register", "createUser"} /\ users[u] = None
      /\ users' = [users EXCEPT ![u] = [role |-> role, active |-> TRUE]]
      /\ UNCHANGED <<customers, interactions, crossed>> /\ End(r) /\ Observe
  BY DEF WriteNewUser, Committed
<1>2. c \in Sendable
  BY <1>1 DEF AccessInv, RequestsTyped, RequestOK
<1>3. u \in User /\ role \in Role
  BY <1>1, <1>2, SendableTyped DEF Calls, Role
<1>4. [role |-> role, active |-> TRUE] \in UserRow
  BY <1>3 DEF UserRow
<1>5. RowsOK'
  BY <1>1, <1>3, <1>4 DEF AccessInv, RowsOK
<1>6. \A v \in User : users[v] # None => users'[v] = users[v]
  BY <1>1, <1>3 DEF AccessInv, RowsOK
<1>7. QED
  BY <1>1, <1>5, <1>6, EndKeeps DEF AccountsStay

\* The commit of a change of a user: the row stays an account of a known role.
LEMMA UserKeeps ==
  ASSUME AccessInv, NEW r \in Request, WriteUser(r)
  PROVE  /\ AccessInv'
         /\ call[r].target \in User /\ users[call[r].target] \in UserRow
         /\ local[r].row \in UserRow /\ call[r] \in Calls /\ users'[call[r].target] \in UserRow
<1> DEFINE c == call[r]
           now == users[c.target]
           old == local[r].row
           new == [role |-> Column(now.role, old.role, c.edit.role),
                   active |-> Column(now.active, old.active, c.edit.active)]
<1>1. /\ pc[r] = "write" /\ c.op \in UserOps /\ users' = [users EXCEPT ![c.target] = new]
      /\ UNCHANGED <<customers, interactions, crossed>> /\ End(r) /\ Observe
  BY DEF WriteUser, Committed
<1>2. c \in Sendable /\ Prepared(r) /\ Named(r)
  BY <1>1 DEF AccessInv, RequestsTyped, RequestOK
<1>3. c \in Calls /\ c.target \in User /\ now \in UserRow /\ old \in UserRow
  BY <1>1, <1>2, SendableTyped DEF Named, Prepared, AccessInv, RowsOK
<1>4. c.edit.role \in Role \cup {Unset} /\ c.edit.active \in BOOLEAN \cup {Unset}
  BY <1>3 DEF Calls
<1>5. now.role \in Role /\ now.active \in BOOLEAN
  BY <1>3 DEF UserRow
<1>6. Column(now.role, old.role, c.edit.role) \in Role
  BY <1>4, <1>5, ColumnTyped
<1>7. Column(now.active, old.active, c.edit.active) \in BOOLEAN
  BY <1>4, <1>5, ColumnTyped
<1>8. new \in UserRow
  BY <1>6, <1>7 DEF UserRow
<1>9. users' \in [User -> UserRow \cup {None}] /\ users'[c.target] = new
  BY <1>1, <1>3, <1>8 DEF AccessInv, RowsOK
<1>10. RowsOK'
  BY <1>1, <1>9 DEF AccessInv, RowsOK
<1>11. AccountsStay
  BY <1>1, <1>3, <1>8, <1>9, AccessAssumption DEF AccessInv, RowsOK, AccountsStay
<1>12. AccessInv'
  BY <1>1, <1>10, <1>11, EndKeeps
<1>13. QED
  BY <1>3, <1>8, <1>9, <1>12

\* The other writes leave the accounts alone.
LEMMA RowKeeps ==
  ASSUME AccessInv, NEW r \in Request,
         \/ WriteNewCustomer(r) \/ WriteCustomer(r) \/ DeleteCustomer(r)
         \/ WriteNewInteraction(r) \/ WriteInteraction(r) \/ DeleteInteraction(r)
         \/ WriteFails(r)
  PROVE  AccessInv' /\ End(r) /\ UNCHANGED <<users, crossed>>
<1>1. /\ pc[r] = "write" /\ End(r) /\ UNCHANGED <<users, crossed>> /\ Observe
  BY DEF WriteNewCustomer, WriteCustomer, DeleteCustomer, WriteNewInteraction, WriteInteraction,
         DeleteInteraction, WriteFails, Committed, Rows
<1>2. call[r] \in Sendable /\ Prepared(r)
  BY <1>1 DEF AccessInv, RequestsTyped, RequestOK
<1>3. call[r] \in Calls
  BY <1>2, SendableTyped
<1>4. customers' \in [Customer -> User \cup {None, Deleted}]
  <2>1. CASE WriteNewCustomer(r)
    BY <1>2, <2>1 DEF WriteNewCustomer, Prepared, AccessInv, RowsOK
  <2>2. CASE WriteCustomer(r)
    BY <1>1, <1>2, <2>2 DEF WriteCustomer, Prepared, Column, AccessInv, RowsOK
  <2>3. CASE DeleteCustomer(r)
    BY <2>3 DEF DeleteCustomer, AccessInv, RowsOK
  <2>4. CASE UNCHANGED customers
    BY <2>4 DEF AccessInv, RowsOK
  <2>5. QED
    BY <2>1, <2>2, <2>3, <2>4
       DEF WriteNewInteraction, WriteInteraction, DeleteInteraction, WriteFails, Rows
<1>5. interactions' \in [Interaction -> InteractionRow \cup {None, Deleted}]
  <2>1. CASE DeleteCustomer(r)
    BY <2>1 DEF DeleteCustomer, AccessInv, RowsOK
  <2>2. CASE WriteNewInteraction(r)
    <3>1. call[r].target \in Customer
      BY <1>2, <2>2, SendableTyped DEF WriteNewInteraction, CustomerOps
    <3>2. [customer |-> call[r].target, author |-> call[r].actor] \in InteractionRow
      BY <1>3, <3>1 DEF Calls, InteractionRow
    <3>3. QED
      BY <2>2, <3>2 DEF WriteNewInteraction, AccessInv, RowsOK
  <2>3. CASE DeleteInteraction(r)
    BY <2>3 DEF DeleteInteraction, AccessInv, RowsOK
  <2>4. CASE UNCHANGED interactions
    BY <2>4 DEF AccessInv, RowsOK
  <2>5. QED
    BY <2>1, <2>2, <2>3, <2>4
       DEF WriteNewCustomer, WriteCustomer, WriteInteraction, WriteFails, Rows
<1>6. RowsOK' /\ AccountsStay
  BY <1>1, <1>4, <1>5 DEF AccessInv, RowsOK, AccountsStay
<1>7. QED
  BY <1>1, <1>6, EndKeeps

\* Every step keeps the invariant.
LEMMA AccessInvKept == AccessInv /\ [AccessNext]_accessVars => AccessInv'
<1> SUFFICES ASSUME AccessInv, [AccessNext]_accessVars PROVE AccessInv'
  OBVIOUS
<1>1. ASSUME NEW r \in Request, Register(r) PROVE AccessInv'
  BY <1>1, RegisterKeeps
<1>2. ASSUME NEW r \in Request, Authenticate(r) PROVE AccessInv'
  BY <1>2, AuthenticateKeeps
<1>3. ASSUME NEW r \in Request, LoadUser(r) PROVE AccessInv'
  BY <1>3, LoadUserKeeps
<1>4. ASSUME NEW r \in Request, LoadCustomer(r) PROVE AccessInv'
  BY <1>4, LoadCustomerKeeps
<1>5. ASSUME NEW r \in Request, LoadInteraction(r) PROVE AccessInv'
  BY <1>5, LoadInteractionKeeps
<1>6. ASSUME NEW r \in Request, WriteNewUser(r) PROVE AccessInv'
  BY <1>6, NewUserKeeps
<1>7. ASSUME NEW r \in Request, WriteUser(r) PROVE AccessInv'
  BY <1>7, UserKeeps
<1>8. ASSUME NEW r \in Request,
             \/ WriteNewCustomer(r) \/ WriteCustomer(r) \/ DeleteCustomer(r)
             \/ WriteNewInteraction(r) \/ WriteInteraction(r) \/ DeleteInteraction(r)
             \/ WriteFails(r)
      PROVE AccessInv'
  BY <1>8, RowKeeps
<1>9. CASE UNCHANGED accessVars
  BY <1>9 DEF accessVars, AccessInv, RowsOK, RequestsTyped, RequestOK, Prepared, Entitled, Named,
              KeepsSelf, NeedsOwner, Gate
<1>10. QED
  BY <1>1, <1>2, <1>3, <1>4, <1>5, <1>6, <1>7, <1>8, <1>9 DEF AccessNext

\* The invariant holds of every behaviour.
LEMMA AccessInvAlways == AccessSpec => []AccessInv
BY AccessInitInv, AccessInvKept, PTL DEF AccessSpec

\* A step of one request leaves the place of the others, and a customer's owner is
\* changed by PATCH alone.
LEMMA WhoEnds ==
  ASSUME AccessInv, AccessNext, NEW r \in Request, pc[r] = "write", pc'[r] = "idle"
  PROVE  \/ WriteNewUser(r) \/ WriteUser(r)
         \/ WriteNewCustomer(r) \/ WriteCustomer(r) \/ DeleteCustomer(r)
         \/ WriteNewInteraction(r) \/ WriteInteraction(r) \/ DeleteInteraction(r)
         \/ WriteFails(r)
<1>1. PICK q \in Request :
        \/ Register(q) \/ Authenticate(q)
        \/ LoadUser(q) \/ LoadCustomer(q) \/ LoadInteraction(q)
        \/ WriteNewUser(q) \/ WriteUser(q)
        \/ WriteNewCustomer(q) \/ WriteCustomer(q) \/ DeleteCustomer(q)
        \/ WriteNewInteraction(q) \/ WriteInteraction(q) \/ DeleteInteraction(q)
        \/ WriteFails(q)
  BY DEF AccessNext
<1>2. pc \in [Request -> {"idle", "load", "write"}]
  BY DEF AccessInv, RequestsTyped
<1>3. \E l \in {"idle", "load", "write"} : pc' = [pc EXCEPT ![q] = l]
  BY <1>1 DEF Register, Authenticate, LoadUser, LoadCustomer, LoadInteraction, WriteNewUser,
              WriteUser, WriteNewCustomer, WriteCustomer, DeleteCustomer, WriteNewInteraction,
              WriteInteraction, DeleteInteraction, WriteFails, Committed, End, Begin, Loaded, Goto
<1>4. q = r
  BY <1>2, <1>3
<1>5. QED
  BY <1>1, <1>4
     DEF Register, Authenticate, LoadUser, LoadCustomer, LoadInteraction, Begin

\* Every column of the three tables, and all that requests hold, keep their types.
THEOREM AccessTypes == AccessSpec => []AccessTypeOK
<1>1. AccessInv => AccessTypeOK
  <2> SUFFICES ASSUME AccessInv PROVE AccessTypeOK
    OBVIOUS
  <2>1. call \in [Request -> Calls \cup {None}]
    BY SendableTyped DEF AccessInv, RequestsTyped
  <2>2. QED
    BY <2>1 DEF AccessInv, RowsOK, RequestsTyped, RequestOK, AccessTypeOK, Locals
<1>2. QED
  BY <1>1, AccessInvAlways, PTL

\* What is about to be committed, by any user in any role, its user has been
\* entitled to since the request arrived.
THEOREM WritesAreEntitled == AccessSpec => []EntitledWrites
<1>1. AccessInv => EntitledWrites
  BY DEF AccessInv, RequestOK, Entitled, EntitledWrites
<1>2. QED
  BY <1>1, AccessInvAlways, PTL

\* Only a manager or an administrator takes a customer from its owner.
THEOREM ManagersReassign == AccessSpec => OnlyManagersReassign
<1> DEFINE Moved(c) ==
             customers[c] \in User /\ customers'[c] \in User /\ customers'[c] # customers[c]
           ByManager(c) ==
             \E r \in Request : /\ pc[r] = "write" /\ pc'[r] = "idle"
                                /\ call[r].op = "patchCustomer" /\ call[r].target = c
                                /\ "privileged" \in title[r]
<1>1. ASSUME AccessInv, [AccessNext]_accessVars, NEW c \in Customer, Moved(c)
      PROVE  ByManager(c)
  <2>1. customers \in [Customer -> User \cup {None, Deleted}] /\ None \notin User /\ Deleted \notin User
    BY <1>1, AccessAssumption DEF AccessInv, RowsOK
  <2>2. PICK r \in Request : WriteNewCustomer(r) \/ WriteCustomer(r) \/ DeleteCustomer(r)
    BY <1>1 DEF AccessNext, accessVars, Register, Authenticate, LoadUser, LoadCustomer,
                LoadInteraction, WriteNewUser, WriteUser, WriteNewInteraction,
                WriteInteraction, DeleteInteraction, WriteFails, Begin, Rows
  <2>3. ~WriteNewCustomer(r) /\ ~DeleteCustomer(r)
    BY <1>1, <2>1 DEF WriteNewCustomer, DeleteCustomer
  <2>4. /\ pc[r] = "write" /\ call[r].op = "patchCustomer" /\ End(r)
        /\ customers' = [customers EXCEPT ![call[r].target] =
                            Column(@, local[r].owner, local[r].assign)]
    BY <2>2, <2>3 DEF WriteCustomer, Committed
  <2>5. call[r].target = c /\ local[r].assign # local[r].owner
    BY <1>1, <2>1, <2>4 DEF Column
  <2>6. "privileged" \in title[r]
    BY <1>1, <2>4, <2>5 DEF AccessInv, RequestOK, Entitled
  <2>7. pc'[r] = "idle"
    BY <1>1, <2>4 DEF End, Goto, AccessInv, RequestsTyped
  <2>8. QED
    BY <2>4, <2>5, <2>6, <2>7
<1> DEFINE Managed == \A c \in Customer : Moved(c) => ByManager(c)
<1>2. AccessInv /\ [AccessNext]_accessVars => Managed
  BY <1>1
<1>3. AccessSpec => [][Managed]_accessVars
  BY <1>2, AccessInvAlways, PTL DEF AccessSpec
<1>4. QED
  BY <1>3 DEF OnlyManagersReassign

\* No update puts back a value that it has loaded and another has replaced.
THEOREM NoEditReverts == AccessSpec => EditsDoNotRevert
<1> DEFINE Forward(r) ==
             LET t == call[r].target
                 old == local[r]
             IN /\ call[r].op = "patchCustomer" /\ customers'[t] # customers[t] =>
                     customers'[t] # old.owner
                /\ call[r].op \in UserOps =>
                     /\ users'[t].role # users[t].role => users'[t].role # old.row.role
                     /\ users'[t].active # users[t].active =>
                          users'[t].active # old.row.active
<1>1. ASSUME AccessInv, [AccessNext]_accessVars, NEW r \in Request,
             pc[r] = "write", pc'[r] = "idle"
      PROVE  Forward(r)
  <2>1. AccessNext
    BY <1>1 DEF accessVars
  <2>2. CASE WriteUser(r)
    <3> DEFINE t == call[r].target
    <3>1. /\ t \in User /\ users[t] \in UserRow /\ local[r].row \in UserRow /\ call[r] \in Calls
      BY <1>1, <2>2, UserKeeps
    <3>2. /\ call[r].edit.role \in Role \cup {Unset}
          /\ call[r].edit.active \in BOOLEAN \cup {Unset}
      BY <3>1 DEF Calls
    <3>3. users[t].role \in Role /\ users[t].active \in BOOLEAN
      BY <3>1 DEF UserRow
    <3>4. /\ call[r].op \in UserOps
          /\ users' = [users EXCEPT ![t] =
               [role |-> Column(users[t].role, local[r].row.role, call[r].edit.role),
                active |-> Column(users[t].active, local[r].row.active, call[r].edit.active)]]
      BY <2>2 DEF WriteUser
    <3>5. /\ users'[t].role = Column(users[t].role, local[r].row.role, call[r].edit.role)
          /\ users'[t].active = Column(users[t].active, local[r].row.active, call[r].edit.active)
      BY <1>1, <3>1, <3>4 DEF AccessInv, RowsOK
    <3>6. users'[t].role # users[t].role => users'[t].role # local[r].row.role
      BY <3>2, <3>3, <3>5, ColumnTyped
    <3>7. users'[t].active # users[t].active => users'[t].active # local[r].row.active
      BY <3>2, <3>3, <3>5, ColumnTyped
    <3>8. QED
      BY <3>4, <3>6, <3>7 DEF UserOps
  <2>3. CASE WriteCustomer(r)
    <3>1. /\ call[r].op = "patchCustomer" /\ call[r] \in Sendable
          /\ customers' = [customers EXCEPT ![call[r].target] =
                              Column(@, local[r].owner, local[r].assign)]
      BY <1>1, <2>3 DEF WriteCustomer, AccessInv, RequestsTyped, RequestOK
    <3>2. call[r].target \in Customer
      BY <3>1, SendableTyped DEF CustomerOps
    <3>3. QED
      BY <1>1, <3>1, <3>2 DEF Column, UserOps, AccessInv, RowsOK
  <2>4. CASE call[r].op \notin UserOps \cup {"patchCustomer"}
    BY <2>4
  <2>5. CASE WriteFails(r)
    BY <2>5 DEF WriteFails, Rows
  <2>6. QED
    BY <1>1, <2>1, <2>2, <2>3, <2>4, <2>5, WhoEnds
       DEF WriteNewUser, WriteNewCustomer, DeleteCustomer, WriteNewInteraction,
           WriteInteraction, DeleteInteraction, UserOps
<1> DEFINE Forwards == \A r \in Request : pc[r] = "write" /\ pc'[r] = "idle" => Forward(r)
<1>2. AccessInv /\ [AccessNext]_accessVars => Forwards
  BY <1>1
<1>3. AccessSpec => [][Forwards]_accessVars
  BY <1>2, AccessInvAlways, PTL DEF AccessSpec
<1>4. QED
  BY <1>3 DEF EditsDoNotRevert

\* The administrator whose change of an account is under way cannot be the one it
\* removes, and nobody else is changing accounts.
LEMMA AdminInvKept == AccessInv /\ AdminInv /\ [AccessNext]_accessVars => AdminInv'
<1> SUFFICES ASSUME AccessInv, AdminInv, [AccessNext]_accessVars, ~crossed'
             PROVE  /\ SomeAdmin'
                    /\ \A r, s \in Request : Changing(r)' /\ Changing(s)' => r = s
                    /\ \A r \in Request : Changing(r)' => users'[call'[r].actor] = Admin
  BY DEF AdminInv
<1> DEFINE Good == /\ SomeAdmin'
                   /\ \A r, s \in Request : Changing(r)' /\ Changing(s)' => r = s
                   /\ \A r \in Request : Changing(r)' => users'[call'[r].actor] = Admin
<1>1. /\ call \in [Request -> Sendable \cup {None}]
      /\ users \in [User -> UserRow \cup {None}] /\ Admin # None
      /\ \A r \in Request : Changing(r) => call[r].actor \in User
  <2>1. Admin # None
    <3>1. Admin \in UserRow
      BY DEF Admin, UserRow, Role
    <3>2. QED
      BY <3>1, AccessAssumption
  <2>2. \A c \in Sendable : c.actor \in User
    BY SendableTyped DEF Calls
  <2>3. QED
    BY <2>1, <2>2 DEF AccessInv, RequestsTyped, RowsOK, Changing
<1>2. ASSUME ~crossed, \A r \in Request : Changing(r)' => Changing(r) /\ call'[r] = call[r],
             \A u \in User : users[u] = Admin => users'[u] = Admin
      PROVE  Good
  BY <1>1, <1>2 DEF AdminInv, SomeAdmin, Admin
<1>3. ASSUME NEW r \in Request, Register(r) PROVE Good
  <2>1. PICK c \in Sendable : c.op = "register" /\ call' = [call EXCEPT ![r] = c]
    BY <1>3 DEF Register, Begin
  <2>2. QED
    BY <1>1, <1>2, <1>3, <2>1 DEF Register, Begin, Rows, Changing, UserOps
<1>4. ASSUME NEW r \in Request, Authenticate(r) PROVE Good
  <2>1. PICK c \in Sendable :
          /\ call' = [call EXCEPT ![r] = c] /\ MayPass(users[c.actor], c.op)
          /\ UNCHANGED Rows
          /\ crossed' = (crossed \/ (c.op \in UserOps /\ \E s \in Request : Changing(s)))
    BY <1>4 DEF Authenticate, Begin
  <2>2. CASE c.op \notin UserOps
    BY <1>1, <1>2, <2>1, <2>2 DEF Rows, Changing
  <2>3. CASE c.op \in UserOps
    <3>1. c.actor \in User
      BY SendableTyped DEF Calls
    <3>2. users[c.actor] \in UserRow /\ users[c.actor].role = "admin"
      BY <1>1, <2>1, <2>3, <3>1 DEF MayPass, Gate
    <3>3. users[c.actor].active = TRUE
      BY <2>1, <3>2 DEF MayPass, UserRow
    <3>4. users[c.actor] = Admin
      BY <3>2, <3>3 DEF UserRow, Admin
    <3>5. ~crossed /\ \A s \in Request : ~Changing(s)
      BY <2>1, <2>3
    <3>6. /\ SomeAdmin' /\ UNCHANGED users
          /\ \A s \in Request : Changing(s)' => s = r /\ call'[s] = c
      BY <1>1, <2>1, <3>5 DEF AdminInv, SomeAdmin, Rows, Changing
    <3>7. QED
      BY <3>4, <3>6
  <2>4. QED
    BY <2>2, <2>3
<1>5. ASSUME NEW r \in Request, LoadUser(r) \/ LoadCustomer(r) \/ LoadInteraction(r) PROVE Good
  <2>1. UNCHANGED call \/ call' = [call EXCEPT ![r] = None]
    BY <1>5 DEF LoadUser, LoadCustomer, LoadInteraction, Loaded, End
  <2>2. UNCHANGED <<users, crossed>>
    BY <1>5 DEF LoadUser, LoadCustomer, LoadInteraction, Rows
  <2>3. QED
    BY <1>1, <1>2, <2>1, <2>2 DEF Changing
<1>6. ASSUME NEW r \in Request, End(r), UNCHANGED crossed,
             \A u \in User : users[u] = Admin => users'[u] = Admin
      PROVE  Good
  BY <1>1, <1>2, <1>6 DEF End, Changing
<1>7. ASSUME NEW r \in Request, WriteNewUser(r) PROVE Good
  BY <1>1, <1>6, <1>7, NewUserKeeps DEF WriteNewUser, Committed
<1>8. ASSUME NEW r \in Request, WriteUser(r) PROVE Good
  <2> DEFINE c == call[r]
             a == c.actor
             now == users[c.target]
             old == local[r].row
             new == [role |-> Column(now.role, old.role, c.edit.role),
                     active |-> Column(now.active, old.active, c.edit.active)]
  <2>1. /\ c # None /\ c.op \in UserOps /\ users' = [users EXCEPT ![c.target] = new]
        /\ End(r) /\ ~crossed /\ pc[r] = "write"
    BY <1>8 DEF WriteUser, Committed, AccessInv, RequestOK
  <2>2. /\ a \in User /\ users[a] = Admin
        /\ \A s \in Request : Changing(s) => s = r
    BY <1>1, <2>1 DEF AdminInv, Changing
  <2>3. c \in Calls /\ c.target \in User
    BY <1>8, UserKeeps
  <2>4. \A s \in Request : ~Changing(s)'
    BY <1>1, <2>1, <2>2 DEF End, Changing
  <2>5. users'[a] = Admin
    <3>1. CASE c.target # a
      BY <1>1, <2>1, <2>2, <2>3, <3>1
    <3>2. CASE c.target = a
      <4>1. c.edit.role \in {Unset, "admin"} /\ c.edit.active # FALSE
        BY <2>1, <3>2 DEF AccessInv, RequestOK, Prepared, KeepsSelf
      <4>2. c.edit.active \in BOOLEAN \cup {Unset}
        BY <2>3 DEF Calls
      <4>3. c.edit.active \in {Unset, TRUE}
        BY <4>1, <4>2
      <4>4. now.role = "admin" /\ now.active = TRUE
        BY <2>2, <3>2 DEF Admin
      <4>5. Column(now.role, old.role, c.edit.role) = "admin"
        BY <4>1, <4>4 DEF Column
      <4>6. Column(now.active, old.active, c.edit.active) = TRUE
        BY <4>3, <4>4 DEF Column
      <4>7. new = Admin
        BY <4>5, <4>6 DEF Admin
      <4>8. QED
        BY <1>1, <2>1, <2>2, <3>2, <4>7
    <3>3. QED
      BY <3>1, <3>2
  <2>6. QED
    BY <2>2, <2>4, <2>5 DEF SomeAdmin, Admin
<1>9. ASSUME NEW r \in Request,
             \/ WriteNewCustomer(r) \/ WriteCustomer(r) \/ DeleteCustomer(r)
             \/ WriteNewInteraction(r) \/ WriteInteraction(r) \/ DeleteInteraction(r)
             \/ WriteFails(r)
      PROVE  Good
  BY <1>6, <1>9, RowKeeps
<1>10. CASE UNCHANGED accessVars
  BY <1>2, <1>10 DEF accessVars, Changing
<1>11. QED
  BY <1>3, <1>4, <1>5, <1>7, <1>8, <1>9, <1>10 DEF AccessNext

\* An active administrator remains, whoever edits whom, one change at a time.
THEOREM AnAdminRemains == AccessSpec => []SerialAdminRemains
<1>1. AccessInit => AdminInv
  BY DEF AccessInit, AdminInv, Changing
<1>2. AdminInv => SerialAdminRemains
  BY DEF AdminInv, SerialAdminRemains
<1>3. QED
  BY <1>1, <1>2, AdminInvKept, AccessInvAlways, PTL DEF AccessSpec
=============================================================================
