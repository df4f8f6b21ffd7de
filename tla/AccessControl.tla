--------------------------- MODULE AccessControl ---------------------------
(***************************************************************************)
(* Who may write users, customers and interactions. A request reads the    *)
(* acting user, then the row it is about, checks both against the rights   *)
(* of the role, and writes: one action per statement, so that what was     *)
(* checked may have changed by the time of the write. An UPDATE is flushed *)
(* and committed in one step (nothing comes between, and a second writer   *)
(* of the row waits) and carries only the columns whose value differs      *)
(* from what the request loaded.                                           *)
(***************************************************************************)
EXTENDS Naturals, FiniteSets

CONSTANTS
  User,         \* accounts, each with its unique email address
  Customer,
  Interaction,
  Request,      \* the server's worker threads
  UserEdits,    \* bodies of PATCH /users/{id}
  NewRoles,     \* roles that administrators create accounts with
  None,         \* no row yet, or no value
  Deleted,      \* the row is gone, and its id is never used again
  Unset         \* a field that the body leaves out

Role == {"admin", "manager", "csm"}
Privileged == {"admin", "manager"}
UserRow == [role : Role, active : BOOLEAN]

VARIABLES
  users,        \* users[u]: the committed row, or None
  customers,    \* customers[c]: its owner_id, or None or Deleted
  interactions, \* interactions[i]: its customer and its author
  pc, call,     \* where each request is, and what it asks
  local,        \* what each request has read and decided
  title,        \* history: what has entitled its user since it arrived
  crossed       \* history: two changes of users have overlapped

accessVars == <<users, customers, interactions, pc, call, local, title, crossed>>

InteractionRow == [customer : Customer, author : User]
UserOps == {"patchUser", "deactivateUser"}
CustomerOps == {"patchCustomer", "deleteCustomer", "createInteraction"}
InteractionOps == {"patchInteraction", "deleteInteraction"}
Op == UserOps \cup CustomerOps \cup InteractionOps
        \cup {"register", "createUser", "createCustomer"}

\* A request: owner is the owner_id, or for an account to be created its name;
\* edit is the body of PATCH /users/{id}, or the new account's role.
Calls == [op : Op, actor : User, target : User \cup Customer \cup Interaction \cup {None},
          owner : User \cup {None, Unset},
          edit : [role : Role \cup {Unset}, active : BOOLEAN \cup {Unset}]]
NoEdit == [role |-> Unset, active |-> Unset]
SwitchOff == [role |-> Unset, active |-> FALSE]

ASSUME AccessAssumption ==
  /\ None \notin User /\ None \notin UserRow /\ Deleted \notin User
  /\ Unset \notin User /\ Unset \notin Role /\ Unset \notin BOOLEAN /\ Deleted # None
  /\ None \notin Role /\ Unset # None
  /\ None \notin Calls
  /\ None \notin Customer \cup Interaction
  /\ NewRoles \subseteq Role
  /\ UserEdits \subseteq [role : Role \cup {Unset}, active : BOOLEAN \cup {Unset}]

Ask(op, actor, target, owner, edit) ==
  [op |-> op, actor |-> actor, target |-> target, owner |-> owner, edit |-> edit]

Idle == [role |-> None, row |-> None, owner |-> None, assign |-> None]

\* What a request can be entitled by: its user active in a role that may send it,
\* in a privileged one, or owner of the customer (author of the interaction).
Titles == {"able", "privileged", "owner"}

Exists(table, x) == table[x] \notin {None, Deleted}

------------------------------------------------------------------------------
(* The rights of a role. *)

\* require_roles of the routers, and the same test at the head of UserService.
Gate(op) ==
  IF op \in UserOps \cup {"createUser", "deleteCustomer"} THEN {"admin"}
  ELSE IF op = "deleteInteraction" THEN Privileged
  ELSE Role

\* _assert_can_access, _assert_can_update: a CSM acts on what is its own.
MayTouch(role, actor, owner) == role \in Privileged \/ owner = actor

------------------------------------------------------------------------------
(* History. *)

NeedsOwner(op) == op \in CustomerOps \cup {"patchInteraction"}

TitlesNow(c, accounts, owners, notes) ==
  LET row == accounts[c.actor]
      active == row # None /\ row.active
  IN {t \in Titles :
        \/ t = "able" /\ active /\ row.role \in Gate(c.op)
        \/ t = "privileged" /\ NeedsOwner(c.op) /\ active /\ row.role \in Privileged
        \/ t = "owner" /\ c.op \in CustomerOps /\ owners[c.target] = c.actor
        \/ /\ t = "owner" /\ c.op = "patchInteraction"
           /\ notes[c.target] \in InteractionRow /\ notes[c.target].author = c.actor}

\* Part of every step: what entitles the users of the requests afterwards.
Observe ==
  title' = [r \in Request |->
              IF call'[r] = None \/ call'[r].op = "register" THEN {}
              ELSE (IF call[r] = None THEN {} ELSE title[r])
                     \cup TitlesNow(call'[r], users', customers', interactions')]

------------------------------------------------------------------------------
(* The steps of a request. *)

Goto(r, l) == pc' = [pc EXCEPT ![r] = l]

\* The response, of either kind, and the end of the transaction.
End(r) ==
  /\ Goto(r, "idle")
  /\ local' = [local EXCEPT ![r] = Idle]
  /\ call' = [call EXCEPT ![r] = None]

Rows == <<users, customers, interactions>>

SignUps == {Ask("register", u, None, Unset, NoEdit) : u \in User}
NewUsers ==
  {Ask("createUser", a, u, Unset, [role |-> s, active |-> Unset]) :
      a \in User, u \in User, s \in NewRoles}
UserPatches == {Ask("patchUser", a, u, Unset, e) : a \in User, u \in User, e \in UserEdits}
Deactivations ==
  {Ask("deactivateUser", a, u, Unset, SwitchOff) : a \in User, u \in User}
NewCustomers ==
  {Ask("createCustomer", a, None, o, NoEdit) : a \in User, o \in User \cup {None}}
CustomerPatches ==
  {Ask("patchCustomer", a, c, o, NoEdit) :
      a \in User, c \in Customer, o \in User \cup {None, Unset}}
OnCustomers ==
  {Ask(op, a, c, Unset, NoEdit) :
      op \in {"deleteCustomer", "createInteraction"}, a \in User, c \in Customer}
OnInteractions ==
  {Ask(op, a, i, Unset, NoEdit) : op \in InteractionOps, a \in User, i \in Interaction}

\* What clients send. A token names its user, whatever its role claim says.
Sendable ==
  SignUps \cup NewUsers \cup UserPatches \cup Deactivations
    \cup NewCustomers \cup CustomerPatches \cup OnCustomers \cup OnInteractions

\* Ids in a request are ids the client was given.
Known(c) ==
  /\ c.op # "register" => users[c.actor] # None
  /\ c.op \in UserOps => users[c.target] # None
  /\ c.owner \in User => users[c.owner] # None
  /\ c.op \in CustomerOps => customers[c.target] # None
  /\ c.op \in InteractionOps => interactions[c.target] # None

\* get_current_user and require_roles: the user's row decides, not the token. A
\* request that is refused here has changed nothing and is not told apart from
\* one that was never sent.
MayPassIfKnown(row, op) == row # None /\ row.role \in Gate(op)  \* mutant: is_active
MayPass(row, op) == row # None /\ row.active /\ row.role \in Gate(op)

Changing(r) == call[r] # None /\ call[r].op \in UserOps

Begin(r, c, l) ==
  /\ pc[r] = "idle"
  /\ call' = [call EXCEPT ![r] = c]
  /\ Goto(r, l)
  /\ UNCHANGED Rows

\* No right is needed to sign up.
Register(r) ==
  /\ \E c \in Sendable : c.op = "register" /\ Begin(r, c, "write")
  /\ UNCHANGED <<local, crossed>>
  /\ Observe

\* _resolve_owner_id: the owner to write, from the role, the body and the row as
\* loaded; None is the answer no. An owner asked for is an account that exists,
\* and accounts are never deleted: the SELECT that checks it finds the row.
Resolved(role, actor, asked, current) ==
  IF role = "csm" THEN IF asked \in {None, actor} THEN actor ELSE None
  ELSE IF asked = None THEN IF current = None THEN actor ELSE current
  ELSE asked

Authenticate(r) ==
  /\ \E c \in Sendable :
       LET row == users[c.actor]
           o == Resolved(row.role, c.actor, c.owner, None)
       IN /\ c.op # "register" /\ Known(c)
          /\ MayPass(row, c.op)
          /\ \/ /\ c.op \in UserOps \cup CustomerOps \cup InteractionOps
                /\ Begin(r, c, "load")
                /\ local' = [local EXCEPT ![r].role = row.role]
             \/ c.op = "createUser" /\ Begin(r, c, "write") /\ UNCHANGED local
             \/ /\ c.op = "createCustomer" /\ o # None
                /\ Begin(r, c, "write")
                /\ local' = [local EXCEPT ![r].assign = o]
          /\ crossed' = (crossed \/ (c.op \in UserOps /\ \E s \in Request : Changing(s)))
  /\ Observe

KeepsOwnRole(c) == c.target = c.actor => c.edit.role \in {Unset, "admin"}  \* mutant

\* Nobody may take the admin role or the account from itself.
KeepsSelf(c) ==
  c.target = c.actor => c.edit.role \in {Unset, "admin"} /\ c.edit.active # FALSE

Loaded(r, what) ==
  /\ Goto(r, "write")
  /\ local' = [local EXCEPT ![r] = what]
  /\ UNCHANGED call

\* The session returns the row it already holds when an admin addresses itself.
LoadUser(r) ==
  LET c == call[r]
      row == IF c.target = c.actor THEN [role |-> local[r].role, active |-> TRUE]
             ELSE users[c.target]
  IN /\ pc[r] = "load" /\ c.op \in UserOps
     /\ \/ KeepsSelf(c) /\ Loaded(r, [Idle EXCEPT !.row = row])
        \/ ~KeepsSelf(c) /\ End(r)
     /\ UNCHANGED <<Rows, crossed>>
     /\ Observe

LoadCustomer(r) ==
  LET c == call[r]
      owner == customers[c.target]
      assign == IF c.owner = Unset THEN owner
                ELSE Resolved(local[r].role, c.actor, c.owner, owner)
      may == /\ Exists(customers, c.target)
             /\ MayTouch(local[r].role, c.actor, owner)
             /\ assign # None
  IN /\ pc[r] = "load" /\ c.op \in CustomerOps
     /\ \/ /\ may
           /\ Loaded(r, IF c.op = "patchCustomer"
                        THEN [Idle EXCEPT !.owner = owner, !.assign = assign] ELSE Idle)
        \/ ~may /\ End(r)
     /\ UNCHANGED <<Rows, crossed>>
     /\ Observe

LoadInteraction(r) ==
  LET c == call[r]
      may == /\ Exists(interactions, c.target)
             /\ c.op = "patchInteraction" =>
                  MayTouch(local[r].role, c.actor, interactions[c.target].author)
  IN /\ pc[r] = "load" /\ c.op \in InteractionOps
     /\ \/ may /\ Loaded(r, Idle)
        \/ ~may /\ End(r)
     /\ UNCHANGED <<Rows, crossed>>
     /\ Observe

------------------------------------------------------------------------------
(* The writes. *)

\* Mutants: the body stored as it came, and the whole row written back.
ColumnOfBody(now, loaded, asked) == asked
ColumnOfRow(now, loaded, asked) == IF asked = Unset THEN loaded ELSE asked

\* The unit of work: a column is written if its new value is not the one loaded.
Column(now, loaded, asked) == IF asked \in {Unset, loaded} THEN now ELSE asked

\* The write is committed, and the row is read again to be returned.
Committed(r) == End(r) /\ UNCHANGED crossed /\ Observe

\* register and create_user: the unique index on email refuses a second account.
WriteNewUser(r) ==
  LET c == call[r]
      u == IF c.op = "register" THEN c.actor ELSE c.target
      role == IF c.op = "register" THEN "csm" ELSE c.edit.role
  IN /\ pc[r] = "write" /\ c.op \in {"register", "createUser"}
     /\ users[u] = None
     /\ users' = [users EXCEPT ![u] = [role |-> role, active |-> TRUE]]
     /\ UNCHANGED <<customers, interactions>>
     /\ Committed(r)

WriteUser(r) ==
  LET c == call[r]
      now == users[c.target]
      old == local[r].row
  IN /\ pc[r] = "write" /\ c.op \in UserOps
     /\ users' = [users EXCEPT ![c.target] =
                    [role |-> Column(now.role, old.role, c.edit.role),
                     active |-> Column(now.active, old.active, c.edit.active)]]
     /\ UNCHANGED <<customers, interactions>>
     /\ Committed(r)

WriteNewCustomer(r) ==
  /\ pc[r] = "write" /\ call[r].op = "createCustomer"
  /\ \E c \in Customer :
       /\ customers[c] = None
       /\ customers' = [customers EXCEPT ![c] = local[r].assign]
  /\ UNCHANGED <<users, interactions>>
  /\ Committed(r)

WriteCustomer(r) ==
  LET c == call[r]
      t == c.target
  IN /\ pc[r] = "write" /\ c.op = "patchCustomer"
     /\ customers[t] # Deleted
     /\ customers' =
          [customers EXCEPT ![t] = Column(@, local[r].owner, local[r].assign)]
     /\ UNCHANGED <<users, interactions>>
     /\ Committed(r)

\* ON DELETE CASCADE takes the customer's interactions along. A row that
\* someone else deleted first is no error.
DeleteCustomer(r) ==
  LET t == call[r].target
  IN /\ pc[r] = "write" /\ call[r].op = "deleteCustomer"
     /\ customers' = [customers EXCEPT ![t] = Deleted]
     /\ interactions' = [i \in Interaction |->
                           IF /\ interactions[i] \in InteractionRow
                              /\ interactions[i].customer = t
                           THEN Deleted ELSE interactions[i]]
     /\ UNCHANGED users
     /\ Committed(r)

\* The foreign key refuses a note on a customer that is gone.
WriteNewInteraction(r) ==
  LET c == call[r]
  IN /\ pc[r] = "write" /\ c.op = "createInteraction"
     /\ customers[c.target] # Deleted
     /\ \E i \in Interaction :
          /\ interactions[i] = None
          /\ interactions' =
               [interactions EXCEPT ![i] = [customer |-> c.target, author |-> c.actor]]
     /\ UNCHANGED <<users, customers>>
     /\ Committed(r)

\* type, title, notes, date and duration: neither the customer nor the author.
WriteInteraction(r) ==
  /\ pc[r] = "write" /\ call[r].op = "patchInteraction"
  /\ interactions[call[r].target] # Deleted
  /\ UNCHANGED Rows
  /\ Committed(r)

DeleteInteraction(r) ==
  /\ pc[r] = "write" /\ call[r].op = "deleteInteraction"
  /\ interactions' = [interactions EXCEPT ![call[r].target] = Deleted]
  /\ UNCHANGED <<users, customers>>
  /\ Committed(r)

\* The statement fails: a duplicate email of an account or a customer (409), a
\* note on a deleted customer (409), a row that is no longer there (500). A
\* create also ends here when the instance has no id left.
WriteFails(r) ==
  LET c == call[r]
  IN /\ pc[r] = "write"
     /\ \/ c.op \in {"createCustomer", "patchCustomer"}
        \/ c.op = "register" /\ users[c.actor] # None
        \/ c.op = "createUser" /\ users[c.target] # None
        \/ /\ c.op = "createInteraction"
           /\ \/ customers[c.target] = Deleted
              \/ \A i \in Interaction : interactions[i] # None
        \/ c.op = "patchInteraction" /\ interactions[c.target] = Deleted
     /\ End(r)
     /\ UNCHANGED <<Rows, crossed>>
     /\ Observe

------------------------------------------------------------------------------
\* The database starts with the seeded administrator.
SomeAdmin == \E u \in User : users[u] = [role |-> "admin", active |-> TRUE]

AccessInit ==
  /\ users \in [User -> UserRow \cup {None}]
  /\ SomeAdmin
  /\ customers = [c \in Customer |-> None]
  /\ interactions = [i \in Interaction |-> None]
  /\ pc = [r \in Request |-> "idle"]
  /\ call = [r \in Request |-> None]
  /\ local = [r \in Request |-> Idle]
  /\ title = [r \in Request |-> {}]
  /\ crossed = FALSE

AccessNext ==
  \E r \in Request :
    \/ Register(r) \/ Authenticate(r)
    \/ LoadUser(r) \/ LoadCustomer(r) \/ LoadInteraction(r)
    \/ WriteNewUser(r) \/ WriteUser(r)
    \/ WriteNewCustomer(r) \/ WriteCustomer(r) \/ DeleteCustomer(r)
    \/ WriteNewInteraction(r) \/ WriteInteraction(r) \/ DeleteInteraction(r)
    \/ WriteFails(r)

AccessSpec == AccessInit /\ [][AccessNext]_accessVars

------------------------------------------------------------------------------
(* Properties. *)

\* Every column keeps its type; an idle request holds nothing, and what a
\* request is about to write has been loaded and resolved.
AccessTypeOK ==
  /\ users \in [User -> UserRow \cup {None}]
  /\ customers \in [Customer -> User \cup {None, Deleted}]
  /\ interactions \in [Interaction -> InteractionRow \cup {None, Deleted}]
  /\ pc \in [Request -> {"idle", "load", "write"}]
  /\ call \in [Request -> Calls \cup {None}]
  /\ local \in [Request -> [role : Role \cup {None}, row : UserRow \cup {None},
                            owner : User \cup {None}, assign : User \cup {None}]]
  /\ title \in [Request -> SUBSET Titles]
  /\ crossed \in BOOLEAN
  /\ \A r \in Request : pc[r] = "idle" <=> call[r] = None

\* Whatever a request is about to commit is allowed: since its first statement
\* its user has been active in a role that may do this and, for a CSM, has owned
\* the customer or authored the interaction. A token that outlives a deactivation
\* or a demotion gives no rights, and the checks are on the right rows.
EntitledWrites ==
  \A r \in Request : pc[r] = "write" /\ call[r].op # "register" =>
    /\ "able" \in title[r]
    /\ NeedsOwner(call[r].op) => title[r] \cap {"privileged", "owner"} # {}

\* A customer's owner is changed only for someone who was a manager or an
\* administrator during the request. A CSM may send its own owner_id, as no change:
\* that must not undo a reassignment made since the CSM's request loaded the row.
OnlyManagersReassign ==
  [][\A c \in Customer :
       customers[c] \in User /\ customers'[c] \in User /\ customers'[c] # customers[c] =>
         \E r \in Request : /\ pc[r] = "write" /\ pc'[r] = "idle"
                            /\ call[r].op = "patchCustomer" /\ call[r].target = c
                            /\ "privileged" \in title[r]]_accessVars

\* No request puts back a value that it loaded and another request has changed
\* since: concurrent edits of different columns of a user both survive, and so
\* does an edit of a column that a later form merely repeats.
EditsDoNotRevert ==
  [][\A r \in Request : pc[r] = "write" /\ pc'[r] = "idle" =>
       LET t == call[r].target
           old == local[r]
       IN /\ call[r].op = "patchCustomer" /\ customers'[t] # customers[t] =>
               customers'[t] # old.owner
          /\ call[r].op \in UserOps =>
               /\ users'[t].role # users[t].role => users'[t].role # old.row.role
               /\ users'[t].active # users[t].active =>
                    users'[t].active # old.row.active]_accessVars

\* An active administrator remains, so long as no two changes of users overlap:
\* nobody can demote or deactivate itself, by PATCH or by DELETE. (Two that
\* overlap can remove each other, which the code does not exclude.)
SerialAdminRemains == crossed \/ SomeAdmin
==============================================================================
