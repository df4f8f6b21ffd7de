SPECIFICATION RowsSpec
CONSTANTS
  User = {u1, u2}
  Customer = {c1}
  Interaction = {i1}
  Request = {r1, r2}
  UserEdits <- MCUserEdits
  NewRoles <- MCNewRoles
  None = None
  Deleted = Deleted
  Unset = Unset
  Item = {1, 2, 3}
  Key = {1, 2}
  Null = Null
  Filter = {any, some}
  Unfiltered = any
  PageSize = 2
  MaxChanges = 1
  Absent = Absent
  Broken = Broken
  x = x
  q1 = q1
  Row = {x, y}
  Query = {q1, q2}
  OfCustomer <- MCOfCustomer
  Matching <- MCMatching
  MaxFlight = 3
  NoArg = NoArg
  Person = {me, you}
  Me = me
  Text = {a, b}
  NoValue = NoValue
  Blank = Blank
  Minutes = {0}
  Missing = Missing
  NoRow = NoRow
  NotSent = NotSent
  MaxEdits = 1
  MaxOthers = 1
  Days = 2
  DayLength = 2
  Horizon = 6
  MaxMeetings = 2
  NoSeries = NoSeries
INVARIANTS AccessTypeOK EntitledWrites SerialAdminRemains
INVARIANTS ListTypeOK WalkShowsEachOnce
INVARIANTS StoresTypeOK RowsRenderable SpinnersHonest InOrderShowsSelected
INVARIANTS OfferedIsAccepted TrendComplete
PROPERTIES OnlyManagersReassign EditsDoNotRevert 
SYMMETRY Symmetry
