SPECIFICATION ServingSpec
CONSTANTS
  N = 2
  PerCall = 15
  Budget = 35
  MinRepair = 8
  Overrun = 15
  Client = {r1, r2, r3, r4}
  PoolSize = 2
  Threads = 2
  MaxCommits = 1
  t1 = t1 t2 = t2 c1 = c1 c2 = c2 c3 = c3
  Tab = {t1, t2}
  Call = {c1, c2, c3}
  TabOf <- MCTabOf
  MaxTokens = 8
  MaxEvents = 2
  MaxFaults = 1
  None = None
INVARIANTS TypeOK BudgetKept GivesUpOnlyWhenSpent PoolTypeOK OnlyACrowdBlocks SessionTypeOK NoFalseTheft ColdStartStaysIn SingleFlight
PROPERTIES Terminates RequestsAnswered NothingHangs
CHECK_DEADLOCK FALSE
