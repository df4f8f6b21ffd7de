SPECIFICATION SessionSpec
CONSTANTS
  t1 = t1 t2 = t2 c1 = c1 c2 = c2 c3 = c3
  Tab = {t1, t2}
  Call = {c1, c2, c3}
  TabOf <- MCTabOf
  MaxTokens = 8
  MaxEvents = 0
  MaxFaults = 0
  None = None
INVARIANT BannerGoes
CHECK_DEADLOCK FALSE
