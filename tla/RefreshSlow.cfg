SPECIFICATION NoLogoutSpec
CONSTANTS
  Users = {u1}
  Tokens = {t1, t2}
  Procs = {p1, p2}
  None = None
  Grace = 1
  TTL = 3
  ReqTime = 3
  MaxTime = 3
SYMMETRY Symmetry
INVARIANT ConcurrentIsBenign
