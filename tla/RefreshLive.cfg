SPECIFICATION LiveSpec
CONSTANTS
  Users = {u1}
  Tokens = {t1, t2, t3}
  Procs = {p1, p2}
  None = None
  Grace = 0
  TTL = 3
  ReqTime = 1
  MaxTime = 1
PROPERTY RequestsFinish
