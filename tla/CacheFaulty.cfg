SPECIFICATION Spec
CONSTANTS
  Writes = {w1, w2}
  Readers = {r1, r2}
  Keys = {summary}
  TTL = 1
  Faults = {"get", "setex", "incr", "restart"}
  ReqTime = 1
  MaxTime = 4
SYMMETRY Symmetry
INVARIANT StaleBounded
