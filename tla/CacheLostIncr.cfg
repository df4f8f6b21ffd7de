SPECIFICATION Spec
CONSTANTS
  Writes = {w1}
  Readers = {r1}
  Keys = {summary}
  TTL = 1
  Faults = {"incr"}
  ReqTime = 0
  MaxTime = 0
INVARIANT FreshAnswers
