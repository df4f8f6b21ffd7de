SPECIFICATION Spec
CONSTANTS
  Writes = {w1, w2}
  Readers = {r1, r2}
  Keys = {summary, atRisk}
  TTL = 1
  Faults = {"setex"}
  ReqTime = 0
  MaxTime = 0
SYMMETRY Symmetry
INVARIANTS TypeOK FreshAnswers
PROPERTY ImplementsFreshReads
