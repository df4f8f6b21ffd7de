SPECIFICATION Spec
CONSTANTS
  Reqs = {r1, r2}
  Providers = {groq, cerebras}
  MaxCuts = 1
  None = None
INVARIANT CreateAlwaysAnswered
CHECK_DEADLOCK FALSE
