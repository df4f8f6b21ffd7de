SPECIFICATION FairSpec
CONSTANTS
  Reqs = {r1, r2, r3}
  Providers = {groq, cerebras}
  MaxCuts = 1
  None = None
INVARIANTS TypeOK PendingIsOwned FailuresHaveCauses SerialGenerationsAgree
PROPERTY PendingSettles
CHECK_DEADLOCK FALSE
