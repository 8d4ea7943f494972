SPECIFICATION Spec
CONSTANTS
  Proc = {p1, p2}
  Job = {j1}
  None = None
  StaleAfter = 1
  LeaseFor = 1
  MaxAttempts = 1
  MaxTokens = 2
  MaxKept = 1
  MaxUnfinished = 1
  MaxWorkers = 1
  MaxFaults = 1
  MaxCrashes = 1
  MaxShutdowns = 0

SYMMETRY ProcSymmetry
INVARIANTS TypeOK VerdictsMatchPushes FailuresAreReviewed
PROPERTIES FixFenced HandoffFenced
