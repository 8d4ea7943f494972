SPECIFICATION Spec
CONSTANTS
  Proc = {p1}
  Job = {j1, j2}
  None = None
  StaleAfter = 1
  LeaseFor = 1
  MaxAttempts = 1
  MaxTokens = 1
  MaxKept = 1
  MaxUnfinished = 1
  MaxWorkers = 2
  MaxFaults = 1
  MaxCrashes = 0
  MaxShutdowns = 1
SYMMETRY JobSymmetry
INVARIANTS WithinCapacity
PROPERTIES EventSurvives FinishedStaysFinished ChecksHandOver
