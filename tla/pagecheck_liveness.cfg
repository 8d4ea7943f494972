SPECIFICATION FairSpec
CONSTANTS
  Proc = {p1}
  Job = {j1}
  None = None
  StaleAfter = 1
  LeaseFor = 1
  MaxAttempts = 1
  MaxTokens = 4
  MaxKept = 1
  MaxUnfinished = 1
  MaxWorkers = 2
  MaxFaults = 1
  MaxCrashes = 1
  MaxShutdowns = 0
PROPERTIES EveryCheckEnds EveryEventIsQueued
