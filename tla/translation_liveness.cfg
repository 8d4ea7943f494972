SPECIFICATION FairSpec
CONSTANTS
  Proc = {p1}
  Req = {r1}
  Attempt = {a1}
  Poller = {q1}
  None = None
  StaleAfter = 1
  Capacity = 1
  MaxWorkers = 1
  MaxFaults = 1
  MaxCrashes = 1
  MaxShutdowns = 0
PROPERTIES EveryJobTerminates EveryLeaseIsReleased
