SPECIFICATION Spec
CONSTANTS
  Proc = {p1}
  Req = {r1}
  Attempt = {a1}
  Poller = {}
  None = None
  StaleAfter = 1
  Capacity = 1
  MaxWorkers = 1
  MaxFaults = 0
  MaxCrashes = 0
  MaxShutdowns = 0
INVARIANT FilteredIsDiscarded
