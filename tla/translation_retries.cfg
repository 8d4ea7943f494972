SPECIFICATION Spec
CONSTANTS
  Proc = {p1}
  Req = {r1}
  Attempt = {a1, a2}
  Poller = {}
  None = None
  StaleAfter = 1
  Capacity = 2
  MaxWorkers = 1
  MaxFaults = 1
  MaxCrashes = 1
  MaxShutdowns = 1
SYMMETRY Symmetry
INVARIANTS OnePublication PublicationIsTrue
PROPERTIES JobsAreLedger
