SPECIFICATION Spec
CONSTANTS
  Proc = {p1, p2}
  Req = {r1}
  Attempt = {a1, a2}
  Poller = {}
  None = None
  StaleAfter = 1
  Capacity = 2
  MaxWorkers = 1
  MaxFaults = 0
  MaxCrashes = 1
  MaxShutdowns = 0
SYMMETRY Symmetry
INVARIANTS TypeOK SlotAccounting
PROPERTY PublicationFenced
