SPECIFICATION FairSpec
CONSTANTS
  Fix = {f1}
  Translation = {}
  Removal = {d1}
  Junk = {j1}
  Human = {h1}
  Consumer = {c1}
  None = None
  MaxFaults = 1
  MaxLimited = 1
INVARIANT AckedWasApplied
PROPERTY EveryEditSettles
CHECK_DEADLOCK FALSE
