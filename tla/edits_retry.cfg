SPECIFICATION Spec
CONSTANTS
  Fix = {f1}
  Translation = {t1}
  Removal = {}
  Junk = {}
  Human = {}
  Consumer = {c1}
  None = None
  MaxFaults = 0
  MaxLimited = 1
INVARIANT RetriedOnce
CHECK_DEADLOCK FALSE
