SPECIFICATION Spec
CONSTANTS
  Fix = {f1}
  Translation = {t1}
  Removal = {}
  Junk = {}
  Human = {h1}
  Consumer = {c1, c2}
  None = None
  MaxFaults = 1
  MaxLimited = 0
SYMMETRY Symmetry
INVARIANTS TypeOK CacheIsPast
PROPERTIES FixesLoseNothing EditsAreDelivered
CHECK_DEADLOCK FALSE
