SPECIFICATION Spec
CONSTANTS
  Tx = {t1, t2}
  BadText = {t1}
  BadActor = {t1}
  Faults = {}
  MaxCrashes = 1
INVARIANT StartsAgain
CHECK_DEADLOCK FALSE
