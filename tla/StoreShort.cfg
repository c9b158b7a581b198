SPECIFICATION Spec
CONSTANTS
  Tx = {t1, t2}
  BadText = {}
  BadActor = {}
  Faults = {"short"}
  MaxCrashes = 1
INVARIANT Reopenable
CHECK_DEADLOCK FALSE
