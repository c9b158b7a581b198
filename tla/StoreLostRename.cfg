SPECIFICATION Spec
CONSTANTS
  Tx = {t1, t2}
  BadText = {}
  BadActor = {}
  Faults = {"power", "replace"}
  MaxCrashes = 1
INVARIANT OkIsStored
CHECK_DEADLOCK FALSE
