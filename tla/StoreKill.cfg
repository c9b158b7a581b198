SPECIFICATION Spec
CONSTANTS
  Tx = {t1, t2, t3, t4}
  BadText = {t4}
  BadActor = {}
  Faults = {"append", "short", "replace"}
  MaxCrashes = 2
INVARIANTS TypeOK OkIsStored FilesCoverPromise
PROPERTIES NoRollback ImplementsDurableLog
CHECK_DEADLOCK FALSE
