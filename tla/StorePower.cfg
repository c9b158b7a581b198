SPECIFICATION FairSpec
CONSTANTS
  Tx = {t1, t2, t3, t4}
  BadText = {t4}
  BadActor = {t4}
  Faults = {"power"}
  MaxCrashes = 3
INVARIANTS OkIsStored Reopenable
PROPERTIES RollsBackUnansweredOnly AlwaysServesAgain
CHECK_DEADLOCK FALSE
