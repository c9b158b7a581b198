SPECIFICATION ReadersSpec
CONSTANTS
  t1 = t1
  t2 = t2
  t3 = t3
  t4 = t4
  Tx <- MCTx
  LotOf <- MCLotOf
  Limit = 1
  ReadLimit = 2
  BadText <- MCBadText
  BadActor <- MCBadText
  Faults = {"append", "replace"}
  MaxCrashes = 1
INVARIANTS WalkSeesAll BackupIsPromised DamageIsNoticed
CHECK_DEADLOCK FALSE
