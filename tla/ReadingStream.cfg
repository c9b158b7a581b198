SPECIFICATION Spec
CONSTANTS
  MinC = 2
  MaxC = 8
  MaxGap = 2
  Continuous = 1
  Cumulative = 2
  MajorDelta = 2
  CriticalDelta = 4
  Times = {0, 1, 2, 4}
  Temperatures = {0, 5, 9, 13}
  Ids = {1, 2, 3, 4}
INVARIANTS ScanFindsStretches FingerprintsUnique
PROPERTY SeverityNeverDrops
CHECK_DEADLOCK FALSE
