SPECIFICATION FairSpec
CONSTANTS
  Readings <- PairReadings
  Fingerprints <- GapFingerprints
  Calc <- GapCalc
  Inv = {i1}
  Act = {a1, a2}
  MaxTime = 1
  MaxEvidence = 1
  MaxHolds = 1
  CanVoid = TRUE
PROPERTY OverdueNoticed
CHECK_DEADLOCK FALSE
