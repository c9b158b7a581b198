SPECIFICATION Spec
CONSTANTS
  Readings <- ReturnReadings
  Fingerprints <- ReturnFingerprints
  Calc <- ReturnCalc
  Inv = {i1, i2}
  Act = {}
  MaxTime = 0
  MaxEvidence = 1
  MaxHolds = 1
  CanVoid = FALSE
INVARIANT OpenInvestigationCanEnd
CHECK_DEADLOCK FALSE
