SPECIFICATION Spec
CONSTANTS
  Readings <- GapReadings
  Fingerprints <- GapFingerprints
  Calc <- GapCalc
  Inv = {i1, i2}
  Act = {a1}
  MaxTime = 1
  MaxEvidence = 1
  MaxHolds = 0
  CanVoid = TRUE
SYMMETRY Symmetry
INVARIANTS TypeOK ReleasedSafe EvaluationCurrent OneSubmittedOwner CaseFileComplete CaseFileHolds FileBearsOutRelease
PROPERTIES ReleasedAsPreviewed VersionGuardsBlockers ReleasedFileStays
CHECK_DEADLOCK FALSE
