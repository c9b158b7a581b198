SPECIFICATION FairSpec
CONSTANTS
  Lots = {l1, l2}
  QueueSize = 1
  MaxFailures = 1
  MaxStops = 1
INVARIANTS TypeOK NoTaskForgotten FailuresShow DrainServesHandlers
PROPERTIES ImplementsDuty HealthComesBack ShutdownEnds
