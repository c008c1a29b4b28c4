SPECIFICATION ReportingSpec
CONSTANTS
  Clients = {c1}
  Monitor = monitor
  FailureThreshold = 1
  SuccessThreshold = 1
  HalfOpenMax = 1
  MaxConsecutive = 1
  Serial = FALSE
  FreeReports = TRUE
  CanRestart = TRUE
  Lossy = TRUE
INVARIANTS TypeOK OpenShields ProbeBurstBound SlotsWithinLimit
PROPERTIES ViewKept OpenIsLeft RecoversAfterOutage
