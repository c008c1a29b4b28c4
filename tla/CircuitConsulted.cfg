SPECIFICATION ConsultingSpec
CONSTANTS
  Clients = {c1}
  Monitor = monitor
  FailureThreshold = 1
  SuccessThreshold = 2
  HalfOpenMax = 2
  MaxConsecutive = 2
  Serial = TRUE
  FreeReports = FALSE
  CanRestart = FALSE
  Lossy = FALSE
PROPERTY RecoversAfterOutage
