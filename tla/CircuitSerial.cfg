SPECIFICATION Spec
CONSTANTS
  Clients = {c1, c2}
  Monitor = monitor
  FailureThreshold = 2
  SuccessThreshold = 2
  HalfOpenMax = 2
  MaxConsecutive = 3
  Serial = TRUE
  FreeReports = TRUE
  CanRestart = FALSE
  Lossy = FALSE
PROPERTY ContractSpec
