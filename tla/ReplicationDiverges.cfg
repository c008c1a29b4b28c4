SPECIFICATION Spec
CONSTANTS
  Workload <- Payment
  Replicas = {1}
  QuorumMin = 2
  RetryAttempts = 0
  MaxBatch = 2
  CatchUpBatch = 1
  InOrder = TRUE
  Outages = FALSE
  FaultKinds = {}
  MaxFaults = 0
INVARIANT ReplicasConverge
