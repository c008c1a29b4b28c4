SPECIFICATION FairSpec
CONSTANTS
  Workload <- Insert
  Replicas = {1, 2}
  QuorumMin = 1
  RetryAttempts = 0
  MaxBatch = 2
  CatchUpBatch = 2
  InOrder = FALSE
  Outages = TRUE
  FaultKinds = {}
  MaxFaults = 0
PROPERTY MissedAreReplayed
