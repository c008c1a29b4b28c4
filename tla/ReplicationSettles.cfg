SPECIFICATION FairSpec
CONSTANTS
  Workload <- Inserts
  Replicas = {1, 2}
  QuorumMin = 2
  RetryAttempts = 1
  MaxBatch = 1
  CatchUpBatch = 1
  InOrder = FALSE
  Outages = FALSE
  FaultKinds = {"reply"}
  MaxFaults = 2
INVARIANTS ReplicasConverge AllArrived
PROPERTY AcceptedArrives
