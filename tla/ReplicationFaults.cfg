SPECIFICATION Spec
CONSTANTS
  Workload <- Short
  Replicas = {1, 2}
  QuorumMin = 1
  RetryAttempts = 0
  MaxBatch = 2
  CatchUpBatch = 1
  InOrder = TRUE
  Outages = TRUE
  FaultKinds = {"crash", "primary", "reply", "repeat"}
  MaxFaults = 1
INVARIANTS TypeOK WriteAhead VerdictsHold
PROPERTIES SettledIsFinal ContractSpec
