SPECIFICATION FairSpec
CONSTANTS
  Requests = {r1, r2}
  MaxRetries = 1
  Threshold = 3
  Replies = {"reply"}
  MaxRestarts = 1
INVARIANTS TypeOK UnusableShields UsableServes
PROPERTIES EveryRequestAnswered OutageShown RecoveryShown ForwardingSpec
