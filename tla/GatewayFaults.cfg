SPECIFICATION Spec
CONSTANTS
  Requests = {r1, r2}
  MaxRetries = 1
  Replies = {"created", "completed", "failed", "granted", "taken", "listed", "error"}
  Free = free
  Batch = 2
  MaxFaults = 1
INVARIANTS TypeOK RefusedNeverRan ToldIsTrue OutcomeAccounted MadeWhereNoneWas
CHECK_DEADLOCK FALSE
SYMMETRY Symmetry
