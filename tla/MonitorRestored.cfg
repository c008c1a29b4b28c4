SPECIFICATION HeardSpec
CONSTANTS
  Nodes = {n1}
  Nobody = nobody
  Timeout = 1
  MaxMissed = 2
  MaxLag = 1
  MaxAdmin = 1
  FaultKinds = {}
  MaxFaults = 0
PROPERTY RestoredIsShown
