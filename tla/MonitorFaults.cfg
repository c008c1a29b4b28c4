SPECIFICATION FairSpec
CONSTANTS
  Nodes = {n1, n2}
  Nobody = nobody
  Timeout = 1
  MaxMissed = 2
  MaxLag = 1
  MaxAdmin = 2
  FaultKinds = {"redis", "restart"}
  MaxFaults = 1
INVARIANTS TypeOK NoFalseAlarm DownIsShown
PROPERTIES BroughtBackRightly SilenceIsDetected DetectorSpec
