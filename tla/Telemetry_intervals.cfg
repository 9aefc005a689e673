CONSTANTS
  p1 = p1
  p2 = p2
  Pids = {p1}
  None = None
  Threshold = 2
  MaxTime = 4
  MaxWait = 1
  MaxSwitches = 1
SPECIFICATION Spec
INVARIANT TypeOK
PROPERTIES YoungWhenCounted RatesInInterval SharesInInterval
