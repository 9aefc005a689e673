CONSTANTS
  p1 = p1
  p2 = p2
  Pids = {p1}
  NoPid = NoPid
  QueueCap = 1
  MaxBeats = 1
SPECIFICATION FairSpec
PROPERTY SigtermStops
CHECK_DEADLOCK FALSE
