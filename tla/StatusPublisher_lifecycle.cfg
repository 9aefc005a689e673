CONSTANTS
  p1 = p1
  p2 = p2
  Pids = {p1}
  NoPid = NoPid
  QueueCap = 2
  MaxBeats = 2
SPECIFICATION FairSpec
INVARIANT TypeOK
PROPERTIES RecordsMoveForward StopDetaches NoOrphans
CHECK_DEADLOCK FALSE
