CONSTANTS
  p1 = p1
  p2 = p2
  Pids = {p1, p2}
  NoPid = NoPid
  QueueCap = 1
  MaxBeats = 1
SPECIFICATION Spec
INVARIANT FileAlwaysWhole
CHECK_DEADLOCK FALSE
