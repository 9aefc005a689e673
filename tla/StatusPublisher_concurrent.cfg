CONSTANTS
  p1 = p1
  p2 = p2
  Pids = {p1, p2}
  NoPid = NoPid
  QueueCap = 1
  MaxBeats = 0
SPECIFICATION Spec
INVARIANT FileWhole
PROPERTY ImplementsContract
SYMMETRY MCSymmetry
CHECK_DEADLOCK FALSE
