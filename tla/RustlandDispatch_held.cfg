CONSTANTS
  c1 = c1
  c2 = c2
  t1 = t1
  t2 = t2
  Tasks = {t1}
  KThreads = {}
  Reclaimers = {}
  CPUs = {c1, c2}
  Masks <- MCMasks
  Sched = Sched
  Idle = Idle
  Nobody = Nobody
  Shared = Shared
  QueuedCap = 2
  DispatchedCap = 3
  Slots = 2
  MaxBatch = 1
  MaxEnq = 2
SPECIFICATION Spec
INVARIANT HeldTasksArePending
