CONSTANTS
  c1 = c1
  c2 = c2
  t1 = t1
  t2 = t2
  Tasks = {t1, t2}
  KThreads = {}
  Reclaimers = {}
  CPUs = {c1, c2}
  Masks <- MCOneCPU
  Sched = Sched
  Idle = Idle
  Nobody = Nobody
  Shared = Shared
  QueuedCap = 1
  DispatchedCap = 2
  Slots = 1
  MaxBatch = 2
  MaxEnq = 1
SPECIFICATION MCLastingSpec
INVARIANT SlotsRespected
PROPERTIES QueuedRuns OutgoingDrains SchedulerRunsAgain
