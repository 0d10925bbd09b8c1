\* A scheduler dies in its GPU task while another waits for the GPU lock.
SPECIFICATION Spec
CHECK_DEADLOCK FALSE
CONSTANTS
  t1 = t1  t2 = t2  k1 = k1  k2 = k2
  None = None  Absent = Absent  Broken = Broken  Free = Free
  Scheds = {s1, s2}
  Workers = 1
  Pids <- MCPids
  Tasks = {t1, t2}
  Plan <- TwoTasks
  Keys = {k1, k2}
  KeyOf <- TwoKeys
  Placements = {{t1, t2}}
  Payloads = {a}
  Artifacts = {a}
  MayRaise = FALSE
  MaxAttempts = 0
  MaxRuns = 2
  MaxDamage = 0
SYMMETRY SchedulerSymmetry
INVARIANT GpuIsSequential
