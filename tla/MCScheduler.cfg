\* Two schedulers with two threads each, two tasks of one identity, both on the
\* CPU or both on the GPU, raising writes, crashes at every step.
SPECIFICATION Spec
CHECK_DEADLOCK FALSE
CONSTANTS
  t1 = t1  t2 = t2  k1 = k1  k2 = k2
  None = None  Absent = Absent  Broken = Broken  Free = Free
  Scheds = {s1, s2}
  Workers = 2
  Pids <- MCPids
  Tasks = {t1, t2}
  Plan <- TwoTasks
  Keys = {k1}
  KeyOf <- OneKey
  Placements = {{}, {t1, t2}}
  Payloads = {a}
  Artifacts = {a}
  MayRaise = TRUE
  MaxAttempts = 0
  MaxRuns = 2
  MaxDamage = 0
SYMMETRY SchedulerSymmetry
INVARIANTS CompleteIsCached ComputesOnce WorkIsOwned RunSettlesItsTasks GpuIsExclusive AttemptsAgree
PROPERTIES NoRework OrphanKeepsTask
