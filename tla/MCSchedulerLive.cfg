\* Two CPU tasks, or a CPU and a GPU task, of one identity in two schedulers under fairness;
\* no symmetry, as the property is a liveness property.
SPECIFICATION FairSpec
CHECK_DEADLOCK FALSE
CONSTANTS
  t1 = t1  t2 = t2  k1 = k1  k2 = k2
  None = None  Absent = Absent  Broken = Broken  Free = Free
  Scheds = {s1, s2}
  Workers = 1
  Pids <- MCPids
  Tasks = {t1, t2}
  Plan <- TwoTasks
  Keys = {k1}
  KeyOf <- OneKey
  Placements = {{}, {t2}}
  Payloads = {a}
  Artifacts = {a}
  MayRaise = FALSE
  MaxAttempts = 0
  MaxRuns = 2
  MaxDamage = 1
PROPERTY RunTerminates
