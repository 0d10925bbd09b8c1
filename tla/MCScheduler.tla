----------------------------- MODULE MCScheduler -----------------------------
\* Small instances of Scheduler.  A scheduler is known by a model value, its
\* worker processes by the threads that start them.
EXTENDS Scheduler, TLC

MCPids == Scheds \cup (Scheds \X (1 .. Workers))
SchedulerSymmetry == Permutations(Scheds)

CONSTANTS t1, t2, k1, k2
TwoTasks == <<t1, t2>>
OneKey == [t \in Tasks |-> k1]
TwoKeys == [t \in Tasks |-> IF t = t1 THEN k1 ELSE k2]
=============================================================================
