--------------------------- MODULE MCWorkerMonitor ---------------------------
(* WorkerMonitor of a GPU task, whose steps include those of a CPU task.   *)
EXTENDS WorkerMonitor, TLC
=============================================================================
