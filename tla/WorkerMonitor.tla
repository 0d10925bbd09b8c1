---------------------------- MODULE WorkerMonitor ----------------------------
(***************************************************************************)
(* One worker process (runner/worker.py) and execute_isolated_worker       *)
(* (runner/resources.py), which starts it, looks at it twice a second,     *)
(* stops it at a limit and judges what it left; with the look at the       *)
(* payload that the scheduler takes before it publishes.                   *)
(*                                                                         *)
(* The worker runs on its own: it may end, crash or write its result       *)
(* between any two steps of the monitor, and a signal takes effect when    *)
(* the system gets to it, not when it is sent.                             *)
(***************************************************************************)
EXTENDS Naturals

CONSTANTS
    GpuTask,   \* whether the task's device policy is "cuda"
    MaxLooks   \* looks after which the timeout is certainly over

ASSUME MonitorAssumption == GpuTask \in BOOLEAN /\ MaxLooks \in Nat \ {0}

VARIABLES
    worker,   \* the worker process and what the system knows of it
    files,    \* what the worker left in its working directory
    monitor   \* the locals of execute_isolated_worker, and its place

vars == <<worker, files, monitor>>
-------------------------------------------------------------------------------
Stages == {"unborn", "working", "written", "reported", "ended"}
Results == {"none", "ok", "error", "oom", "invalid"}
Categories == {"none", "FAIL_RESOURCE_LIMIT", "FAIL_TIMEOUT", "FAIL_CUDA_OOM",
               "FAIL_RESOURCE_MONITOR", "FAIL_MODEL_RUNTIME", "FAIL_CACHE_INTEGRITY"}
\* A measurement: missing, within its limit or above it.
Levels == {"none", "within", "above"}
Places == {"preflight", "start", "record", "look", "sample", "gpu", "beat", "clock",
           "join", "reap", "killed", "judge", "except", "excepted", "finally",
           "reaped", "resource", "check", "returned", "refused"}

\* ram and gpu: the highest measurement so far; cleanup: cleanup_passed.
Workers == [stage : Stages, exit : {"none", "zero", "nonzero"},
            signal : {"none", "term", "kill"}]
Monitors ==
    [pc : Places, category : Categories, timedOut : BOOLEAN, hardPassed : BOOLEAN,
     cleanup : BOOLEAN, ram : Levels, gpu : Levels, result : Results,
     looks : 0 .. MaxLooks, passed : BOOLEAN]

MonitorTypeOK ==
    /\ worker \in Workers
    /\ files \in [payload : {"none", "partial", "whole"}, result : Results]
    /\ monitor \in Monitors

Init ==
    /\ worker = [stage |-> "unborn", exit |-> "none", signal |-> "none"]
    /\ files = [payload |-> "none", result |-> "none"]
    /\ monitor = [pc |-> "preflight", category |-> "none", timedOut |-> FALSE,
                  hardPassed |-> TRUE, cleanup |-> TRUE, ram |-> "none",
                  gpu |-> "none", result |-> "none", looks |-> 0, passed |-> FALSE]
-------------------------------------------------------------------------------
(* The worker.                                                             *)

Alive == worker.stage \in {"working", "written", "reported"}
Ended(code) == [worker EXCEPT !.stage = "ended", !.exit = code]

WritesPayload ==
    /\ worker.stage = "working"
    /\ worker' = [worker EXCEPT !.stage = "written"]
    /\ files' = [files EXCEPT !.payload = "whole"]
    /\ UNCHANGED monitor

\* The result is one atomic replacement.  A task that succeeded reports last;
\* an exception may be reported instead of anything the task still had to do.
\* "invalid" is a result that TaskResult refuses.
Reports(r) ==
    /\ \/ r \in {"ok", "invalid"} /\ worker.stage = "written"
       \/ r \in {"error", "oom"} /\ worker.stage \in {"working", "written"}
    /\ worker' = [worker EXCEPT !.stage = "reported"]
    /\ files' = [files EXCEPT !.result = r]
    /\ UNCHANGED monitor

Exits ==
    /\ worker.stage = "reported"
    /\ worker' = Ended("zero")
    /\ UNCHANGED <<files, monitor>>

\* It exits without a result, crashes, or is stopped by whatever signal.
Dies ==
    /\ Alive
    /\ worker' = Ended("nonzero")
    /\ UNCHANGED <<files, monitor>>

\* It leaves a part of a payload behind.
LeavesPartial ==
    /\ worker.stage = "working"
    /\ worker' = Ended("nonzero")
    /\ files' = [files EXCEPT !.payload = "partial"]
    /\ UNCHANGED monitor

\* The payload of a worker that ended is lost before it is published.
PayloadHarmed ==
    /\ worker.stage = "ended" /\ monitor.pc \notin {"returned", "refused"}
    /\ files.payload = "whole"
    /\ files' = [files EXCEPT !.payload = "partial"]
    /\ UNCHANGED <<worker, monitor>>
-------------------------------------------------------------------------------
(* The monitor up to the end of its loop.  Definitions named Faulty... are  *)
(* what a plausible mistake would make of the definition that follows them; *)
(* no specification uses them.                                              *)

At(place) == monitor.pc = place
Become(m) == monitor' = m
Goto(place) == Become([monitor EXCEPT !.pc = place])
Undisturbed == UNCHANGED <<worker, files>>
Signal(s) == worker' = IF Alive THEN [worker EXCEPT !.signal = s] ELSE worker

\* A GPU worker is not started without telemetry.
Preflight ==
    /\ At("preflight")
    /\ Goto("start") \/ (GpuTask /\ Goto("except"))
    /\ Undisturbed

Start ==
    /\ At("start")
    /\ \/ worker' = [worker EXCEPT !.stage = "working"] /\ Goto("record")
       \/ Goto("except") /\ UNCHANGED worker
    /\ UNCHANGED files

\* set_worker_pid() raises when the task is no longer RUNNING.
Record ==
    /\ At("record")
    /\ Goto("look") \/ Goto("except")
    /\ Undisturbed

Look ==
    /\ At("look")
    /\ Goto(IF Alive THEN "sample" ELSE "join")
    /\ Undisturbed

\* What stops the loop: the worker is told to terminate, the cause is noted
\* and the flag that goes with it.
Stop(cause, ram, gpu) ==
    /\ Become([monitor EXCEPT !.pc = "join", !.category = cause, !.ram = ram, !.gpu = gpu,
           !.timedOut = (cause = "FAIL_TIMEOUT"),
           !.hardPassed = (cause # "FAIL_RESOURCE_LIMIT")])
    /\ Signal("term")
    /\ UNCHANGED files

\* The highest of the measurements so far and a new one; a missing one is skipped.
Peak(old, new) == IF new = "none" \/ old = "above" THEN old ELSE new

\* A worker that has ended cannot be measured.
SampleRam(level) ==
    /\ At("sample")
    /\ Alive \/ level = "none"
    /\ \/ level = "above" /\ Stop("FAIL_RESOURCE_LIMIT", "above", monitor.gpu)
       \/ /\ level # "above"
          /\ Become([monitor EXCEPT !.pc = IF GpuTask THEN "gpu" ELSE "beat",
                 !.ram = Peak(@, level)])
          /\ Undisturbed

\* The GPU is measured device-wide, whether or not the worker lives.
SampleGpu(level) ==
    /\ At("gpu")
    /\ \/ level = "none" /\ Stop("FAIL_RESOURCE_MONITOR", monitor.ram, monitor.gpu)
       \/ level = "above" /\ Stop("FAIL_RESOURCE_LIMIT", monitor.ram, "above")
       \/ /\ level = "within"
          /\ Become([monitor EXCEPT !.pc = "beat", !.gpu = Peak(@, level)])
          /\ Undisturbed

\* heartbeat() raises when the task is no longer RUNNING.
Beat ==
    /\ At("beat")
    /\ Goto("clock") \/ Goto("except")
    /\ Undisturbed

\* Faulty: counts the time since the last heartbeat.
FaultyClockReset ==
    /\ At("clock")
    /\ Goto("look")
    /\ Undisturbed

Clock ==
    /\ At("clock")
    /\ \/ monitor.looks < MaxLooks
          /\ Become([monitor EXCEPT !.pc = "look", !.looks = @ + 1])
          /\ Undisturbed
       \/ Stop("FAIL_TIMEOUT", monitor.ram, monitor.gpu)
-------------------------------------------------------------------------------
(* After the loop.                                                         *)

\* A join ends when the worker has ended or its seconds are over.
Join ==
    /\ At("join")
    /\ Become([monitor EXCEPT !.pc = "reap", !.cleanup = ~Alive])
    /\ Undisturbed

Reap ==
    /\ At("reap")
    /\ Goto(IF Alive THEN "killed" ELSE "judge")
    /\ Signal("kill")
    /\ UNCHANGED files

Killed ==
    /\ At("killed")
    /\ Become([monitor EXCEPT !.pc = "judge", !.cleanup = ~Alive,
           !.category = IF @ = "none" THEN "FAIL_RESOURCE_MONITOR" ELSE @])
    /\ Undisturbed

\* Faulty: looks at the result whatever stopped the loop.
FaultyVerdict ==
    IF files.result = "oom" THEN "FAIL_CUDA_OOM"
    ELSE IF files.result # "ok" THEN "FAIL_MODEL_RUNTIME"
    ELSE monitor.category

\* Faulty: the exit code is not asked for.
FaultyVerdictNoExit ==
    IF monitor.category # "none" THEN monitor.category
    ELSE IF files.result = "oom" THEN "FAIL_CUDA_OOM"
    ELSE IF files.result # "ok" THEN "FAIL_MODEL_RUNTIME"
    ELSE "none"

\* The first cause stands; without one the result and the exit code decide.
Verdict ==
    IF monitor.category # "none" THEN monitor.category
    ELSE IF files.result = "oom" THEN "FAIL_CUDA_OOM"
    ELSE IF files.result # "ok" \/ worker.exit # "zero" THEN "FAIL_MODEL_RUNTIME"
    ELSE IF monitor.ram = "none" THEN "FAIL_RESOURCE_MONITOR"
    ELSE "none"

Judge ==
    /\ At("judge")
    /\ Become([monitor EXCEPT !.pc = "finally", !.category = Verdict,
           !.result = IF monitor.category = "none" /\ files.result # "invalid"
                      THEN files.result ELSE "none"])
    /\ Undisturbed

\* Whatever was raised, the worker is told to terminate.
Except ==
    /\ At("except")
    /\ Become([monitor EXCEPT !.pc = "excepted", !.category = "FAIL_RESOURCE_MONITOR"])
    /\ Signal("term")
    /\ UNCHANGED files

Excepted ==
    /\ At("excepted")
    /\ Become([monitor EXCEPT !.pc = "finally", !.cleanup = ~Alive])
    /\ Undisturbed

\* Faulty: leaves the worker that survived its termination alone.
FaultyFinally ==
    /\ At("finally")
    /\ Goto("reaped")
    /\ Undisturbed

Finally ==
    /\ At("finally")
    /\ Goto("reaped")
    /\ Signal("kill")
    /\ UNCHANGED files

Reaped ==
    /\ At("reaped")
    /\ Become([monitor EXCEPT !.pc = "resource", !.cleanup = @ \/ ~Alive])
    /\ Undisturbed

TelemetryComplete == monitor.ram # "none" /\ (GpuTask => monitor.gpu # "none")

\* ResourceRecord refuses flags that contradict the category.
Refuses(category) ==
    \/ monitor.timedOut /\ category # "FAIL_TIMEOUT"
    \/ ~monitor.hardPassed /\ category # "FAIL_RESOURCE_LIMIT"

Resource ==
    /\ At("resource")
    /\ LET category == IF ~TelemetryComplete /\ monitor.category = "none"
                       THEN "FAIL_RESOURCE_MONITOR" ELSE monitor.category
           passed == category = "none" /\ TelemetryComplete /\ monitor.cleanup
       IN Become([monitor EXCEPT
              !.pc = IF Refuses(category) THEN "refused"
                     ELSE IF passed THEN "check" ELSE "returned",
              !.category = category, !.passed = passed])
    /\ Undisturbed

\* The scheduler compares the payload with the digest the worker returned.
Check ==
    /\ At("check")
    /\ \/ files.payload = "whole" /\ Goto("returned")
       \/ files.payload # "whole"
          /\ Become([monitor EXCEPT !.pc = "returned", !.passed = FALSE,
                 !.category = "FAIL_CACHE_INTEGRITY"])
    /\ Undisturbed
-------------------------------------------------------------------------------
WorkerStep ==
    WritesPayload \/ (\E r \in Results : Reports(r)) \/ Exits \/ Dies
    \/ LeavesPartial \/ PayloadHarmed

MonitorStep ==
    \/ Preflight \/ Start \/ Record \/ Look \/ Beat \/ Clock \/ Join \/ Reap
    \/ Killed \/ Judge \/ Except \/ Excepted \/ Finally \/ Reaped \/ Resource
    \/ Check
    \/ \E level \in Levels : SampleRam(level) \/ SampleGpu(level)

Next == WorkerStep \/ MonitorStep

Spec == Init /\ [][Next]_vars

\* The monitor's thread is scheduled.  Nothing is owed by the worker, except
\* that the system gets to kill it (SIGKILL cannot be refused).
FairSpec ==
    Spec /\ WF_vars(MonitorStep) /\ WF_vars(worker.signal = "kill" /\ Dies)
-------------------------------------------------------------------------------
(* Properties.                                                             *)

\* What the scheduler publishes is whole work: the worker reported success and
\* ended by itself with exit code 0, was measured, never above a limit, was
\* never told to stop, and its payload is complete.  No race of the worker's
\* end with a timeout, a limit or an error of the monitor lets less through.
PassedIsSound ==
    monitor.pc = "returned" /\ monitor.passed =>
        /\ worker = [stage |-> "ended", exit |-> "zero", signal |-> "none"]
        /\ files = [payload |-> "whole", result |-> "ok"]
        /\ monitor.ram = "within"
        /\ GpuTask => monitor.gpu = "within"

\* The flags and the category of the record never contradict each other: no
\* result that arrives late, and no error, replaces the cause that stopped the
\* worker, so ResourceRecord is never refused.
RecordIsAccepted == monitor.pc # "refused"

\* A worker that outlives its monitor was killed in vain and is reported.
NoWorkerLeftUnreported ==
    monitor.pc = "returned" /\ Alive =>
        worker.signal = "kill" /\ ~monitor.cleanup /\ ~monitor.passed

\* However the worker behaves, the monitor returns.
MonitorReturns == <>(monitor.pc = "returned")

\* No worker stays when its monitor has returned.
WorkerGoes == monitor.pc = "returned" ~> ~Alive
=============================================================================
