------------------------ MODULE WorkerMonitor_proofs ------------------------
(***************************************************************************)
(* Proofs about WorkerMonitor, for CPU and GPU tasks and any number of     *)
(* looks before the timeout: what the monitor passes is sound, its record  *)
(* is never refused, and no worker is left behind unreported.              *)
(***************************************************************************)
EXTENDS WorkerMonitor, TLAPS

(* The conjuncts of the inductive invariant, each a fact about a stretch   *)
(* of the monitor's way.                                                   *)

BeforeLoopEnds == {"preflight", "start", "record", "look", "sample", "gpu", "beat", "clock"}

\* Nothing has been noted, and nobody stopped the worker, while it is watched.
Watching ==
    monitor.pc \in BeforeLoopEnds =>
        /\ monitor.category = "none" /\ worker.signal = "none"
        /\ worker.stage = "unborn" <=> monitor.pc \in {"preflight", "start"}
        /\ monitor.ram # "above" /\ monitor.gpu # "above"

\* Signals come with a cause: a worker without one ended by itself.
Unstopped ==
    /\ monitor.category = "none" /\ monitor.pc \notin BeforeLoopEnds =>
           /\ monitor.pc \notin {"except", "excepted", "killed"} =>
                 worker.stage = "ended" /\ worker.signal = "none"
           /\ monitor.ram # "above" /\ monitor.gpu # "above"
    /\ monitor.pc \in {"killed", "excepted"} => monitor.category # "none"
    /\ worker.stage = "unborn" => worker.signal = "none"

\* The category, once judged, speaks of the files and the exit code.
Judged ==
    monitor.category = "none"
    /\ monitor.pc \in {"finally", "reaped", "resource", "check", "returned"} =>
        worker.exit = "zero" /\ files.result = "ok" /\ monitor.ram # "none"

\* The flags agree with the category, and an error of the monitor finds them unset.
Flags ==
    /\ monitor.timedOut => monitor.category = "FAIL_TIMEOUT"
    /\ ~monitor.hardPassed => monitor.category = "FAIL_RESOURCE_LIMIT"
    /\ monitor.pc = "except" => ~monitor.timedOut /\ monitor.hardPassed

\* passed is decided by the record and kept by the look at the payload.
Decided ==
    /\ monitor.passed => monitor.pc \in {"check", "returned", "refused"}
    /\ monitor.passed => monitor.category = "none" /\ TelemetryComplete
    /\ monitor.pc = "check" => monitor.passed
    /\ monitor.pc = "returned" /\ monitor.passed => files.payload = "whole"

\* cleanup_passed is believed only where it was measured; from the last reap on
\* a living worker has been killed.
Reported ==
    /\ monitor.cleanup /\ monitor.pc \in {"reap", "killed", "judge", "finally",
           "reaped", "resource", "check", "returned"} => ~Alive
    /\ monitor.passed => ~Alive
    /\ monitor.pc \in {"reaped", "resource", "check", "returned"} /\ Alive =>
           worker.signal = "kill"

IInv ==
    /\ MonitorTypeOK /\ Watching /\ Unstopped /\ Judged /\ Flags /\ Decided
    /\ Reported /\ RecordIsAccepted

LEMMA InitIInv == Init => IInv
  BY MonitorAssumption
  DEF Init, IInv, MonitorTypeOK, Workers, Monitors, Stages, Results, Categories, Levels,
      Places, Watching, BeforeLoopEnds, Unstopped, Judged, Flags, Decided, Reported,
      RecordIsAccepted, Alive, TelemetryComplete
-------------------------------------------------------------------------------
(* The worker's steps disturb what the invariant says of the worker and of  *)
(* its files, never the monitor.                                            *)

LEMMA WritesPayloadKeeps == ASSUME IInv, WritesPayload PROVE IInv'
  BY DEF WritesPayload, IInv, MonitorTypeOK, Workers, Stages, Results, Watching, BeforeLoopEnds,
      Unstopped, Judged, Flags, Decided, Reported, RecordIsAccepted, Alive, TelemetryComplete

LEMMA ReportsKeeps == ASSUME IInv, NEW r \in Results, Reports(r) PROVE IInv'
  BY DEF Reports, IInv, MonitorTypeOK, Workers, Stages, Results, Watching, BeforeLoopEnds,
      Unstopped, Judged, Flags, Decided, Reported, RecordIsAccepted, Alive, TelemetryComplete

LEMMA LeavesPartialKeeps == ASSUME IInv, LeavesPartial PROVE IInv'
  BY ZenonT(60) DEF LeavesPartial, Ended, IInv, MonitorTypeOK, Workers, Stages, Results, Watching, BeforeLoopEnds,
      Unstopped, Judged, Flags, Decided, Reported, RecordIsAccepted, Alive, TelemetryComplete

LEMMA PayloadHarmedKeeps == ASSUME IInv, PayloadHarmed PROVE IInv'
  BY DEF PayloadHarmed, IInv, MonitorTypeOK, Workers, Stages, Results, Watching, BeforeLoopEnds,
      Unstopped, Judged, Flags, Decided, Reported, RecordIsAccepted, Alive, TelemetryComplete

LEMMA ExitsKeeps == ASSUME IInv, Exits PROVE IInv'
<1> USE DEF IInv, At, Become, Goto, Undisturbed, Signal, MonitorTypeOK, Monitors, Workers, Alive
<1>1. MonitorTypeOK'
  BY DEF Exits, Ended, Stages
<1>2. Watching'
  BY DEF Exits, Ended, Watching, BeforeLoopEnds
<1>3. Unstopped'
  BY DEF Exits, Ended, Watching, BeforeLoopEnds, Unstopped, Stages
<1>4. Judged'
  BY DEF Exits, Ended, Judged, Unstopped, BeforeLoopEnds
<1>5. Flags'
  BY DEF Exits, Ended, Flags, Watching, BeforeLoopEnds, Decided
<1>6. Decided'
  BY DEF Exits, Ended, Decided, Judged, TelemetryComplete
<1>7. Reported'
  BY DEF Exits, Ended, Reported, Decided, Unstopped, BeforeLoopEnds
<1>8. RecordIsAccepted'
  BY DEF Exits, Ended, RecordIsAccepted, Flags
<1>9. QED
  BY <1>1, <1>2, <1>3, <1>4, <1>5, <1>6, <1>7, <1>8

LEMMA DiesKeeps == ASSUME IInv, Dies PROVE IInv'
<1> USE DEF IInv, At, Become, Goto, Undisturbed, Signal, MonitorTypeOK, Monitors, Workers, Alive
<1>1. MonitorTypeOK'
  BY DEF Dies, Ended, Stages
<1>2. Watching'
  BY DEF Dies, Ended, Watching, BeforeLoopEnds
<1>3. Unstopped'
  BY DEF Dies, Ended, Watching, BeforeLoopEnds, Unstopped, Stages
<1>4. Judged'
  BY DEF Dies, Ended, Judged, Unstopped, BeforeLoopEnds
<1>5. Flags'
  BY DEF Dies, Ended, Flags, Watching, BeforeLoopEnds, Decided
<1>6. Decided'
  BY DEF Dies, Ended, Decided, Judged, TelemetryComplete
<1>7. Reported'
  BY DEF Dies, Ended, Reported, Decided, Unstopped, BeforeLoopEnds
<1>8. RecordIsAccepted'
  BY DEF Dies, Ended, RecordIsAccepted, Flags
<1>9. QED
  BY <1>1, <1>2, <1>3, <1>4, <1>5, <1>6, <1>7, <1>8

-------------------------------------------------------------------------------
(* The monitor's steps.                                                    *)

LEMMA PreflightKeeps == ASSUME IInv, Preflight PROVE IInv'
<1> USE DEF IInv, At, Become, Goto, Undisturbed, Signal, MonitorTypeOK, Monitors, Workers, Alive
<1>1. MonitorTypeOK'
  BY MonitorAssumption DEF Preflight, Places, Stages, Categories, Levels, Results
<1>2. Watching'
  BY DEF Preflight, Watching, BeforeLoopEnds
<1>3. Unstopped'
  BY DEF Preflight, Watching, BeforeLoopEnds, Unstopped, Stages
<1>4. Judged'
  BY DEF Preflight, Judged, Unstopped, BeforeLoopEnds
<1>5. Flags'
  BY DEF Preflight, Flags, Watching, BeforeLoopEnds, Decided
<1>6. Decided'
  BY DEF Preflight, Decided, Judged, TelemetryComplete
<1>7. Reported'
  BY DEF Preflight, Reported, Decided, Unstopped, BeforeLoopEnds
<1>8. RecordIsAccepted'
  BY DEF Preflight, RecordIsAccepted, Flags
<1>9. QED
  BY <1>1, <1>2, <1>3, <1>4, <1>5, <1>6, <1>7, <1>8

LEMMA StartKeeps == ASSUME IInv, Start PROVE IInv'
<1> USE DEF IInv, At, Become, Goto, Undisturbed, Signal, MonitorTypeOK, Monitors, Workers, Alive
<1>1. MonitorTypeOK'
  BY MonitorAssumption DEF Start, Places, Stages, Categories, Levels, Results
<1>2. Watching'
  BY DEF Start, Watching, BeforeLoopEnds
<1>3. Unstopped'
  BY DEF Start, Watching, BeforeLoopEnds, Unstopped, Stages
<1>4. Judged'
  BY DEF Start, Judged, Unstopped, BeforeLoopEnds
<1>5. Flags'
  BY DEF Start, Flags, Watching, BeforeLoopEnds, Decided
<1>6. Decided'
  BY DEF Start, Decided, Judged, TelemetryComplete
<1>7. Reported'
  BY DEF Start, Reported, Decided, Unstopped, BeforeLoopEnds
<1>8. RecordIsAccepted'
  BY DEF Start, RecordIsAccepted, Flags
<1>9. QED
  BY <1>1, <1>2, <1>3, <1>4, <1>5, <1>6, <1>7, <1>8

LEMMA RecordKeeps == ASSUME IInv, Record PROVE IInv'
<1> USE DEF IInv, At, Become, Goto, Undisturbed, Signal, MonitorTypeOK, Monitors, Workers, Alive
<1>1. MonitorTypeOK'
  BY MonitorAssumption DEF Record, Places, Stages, Categories, Levels, Results
<1>2. Watching'
  BY DEF Record, Watching, BeforeLoopEnds
<1>3. Unstopped'
  BY DEF Record, Watching, BeforeLoopEnds, Unstopped, Stages
<1>4. Judged'
  BY DEF Record, Judged, Unstopped, BeforeLoopEnds
<1>5. Flags'
  BY DEF Record, Flags, Watching, BeforeLoopEnds, Decided
<1>6. Decided'
  BY DEF Record, Decided, Judged, TelemetryComplete
<1>7. Reported'
  BY DEF Record, Reported, Decided, Unstopped, BeforeLoopEnds
<1>8. RecordIsAccepted'
  BY DEF Record, RecordIsAccepted, Flags
<1>9. QED
  BY <1>1, <1>2, <1>3, <1>4, <1>5, <1>6, <1>7, <1>8

LEMMA LookKeeps == ASSUME IInv, Look PROVE IInv'
<1> USE DEF IInv, At, Become, Goto, Undisturbed, Signal, MonitorTypeOK, Monitors, Workers, Alive
<1>1. MonitorTypeOK'
  BY MonitorAssumption DEF Look, Places, Stages, Categories, Levels, Results
<1>2. Watching'
  BY DEF Look, Watching, BeforeLoopEnds
<1>3. Unstopped'
  BY DEF Look, Watching, BeforeLoopEnds, Unstopped, Stages
<1>4. Judged'
  BY DEF Look, Judged, Unstopped, BeforeLoopEnds
<1>5. Flags'
  BY DEF Look, Flags, Watching, BeforeLoopEnds, Decided
<1>6. Decided'
  BY DEF Look, Decided, Judged, TelemetryComplete
<1>7. Reported'
  BY DEF Look, Reported, Decided, Unstopped, BeforeLoopEnds
<1>8. RecordIsAccepted'
  BY DEF Look, RecordIsAccepted, Flags
<1>9. QED
  BY <1>1, <1>2, <1>3, <1>4, <1>5, <1>6, <1>7, <1>8

LEMMA SampleRamKeeps == ASSUME IInv, NEW level \in Levels, SampleRam(level) PROVE IInv'
<1> USE DEF IInv, At, Become, Goto, Undisturbed, Signal, MonitorTypeOK, Monitors, Workers, Alive
<1>1. MonitorTypeOK'
  <2>1. Peak(monitor.ram, level) \in Levels
    BY DEF Peak, Levels
  <2>2. (IF GpuTask THEN "gpu" ELSE "beat") \in Places
    BY DEF Places
  <2>3. CASE level = "above"
    <3>1. worker' \in Workers
      BY <2>3 DEF SampleRam, Stop, Stages
    <3>2. monitor' \in Monitors
      BY <2>3, ZenonT(60) DEF SampleRam, Stop, Places, Categories, Levels
    <3>3. QED
      BY <2>3, <3>1, <3>2 DEF SampleRam, Stop
  <2>4. CASE level # "above"
    BY <2>1, <2>2, <2>4 DEF SampleRam
  <2>5. QED
    BY <2>3, <2>4
<1>2. Watching'
  BY ZenonT(60) DEF SampleRam, Stop, Peak, Watching, BeforeLoopEnds
<1>3. Unstopped'
  BY ZenonT(60) DEF SampleRam, Stop, Peak, Watching, BeforeLoopEnds, Unstopped, Stages
<1>4. Judged'
  BY DEF SampleRam, Stop, Peak, Judged, Unstopped, BeforeLoopEnds
<1>5. Flags'
  BY DEF SampleRam, Stop, Peak, Flags, Watching, BeforeLoopEnds, Decided
<1>6. Decided'
  BY DEF SampleRam, Stop, Peak, Decided, Judged, TelemetryComplete
<1>7. Reported'
  BY ZenonT(60) DEF SampleRam, Stop, Peak, Reported, Decided, Unstopped, BeforeLoopEnds
<1>8. RecordIsAccepted'
  BY DEF SampleRam, Stop, Peak, RecordIsAccepted, Flags
<1>9. QED
  BY <1>1, <1>2, <1>3, <1>4, <1>5, <1>6, <1>7, <1>8

LEMMA SampleGpuKeeps == ASSUME IInv, NEW level \in Levels, SampleGpu(level) PROVE IInv'
<1> USE DEF IInv, At, Become, Goto, Undisturbed, Signal, MonitorTypeOK, Monitors, Workers, Alive
<1>1. MonitorTypeOK'
  <2>1. worker' \in Workers
    BY DEF SampleGpu, Stop, Stages
  <2>2. CASE Stop("FAIL_RESOURCE_MONITOR", monitor.ram, monitor.gpu)
    BY <2>1, <2>2 DEF Stop, Places, Categories
  <2>3. CASE Stop("FAIL_RESOURCE_LIMIT", monitor.ram, "above")
    BY <2>1, <2>3, ZenonT(60) DEF Stop, Places, Categories, Levels
  <2>4. CASE level = "within" /\ monitor' = [monitor EXCEPT !.pc = "beat", !.gpu = Peak(@, level)]
    <3>1. Peak(monitor.gpu, level) \in Levels
      BY DEF Peak, Levels
    <3>2. QED
      BY <2>1, <2>4, <3>1 DEF SampleGpu, Places
  <2>5. QED
    BY <2>2, <2>3, <2>4 DEF SampleGpu
<1>2. Watching'
  <2>1. CASE Stop("FAIL_RESOURCE_MONITOR", monitor.ram, monitor.gpu)
    BY <2>1 DEF Stop, Watching, BeforeLoopEnds
  <2>2. CASE Stop("FAIL_RESOURCE_LIMIT", monitor.ram, "above")
    BY <2>2 DEF Stop, Watching, BeforeLoopEnds
  <2>3. CASE level = "within" /\ monitor' = [monitor EXCEPT !.pc = "beat", !.gpu = Peak(@, level)]
    <3>1. worker' = worker /\ monitor.pc = "gpu" /\ Watching
      BY <2>3 DEF SampleGpu, Stop
    <3>2. monitor'.ram = monitor.ram /\ monitor'.category = monitor.category /\ monitor'.pc = "beat"
      BY <2>3
    <3>3. monitor'.gpu # "above"
      BY <2>3, <3>1 DEF Peak, Watching, BeforeLoopEnds
    <3> QED BY <3>1, <3>2, <3>3 DEF Watching, BeforeLoopEnds
  <2> QED BY <2>1, <2>2, <2>3 DEF SampleGpu
<1>3. Unstopped'
  BY ZenonT(60) DEF SampleGpu, Stop, Peak, Watching, BeforeLoopEnds, Unstopped, Stages
<1>4. Judged'
  BY ZenonT(60) DEF SampleGpu, Stop, Peak, Judged, Unstopped, BeforeLoopEnds
<1>5. Flags'
  BY ZenonT(60) DEF SampleGpu, Stop, Peak, Flags, Watching, BeforeLoopEnds, Decided
<1>6. Decided'
  BY DEF SampleGpu, Stop, Peak, Decided, Judged, TelemetryComplete
<1>7. Reported'
  BY ZenonT(60) DEF SampleGpu, Stop, Peak, Reported, Decided, Unstopped, BeforeLoopEnds
<1>8. RecordIsAccepted'
  BY DEF SampleGpu, Stop, Peak, RecordIsAccepted, Flags
<1>9. QED
  BY <1>1, <1>2, <1>3, <1>4, <1>5, <1>6, <1>7, <1>8

LEMMA BeatKeeps == ASSUME IInv, Beat PROVE IInv'
<1> USE DEF IInv, At, Become, Goto, Undisturbed, Signal, MonitorTypeOK, Monitors, Workers, Alive
<1>1. MonitorTypeOK'
  BY MonitorAssumption DEF Beat, Places, Stages, Categories, Levels, Results
<1>2. Watching'
  BY DEF Beat, Watching, BeforeLoopEnds
<1>3. Unstopped'
  BY DEF Beat, Watching, BeforeLoopEnds, Unstopped, Stages
<1>4. Judged'
  BY DEF Beat, Judged, Unstopped, BeforeLoopEnds
<1>5. Flags'
  BY DEF Beat, Flags, Watching, BeforeLoopEnds, Decided
<1>6. Decided'
  BY DEF Beat, Decided, Judged, TelemetryComplete
<1>7. Reported'
  BY DEF Beat, Reported, Decided, Unstopped, BeforeLoopEnds
<1>8. RecordIsAccepted'
  BY DEF Beat, RecordIsAccepted, Flags
<1>9. QED
  BY <1>1, <1>2, <1>3, <1>4, <1>5, <1>6, <1>7, <1>8

LEMMA ClockKeeps == ASSUME IInv, Clock PROVE IInv'
<1> USE DEF IInv, At, Become, Goto, Undisturbed, Signal, MonitorTypeOK, Monitors, Workers, Alive
<1>1. MonitorTypeOK'
  <2>1. worker' \in Workers
    BY DEF Clock, Stop, Stages
  <2>2. CASE Stop("FAIL_TIMEOUT", monitor.ram, monitor.gpu)
    BY <2>1, <2>2 DEF Stop, Places, Categories
  <2>3. CASE ~Stop("FAIL_TIMEOUT", monitor.ram, monitor.gpu)
    <3>1. monitor.looks + 1 \in 0 .. MaxLooks
      BY <2>3, MonitorAssumption DEF Clock
    <3>2. QED
      BY <2>1, <2>3, <3>1 DEF Clock, Places
  <2>4. QED
    BY <2>2, <2>3
<1>2. Watching'
  BY ZenonT(60) DEF Clock, Stop, Watching, BeforeLoopEnds
<1>3. Unstopped'
  BY ZenonT(60) DEF Clock, Stop, Watching, BeforeLoopEnds, Unstopped, Stages
<1>4. Judged'
  BY DEF Clock, Stop, Judged, Unstopped, BeforeLoopEnds
<1>5. Flags'
  BY ZenonT(60) DEF Clock, Stop, Flags, Watching, BeforeLoopEnds, Decided
<1>6. Decided'
  BY DEF Clock, Stop, Decided, Judged, TelemetryComplete
<1>7. Reported'
  <2>1. CASE Stop("FAIL_TIMEOUT", monitor.ram, monitor.gpu)
    BY <2>1 DEF Stop, Reported, Decided
  <2>2. CASE monitor' = [monitor EXCEPT !.pc = "look", !.looks = @ + 1] /\ Undisturbed
    BY <2>2 DEF Clock, Reported, Decided
  <2> QED BY <2>1, <2>2 DEF Clock
<1>8. RecordIsAccepted'
  BY DEF Clock, Stop, RecordIsAccepted, Flags
<1>9. QED
  BY <1>1, <1>2, <1>3, <1>4, <1>5, <1>6, <1>7, <1>8

\* Noting whether the worker has gone keeps the monitor's record typed.
LEMMA CleanupTyped ==
  ASSUME MonitorTypeOK, NEW pc \in Places, NEW gone \in BOOLEAN
  PROVE  [monitor EXCEPT !.pc = pc, !.cleanup = gone] \in Monitors
BY DEF MonitorTypeOK, Monitors

LEMMA JoinKeeps == ASSUME IInv, Join PROVE IInv'
<1>1. MonitorTypeOK'
  <2>1. monitor' = [monitor EXCEPT !.pc = "reap", !.cleanup = ~Alive]
    BY DEF Join, Become
  <2> QED BY <2>1, CleanupTyped DEF Join, Places, Undisturbed, IInv, MonitorTypeOK
<1> USE DEF IInv, At, Become, Goto, Undisturbed, Signal, MonitorTypeOK, Monitors, Workers, Alive
<1>2. Watching'
  BY DEF Join, Watching, BeforeLoopEnds
<1>3. Unstopped'
  BY DEF Join, Watching, BeforeLoopEnds, Unstopped, Stages
<1>4. Judged'
  BY DEF Join, Judged, Unstopped, BeforeLoopEnds
<1>5. Flags'
  BY DEF Join, Flags, Watching, BeforeLoopEnds, Decided
<1>6. Decided'
  BY DEF Join, Decided, Judged, TelemetryComplete
<1>7. Reported'
  BY DEF Join, Reported, Decided, Unstopped, BeforeLoopEnds
<1>8. RecordIsAccepted'
  BY DEF Join, RecordIsAccepted, Flags
<1>9. QED
  BY <1>1, <1>2, <1>3, <1>4, <1>5, <1>6, <1>7, <1>8

LEMMA ReapKeeps == ASSUME IInv, Reap PROVE IInv'
<1> USE DEF IInv, At, Become, Goto, Undisturbed, Signal, MonitorTypeOK, Monitors, Workers, Alive
<1>1. MonitorTypeOK'
  BY MonitorAssumption DEF Reap, Places, Stages, Categories, Levels, Results
<1>2. Watching'
  BY DEF Reap, Watching, BeforeLoopEnds
<1>3. Unstopped'
  BY DEF Reap, Watching, BeforeLoopEnds, Unstopped, Stages
<1>4. Judged'
  BY DEF Reap, Judged, Unstopped, BeforeLoopEnds
<1>5. Flags'
  BY DEF Reap, Flags, Watching, BeforeLoopEnds, Decided
<1>6. Decided'
  BY DEF Reap, Decided, Judged, TelemetryComplete
<1>7. Reported'
  BY DEF Reap, Reported, Decided, Unstopped, BeforeLoopEnds
<1>8. RecordIsAccepted'
  BY DEF Reap, RecordIsAccepted, Flags
<1>9. QED
  BY <1>1, <1>2, <1>3, <1>4, <1>5, <1>6, <1>7, <1>8

LEMMA KilledKeeps == ASSUME IInv, Killed PROVE IInv'
<1> USE DEF IInv, At, Become, Goto, Undisturbed, Signal, MonitorTypeOK, Monitors, Workers, Alive
<1>1. MonitorTypeOK'
  <2>1. worker' \in Workers
    BY DEF Killed, Stages
  <2>2. monitor' \in Monitors
    BY MonitorAssumption, ZenonT(60) DEF Killed, Places, Categories, Levels
  <2>3. QED
    BY <2>1, <2>2 DEF Killed
<1>2. Watching'
  BY DEF Killed, Watching, BeforeLoopEnds
<1>3. Unstopped'
  BY DEF Killed, Watching, BeforeLoopEnds, Unstopped, Stages
<1>4. Judged'
  BY DEF Killed, Judged, Unstopped, BeforeLoopEnds
<1>5. Flags'
  BY DEF Killed, Flags, Watching, BeforeLoopEnds, Decided
<1>6. Decided'
  BY DEF Killed, Decided, Judged, TelemetryComplete
<1>7. Reported'
  BY DEF Killed, Reported, Decided, Unstopped, BeforeLoopEnds
<1>8. RecordIsAccepted'
  BY DEF Killed, RecordIsAccepted, Flags
<1>9. QED
  BY <1>1, <1>2, <1>3, <1>4, <1>5, <1>6, <1>7, <1>8

LEMMA JudgeKeeps == ASSUME IInv, Judge PROVE IInv'
<1> USE DEF IInv, At, Become, Goto, Undisturbed, Signal, MonitorTypeOK, Monitors, Workers, Alive
<1>1. MonitorTypeOK'
  <2>1. Verdict \in Categories
    BY DEF Verdict, Categories
  <2>2. (IF monitor.category = "none" /\ files.result # "invalid"
         THEN files.result ELSE "none") \in Results
    BY DEF Results
  <2>3. QED
    BY <2>1, <2>2 DEF Judge, Places
<1>2. Watching'
  BY DEF Judge, Verdict, Watching, BeforeLoopEnds
<1>3. Unstopped'
  BY DEF Judge, Verdict, Watching, BeforeLoopEnds, Unstopped, Stages
<1>4. Judged'
  BY DEF Judge, Verdict, Judged, Unstopped, BeforeLoopEnds
<1>5. Flags'
  <2>1. CASE monitor.category = "none"
    <3>1. ~monitor.timedOut /\ monitor.hardPassed
      BY <2>1 DEF Flags
    <3>2. ~monitor'.timedOut /\ monitor'.hardPassed /\ monitor'.pc = "finally"
      BY <3>1 DEF Judge
    <3>3. QED
      BY <3>2 DEF Flags
  <2>2. CASE monitor.category # "none"
    <3>1. Verdict = monitor.category
      BY <2>2 DEF Verdict
    <3>2. QED
      BY <3>1 DEF Judge, Flags
  <2>3. QED
    BY <2>1, <2>2
<1>6. Decided'
  BY DEF Judge, Verdict, Decided, Judged, TelemetryComplete
<1>7. Reported'
  BY DEF Judge, Verdict, Reported, Decided, Unstopped, BeforeLoopEnds
<1>8. RecordIsAccepted'
  BY DEF Judge, Verdict, RecordIsAccepted, Flags
<1>9. QED
  BY <1>1, <1>2, <1>3, <1>4, <1>5, <1>6, <1>7, <1>8

LEMMA ExceptKeeps == ASSUME IInv, Except PROVE IInv'
<1> USE DEF IInv, At, Become, Goto, Undisturbed, Signal, MonitorTypeOK, Monitors, Workers, Alive
<1>1. MonitorTypeOK'
  <2>1. worker' \in Workers
    BY DEF Except, Stages
  <2>2. monitor' \in Monitors
    BY MonitorAssumption DEF Except, Places, Categories, Levels
  <2>3. QED
    BY <2>1, <2>2 DEF Except
<1>2. Watching'
  BY DEF Except, Watching, BeforeLoopEnds
<1>3. Unstopped'
  BY DEF Except, Watching, BeforeLoopEnds, Unstopped, Stages
<1>4. Judged'
  BY DEF Except, Judged, Unstopped, BeforeLoopEnds
<1>5. Flags'
  BY DEF Except, Flags, Watching, BeforeLoopEnds, Decided
<1>6. Decided'
  BY DEF Except, Decided, Judged, TelemetryComplete
<1>7. Reported'
  BY DEF Except, Reported, Decided, Unstopped, BeforeLoopEnds
<1>8. RecordIsAccepted'
  BY DEF Except, RecordIsAccepted, Flags
<1>9. QED
  BY <1>1, <1>2, <1>3, <1>4, <1>5, <1>6, <1>7, <1>8

LEMMA ExceptedKeeps == ASSUME IInv, Excepted PROVE IInv'
<1>1. MonitorTypeOK'
  <2>1. monitor' = [monitor EXCEPT !.pc = "finally", !.cleanup = ~Alive]
    BY DEF Excepted, Become
  <2> QED BY <2>1, CleanupTyped DEF Excepted, Places, Undisturbed, IInv, MonitorTypeOK
<1> USE DEF IInv, At, Become, Goto, Undisturbed, Signal, MonitorTypeOK, Monitors, Workers, Alive
<1>2. Watching'
  BY DEF Excepted, Watching, BeforeLoopEnds
<1>3. Unstopped'
  BY DEF Excepted, Watching, BeforeLoopEnds, Unstopped, Stages
<1>4. Judged'
  BY DEF Excepted, Judged, Unstopped, BeforeLoopEnds
<1>5. Flags'
  BY DEF Excepted, Flags, Watching, BeforeLoopEnds, Decided
<1>6. Decided'
  BY DEF Excepted, Decided, Judged, TelemetryComplete
<1>7. Reported'
  BY DEF Excepted, Reported, Decided, Unstopped, BeforeLoopEnds
<1>8. RecordIsAccepted'
  BY DEF Excepted, RecordIsAccepted, Flags
<1>9. QED
  BY <1>1, <1>2, <1>3, <1>4, <1>5, <1>6, <1>7, <1>8

LEMMA FinallyKeeps == ASSUME IInv, Finally PROVE IInv'
<1> USE DEF IInv, At, Become, Goto, Undisturbed, Signal, MonitorTypeOK, Monitors, Workers, Alive
<1>1. MonitorTypeOK'
  BY MonitorAssumption DEF Finally, Places, Stages, Categories, Levels, Results
<1>2. Watching'
  BY DEF Finally, Watching, BeforeLoopEnds
<1>3. Unstopped'
  BY DEF Finally, Watching, BeforeLoopEnds, Unstopped, Stages
<1>4. Judged'
  BY DEF Finally, Judged, Unstopped, BeforeLoopEnds
<1>5. Flags'
  BY DEF Finally, Flags, Watching, BeforeLoopEnds, Decided
<1>6. Decided'
  BY DEF Finally, Decided, Judged, TelemetryComplete
<1>7. Reported'
  BY DEF Finally, Reported, Decided, Unstopped, BeforeLoopEnds
<1>8. RecordIsAccepted'
  BY DEF Finally, RecordIsAccepted, Flags
<1>9. QED
  BY <1>1, <1>2, <1>3, <1>4, <1>5, <1>6, <1>7, <1>8

LEMMA ReapedKeeps == ASSUME IInv, Reaped PROVE IInv'
<1>1. MonitorTypeOK'
  <2>1. monitor' = [monitor EXCEPT !.pc = "resource", !.cleanup = monitor.cleanup \/ ~Alive]
    BY DEF Reaped, Become
  <2> QED BY <2>1, CleanupTyped DEF Reaped, Places, Undisturbed, IInv, MonitorTypeOK
<1> USE DEF IInv, At, Become, Goto, Undisturbed, Signal, MonitorTypeOK, Monitors, Workers, Alive
<1>2. Watching'
  BY DEF Reaped, Watching, BeforeLoopEnds
<1>3. Unstopped'
  BY DEF Reaped, Watching, BeforeLoopEnds, Unstopped, Stages
<1>4. Judged'
  BY DEF Reaped, Judged, Unstopped, BeforeLoopEnds
<1>5. Flags'
  BY DEF Reaped, Flags, Watching, BeforeLoopEnds, Decided
<1>6. Decided'
  BY DEF Reaped, Decided, Judged, TelemetryComplete
<1>7. Reported'
  BY DEF Reaped, Reported, Decided, Unstopped, BeforeLoopEnds
<1>8. RecordIsAccepted'
  BY DEF Reaped, RecordIsAccepted, Flags
<1>9. QED
  BY <1>1, <1>2, <1>3, <1>4, <1>5, <1>6, <1>7, <1>8

LEMMA ResourceKeeps == ASSUME IInv, Resource PROVE IInv'
<1> USE DEF IInv, At, Become, Goto, Undisturbed, Signal, MonitorTypeOK, Monitors, Workers, Alive
<1>1. MonitorTypeOK'
  <2> DEFINE category == IF ~TelemetryComplete /\ monitor.category = "none"
                         THEN "FAIL_RESOURCE_MONITOR" ELSE monitor.category
             passed == category = "none" /\ TelemetryComplete /\ monitor.cleanup
             pc == IF Refuses(category) THEN "refused"
                   ELSE IF passed THEN "check" ELSE "returned"
  <2>1. category \in Categories
    BY DEF Categories
  <2>2. passed \in BOOLEAN
    BY DEF TelemetryComplete
  <2>3. pc \in Places
    BY DEF Places
  <2>4. monitor' = [monitor EXCEPT !.pc = pc, !.category = category, !.passed = passed]
    BY DEF Resource
  <2>5. QED
    <3> HIDE DEF category, passed, pc
    <3>1. monitor' \in Monitors
      BY <2>1, <2>2, <2>3, <2>4
    <3>2. QED
      BY <3>1 DEF Resource
<1>2. Watching'
  BY DEF Resource, Refuses, Watching, BeforeLoopEnds
<1>3. Unstopped'
  BY DEF Resource, Refuses, Watching, BeforeLoopEnds, Unstopped, Stages
<1>4. Judged'
  BY DEF Resource, Refuses, Judged, Unstopped, BeforeLoopEnds
<1>5. Flags'
  BY DEF Resource, Refuses, Flags, Watching, BeforeLoopEnds, Decided
<1>6. Decided'
  BY DEF Resource, Refuses, Decided, Judged, TelemetryComplete
<1>7. Reported'
  BY DEF Resource, Refuses, Reported, Decided, Unstopped, BeforeLoopEnds
<1>8. RecordIsAccepted'
  BY DEF Resource, Refuses, RecordIsAccepted, Flags
<1>9. QED
  BY <1>1, <1>2, <1>3, <1>4, <1>5, <1>6, <1>7, <1>8

LEMMA CheckKeeps == ASSUME IInv, Check PROVE IInv'
<1> USE DEF IInv, At, Become, Goto, Undisturbed, Signal, MonitorTypeOK, Monitors, Workers, Alive
<1>1. MonitorTypeOK'
  <2>1. CASE files.payload = "whole"
    BY <2>1 DEF Check, Places
  <2>2. CASE files.payload # "whole"
    BY <2>2 DEF Check, Places, Categories
  <2>3. QED
    BY <2>1, <2>2
<1>2. Watching'
  BY DEF Check, Watching, BeforeLoopEnds
<1>3. Unstopped'
  BY DEF Check, Watching, BeforeLoopEnds, Unstopped, Stages
<1>4. Judged'
  BY DEF Check, Judged, Unstopped, BeforeLoopEnds
<1>5. Flags'
  BY DEF Check, Flags, Watching, BeforeLoopEnds, Decided
<1>6. Decided'
  BY DEF Check, Decided, Judged, TelemetryComplete
<1>7. Reported'
  BY DEF Check, Reported, Decided, Unstopped, BeforeLoopEnds
<1>8. RecordIsAccepted'
  BY DEF Check, RecordIsAccepted, Flags
<1>9. QED
  BY <1>1, <1>2, <1>3, <1>4, <1>5, <1>6, <1>7, <1>8

-------------------------------------------------------------------------------
LEMMA NextIInv == IInv /\ [Next]_vars => IInv'
<1> SUFFICES ASSUME IInv, [Next]_vars PROVE IInv'
  OBVIOUS
<1>1. CASE WorkerStep
  BY <1>1, WritesPayloadKeeps, ReportsKeeps, ExitsKeeps, DiesKeeps, LeavesPartialKeeps,
     PayloadHarmedKeeps DEF WorkerStep
<1>2. CASE MonitorStep
  <2>1. CASE \E level \in Levels : SampleRam(level) \/ SampleGpu(level)
    BY <2>1, SampleRamKeeps, SampleGpuKeeps
  <2>2. CASE Preflight \/ Start \/ Record \/ Look \/ Beat \/ Clock
    BY <2>2, PreflightKeeps, StartKeeps, RecordKeeps, LookKeeps, BeatKeeps, ClockKeeps
  <2>3. CASE Join \/ Reap \/ Killed \/ Judge \/ Except \/ Excepted
    BY <2>3, JoinKeeps, ReapKeeps, KilledKeeps, JudgeKeeps, ExceptKeeps, ExceptedKeeps
  <2>4. CASE Finally \/ Reaped \/ Resource \/ Check
    BY <2>4, FinallyKeeps, ReapedKeeps, ResourceKeeps, CheckKeeps
  <2>5. QED
    BY <1>2, <2>1, <2>2, <2>3, <2>4 DEF MonitorStep
<1>3. CASE UNCHANGED vars
  BY <1>3 DEF vars, IInv, MonitorTypeOK, Watching, Unstopped, Judged, Flags, Decided,
              Reported, RecordIsAccepted, Alive, TelemetryComplete
<1>4. QED
  BY <1>1, <1>2, <1>3 DEF Next

\* The invariant holds in every reachable state.
THEOREM Invariance == Spec => []IInv
  BY InitIInv, NextIInv, PTL DEF Spec

\* Every state is one of the declared records, whatever the device policy and
\* however late the timeout.
THEOREM TypeCorrect == Spec => []MonitorTypeOK
<1>1. IInv => MonitorTypeOK
  BY DEF IInv
<1>2. QED
  BY Invariance, <1>1, PTL

\* What execute_isolated_worker passes, and the scheduler publishes, is whole
\* work of a worker that ended by itself within its limits.
THEOREM PassedSound == Spec => []PassedIsSound
<1>1. IInv => PassedIsSound
  <2> SUFFICES ASSUME IInv, monitor.pc = "returned", monitor.passed PROVE
          /\ worker = [stage |-> "ended", exit |-> "zero", signal |-> "none"]
          /\ files = [payload |-> "whole", result |-> "ok"]
          /\ monitor.ram = "within"
          /\ GpuTask => monitor.gpu = "within"
    BY DEF PassedIsSound
  <2>1. monitor.category = "none" /\ TelemetryComplete /\ files.payload = "whole"
    BY DEF IInv, Decided
  <2>2. worker.exit = "zero" /\ files.result = "ok"
    BY <2>1 DEF IInv, Judged
  <2>3. /\ worker.stage = "ended" /\ worker.signal = "none"
        /\ monitor.ram # "above" /\ monitor.gpu # "above"
    BY <2>1 DEF IInv, Unstopped, BeforeLoopEnds
  <2>4. worker \in Workers /\ monitor.ram \in Levels /\ monitor.gpu \in Levels
        /\ files \in [payload : {"none", "partial", "whole"}, result : Results]
    BY DEF IInv, MonitorTypeOK, Monitors
  <2>5. QED
    BY <2>1, <2>2, <2>3, <2>4 DEF Workers, TelemetryComplete, Levels
<1>2. QED
  BY Invariance, <1>1, PTL

\* ResourceRecord's validator never refuses the record of an execution.
THEOREM RecordAccepted == Spec => []RecordIsAccepted
<1>1. IInv => RecordIsAccepted
  BY DEF IInv
<1>2. QED
  BY Invariance, <1>1, PTL

\* A worker that outlives its monitor was killed in vain and is reported.
THEOREM WorkerReported == Spec => []NoWorkerLeftUnreported
<1>1. IInv => NoWorkerLeftUnreported
  BY DEF IInv, Reported, NoWorkerLeftUnreported
<1>2. QED
  BY Invariance, <1>1, PTL
=============================================================================
