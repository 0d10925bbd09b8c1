------------------------------ MODULE Scheduler ------------------------------
(***************************************************************************)
(* Scheduler processes of runner/scheduler.py that run the same plan over  *)
(* one state file, one cache and one index.                                *)
(*                                                                         *)
(* A run recovers abandoned tasks, rebuilds the index and scans the plan:  *)
(* what is cached is completed, what is left is marked RUNNING and queued. *)
(* A pool of threads then executes the CPU queue, and the main thread the  *)
(* GPU queue under the machine's GPU lock.  A thread holds the lock of the *)
(* task's cache identity from its second look at the cache to the          *)
(* completion of the task, while a worker process computes.                *)
(*                                                                         *)
(* The task records and their methods are TaskState's; the cache is the    *)
(* write-once register that CacheStore implements.  Each action is one     *)
(* access to the state shared by processes and threads.                    *)
(***************************************************************************)
EXTENDS TaskState, CacheRegister, FiniteSets

CONSTANTS
    Scheds,        \* scheduler processes, by process id
    Workers,       \* threads in the pool: min(config.cpu_workers, plan.cpu_workers)
    Plan,          \* the tasks in canonical order
    KeyOf,         \* KeyOf[t]: the cache identity of t
    Placements,    \* the sets of tasks that may have device policy "cuda"
    Free,          \* a lock nobody holds
    MayRaise,      \* whether file accesses may raise (full disk, lock timeout)
    MaxRuns,       \* bound: runs started in one behaviour
    MaxDamage      \* bound: times the entry of one identity is damaged

\* The main thread executes GPU tasks when the pool is gone: it is slot 1 then.
Slots == 1 .. Workers
Threads == Scheds \X Slots

\* A worker process goes by the thread that started it, which has one at a time.
ASSUME SchedulerAssumption ==
    /\ Workers \in Nat \ {0}
    /\ Pids = Scheds \cup Threads
    /\ Scheds \cap Threads = {}
    /\ Free \notin Pids
    /\ Artifacts = Payloads
    /\ None \notin Tasks
    /\ Plan \in Seq(Tasks)
    /\ \A t \in Tasks : \E i \in 1 .. Len(Plan) : Plan[i] = t
    /\ Len(Plan) > 0
    /\ KeyOf \in [Tasks -> Keys]
    /\ Placements \subseteq SUBSET Tasks
    /\ MayRaise \in BOOLEAN
    /\ MaxRuns \in Nat /\ MaxDamage \in Nat

VARIABLES
    index,    \* index[k]: the digest in the row of k, Absent without a row
    keyLock,  \* keyLock[k]: the thread that holds the identity lock of k
    gpuLock,  \* the scheduler whose main thread holds the GPU lock
    run,      \* run[s]: the run of s, with its place and its counters
    thread,   \* thread[th]: the task th executes and how far it is
    runs,     \* runs started so far
    gpuTasks, \* the tasks of the plan with device policy "cuda"
    harmed    \* history: how often the entry of k was damaged

vars == <<tasks, alive, value, index, keyLock, gpuLock, run, thread, runs,
          gpuTasks, harmed>>
-------------------------------------------------------------------------------
Scanning == {"rebuild", "look", "retry", "check", "reopen", "clean", "second",
             "probe", "cleanProbe", "hitStart", "hitFinish", "hitIndex", "schedule"}
Resting == {"off", "done", "raised"}

Executing == {"submit", "pool", "closing", "gpu"}

\* found: the digest of the artifact the scan has just read; cpu and gpu: the
\* queues; mine: the tasks this run marked RUNNING in order to execute them;
\* hits and executed: the tasks it counted.
NewRun(pc, retry) ==
    [pc |-> pc, at |-> 1, retry |-> retry, found |-> Absent, cpu |-> << >>,
     gpu |-> << >>, mine |-> {}, hits |-> {}, executed |-> {}]
RunRecords ==
    [pc : Scanning \cup Executing \cup Resting, at : 1 .. Len(Plan),
     retry : BOOLEAN, found : Payloads \cup {Absent}, cpu : Seq(Tasks),
     gpu : Seq(Tasks), mine : SUBSET Tasks, hits : SUBSET Tasks,
     executed : SUBSET Tasks]

\* Steps of a thread: those under the identity lock, then the others.
Locked == {"recheck", "hit", "hitIndex", "launch", "started", "watching", "publish",
           "indexing", "complete", "fail"}
IdleThread == [pc |-> "idle", task |-> None, payload |-> Absent]
ThreadRecords ==
    [pc : Locked \cup {"idle", "gpuWait", "keyWait", "error", "errorRunning",
                       "gpuError", "gpuErrorRunning", "raised", "orphan"},
     task : Tasks \cup {None}, payload : Payloads \cup {Absent}]

SchedulerTypeOK ==
    /\ TaskStateTypeOK
    /\ value \in [Keys -> Cells]
    /\ index \in [Keys -> Payloads \cup {Absent}]
    /\ keyLock \in [Keys -> Threads \cup {Free}]
    /\ gpuLock \in Scheds \cup {Free}
    /\ run \in [Scheds -> RunRecords]
    /\ thread \in [Threads -> ThreadRecords]
    /\ runs \in 0 .. MaxRuns
    /\ gpuTasks \in Placements
    /\ harmed \in [Keys -> 0 .. MaxDamage]

Init ==
    /\ tasks = [t \in Tasks |-> NewRecord]
    /\ alive = Scheds
    /\ RegisterInit
    /\ index = [k \in Keys |-> Absent]
    /\ keyLock = [k \in Keys |-> Free]
    /\ gpuLock = Free
    /\ run = [s \in Scheds |-> NewRun("off", FALSE)]
    /\ thread = [th \in Threads |-> IdleThread]
    /\ runs = 0
    /\ gpuTasks \in Placements
    /\ harmed = [k \in Keys |-> 0]
-------------------------------------------------------------------------------
(* The scan of the plan, in the main thread.                               *)

locks == <<keyLock, gpuLock>>
history == <<runs, gpuTasks, harmed>>

Task(s) == Plan[run[s].at]
At(s, pc) == run[s].pc = pc
SetRun(s, r) == run' = [run EXCEPT ![s] = r]
Goto(s, pc) == SetRun(s, [run[s] EXCEPT !.pc = pc])

(* Definitions named Faulty... are what a plausible mistake would make of    *)
(* the definition that follows them; no specification uses them.            *)

\* The next task of the plan, or its execution after the last.
Onward(r) ==
    IF r.at = Len(Plan) THEN [r EXCEPT !.pc = "submit", !.found = Absent]
    ELSE [r EXCEPT !.pc = "look", !.found = Absent, !.at = @ + 1]

\* transition() in the main thread: a refused move raises out of run().
ScanMove(s, to, reason, artifact, r) ==
    LET t == Task(s) IN
    \/ /\ Accepts(tasks[t], to, reason, artifact)
       /\ tasks' = [tasks EXCEPT ![t] = Moved(@, to, s, artifact)]
       /\ SetRun(s, r)
    \/ /\ ~Accepts(tasks[t], to, reason, artifact)
       /\ Goto(s, "raised")
       /\ UNCHANGED tasks

\* initialize() and recover_abandoned().
StartRun(s, retry) ==
    /\ s \in alive
    /\ run[s].pc \in Resting
    /\ runs < MaxRuns
    /\ runs' = runs + 1
    /\ tasks' = [t \in Tasks |-> Recovered(tasks[t], alive)]
    /\ SetRun(s, NewRun("rebuild", retry))
    /\ UNCHANGED <<alive, value, index, locks, thread, gpuTasks, harmed>>

\* iter_validated(): the entries that validate by their own manifests; others
\* are passed over.
IterValidated == [k \in Keys |-> IF value[k] \in Payloads THEN value[k] ELSE Absent]

\* index.rebuild(): the rows are those of the entries that validate.
Rebuild(s) ==
    /\ At(s, "rebuild")
    /\ index' = IterValidated
    /\ Goto(s, "look")
    /\ UNCHANGED <<tasks, alive, value, locks, thread, history>>

Look(s) ==
    /\ At(s, "look")
    /\ LET state == tasks[Task(s)].state IN
       \/ /\ state \in {"BLOCKED", "CANCELLED"} \/ (state = "FAILED" /\ ~run[s].retry)
          /\ SetRun(s, Onward(run[s]))
       \/ state = "FAILED" /\ run[s].retry /\ Goto(s, "retry")
       \/ state = "COMPLETE" /\ Goto(s, "check")
       \/ state \in {"PENDING", "RUNNING"} /\ Goto(s, "second")
    /\ UNCHANGED <<tasks, alive, value, index, locks, thread, history>>

RetryFailed(s) ==
    /\ At(s, "retry")
    /\ ScanMove(s, "PENDING", "EXPLICIT_RETRY", None, [run[s] EXCEPT !.pc = "second"])
    /\ UNCHANGED <<alive, value, index, locks, thread, history>>

Read(s, from, hit, broken, miss) ==
    LET v == value[KeyOf[Task(s)]] IN
    /\ At(s, from)
    /\ SetRun(s, [run[s] EXCEPT
           !.pc = IF v \in Payloads THEN hit ELSE IF v = Broken THEN broken ELSE miss,
           !.found = IF v \in Payloads THEN v ELSE Absent])
    /\ UNCHANGED <<tasks, alive, value, index, locks, thread, history>>

\* Faulty: trusts the index instead of the entry.
FaultyCheckComplete(s) ==
    /\ At(s, "check")
    /\ SetRun(s, [run[s] EXCEPT
           !.pc = IF index[KeyOf[Task(s)]] = Absent THEN "reopen" ELSE "hitIndex",
           !.found = index[KeyOf[Task(s)]]])
    /\ UNCHANGED <<tasks, alive, value, index, locks, thread, history>>

\* A completed task is a hit only if its entry validates now.
CheckComplete(s) == Read(s, "check", "hitIndex", "reopen", "reopen")

ReopenComplete(s) ==
    /\ At(s, "reopen")
    /\ ScanMove(s, "PENDING", "INVALID_CACHE_ARTIFACT", None,
                [run[s] EXCEPT !.pc = "clean"])
    /\ UNCHANGED <<alive, value, index, locks, thread, history>>

\* quarantine_invalid(): nothing to do without an entry; otherwise under the
\* identity lock, and an entry that validates by then raises out of run().
Clean(s, from, to) ==
    LET k == KeyOf[Task(s)] IN
    /\ At(s, from)
    /\ \/ value[k] = Absent /\ Goto(s, to) /\ UNCHANGED value
       \/ keyLock[k] = Free /\ Quarantine(k) /\ Goto(s, to)
       \/ keyLock[k] = Free /\ value[k] \in Payloads
          /\ Goto(s, "raised") /\ UNCHANGED value
    /\ UNCHANGED <<tasks, alive, index, locks, thread, history>>

CleanComplete(s) == Clean(s, "clean", "second")
CleanProbe(s) == Clean(s, "cleanProbe", "schedule")

\* The identity lock was held past the deadline: CacheLockTimeout.
CleanTimeout(s) ==
    LET k == KeyOf[Task(s)] IN
    /\ run[s].pc \in {"clean", "cleanProbe"}
    /\ value[k] # Absent /\ keyLock[k] # Free
    /\ Goto(s, "raised")
    /\ UNCHANGED <<tasks, alive, value, index, locks, thread, history>>

\* A task that is RUNNING elsewhere is passed over.
SecondLook(s) ==
    /\ At(s, "second")
    /\ IF tasks[Task(s)].state = "PENDING"
       THEN Goto(s, "probe") ELSE SetRun(s, Onward(run[s]))
    /\ UNCHANGED <<tasks, alive, value, index, locks, thread, history>>

Probe(s) == Read(s, "probe", "hitStart", "cleanProbe", "schedule")

HitStart(s) ==
    /\ At(s, "hitStart")
    /\ ScanMove(s, "RUNNING", "ORDINARY", None, [run[s] EXCEPT !.pc = "hitFinish"])
    /\ UNCHANGED <<alive, value, index, locks, thread, history>>

HitFinish(s) ==
    /\ At(s, "hitFinish")
    /\ ScanMove(s, "COMPLETE", "ORDINARY", run[s].found,
                [run[s] EXCEPT !.pc = "hitIndex"])
    /\ UNCHANGED <<alive, value, index, locks, thread, history>>

\* index.add() of the artifact read before, valid then.
HitIndex(s) ==
    /\ At(s, "hitIndex")
    /\ index' = [index EXCEPT ![KeyOf[Task(s)]] = run[s].found]
    /\ SetRun(s, Onward([run[s] EXCEPT !.hits = @ \cup {Task(s)}]))
    /\ UNCHANGED <<tasks, alive, value, locks, thread, history>>

\* The task is queued and, from here on, RUNNING.
Queued(r, t) ==
    IF t \in gpuTasks
    THEN [r EXCEPT !.gpu = Append(@, t), !.mine = @ \cup {t}]
    ELSE [r EXCEPT !.cpu = Append(@, t), !.mine = @ \cup {t}]

Schedule(s) ==
    /\ At(s, "schedule")
    /\ ScanMove(s, "RUNNING", "ORDINARY", None, Onward(Queued(run[s], Task(s))))
    /\ UNCHANGED <<alive, value, index, locks, thread, history>>
\* Nothing in the scan catches an error of the state file, index or cache.
ScanRaises(s) ==
    /\ MayRaise
    /\ run[s].pc \in Scanning
    /\ Goto(s, "raised")
    /\ UNCHANGED <<tasks, alive, value, index, locks, thread, history>>
-------------------------------------------------------------------------------
(* The main thread while tasks execute.                                    *)

OfRun(s) == {s} \X Slots
On(th, pc) == thread[th].pc = pc
Assigned(pc, t) == [pc |-> pc, task |-> t, payload |-> Absent]

\* One task for every thread of the pool, as far as they go.
Submit(s) ==
    /\ At(s, "submit")
    /\ LET n == IF Len(run[s].cpu) < Workers THEN Len(run[s].cpu) ELSE Workers IN
       /\ thread' = [th \in Threads |->
              IF th[1] = s /\ th[2] <= n THEN Assigned("keyWait", run[s].cpu[th[2]])
              ELSE thread[th]]
       /\ SetRun(s, [run[s] EXCEPT !.pc = "pool", !.cpu = SubSeq(@, n + 1, Len(@))])
    /\ UNCHANGED <<tasks, alive, value, index, locks, history>>

\* A finished future makes room for the next task.
Dispatch(th) ==
    LET s == th[1] IN
    /\ At(s, "pool") /\ On(th, "idle") /\ run[s].cpu # << >>
    /\ thread' = [thread EXCEPT ![th] = Assigned("keyWait", Head(run[s].cpu))]
    /\ SetRun(s, [run[s] EXCEPT !.cpu = Tail(@)])
    /\ UNCHANGED <<tasks, alive, value, index, locks, history>>

\* future.result() raises what its thread raised; the pool then waits for its
\* threads and starts no other.
CollectRaised(th) ==
    /\ run[th[1]].pc \in {"pool", "closing"} /\ On(th, "raised")
    /\ thread' = [thread EXCEPT ![th] = IdleThread]
    /\ Goto(th[1], "closing")
    /\ UNCHANGED <<tasks, alive, value, index, locks, history>>

PoolClosed(s) ==
    /\ \A th \in OfRun(s) : On(th, "idle")
    /\ \/ At(s, "closing") /\ Goto(s, "raised")
       \/ At(s, "pool") /\ run[s].cpu = << >> /\ Goto(s, "gpu")
    /\ UNCHANGED <<tasks, alive, value, index, locks, thread, history>>

DispatchGpu(th) ==
    LET s == th[1] IN
    /\ At(s, "gpu") /\ th[2] = 1 /\ On(th, "idle") /\ run[s].gpu # << >>
    /\ thread' = [thread EXCEPT ![th] = Assigned("gpuWait", Head(run[s].gpu))]
    /\ SetRun(s, [run[s] EXCEPT !.gpu = Tail(@)])
    /\ UNCHANGED <<tasks, alive, value, index, locks, history>>

\* The final state is read and the manifest made of the run's counters.
Finish(s) ==
    /\ At(s, "gpu") /\ On(<<s, 1>>, "idle") /\ run[s].gpu = << >>
    /\ Goto(s, "done") \/ (MayRaise /\ Goto(s, "raised"))
    /\ UNCHANGED <<tasks, alive, value, index, locks, thread, history>>
-------------------------------------------------------------------------------
(* A thread that executes a task.                                          *)

KeyFor(th) == KeyOf[thread[th].task]
IsGpu(th) == thread[th].task \in gpuTasks
Step(th, pc) == thread' = [thread EXCEPT ![th].pc = pc]
Unlocked(th) == [k \in Keys |-> IF keyLock[k] = th THEN Free ELSE keyLock[k]]

\* Faulty: keeps the identity lock.
FaultyEnd(th, r) ==
    /\ thread' = [thread EXCEPT ![th] = IdleThread]
    /\ gpuLock' = IF gpuLock = th[1] THEN Free ELSE gpuLock
    /\ SetRun(th[1], r)
    /\ UNCHANGED keyLock

\* The thread is through with its task; its with statements release the locks.
End(th, r) ==
    /\ thread' = [thread EXCEPT ![th] = IdleThread]
    /\ keyLock' = Unlocked(th)
    /\ gpuLock' = IF gpuLock = th[1] THEN Free ELSE gpuLock
    /\ SetRun(th[1], r)
EndUncounted(th) == End(th, run[th[1]])

\* An exception leaves the identity lock before its handler runs.
Fall(th) ==
    /\ Step(th, "error")
    /\ keyLock' = Unlocked(th)
    /\ UNCHANGED <<gpuLock, run>>

CanMove(th, to, artifact) == Accepts(tasks[thread[th].task], to, "ORDINARY", artifact)
Move(th, to, artifact) ==
    /\ CanMove(th, to, artifact)
    /\ tasks' = [tasks EXCEPT ![thread[th].task] = Moved(@, to, th[1], artifact)]

\* Faulty: each scheduler has a lock of its own.
FaultyGpuAcquire(th) ==
    /\ On(th, "gpuWait")
    /\ gpuLock' = th[1]
    /\ Step(th, "keyWait")
    /\ UNCHANGED <<tasks, alive, value, index, keyLock, run, history>>

GpuAcquire(th) ==
    /\ On(th, "gpuWait") /\ gpuLock = Free
    /\ gpuLock' = th[1]
    /\ Step(th, "keyWait")
    /\ UNCHANGED <<tasks, alive, value, index, keyLock, run, history>>

GpuTimeout(th) ==
    /\ On(th, "gpuWait") /\ gpuLock # Free
    /\ Step(th, "gpuError")
    /\ UNCHANGED <<tasks, alive, value, index, locks, run, history>>

KeyAcquire(th) ==
    /\ On(th, "keyWait") /\ keyLock[KeyFor(th)] = Free
    /\ keyLock' = [keyLock EXCEPT ![KeyFor(th)] = th]
    /\ Step(th, "recheck")
    /\ UNCHANGED <<tasks, alive, value, index, gpuLock, run, history>>

KeyTimeout(th) ==
    /\ On(th, "keyWait") /\ keyLock[KeyFor(th)] # Free
    /\ Step(th, "error")
    /\ UNCHANGED <<tasks, alive, value, index, locks, run, history>>

\* Faulty: no second look under the lock.
FaultyRecheck(th) ==
    /\ On(th, "recheck")
    /\ Step(th, "launch")
    /\ UNCHANGED <<tasks, alive, value, index, locks, run, history>>

\* read_validated() under the lock; an invalid entry is quarantined.
Recheck(th) ==
    LET k == KeyFor(th) IN
    /\ On(th, "recheck")
    /\ \/ /\ value[k] \in Payloads
          /\ thread' = [thread EXCEPT ![th] = [@ EXCEPT !.pc = "hit", !.payload = value[k]]]
          /\ UNCHANGED value
       \/ Quarantine(k) /\ Step(th, "launch")
       \/ value[k] = Absent /\ Step(th, "launch") /\ UNCHANGED value
    /\ UNCHANGED <<tasks, alive, index, locks, run, history>>

CompleteHit(th) ==
    /\ On(th, "hit")
    /\ \/ Move(th, "COMPLETE", thread[th].payload) /\ Step(th, "hitIndex")
          /\ UNCHANGED <<locks, run>>
       \/ ~CanMove(th, "COMPLETE", thread[th].payload) /\ Fall(th) /\ UNCHANGED tasks
    /\ UNCHANGED <<alive, value, index, history>>

AddToIndex(th) == index' = [index EXCEPT ![KeyFor(th)] = thread[th].payload]

IndexHit(th) ==
    /\ On(th, "hitIndex")
    /\ AddToIndex(th)
    /\ End(th, [run[th[1]] EXCEPT !.hits = @ \cup {thread[th].task}])
    /\ UNCHANGED <<tasks, alive, value, history>>

\* No telemetry, or too little memory.
GpuRefused(th) ==
    /\ On(th, "launch") /\ IsGpu(th)
    /\ \/ Move(th, "BLOCKED", None) /\ EndUncounted(th)
       \/ ~CanMove(th, "BLOCKED", None) /\ Fall(th) /\ UNCHANGED tasks
    /\ UNCHANGED <<alive, value, index, history>>

\* process.start(): from here on the worker lives, whoever remembers it.
Launch(th) ==
    /\ On(th, "launch")
    /\ alive' = alive \cup {th}
    /\ Step(th, "started")
    /\ UNCHANGED <<tasks, value, index, locks, run, history>>

\* The monitor of a worker that could not be recorded terminates it.
RecordWorker(th) ==
    LET t == thread[th].task IN
    /\ On(th, "started")
    /\ \/ /\ IsRunning(tasks[t])
          /\ tasks' = [tasks EXCEPT ![t] = WithWorker(@, th)]
          /\ Step(th, "watching")
          /\ UNCHANGED alive
       \/ /\ ~IsRunning(tasks[t]) \/ MayRaise
          /\ alive' = alive \ {th}
          /\ Step(th, "fail")
          /\ UNCHANGED tasks
    /\ UNCHANGED <<value, index, locks, run, history>>

Heartbeat(th) ==
    LET t == thread[th].task IN
    /\ On(th, "watching")
    /\ \/ /\ IsRunning(tasks[t])
          /\ tasks' = [tasks EXCEPT ![t] = Beaten(@)]
          /\ UNCHANGED <<alive, thread>>
       \/ /\ ~IsRunning(tasks[t])
          /\ alive' = alive \ {th}
          /\ Step(th, "fail")
          /\ UNCHANGED tasks
    /\ UNCHANGED <<value, index, locks, run, history>>

\* Faulty: completes the task before the result is published.
FaultyWorkerPasses(th, p) ==
    /\ On(th, "watching")
    /\ alive' = alive \ {th}
    /\ thread' = [thread EXCEPT ![th] = [@ EXCEPT !.pc = "complete", !.payload = p]]
    /\ UNCHANGED <<tasks, value, index, locks, run, history>>

\* The monitor judges the worker, which is gone in either case.
WorkerPasses(th, p) ==
    /\ On(th, "watching")
    /\ alive' = alive \ {th}
    /\ thread' = [thread EXCEPT ![th] = [@ EXCEPT !.pc = "publish", !.payload = p]]
    /\ UNCHANGED <<tasks, value, index, locks, run, history>>

WorkerFails(th) ==
    /\ On(th, "watching")
    /\ alive' = alive \ {th}
    /\ Step(th, "fail")
    /\ UNCHANGED <<tasks, value, index, locks, run, history>>

\* publish_file_locked(): an equal entry is reused, another one is a conflict.
\* The check that follows the rename may raise, and the entry stays.
PublishResult(th) ==
    LET k == KeyFor(th) IN
    /\ On(th, "publish")
    /\ \/ Publish(k, thread[th].payload) /\ Step(th, "indexing")
          /\ UNCHANGED <<locks, run>>
       \/ MayRaise /\ Publish(k, thread[th].payload) /\ Fall(th)
       \/ value[k] = thread[th].payload /\ Step(th, "indexing")
          /\ UNCHANGED <<value, locks, run>>
       \/ value[k] \notin {Absent, thread[th].payload} /\ Fall(th) /\ UNCHANGED value
    /\ UNCHANGED <<tasks, alive, index, history>>

IndexResult(th) ==
    /\ On(th, "indexing")
    /\ AddToIndex(th)
    /\ Step(th, "complete")
    /\ UNCHANGED <<tasks, alive, value, locks, run, history>>

Complete(th) ==
    /\ On(th, "complete")
    /\ \/ Move(th, "COMPLETE", thread[th].payload)
          /\ End(th, [run[th[1]] EXCEPT !.executed = @ \cup {thread[th].task}])
       \/ ~CanMove(th, "COMPLETE", thread[th].payload) /\ Fall(th) /\ UNCHANGED tasks
    /\ UNCHANGED <<alive, value, index, history>>

RecordFailure(th) ==
    /\ On(th, "fail")
    /\ \/ Move(th, "FAILED", None) /\ EndUncounted(th)
       \/ ~CanMove(th, "FAILED", None) /\ Fall(th) /\ UNCHANGED tasks
    /\ UNCHANGED <<alive, value, index, history>>

\* A file access raises, of whichever file.
StepRaises(th) ==
    /\ MayRaise
    /\ thread[th].pc \in Locked \ {"started", "watching"}
    /\ Fall(th)
    /\ UNCHANGED <<tasks, alive, value, index, history>>

\* The handlers read the state, and close the task in a second step if it was
\* RUNNING.
ReadAfterError(th, from, to) ==
    /\ On(th, from)
    /\ IF tasks[thread[th].task].state = "RUNNING"
       THEN Step(th, to) /\ UNCHANGED <<locks, run>>
       ELSE EndUncounted(th)
    /\ UNCHANGED <<tasks, alive, value, index, history>>

\* Faulty: the handlers give up without closing the task.
FaultyHandlerReads(th) ==
    /\ On(th, "error")
    /\ EndUncounted(th)
    /\ UNCHANGED <<tasks, alive, value, index, history>>
HandlerReads(th) == ReadAfterError(th, "error", "errorRunning")
GpuHandlerReads(th) == ReadAfterError(th, "gpuError", "gpuErrorRunning")

HandlerFails(th) ==
    /\ On(th, "errorRunning")
    /\ Move(th, "FAILED", None)
    /\ EndUncounted(th)
    /\ UNCHANGED <<alive, value, index, history>>

\* A handler that is refused, or cannot use the state file, raises in turn: to
\* the pool, or, as the GPU lock is released, to the handler around it.
HandlerRaises(th) ==
    /\ \/ On(th, "errorRunning") /\ ~CanMove(th, "FAILED", None)
       \/ MayRaise /\ thread[th].pc \in {"error", "errorRunning"}
    /\ Step(th, IF IsGpu(th) THEN "gpuError" ELSE "raised")
    /\ gpuLock' = IF IsGpu(th) THEN Free ELSE gpuLock
    /\ UNCHANGED <<tasks, alive, value, index, keyLock, run, history>>

GpuHandlerBlocks(th) ==
    /\ On(th, "gpuErrorRunning")
    /\ Move(th, "BLOCKED", None)
    /\ EndUncounted(th)
    /\ UNCHANGED <<alive, value, index, history>>

GpuHandlerRaises(th) ==
    /\ \/ On(th, "gpuErrorRunning") /\ ~CanMove(th, "BLOCKED", None)
       \/ MayRaise /\ thread[th].pc \in {"gpuError", "gpuErrorRunning"}
    /\ End(th, [run[th[1]] EXCEPT !.pc = "raised"])
    /\ UNCHANGED <<tasks, alive, value, index, history>>
-------------------------------------------------------------------------------
(* What happens to the processes and the files.                            *)

\* A scheduler process exits after its run or dies in it.  The system releases
\* its locks; its workers live on.
Crash(s) ==
    /\ s \in alive
    /\ alive' = alive \ {s}
    /\ SetRun(s, NewRun("off", FALSE))
    /\ thread' = [th \in Threads |->
           IF th[1] # s THEN thread[th]
           ELSE IF th \in alive THEN Assigned("orphan", thread[th].task)
           ELSE IdleThread]
    /\ keyLock' = [k \in Keys |-> IF keyLock[k] \in OfRun(s) THEN Free ELSE keyLock[k]]
    /\ gpuLock' = IF gpuLock = s THEN Free ELSE gpuLock
    /\ UNCHANGED <<tasks, value, index, history>>

\* A worker nobody watches any more ends.
OrphanEnds(th) ==
    /\ On(th, "orphan")
    /\ alive' = alive \ {th}
    /\ thread' = [thread EXCEPT ![th] = IdleThread]
    /\ UNCHANGED <<tasks, value, index, locks, run, history>>

LeaseRunsOut(t) ==
    /\ LeaseExpires(t)
    /\ UNCHANGED <<value, index, locks, run, thread, history>>

EntryDamaged(k) ==
    /\ harmed[k] < MaxDamage
    /\ Damage(k)
    /\ harmed' = [harmed EXCEPT ![k] = @ + 1]
    /\ UNCHANGED <<tasks, alive, index, locks, run, thread, runs, gpuTasks>>
-------------------------------------------------------------------------------
ScanStep(s) ==
    \/ Rebuild(s) \/ Look(s) \/ RetryFailed(s) \/ CheckComplete(s)
    \/ ReopenComplete(s) \/ CleanComplete(s) \/ CleanProbe(s) \/ SecondLook(s)
    \/ Probe(s) \/ HitStart(s) \/ HitFinish(s) \/ HitIndex(s) \/ Schedule(s)
    \/ ScanRaises(s)

MainStep(s) ==
    \/ Submit(s) \/ PoolClosed(s) \/ Finish(s)
    \/ \E th \in OfRun(s) : Dispatch(th) \/ CollectRaised(th) \/ DispatchGpu(th)

ThreadStep(th) ==
    \/ GpuAcquire(th) \/ KeyAcquire(th) \/ Recheck(th) \/ CompleteHit(th)
    \/ IndexHit(th) \/ GpuRefused(th) \/ Launch(th) \/ RecordWorker(th)
    \/ (\E p \in Payloads : WorkerPasses(th, p)) \/ WorkerFails(th)
    \/ PublishResult(th) \/ IndexResult(th) \/ Complete(th) \/ RecordFailure(th)
    \/ StepRaises(th) \/ HandlerReads(th) \/ GpuHandlerReads(th)
    \/ HandlerFails(th) \/ HandlerRaises(th)
    \/ GpuHandlerBlocks(th) \/ GpuHandlerRaises(th)

Environment ==
    \/ \E s \in Scheds : Crash(s)
    \/ \E th \in Threads : OrphanEnds(th)
    \/ \E t \in Tasks : LeaseRunsOut(t)
    \/ \E k \in Keys : EntryDamaged(k)

Next ==
    \/ \E s \in Scheds, retry \in BOOLEAN : StartRun(s, retry)
    \/ \E s \in Scheds : ScanStep(s) \/ CleanTimeout(s) \/ MainStep(s)
    \/ \E th \in Threads :
          ThreadStep(th) \/ Heartbeat(th) \/ GpuTimeout(th) \/ KeyTimeout(th)
    \/ Environment

Spec == Init /\ [][Next]_vars

\* Processes that live get on with their work: threads are scheduled, every
\* worker is stopped at its timeout, and a lock that stays free is obtained.
\* Lock timeouts, heartbeats and the environment are never owed.
FairSpec ==
    /\ Spec
    /\ \A s \in Scheds : WF_vars(ScanStep(s)) /\ WF_vars(MainStep(s))
    /\ \A th \in Threads : WF_vars(ThreadStep(th))
-------------------------------------------------------------------------------
(* Properties.                                                             *)

\* A task is reported complete only while the cache holds its artifact (or
\* the disk harmed the entry): completion follows publication, and survives
\* every crash, race and error on either side of it.
CompleteIsCached ==
    \A t \in Tasks :
        tasks[t].state = "COMPLETE" =>
            value[KeyOf[t]] = tasks[t].artifact \/ harmed[KeyOf[t]] > 0

\* Work is not done twice: while a thread has a worker compute a result or
\* waits to publish it, no other thread of any scheduler does so for the same
\* identity, and no valid result of it is in the cache.
Computing(th) == thread[th].pc \in {"launch", "started", "watching", "publish"}
ComputesOnce ==
    \A th \in Threads :
        Computing(th) =>
            /\ value[KeyFor(th)] = Absent
            /\ \A other \in Threads \ {th} :
                  Computing(other) => KeyFor(other) # KeyFor(th)

\* The tasks a scheduler has yet to finish: queued, or with a thread that has
\* neither completed nor given up.
Settled == {"hitIndex", "error", "gpuError", "raised", "orphan"}
InQueue(q, t) == \E i \in 1 .. Len(q) : q[i] = t
Owes(s, t) ==
    \/ InQueue(run[s].cpu, t) \/ InQueue(run[s].gpu, t)
    \/ run[s].pc = "hitFinish" /\ Task(s) = t
    \/ \E th \in OfRun(s) : thread[th].task = t /\ thread[th].pc \notin Settled

\* Whoever works on a task has its open attempt: the move to RUNNING decides
\* between schedulers that scan the same plan, and nobody else recovers,
\* completes or fails the task of a live scheduler, as long as no entry is
\* damaged (a task reopened for its damaged entry may start elsewhere while an
\* error handler still reads the record of the first execution).
WorkIsOwned ==
    \A s \in Scheds, t \in Tasks :
        Owes(s, t) /\ harmed[KeyOf[t]] = 0 => IsRunning(tasks[t]) /\ Last(tasks[t]).owner = s

\* A run that returns leaves none of the tasks it marked RUNNING open, though
\* each passed through a pool thread and its error handlers.
RunSettlesItsTasks ==
    \A s \in Scheds :
        run[s].pc = "done" =>
            \A t \in run[s].mine :
                ~(tasks[t].state = "RUNNING" /\ Last(tasks[t]).owner = s)

\* A completed task is executed again only if its entry was harmed.
NoRework ==
    [][\A t \in Tasks :
           tasks[t].state = "COMPLETE" /\ tasks'[t].state # "COMPLETE" =>
               harmed[KeyOf[t]] > 0]_vars

\* A scheduler that died leaves its worker the task: as long as a recorded
\* worker computes, nobody takes the task over (entries undamaged, as above).
OrphanKeepsTask ==
    [][\A t \in Tasks :
           /\ IsRunning(tasks[t])
           /\ harmed[KeyOf[t]] = 0
           /\ Last(tasks[t]).owner \notin alive
           /\ Last(tasks[t]).worker \in alive
           => tasks'[t].state = "RUNNING"
              /\ Len(tasks'[t].attempts) = Len(tasks[t].attempts)]_vars

\* At most one of the living schedulers executes GPU work, also while it
\* handles the errors of that work, which happens inside the lock.
OnGpu(th) == IsGpu(th) /\ thread[th].pc \in Locked \cup {"keyWait", "error", "errorRunning"}
GpuIsExclusive ==
    \A th, other \in Threads : OnGpu(th) /\ OnGpu(other) => th = other

\* Every run returns, raises or dies: no cycle of locks, and no thread, worker
\* or queue that is waited for in vain.
RunTerminates ==
    \A s \in Scheds : run[s].pc \notin Resting ~> run[s].pc \in Resting
-------------------------------------------------------------------------------
(* What documents and comments of the repository claim, and the code does  *)
(* not keep.                                                               *)

\* "GPU jobs must be sequential and protected by a file lock": no two worker
\* processes of GPU tasks exist at a time.
GpuIsSequential ==
    \A th, other \in Threads \cap alive :
        thread[th].task \in gpuTasks /\ thread[other].task \in gpuTasks => th = other
=============================================================================
