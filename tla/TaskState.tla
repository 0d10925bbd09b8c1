------------------------------ MODULE TaskState ------------------------------
(***************************************************************************)
(* The persisted task-state file of runner/state.py: one record per task   *)
(* of the plan with its status, its attempts and its audit trail.  Every   *)
(* method reads the file, decides and replaces the file under one lock,    *)
(* so a method is one step: a process that dies in it leaves the old file  *)
(* or the new one.  The module gives the methods as operators on a record  *)
(* (Scheduler uses them) and, as Spec, the store under any calls that the  *)
(* methods accept.                                                         *)
(***************************************************************************)
EXTENDS Naturals, Sequences

CONSTANTS
    Tasks,        \* the tasks of the plan
    Pids,         \* process ids: scheduler processes and their workers
    Artifacts,    \* digests of published payloads
    None,         \* a field that holds nothing
    MaxAttempts   \* bound: attempts per task

ASSUME TaskStateAssumption ==
    /\ MaxAttempts \in Nat
    /\ None \notin Pids
    /\ None \notin Artifacts

VARIABLES
    tasks,   \* tasks[t]: the record of t in the state file
    alive    \* the process ids psutil.pid_exists answers for

stateVars == <<tasks, alive>>
-------------------------------------------------------------------------------
Status == {"PENDING", "RUNNING", "COMPLETE", "FAILED", "BLOCKED", "CANCELLED"}

\* _ALLOWED: a terminal status has no ordinary successor.
Allowed(from) ==
    CASE from = "PENDING" -> {"RUNNING", "CANCELLED"}
      [] from = "RUNNING" -> {"COMPLETE", "FAILED", "BLOCKED", "CANCELLED"}
      [] OTHER -> {}

Reasons == {"INVALID_CACHE_ARTIFACT", "ABANDONED_LEASE_RECOVERY",
            "EXPLICIT_RETRY", "ORDINARY"}

\* The three ways back to PENDING, each bound to its reason.
Reopens(from, reason) ==
    \/ from = "COMPLETE" /\ reason = "INVALID_CACHE_ARTIFACT"
    \/ from = "RUNNING"  /\ reason = "ABANDONED_LEASE_RECOVERY"
    \/ from = "FAILED"   /\ reason = "EXPLICIT_RETRY"

MayMove(from, to, reason) ==
    to \in Allowed(from) \/ (to = "PENDING" /\ Reopens(from, reason))

\* An attempt is open while its state is RUNNING.  fresh abstracts the age of
\* its heartbeat: it is not older than the abandoned-task lease.
Attempts == [state : Status, owner : Pids, worker : Pids \cup {None}, fresh : BOOLEAN]
Moves == [from : Status, to : Status]
Records == [state : Status, attempts : Seq(Attempts), transitions : Seq(Moves),
            artifact : Artifacts \cup {None}]

NewRecord == [state |-> "PENDING", attempts |-> << >>, transitions |-> << >>,
              artifact |-> None]

(* Definitions named Faulty... are what a plausible mistake would make of    *)
(* the definition that follows them; no specification uses them.            *)

\* Every field of an attempt that the code stamps when it closes it.
Close(attempts, outcome) ==
    IF attempts = << >> THEN attempts
    ELSE [attempts EXCEPT ![Len(attempts)] = [@ EXCEPT !.state = outcome, !.fresh = TRUE]]

\* Faulty: leaves the attempt of an abandoned task open.
FaultyAttemptsAfter(rec, to, pid) ==
    CASE to = "RUNNING" ->
            Append(rec.attempts,
                   [state |-> "RUNNING", owner |-> pid, worker |-> None, fresh |-> TRUE])
      [] to \in Allowed("RUNNING") /\ rec.state = "RUNNING" -> Close(rec.attempts, to)
      [] OTHER -> rec.attempts

\* The attempts after a move: one more when the task starts, the last one
\* closed when it stops running (as FAILED when its lease was abandoned).
AttemptsAfter(rec, to, pid) ==
    CASE to = "RUNNING" ->
            Append(rec.attempts,
                   [state |-> "RUNNING", owner |-> pid, worker |-> None, fresh |-> TRUE])
      [] to # "RUNNING" /\ rec.state = "RUNNING" ->
            Close(rec.attempts, IF to = "PENDING" THEN "FAILED" ELSE to)
      [] OTHER -> rec.attempts

\* The record that transition() writes for a move it accepts.
Moved(rec, to, pid, artifact) ==
    [state |-> to,
     attempts |-> AttemptsAfter(rec, to, pid),
     transitions |-> Append(rec.transitions, [from |-> rec.state, to |-> to]),
     artifact |-> IF to = "COMPLETE" THEN artifact ELSE None]

\* What transition() accepts: a legal move, and, as the record is validated
\* when it is written, an artifact with COMPLETE.
Accepts(rec, to, reason, artifact) ==
    /\ MayMove(rec.state, to, reason)
    /\ to = "COMPLETE" => artifact # None

IsRunning(rec) == rec.state = "RUNNING" /\ rec.attempts # << >>
Last(rec) == rec.attempts[Len(rec.attempts)]

\* heartbeat() and set_worker_pid() touch the last attempt of a running task.
Touched(rec, attempt) ==
    [rec EXCEPT !.attempts = [@ EXCEPT ![Len(@)] = attempt]]
Beaten(rec) == Touched(rec, [Last(rec) EXCEPT !.fresh = TRUE])
WithWorker(rec, pid) == Touched(rec, [Last(rec) EXCEPT !.worker = pid])
Aged(rec) == Touched(rec, [Last(rec) EXCEPT !.fresh = FALSE])

\* Faulty: an expired lease is enough, though the owner lives.
FaultyAbandoned(rec, pids) ==
    IsRunning(rec) /\ ~Last(rec).fresh /\ Last(rec).worker \notin pids

\* Faulty: forgets the worker of a dead owner.
FaultyAbandonedWorker(rec, pids) ==
    IsRunning(rec) /\ ~Last(rec).fresh /\ Last(rec).owner \notin pids

\* recover_abandoned(): the lease is over and neither the process that started
\* the attempt nor the worker it recorded exists any more.
Abandoned(rec, pids) ==
    /\ IsRunning(rec)
    /\ ~Last(rec).fresh
    /\ Last(rec).owner \notin pids
    /\ Last(rec).worker \notin pids

Recovered(rec, pids) ==
    IF Abandoned(rec, pids) THEN Moved(rec, "PENDING", None, None) ELSE rec
-------------------------------------------------------------------------------
TaskStateInit ==
    /\ tasks = [t \in Tasks |-> NewRecord]
    /\ alive = Pids

TransitionTask(t, to, reason, pid, artifact) ==
    /\ Accepts(tasks[t], to, reason, artifact)
    /\ to = "RUNNING" => Len(tasks[t].attempts) < MaxAttempts
    /\ tasks' = [tasks EXCEPT ![t] = Moved(@, to, pid, artifact)]
    /\ UNCHANGED alive

HeartbeatTask(t) ==
    /\ IsRunning(tasks[t])
    /\ tasks' = [tasks EXCEPT ![t] = Beaten(@)]
    /\ UNCHANGED alive

SetWorkerPid(t, pid) ==
    /\ IsRunning(tasks[t])
    /\ tasks' = [tasks EXCEPT ![t] = WithWorker(@, pid)]
    /\ UNCHANGED alive

\* All abandoned tasks are recovered in one write of the file.
RecoverAbandoned ==
    /\ \E t \in Tasks : Abandoned(tasks[t], alive)
    /\ tasks' = [t \in Tasks |-> Recovered(tasks[t], alive)]
    /\ UNCHANGED alive

\* Time passes: the last heartbeat of a running task gets older than the lease.
LeaseExpires(t) ==
    /\ IsRunning(tasks[t])
    /\ tasks' = [tasks EXCEPT ![t] = Aged(@)]
    /\ UNCHANGED alive

\* Processes end, and the system gives an old id to a new process.
ProcessEnds(pid) == alive' = alive \ {pid} /\ UNCHANGED tasks
ProcessStarts(pid) == alive' = alive \cup {pid} /\ UNCHANGED tasks

TaskStateNext ==
    \/ \E t \in Tasks, to \in Status, reason \in Reasons, pid \in alive,
          artifact \in Artifacts \cup {None} :
              TransitionTask(t, to, reason, pid, artifact)
    \/ \E t \in Tasks : HeartbeatTask(t)
    \/ \E t \in Tasks, pid \in Pids : SetWorkerPid(t, pid)
    \/ RecoverAbandoned
    \/ \E t \in Tasks : LeaseExpires(t)
    \/ \E pid \in Pids : ProcessEnds(pid) \/ ProcessStarts(pid)

TaskStateSpec == TaskStateInit /\ [][TaskStateNext]_stateVars
-------------------------------------------------------------------------------
(* Properties.                                                             *)

TaskStateTypeOK ==
    /\ tasks \in [Tasks -> Records]
    /\ alive \in SUBSET Pids

\* The audit trail explains the record: it is an unbroken path of moves from
\* PENDING to the current status, though the moves are written by two methods
\* and the status by copies of older records.
TrailExplains(rec) ==
    LET trail == rec.transitions IN
    /\ trail = << >> => rec.state = "PENDING"
    /\ trail # << >> => /\ trail[1].from = "PENDING"
                        /\ trail[Len(trail)].to = rec.state
    /\ \A i \in 1 .. Len(trail) - 1 : trail[i].to = trail[i + 1].from

TrailIsPath == \A t \in Tasks : TrailExplains(tasks[t])

\* Attempts agree with the status: one open attempt, the last, exactly while
\* the task runs; the outcome of a finished task is that of its last attempt;
\* a digest is recorded exactly for COMPLETE.
AttemptsAgreeWith(rec) ==
    /\ \A i \in 1 .. Len(rec.attempts) :
          rec.attempts[i].state = "RUNNING" <=>
              i = Len(rec.attempts) /\ rec.state = "RUNNING"
    /\ rec.state \in {"RUNNING", "COMPLETE", "FAILED", "BLOCKED"} =>
          rec.attempts # << >> /\ Last(rec).state = rec.state
    /\ rec.artifact # None <=> rec.state = "COMPLETE"

AttemptsAgree == \A t \in Tasks : AttemptsAgreeWith(tasks[t])

\* Nothing rewrites history: no call drops or alters a closed attempt or a
\* recorded move, not even heartbeats or worker ids that arrive after a
\* recovery or a retry.
HistoryKept(old, new) ==
    /\ Len(old.attempts) <= Len(new.attempts)
    /\ Len(old.transitions) <= Len(new.transitions)
    /\ \A i \in 1 .. Len(old.attempts) :
          old.attempts[i].state # "RUNNING" => new.attempts[i] = old.attempts[i]
    /\ \A i \in 1 .. Len(old.transitions) : new.transitions[i] = old.transitions[i]

HistoryIsKept == [][\A t \in Tasks : HistoryKept(tasks[t], tasks'[t])]_stateVars
=============================================================================
