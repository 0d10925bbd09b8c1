--------------------------- MODULE Scheduler_proofs ---------------------------
(***************************************************************************)
(* Proofs about TaskState, and about Scheduler for any schedulers,         *)
(* threads, plans, identities, crashes, raising accesses and damaged       *)
(* entries: its types, the record keeping it inherits from TaskState, and  *)
(* that it computes once, keeps the GPU to one scheduler, completes only   *)
(* what is cached, reopens only what was harmed, lets nobody work on a     *)
(* task but the owner of its open attempt, settles what a returning run    *)
(* started and leaves a live worker of a dead scheduler its task.          *)
(***************************************************************************)
EXTENDS Scheduler, TLAPS

-----------------------------------------------------------------------------
(* TaskState, for any tasks, processes and number of attempts.  The lemmas  *)
(* are about single records; the invariants and the action property follow  *)
(* task by task.                                                            *)

LEMMA RecordFields ==
    ASSUME NEW rec \in Records
    PROVE  /\ rec.state \in Status
           /\ rec.attempts \in Seq(Attempts)
           /\ rec.transitions \in Seq(Moves)
           /\ rec.artifact \in Artifacts \cup {None}
           /\ Len(rec.attempts) \in Nat
           /\ Len(rec.transitions) \in Nat
  BY DEF Records

\* Closing touches only the last attempt, and gives it the outcome.
LEMMA CloseLast ==
    ASSUME NEW attempts \in Seq(Attempts), NEW outcome \in Status
    PROVE  /\ Close(attempts, outcome) \in Seq(Attempts)
           /\ Len(Close(attempts, outcome)) = Len(attempts)
           /\ \A i \in 1 .. Len(attempts) : i # Len(attempts) =>
                  Close(attempts, outcome)[i] = attempts[i]
           /\ attempts # << >> =>
                  Close(attempts, outcome)[Len(attempts)].state = outcome
<1>1. CASE attempts = << >>
  BY <1>1 DEF Close
<1>2. CASE attempts # << >>
  <2> DEFINE n == Len(attempts)
             a == [attempts[n] EXCEPT !.state = outcome, !.fresh = TRUE]
  <2>1. n \in 1 .. Len(attempts)
    BY <1>2
  <2> DEFINE b == [attempts[n] EXCEPT !.state = outcome]
  <2>a. attempts[n] \in Attempts
    BY <2>1
  <2>b. b \in Attempts /\ b.state = outcome
    BY <2>a DEF Attempts
  <2> HIDE DEF b
  <2>c. [b EXCEPT !.fresh = TRUE] \in Attempts /\ [b EXCEPT !.fresh = TRUE].state = outcome
    BY <2>b DEF Attempts
  <2>2. a \in Attempts /\ a.state = outcome
    BY <2>c DEF b
  <2>3. Close(attempts, outcome) = [attempts EXCEPT ![n] = a]
    BY <1>2 DEF Close
  <2>4. /\ [attempts EXCEPT ![n] = a] \in Seq(Attempts)
        /\ Len([attempts EXCEPT ![n] = a]) = n
    BY <2>1, <2>2
  <2>5. \A i \in 1 .. n : [attempts EXCEPT ![n] = a][i] = IF i = n THEN a ELSE attempts[i]
    BY <2>1
  <2>6. QED
    BY <2>1, <2>2, <2>3, <2>4, <2>5
<1>3. QED
  BY <1>1, <1>2

\* A call on the last attempt that keeps its state: heartbeat, worker id, age.
LEMMA LastTouched ==
    ASSUME NEW rec \in Records, IsRunning(rec), NEW a \in Attempts,
           a.state = Last(rec).state
    PROVE  /\ Touched(rec, a) \in Records
           /\ Touched(rec, a).state = rec.state
           /\ Touched(rec, a).artifact = rec.artifact
           /\ Touched(rec, a).transitions = rec.transitions
           /\ Len(Touched(rec, a).attempts) = Len(rec.attempts)
           /\ \A i \in 1 .. Len(rec.attempts) :
                  /\ Touched(rec, a).attempts[i].state = rec.attempts[i].state
                  /\ i # Len(rec.attempts) =>
                         Touched(rec, a).attempts[i] = rec.attempts[i]
<1> DEFINE n == Len(rec.attempts)
<1>1. rec.attempts \in Seq(Attempts) /\ n \in 1 .. n
  BY RecordFields DEF IsRunning
<1>2. Touched(rec, a).attempts = [rec.attempts EXCEPT ![n] = a]
  BY DEF Records, Touched
<1>3. [rec.attempts EXCEPT ![n] = a] \in Seq(Attempts)
  BY <1>1
<1>4. Touched(rec, a) \in Records
  BY <1>3 DEF Records, Touched
<1>5. /\ Touched(rec, a).state = rec.state
      /\ Touched(rec, a).artifact = rec.artifact
      /\ Touched(rec, a).transitions = rec.transitions
  BY DEF Records, Touched
<1>6. Len([rec.attempts EXCEPT ![n] = a]) = n
  BY <1>1
<1>7. \A i \in 1 .. n : [rec.attempts EXCEPT ![n] = a][i]
                           = IF i = n THEN a ELSE rec.attempts[i]
  BY <1>1
<1>8. QED
  BY <1>1, <1>2, <1>4, <1>5, <1>6, <1>7 DEF Last

LEMMA LastTyped ==
    ASSUME NEW rec \in Records, IsRunning(rec)
    PROVE  Last(rec) \in Attempts
  BY RecordFields DEF IsRunning, Last

LEMMA TouchesKeepState ==
    ASSUME NEW rec \in Records, IsRunning(rec), NEW pid \in Pids, NEW b \in BOOLEAN
    PROVE  /\ [Last(rec) EXCEPT !.fresh = b] \in Attempts
           /\ [Last(rec) EXCEPT !.fresh = b].state = Last(rec).state
           /\ [Last(rec) EXCEPT !.worker = pid] \in Attempts
           /\ [Last(rec) EXCEPT !.worker = pid].state = Last(rec).state
  BY LastTyped DEF Attempts
-------------------------------------------------------------------------------
(* What transition() and recover_abandoned() write.                        *)

LEMMA NewAttempt ==
    ASSUME NEW rec \in Records, NEW pid \in Pids
    PROVE  LET new == AttemptsAfter(rec, "RUNNING", pid)
               n == Len(rec.attempts)
           IN /\ new \in Seq(Attempts)
              /\ Len(new) = n + 1
              /\ \A i \in 1 .. n : new[i] = rec.attempts[i]
              /\ new[n + 1].state = "RUNNING"
<1> DEFINE a == [state |-> "RUNNING", owner |-> pid, worker |-> None, fresh |-> TRUE]
<1>1. a \in Attempts /\ a.state = "RUNNING"
  BY DEF Attempts, Status
<1>2. AttemptsAfter(rec, "RUNNING", pid) = Append(rec.attempts, a)
  BY DEF AttemptsAfter
<1> HIDE DEF a
<1>3. /\ Append(rec.attempts, a) \in Seq(Attempts)
      /\ Len(Append(rec.attempts, a)) = Len(rec.attempts) + 1
      /\ \A i \in 1 .. Len(rec.attempts) : Append(rec.attempts, a)[i] = rec.attempts[i]
      /\ Append(rec.attempts, a)[Len(rec.attempts) + 1] = a
  BY <1>1, RecordFields
<1>4. QED
  BY <1>1, <1>2, <1>3

LEMMA ClosedAttempts ==
    ASSUME NEW rec \in Records, NEW to \in Status \ {"RUNNING"}, NEW pid,
           rec.state = "RUNNING"
    PROVE  LET new == AttemptsAfter(rec, to, pid)
               n == Len(rec.attempts)
           IN /\ new \in Seq(Attempts)
              /\ Len(new) = n
              /\ \A i \in 1 .. n : i # n => new[i] = rec.attempts[i]
              /\ n # 0 => new[n].state = (IF to = "PENDING" THEN "FAILED" ELSE to)
<1> DEFINE outcome == IF to = "PENDING" THEN "FAILED" ELSE to
<1>1. AttemptsAfter(rec, to, pid) = Close(rec.attempts, outcome)
  BY DEF AttemptsAfter
<1>2. outcome \in Status
  BY DEF Status
<1> HIDE DEF outcome
<1>3. Len(rec.attempts) # 0 => rec.attempts # << >>
  BY RecordFields
<1>4. QED
  BY <1>1, <1>2, <1>3, RecordFields, CloseLast DEF outcome

LEMMA SameAttempts ==
    ASSUME NEW rec, NEW to, NEW pid, to # "RUNNING", rec.state # "RUNNING"
    PROVE  AttemptsAfter(rec, to, pid) = rec.attempts
  BY DEF AttemptsAfter

\* A move that may be written: legal, by a process when it starts an attempt,
\* with an artifact when it completes the task.
Writable(rec, to, pid, artifact) ==
    /\ \E reason \in Reasons : MayMove(rec.state, to, reason)
    /\ to = "RUNNING" => pid \in Pids
    /\ artifact \in Artifacts \cup {None}
    /\ to = "COMPLETE" => artifact # None

LEMMA MovedTyped ==
    ASSUME NEW rec \in Records, NEW to \in Status, NEW pid, NEW artifact,
           Writable(rec, to, pid, artifact)
    PROVE  Moved(rec, to, pid, artifact) \in Records
<1>1. AttemptsAfter(rec, to, pid) \in Seq(Attempts)
  <2>1. CASE to = "RUNNING"
    BY <2>1, NewAttempt DEF Writable
  <2>2. CASE to # "RUNNING" /\ rec.state = "RUNNING"
    BY <2>2, ClosedAttempts
  <2>3. CASE to # "RUNNING" /\ rec.state # "RUNNING"
    BY <2>3, SameAttempts, RecordFields
  <2>4. QED
    BY <2>1, <2>2, <2>3
<1>2. [from |-> rec.state, to |-> to] \in Moves
  BY RecordFields DEF Moves
<1>3. Append(rec.transitions, [from |-> rec.state, to |-> to]) \in Seq(Moves)
  BY <1>2, RecordFields
<1>4. QED
  BY <1>1, <1>3 DEF Moved, Records, Writable

LEMMA MovedTrail ==
    ASSUME NEW rec \in Records, NEW to \in Status, NEW pid, NEW artifact,
           TrailExplains(rec)
    PROVE  TrailExplains(Moved(rec, to, pid, artifact))
<1> DEFINE move == [from |-> rec.state, to |-> to]
           n == Len(rec.transitions)
           new == Append(rec.transitions, move)
<1>1. move \in Moves /\ move.from = rec.state /\ move.to = to
  BY RecordFields DEF Moves
<1>2. /\ Moved(rec, to, pid, artifact).transitions = new
      /\ Moved(rec, to, pid, artifact).state = to
  BY DEF Moved
<1> HIDE DEF move
<1>3. /\ Len(new) = n + 1 /\ new # << >> /\ n \in Nat
      /\ new[n + 1] = move
      /\ \A i \in 1 .. n : new[i] = rec.transitions[i]
  BY <1>1, RecordFields
<1>4. n = 0 => rec.transitions = << >>
  BY RecordFields
<1>5. n > 0 => rec.transitions # << >> /\ n \in 1 .. n /\ 1 \in 1 .. n
  BY RecordFields
<1> HIDE DEF new
<1>6. new[1].from = "PENDING"
  BY <1>1, <1>3, <1>4, <1>5 DEF TrailExplains
<1>7. \A i \in 1 .. n : new[i].to = new[i + 1].from
  <2> TAKE i \in 1 .. n
  <2>1. CASE i = n
    BY <2>1, <1>1, <1>3, <1>5 DEF TrailExplains
  <2>2. CASE i # n
    <3>1. i \in 1 .. n - 1 /\ i + 1 \in 1 .. n
      BY <2>2, <1>3
    <3>2. QED
      BY <3>1, <1>3 DEF TrailExplains
  <2>3. QED
    BY <2>1, <2>2
<1>8. QED
  BY <1>1, <1>2, <1>3, <1>6, <1>7 DEF TrailExplains

LEMMA MovedAttempts ==
    ASSUME NEW rec \in Records, NEW to \in Status, NEW pid, NEW artifact,
           AttemptsAgreeWith(rec), Writable(rec, to, pid, artifact)
    PROVE  AttemptsAgreeWith(Moved(rec, to, pid, artifact))
<1> DEFINE old == rec.attempts
           n == Len(rec.attempts)
           new == AttemptsAfter(rec, to, pid)
<1>0. /\ Moved(rec, to, pid, artifact).attempts = new
      /\ Moved(rec, to, pid, artifact).state = to
      /\ Moved(rec, to, pid, artifact).artifact # None <=> to = "COMPLETE"
  BY DEF Moved, Writable
<1>n. n \in Nat /\ (old # << >> <=> n # 0)
  BY RecordFields
<1>o. /\ \A i \in 1 .. n : old[i].state = "RUNNING" <=> i = n /\ rec.state = "RUNNING"
      /\ rec.state \in {"RUNNING", "COMPLETE", "FAILED", "BLOCKED"} =>
            n # 0 /\ old[n].state = rec.state
  BY <1>n DEF AttemptsAgreeWith, Last
<1>m. to \in Allowed(rec.state) \/ (to = "PENDING" /\ \E r \in Reasons : Reopens(rec.state, r))
  BY DEF Writable, MayMove
<1>1. CASE to = "RUNNING"
  <2>1. rec.state = "PENDING"
    BY <1>1, <1>m DEF Allowed
  <2>2. /\ Len(new) = n + 1
        /\ \A i \in 1 .. n : new[i] = old[i]
        /\ new[n + 1].state = "RUNNING"
        /\ new \in Seq(Attempts)
    BY <1>1, NewAttempt DEF Writable
  <2> HIDE DEF new, old, n
  <2>3. new # << >>
    BY <2>2, <1>n
  <2>4. \A i \in 1 .. n + 1 : new[i].state = "RUNNING" <=> i = n + 1
    BY <2>1, <2>2, <1>n, <1>o
  <2>5. QED
    BY <1>0, <1>1, <2>2, <2>3, <2>4, <1>n DEF AttemptsAgreeWith, Last
<1>2. CASE to # "RUNNING" /\ rec.state = "RUNNING"
  <2>1. /\ Len(new) = n
        /\ \A i \in 1 .. n : i # n => new[i] = old[i]
        /\ n # 0 => new[n].state = (IF to = "PENDING" THEN "FAILED" ELSE to)
        /\ new \in Seq(Attempts)
    BY <1>2, ClosedAttempts
  <2>2. n # 0
    BY <1>2, <1>o
  <2> HIDE DEF new, old, n
  <2>3. new # << >>
    BY <2>1, <2>2
  <2>4. \A i \in 1 .. n : new[i].state # "RUNNING"
    BY <2>1, <2>2, <1>2, <1>o, <1>n
  <2>5. to \in {"COMPLETE", "FAILED", "BLOCKED"} => new[n].state = to
    BY <2>1, <2>2
  <2>6. QED
    BY <1>0, <1>2, <2>1, <2>2, <2>3, <2>4, <2>5 DEF AttemptsAgreeWith, Last
<1>3. CASE to # "RUNNING" /\ rec.state # "RUNNING"
  <2>1. new = old
    BY <1>3, SameAttempts
  <2>2. to \in {"PENDING", "CANCELLED"}
    BY <1>3, <1>m DEF Allowed
  <2> HIDE DEF new, old, n
  <2>3. QED
    BY <1>0, <1>3, <2>1, <2>2, <1>o DEF AttemptsAgreeWith, old, n
<1>4. QED
  BY <1>1, <1>2, <1>3

LEMMA MovedHistory ==
    ASSUME NEW rec \in Records, NEW to \in Status, NEW pid, NEW artifact,
           AttemptsAgreeWith(rec), Writable(rec, to, pid, artifact)
    PROVE  HistoryKept(rec, Moved(rec, to, pid, artifact))
<1> DEFINE old == rec.attempts
           n == Len(rec.attempts)
           new == AttemptsAfter(rec, to, pid)
           move == [from |-> rec.state, to |-> to]
<1>n. n \in Nat
  BY RecordFields
<1>0. /\ Moved(rec, to, pid, artifact).attempts = new
      /\ Moved(rec, to, pid, artifact).transitions = Append(rec.transitions, move)
  BY DEF Moved
<1>1. /\ n <= Len(new)
      /\ \A i \in 1 .. n : old[i].state # "RUNNING" => new[i] = old[i]
  <2>1. CASE to = "RUNNING"
    BY <2>1, <1>n, NewAttempt DEF Writable
  <2>2. CASE to # "RUNNING" /\ rec.state = "RUNNING"
    <3>1. \A i \in 1 .. n : i = n => old[i].state = "RUNNING"
      BY <2>2 DEF AttemptsAgreeWith
    <3>2. QED
      BY <2>2, <1>n, <3>1, ClosedAttempts
  <2>3. CASE to # "RUNNING" /\ rec.state # "RUNNING"
    BY <2>3, <1>n, SameAttempts
  <2>4. QED
    BY <2>1, <2>2, <2>3
<1>2. move \in Moves
  BY RecordFields DEF Moves
<1> HIDE DEF new, old, n, move
<1>3. /\ Len(rec.transitions) <= Len(Append(rec.transitions, move))
      /\ \A i \in 1 .. Len(rec.transitions) :
             Append(rec.transitions, move)[i] = rec.transitions[i]
  BY <1>2, RecordFields
<1>4. QED
  BY <1>0, <1>1, <1>3 DEF HistoryKept, old, n
-------------------------------------------------------------------------------
(* The store.                                                              *)

\* What every call does to one record.
StepsTo(old, new) ==
    \/ new = old
    \/ \E to \in Status, pid \in Pids \cup {None}, artifact \in Artifacts \cup {None} :
          Writable(old, to, pid, artifact) /\ new = Moved(old, to, pid, artifact)
    \/ /\ IsRunning(old)
       /\ \E a \in Attempts : a.state = Last(old).state /\ new = Touched(old, a)

RecordInv(rec) == rec \in Records /\ TrailExplains(rec) /\ AttemptsAgreeWith(rec)
StateInv == (\A t \in Tasks : RecordInv(tasks[t])) /\ TaskStateTypeOK

LEMMA RecordStep ==
    ASSUME NEW old, RecordInv(old), NEW new, StepsTo(old, new)
    PROVE  RecordInv(new) /\ HistoryKept(old, new)
<1>0. old \in Records
  BY DEF RecordInv
<1>1. CASE new = old
  BY <1>0, <1>1, RecordFields DEF RecordInv, HistoryKept
<1>2. CASE \E to \in Status, pid \in Pids \cup {None}, artifact \in Artifacts \cup {None} :
              Writable(old, to, pid, artifact) /\ new = Moved(old, to, pid, artifact)
  BY <1>2, MovedTyped, MovedTrail, MovedAttempts, MovedHistory DEF RecordInv
<1>3. CASE /\ IsRunning(old)
           /\ \E a \in Attempts : a.state = Last(old).state /\ new = Touched(old, a)
  <2>1. PICK a \in Attempts : a.state = Last(old).state /\ new = Touched(old, a)
    BY <1>3
  <2>2. /\ new \in Records
        /\ new.state = old.state
        /\ new.artifact = old.artifact
        /\ new.transitions = old.transitions
        /\ Len(new.attempts) = Len(old.attempts)
        /\ \A i \in 1 .. Len(old.attempts) :
               /\ new.attempts[i].state = old.attempts[i].state
               /\ i # Len(old.attempts) => new.attempts[i] = old.attempts[i]
    BY <1>0, <1>3, <2>1, LastTouched
  <2>3. TrailExplains(new)
    BY <2>2 DEF RecordInv, TrailExplains
  <2>4. Len(old.attempts) \in 1 .. Len(old.attempts) /\ new.attempts # << >>
    BY <1>0, <1>3, <2>2, RecordFields DEF IsRunning
  <2>5. AttemptsAgreeWith(new)
    BY <2>2, <2>4 DEF RecordInv, AttemptsAgreeWith, Last
  <2>6. old.attempts[Len(old.attempts)].state = "RUNNING"
    BY <1>3, <2>4 DEF RecordInv, AttemptsAgreeWith, IsRunning
  <2>7. HistoryKept(old, new)
    BY <1>0, <2>2, <2>6, RecordFields DEF HistoryKept
  <2>8. QED
    BY <2>2, <2>3, <2>5, <2>7 DEF RecordInv
<1>4. QED
  BY <1>1, <1>2, <1>3 DEF StepsTo

LEMMA NextStepsTo ==
    ASSUME StateInv, TaskStateNext, NEW t \in Tasks
    PROVE  StepsTo(tasks[t], tasks'[t])
<1> /\ tasks[t] \in Records
    /\ tasks \in [Tasks -> Records]
    /\ alive \subseteq Pids
  BY DEF StateInv, TaskStateTypeOK
<1>1. ASSUME NEW u \in Tasks, NEW to \in Status, NEW reason \in Reasons, NEW pid \in alive,
             NEW artifact \in Artifacts \cup {None},
             TransitionTask(u, to, reason, pid, artifact)
      PROVE  StepsTo(tasks[t], tasks'[t])
  <2>1. u = t => Writable(tasks[t], to, pid, artifact)
    BY <1>1 DEF TransitionTask, Accepts, Writable
  <2>2. tasks'[t] = IF u = t THEN Moved(tasks[t], to, pid, artifact) ELSE tasks[t]
    BY <1>1 DEF TransitionTask
  <2>3. QED
    BY <2>1, <2>2 DEF StepsTo
<1>2. ASSUME NEW u \in Tasks, HeartbeatTask(u) \/ LeaseExpires(u)
                              \/ \E pid \in Pids : SetWorkerPid(u, pid)
      PROVE  StepsTo(tasks[t], tasks'[t])
  <2>1. CASE u # t
    BY <1>2, <2>1 DEF HeartbeatTask, LeaseExpires, SetWorkerPid, StepsTo
  <2>2. CASE u = t
    <3>1. IsRunning(tasks[t])
      BY <1>2, <2>2 DEF HeartbeatTask, LeaseExpires, SetWorkerPid
    <3>2. CASE HeartbeatTask(u) \/ LeaseExpires(u)
      <4>1. PICK b \in BOOLEAN : tasks'[t] = Touched(tasks[t], [Last(tasks[t]) EXCEPT !.fresh = b])
        BY <2>2, <3>2 DEF HeartbeatTask, LeaseExpires, Beaten, Aged
      <4>2. /\ [Last(tasks[t]) EXCEPT !.fresh = b] \in Attempts
            /\ [Last(tasks[t]) EXCEPT !.fresh = b].state = Last(tasks[t]).state
        BY <3>1, LastTyped DEF Attempts
      <4>3. QED
        BY <3>1, <4>1, <4>2 DEF StepsTo
    <3>3. ASSUME NEW pid \in Pids, SetWorkerPid(u, pid) PROVE StepsTo(tasks[t], tasks'[t])
      <4>1. tasks'[t] = Touched(tasks[t], [Last(tasks[t]) EXCEPT !.worker = pid])
        BY <2>2, <3>3 DEF SetWorkerPid, WithWorker
      <4>2. QED
        BY <3>1, <4>1, TouchesKeepState DEF StepsTo
    <3>4. QED
      BY <1>2, <3>2, <3>3
  <2>3. QED
    BY <2>1, <2>2
<1>3. CASE RecoverAbandoned
  <2>1. tasks'[t] = Recovered(tasks[t], alive)
    BY <1>3 DEF RecoverAbandoned
  <2>2. Abandoned(tasks[t], alive) => Writable(tasks[t], "PENDING", None, None)
    BY DEF Abandoned, IsRunning, Writable, MayMove, Reopens, Reasons
  <2>3. QED
    BY <2>1, <2>2 DEF Recovered, StepsTo, Status
<1>4. CASE UNCHANGED tasks
  BY <1>4 DEF StepsTo
<1>5. QED
  BY <1>1, <1>2, <1>3, <1>4 DEF TaskStateNext, ProcessEnds, ProcessStarts

LEMMA InitStateInv == TaskStateInit => StateInv
<1>1. NewRecord \in Records
  BY DEF NewRecord, Records, Status
<1>2. TrailExplains(NewRecord) /\ AttemptsAgreeWith(NewRecord)
  BY DEF NewRecord, TrailExplains, AttemptsAgreeWith
<1>3. QED
  BY <1>1, <1>2 DEF TaskStateInit, StateInv, RecordInv, TaskStateTypeOK

LEMMA NextStateInv ==
    ASSUME StateInv, TaskStateNext
    PROVE  StateInv' /\ \A t \in Tasks : HistoryKept(tasks[t], tasks'[t])
<1>1. \A t \in Tasks : RecordInv(tasks'[t]) /\ HistoryKept(tasks[t], tasks'[t])
  BY NextStepsTo, RecordStep DEF StateInv
<1>2. \E f : tasks' = [t \in Tasks |-> f[t]]
  <2> tasks = [t \in Tasks |-> tasks[t]]
    BY DEF StateInv, TaskStateTypeOK
  <2> QED
    BY DEF TaskStateNext, TransitionTask, HeartbeatTask, SetWorkerPid, RecoverAbandoned,
           LeaseExpires, ProcessEnds, ProcessStarts
<1>3. tasks' \in [Tasks -> Records]
  BY <1>1, <1>2 DEF RecordInv
<1>4. alive' \subseteq Pids
  BY DEF StateInv, TaskStateTypeOK, TaskStateNext, TransitionTask, HeartbeatTask,
         SetWorkerPid, RecoverAbandoned, LeaseExpires, ProcessEnds, ProcessStarts
<1>5. QED
  BY <1>1, <1>3, <1>4 DEF StateInv, TaskStateTypeOK

THEOREM StateInvariant == TaskStateSpec => []StateInv
<1>1. StateInv /\ [TaskStateNext]_stateVars => StateInv'
  BY NextStateInv DEF stateVars, StateInv, RecordInv, TaskStateTypeOK
<1>2. QED
  BY <1>1, InitStateInv, PTL DEF TaskStateSpec

\* Records keep their types for any number of tasks, processes and attempts.
THEOREM StateTypes == TaskStateSpec => []TaskStateTypeOK
<1>1. StateInv => TaskStateTypeOK
  BY DEF StateInv
<1>2. QED
  BY <1>1, StateInvariant, PTL

\* The audit trail of a task is an unbroken path from PENDING to its status.
THEOREM StateTrail == TaskStateSpec => []TrailIsPath
<1>1. StateInv => TrailIsPath
  BY DEF StateInv, RecordInv, TrailIsPath
<1>2. QED
  BY <1>1, StateInvariant, PTL

\* Attempts, status and artifact of a task always agree.
THEOREM StateAttempts == TaskStateSpec => []AttemptsAgree
<1>1. StateInv => AttemptsAgree
  BY DEF StateInv, RecordInv, AttemptsAgree
<1>2. QED
  BY <1>1, StateInvariant, PTL

\* No call drops or alters a closed attempt or a recorded move.
THEOREM StateHistory == TaskStateSpec => HistoryIsKept
<1>1. StateInv /\ [TaskStateNext]_stateVars
          => [\A t \in Tasks : HistoryKept(tasks[t], tasks'[t])]_stateVars
  BY NextStateInv
<1>2. QED
  BY <1>1, StateInvariant, PTL DEF TaskStateSpec, HistoryIsKept

-----------------------------------------------------------------------------
(* Scheduler.                                                               *)

(* The inductive invariant: types, what a thread may count on at its step   *)
(* (Ready), what a scan has seen (Main), and what a completed task shows.   *)

ThreadSteps ==
    Locked \cup {"idle", "gpuWait", "keyWait", "error", "errorRunning",
                 "gpuError", "gpuErrorRunning", "raised", "orphan"}
RunSteps == Scanning \cup Executing \cup Resting

Active(th) == thread[th].pc \notin {"idle", "orphan"}
Computes == {"launch", "started", "watching", "publish"}
Backed == {"hit", "hitIndex", "indexing", "complete"}
InGpu == Locked \cup {"keyWait", "error", "errorRunning"}
GpuOnly == {"gpuWait", "gpuError", "gpuErrorRunning"}

\* p was in the cache, and only damage can have taken it away.
Vouched(k, p) == p \in Payloads /\ (value[k] = p \/ harmed[k] > 0)

Ready(th) ==
    Active(th) =>
        /\ thread[th].task \in Tasks
        /\ thread[th].pc \in Locked => keyLock[KeyFor(th)] = th
        /\ thread[th].pc \in Computes => value[KeyFor(th)] = Absent
        /\ thread[th].pc = "publish" => thread[th].payload \in Payloads
        /\ thread[th].pc \in Backed => Vouched(KeyFor(th), thread[th].payload)
        /\ run[th[1]].pc \in {"pool", "closing", "gpu"}
        /\ IsGpu(th) <=> run[th[1]].pc = "gpu"
        /\ IsGpu(th) => th[2] = 1
        /\ thread[th].pc \in GpuOnly => IsGpu(th)
        /\ IsGpu(th) /\ thread[th].pc \in InGpu => gpuLock = th[1]

Queues(r) ==
    /\ \A i \in 1 .. Len(r.cpu) : r.cpu[i] \notin gpuTasks
    /\ \A i \in 1 .. Len(r.gpu) : r.gpu[i] \in gpuTasks

Seen(r) ==
    LET k == KeyOf[Plan[r.at]] IN
    /\ r.pc \in {"hitStart", "hitFinish"} => Vouched(k, r.found)
    /\ r.pc = "check" => value[k] \in Payloads \/ harmed[k] > 0
    /\ r.pc = "reopen" => harmed[k] > 0

Main(s) == Queues(run[s]) /\ Seen(run[s])

Typed ==
    /\ alive \in SUBSET Pids
    /\ value \in [Keys -> Cells]
    /\ index \in [Keys -> Payloads \cup {Absent}]
    /\ keyLock \in [Keys -> Threads \cup {Free}]
    /\ gpuLock \in Scheds \cup {Free}
    /\ run \in [Scheds -> RunRecords]
    /\ thread \in [Threads -> ThreadRecords]
    /\ runs \in 0 .. MaxRuns
    /\ gpuTasks \in Placements
    /\ harmed \in [Keys -> 0 .. MaxDamage]

CompleteVouched ==
    \A t \in Tasks : tasks[t].state = "COMPLETE" => Vouched(KeyOf[t], tasks[t].artifact)

IInv ==
    /\ StateInv /\ Typed /\ CompleteVouched
    /\ \A th \in Threads : Ready(th)
    /\ \A s \in Scheds : Main(s)
-------------------------------------------------------------------------------
(* Constants and records.                                                  *)

LEMMA ThreadParts ==
    ASSUME NEW th \in Threads
    PROVE  th[1] \in Scheds /\ th[2] \in Slots /\ th = <<th[1], th[2]>>
  BY DEF Threads

LEMMA PidKinds == Scheds \subseteq Pids /\ Threads \subseteq Pids /\ Free \notin Scheds /\ Free \notin Threads
  BY SchedulerAssumption

LEMMA PlanTask ==
    ASSUME NEW i \in 1 .. Len(Plan)
    PROVE  Plan[i] \in Tasks /\ KeyOf[Plan[i]] \in Keys
  BY SchedulerAssumption

LEMMA RunFields ==
    ASSUME NEW r \in RunRecords
    PROVE  /\ r.pc \in RunSteps /\ r.at \in 1 .. Len(Plan) /\ r.retry \in BOOLEAN
           /\ r.found \in Payloads \cup {Absent}
           /\ r.cpu \in Seq(Tasks) /\ r.gpu \in Seq(Tasks)
           /\ r.mine \in SUBSET Tasks /\ r.hits \in SUBSET Tasks
           /\ r.executed \in SUBSET Tasks
  BY DEF RunRecords, RunSteps

(* The prover takes one field at a time.                                    *)
Going(r, pc) == [r EXCEPT !.pc = pc]
Finding(r, f) == [r EXCEPT !.found = f]
Placed(r, i) == [r EXCEPT !.at = i]
Bearing(x, p) == [x EXCEPT !.payload = p]

LEMMA RunGoes ==
    ASSUME NEW r \in RunRecords, NEW pc \in RunSteps
    PROVE  /\ Going(r, pc) \in RunRecords /\ Going(r, pc).pc = pc
           /\ Going(r, pc).at = r.at /\ Going(r, pc).found = r.found
           /\ Going(r, pc).cpu = r.cpu /\ Going(r, pc).gpu = r.gpu
  BY DEF RunRecords, RunSteps, Going

LEMMA RunFinds ==
    ASSUME NEW r \in RunRecords, NEW f \in Payloads \cup {Absent}
    PROVE  /\ Finding(r, f) \in RunRecords /\ Finding(r, f).pc = r.pc
           /\ Finding(r, f).at = r.at /\ Finding(r, f).found = f
           /\ Finding(r, f).cpu = r.cpu /\ Finding(r, f).gpu = r.gpu
  BY DEF RunRecords, Finding

LEMMA RunMoves ==
    ASSUME NEW r \in RunRecords, NEW i \in 1 .. Len(Plan)
    PROVE  /\ Placed(r, i) \in RunRecords /\ Placed(r, i).pc = r.pc
           /\ Placed(r, i).cpu = r.cpu /\ Placed(r, i).gpu = r.gpu
  BY DEF RunRecords, Placed

\* On to the next task: no scan has seen anything of it.
LEMMA RunOnward ==
    ASSUME NEW r \in RunRecords
    PROVE  /\ Onward(r) \in RunRecords /\ Onward(r).pc \in {"look", "submit"}
           /\ Onward(r).cpu = r.cpu /\ Onward(r).gpu = r.gpu
<1>0. "look" \in RunSteps /\ "submit" \in RunSteps /\ Absent \in Payloads \cup {Absent}
  BY DEF RunSteps, Executing, Scanning
<1>1. CASE r.at = Len(Plan)
  <2>1. Onward(r) = Finding(Going(r, "submit"), Absent)
    BY <1>1 DEF Onward, Finding, Going
  <2> QED BY <1>0, <2>1, RunFinds, RunGoes
<1>2. CASE r.at # Len(Plan)
  <2>1. Onward(r) = Placed(Finding(Going(r, "look"), Absent), Finding(Going(r, "look"), Absent).at + 1)
    BY <1>2 DEF Onward, Finding, Going, Placed
  <2>2. Len(Plan) \in Nat
    BY SchedulerAssumption
  <2>3. r.at \in 1 .. Len(Plan)
    BY RunFields
  <2>4. r.at + 1 \in 1 .. Len(Plan)
    BY <1>2, <2>2, <2>3
  <2>5. /\ Finding(Going(r, "look"), Absent) \in RunRecords
        /\ Finding(Going(r, "look"), Absent).at = r.at
        /\ Finding(Going(r, "look"), Absent).cpu = r.cpu
        /\ Finding(Going(r, "look"), Absent).gpu = r.gpu
        /\ Finding(Going(r, "look"), Absent).pc = "look"
    BY <1>0, RunFinds, RunGoes
  <2> QED BY <2>1, <2>4, <2>5, RunMoves
<1> QED BY <1>1, <1>2

LEMMA RunQueued ==
    ASSUME NEW r \in RunRecords, NEW t \in Tasks, Queues(r)
    PROVE  Queued(r, t) \in RunRecords /\ Queues(Queued(r, t))
<1>0. r.cpu \in Seq(Tasks) /\ r.gpu \in Seq(Tasks) /\ r.mine \in SUBSET Tasks
  BY RunFields
<1>1. CASE t \in gpuTasks
  <2> DEFINE q == Append(r.gpu, t)
             m == [r EXCEPT !.gpu = q]
  <2>0. q \in Seq(Tasks)
    BY <1>0
  <2> HIDE DEF q
  <2>1. m \in RunRecords /\ m.gpu = q /\ m.cpu = r.cpu /\ m.mine = r.mine
    BY <1>0, <2>0 DEF RunRecords
  <2> HIDE DEF m
  <2>2. LET n == [m EXCEPT !.mine = r.mine \cup {t}] IN
        n \in RunRecords /\ n.gpu = m.gpu /\ n.cpu = m.cpu
    BY <2>1, <1>0 DEF RunRecords
  <2>3. Queued(r, t) = [m EXCEPT !.mine = r.mine \cup {t}]
    BY <1>1, <2>1 DEF Queued, m, q
  <2>4. \A i \in 1 .. Len(Append(r.gpu, t)) : Append(r.gpu, t)[i] \in gpuTasks
    BY <1>0, <1>1 DEF Queues
  <2> QED BY <2>1, <2>2, <2>3, <2>4 DEF Queues, q
<1>2. CASE t \notin gpuTasks
  <2> DEFINE q == Append(r.cpu, t)
             m == [r EXCEPT !.cpu = q]
  <2>0. q \in Seq(Tasks)
    BY <1>0
  <2> HIDE DEF q
  <2>1. m \in RunRecords /\ m.cpu = q /\ m.gpu = r.gpu /\ m.mine = r.mine
    BY <1>0, <2>0 DEF RunRecords
  <2> HIDE DEF m
  <2>2. LET n == [m EXCEPT !.mine = r.mine \cup {t}] IN
        n \in RunRecords /\ n.gpu = m.gpu /\ n.cpu = m.cpu
    BY <2>1, <1>0 DEF RunRecords
  <2>3. Queued(r, t) = [m EXCEPT !.mine = r.mine \cup {t}]
    BY <1>2, <2>1 DEF Queued, m, q
  <2>4. \A i \in 1 .. Len(Append(r.cpu, t)) : Append(r.cpu, t)[i] \notin gpuTasks
    BY <1>0, <1>2 DEF Queues
  <2> QED BY <2>1, <2>2, <2>3, <2>4 DEF Queues, q
<1> QED BY <1>1, <1>2

\* A task that ends is counted.
LEMMA RunCounts ==
    ASSUME NEW r \in RunRecords, NEW t \in Tasks, Queues(r)
    PROVE  LET h == [r EXCEPT !.hits = @ \cup {t}]
               e == [r EXCEPT !.executed = @ \cup {t}] IN
           /\ h \in RunRecords /\ Queues(h) /\ h.pc = r.pc
           /\ e \in RunRecords /\ Queues(e) /\ e.pc = r.pc
<1>1. r.hits \cup {t} \in SUBSET Tasks /\ r.executed \cup {t} \in SUBSET Tasks
  BY RunFields
<1> QED BY <1>1 DEF RunRecords, Queues

LEMMA ThreadGoes ==
    ASSUME NEW x \in ThreadRecords, NEW pc \in ThreadSteps
    PROVE  /\ Going(x, pc) \in ThreadRecords /\ Going(x, pc).pc = pc
           /\ Going(x, pc).task = x.task /\ Going(x, pc).payload = x.payload
  BY DEF ThreadRecords, ThreadSteps, Going

LEMMA ThreadBears ==
    ASSUME NEW x \in ThreadRecords, NEW p \in Payloads \cup {Absent}
    PROVE  /\ Bearing(x, p) \in ThreadRecords /\ Bearing(x, p).pc = x.pc
           /\ Bearing(x, p).task = x.task /\ Bearing(x, p).payload = p
  BY DEF ThreadRecords, Bearing
-------------------------------------------------------------------------------
(* What a step does to the cells and the records.                          *)

CellsStep ==
    /\ \A k \in Keys : harmed[k] > 0 => harmed'[k] > 0
    /\ \A k \in Keys : value[k] \in Payloads => value'[k] = value[k] \/ harmed'[k] > 0

RecordsStep ==
    /\ \E f : tasks' = [t \in Tasks |-> f[t]]
    /\ \A t \in Tasks :
        /\ StepsTo(tasks[t], tasks'[t])
        /\ tasks'[t].state = "COMPLETE" =>
              \/ tasks[t].state = "COMPLETE" /\ tasks'[t].artifact = tasks[t].artifact
              \/ Vouched(KeyOf[t], tasks'[t].artifact)
        /\ tasks[t].state = "COMPLETE" /\ tasks'[t].state # "COMPLETE" => harmed[KeyOf[t]] > 0

LEMMA SameCells ==
    ASSUME UNCHANGED value, UNCHANGED harmed
    PROVE  CellsStep
  BY DEF CellsStep

LEMMA VouchedStays ==
    ASSUME CellsStep, NEW k \in Keys, NEW p, Vouched(k, p)
    PROVE  Vouched(k, p)'
  BY DEF CellsStep, Vouched

LEMMA SameRecords ==
    ASSUME StateInv, UNCHANGED tasks
    PROVE  RecordsStep
<1>1. tasks = [t \in Tasks |-> tasks[t]]
  BY DEF StateInv, TaskStateTypeOK
<1> QED BY <1>1 DEF RecordsStep, StepsTo

\* An accepted move, of a task to COMPLETE only with what is vouched for.
LEMMA MoveRecords ==
    ASSUME StateInv, NEW t \in Tasks, NEW to \in Status, NEW reason \in Reasons,
           NEW pid \in Pids, NEW artifact \in Artifacts \cup {None},
           Accepts(tasks[t], to, reason, artifact),
           tasks' = [tasks EXCEPT ![t] = Moved(@, to, pid, artifact)],
           to = "COMPLETE" => Vouched(KeyOf[t], artifact),
           reason = "INVALID_CACHE_ARTIFACT" => harmed[KeyOf[t]] > 0
    PROVE  RecordsStep
<1>0. tasks = [u \in Tasks |-> tasks[u]] /\ \A u \in Tasks : tasks[u] \in Records
  BY DEF StateInv, TaskStateTypeOK
<1>1. \E f : tasks' = [u \in Tasks |-> f[u]]
  BY <1>0
<1>2. ASSUME NEW u \in Tasks
      PROVE  tasks'[u] = IF u = t THEN Moved(tasks[t], to, pid, artifact) ELSE tasks[u]
  BY <1>0
<1>3. Writable(tasks[t], to, pid, artifact)
  BY DEF Accepts, Writable
<1>4. /\ Moved(tasks[t], to, pid, artifact).state = to
      /\ to = "COMPLETE" => Moved(tasks[t], to, pid, artifact).artifact = artifact
  BY DEF Moved
<1>5. tasks[t].state = "COMPLETE" => reason = "INVALID_CACHE_ARTIFACT"
  BY DEF Accepts, MayMove, Allowed, Reopens
<1>6. ASSUME NEW u \in Tasks
      PROVE  /\ StepsTo(tasks[u], tasks'[u])
             /\ tasks'[u].state = "COMPLETE" =>
                   \/ tasks[u].state = "COMPLETE" /\ tasks'[u].artifact = tasks[u].artifact
                   \/ Vouched(KeyOf[u], tasks'[u].artifact)
             /\ tasks[u].state = "COMPLETE" /\ tasks'[u].state # "COMPLETE" => harmed[KeyOf[u]] > 0
  <2>1. CASE u # t
    BY <2>1, <1>2 DEF StepsTo
  <2>2. CASE u = t
    <3>1. StepsTo(tasks[u], tasks'[u])
      BY <2>2, <1>2, <1>3 DEF StepsTo
    <3> QED BY <3>1, <2>2, <1>2, <1>4, <1>5
  <2> QED BY <2>1, <2>2
<1> QED BY <1>1, <1>6 DEF RecordsStep

\* A call on the open attempt of a running task.
LEMMA TouchRecords ==
    ASSUME StateInv, NEW t \in Tasks, IsRunning(tasks[t]), NEW a \in Attempts,
           a.state = Last(tasks[t]).state,
           tasks' = [tasks EXCEPT ![t] = Touched(@, a)]
    PROVE  RecordsStep
<1>0. tasks = [u \in Tasks |-> tasks[u]] /\ \A u \in Tasks : tasks[u] \in Records
  BY DEF StateInv, TaskStateTypeOK
<1>1. \E f : tasks' = [u \in Tasks |-> f[u]]
  BY <1>0
<1>2. ASSUME NEW u \in Tasks
      PROVE  tasks'[u] = IF u = t THEN Touched(tasks[t], a) ELSE tasks[u]
  BY <1>0
<1>3. Touched(tasks[t], a).state = "RUNNING" /\ tasks[t].state = "RUNNING"
  BY <1>0, LastTouched DEF IsRunning
<1>4. ASSUME NEW u \in Tasks
      PROVE  /\ StepsTo(tasks[u], tasks'[u])
             /\ tasks'[u].state = "COMPLETE" =>
                   \/ tasks[u].state = "COMPLETE" /\ tasks'[u].artifact = tasks[u].artifact
                   \/ Vouched(KeyOf[u], tasks'[u].artifact)
             /\ tasks[u].state = "COMPLETE" /\ tasks'[u].state # "COMPLETE" => harmed[KeyOf[u]] > 0
  <2>1. CASE u # t
    BY <2>1, <1>2 DEF StepsTo
  <2>2. CASE u = t
    <3>1. StepsTo(tasks[u], tasks'[u])
      BY <2>2, <1>2 DEF StepsTo
    <3> QED BY <3>1, <2>2, <1>2, <1>3
  <2> QED BY <2>1, <2>2
<1> QED BY <1>1, <1>4 DEF RecordsStep

\* What the records of the next state keep of the invariant.
LEMMA RecordsKept ==
    ASSUME StateInv, CompleteVouched, RecordsStep, CellsStep, alive' \subseteq Pids
    PROVE  StateInv' /\ CompleteVouched'
<1>1. \A t \in Tasks : RecordInv(tasks'[t])
  BY RecordStep DEF StateInv, RecordsStep
<1>2. tasks' \in [Tasks -> Records]
  BY <1>1 DEF RecordInv, RecordsStep
<1>3. StateInv'
  BY <1>1, <1>2 DEF StateInv, TaskStateTypeOK
<1>4. ASSUME NEW t \in Tasks, tasks'[t].state = "COMPLETE"
      PROVE  Vouched(KeyOf[t], tasks[t].artifact)'
  <2>1. PICK k, p : k \in Keys /\ k = KeyOf[t] /\ p = tasks'[t].artifact
    BY SchedulerAssumption
  <2>2. Vouched(k, p)
    BY <1>4, <2>1 DEF RecordsStep, CompleteVouched
  <2>3. Vouched(k, p)'
    BY <2>1, <2>2, VouchedStays
  <2> QED BY <2>1, <2>3 DEF Vouched
<1> QED BY <1>3, <1>4 DEF CompleteVouched
-------------------------------------------------------------------------------
(* What a step leaves to the threads and scans that do not take it.        *)

Apart(th) ==
    /\ thread'[th] = thread[th]
    /\ run[th[1]].pc = "gpu" => run'[th[1]].pc = "gpu"
    /\ run[th[1]].pc \in {"pool", "closing"} => run'[th[1]].pc \in {"pool", "closing"}
    /\ \A k \in Keys : keyLock[k] = th => keyLock'[k] = th
    /\ \A k \in Keys : keyLock[k] = th /\ value[k] = Absent => value'[k] = Absent
    /\ IsGpu(th) /\ gpuLock = th[1] => gpuLock' = th[1]

LEMMA ApartReady ==
    ASSUME NEW th \in Threads, Ready(th), Active(th) => Apart(th) , thread'[th] = thread[th],
           CellsStep, gpuTasks' = gpuTasks
    PROVE  Ready(th)'
<1>1. CASE ~Active(th)
  BY <1>1 DEF Ready, Active
<1>2. CASE Active(th)
  <2>1. thread[th].task \in Tasks /\ KeyFor(th) \in Keys
    BY <1>2, SchedulerAssumption DEF Ready, KeyFor
  <2>2. KeyFor(th)' = KeyFor(th) /\ (IsGpu(th)' <=> IsGpu(th))
    BY DEF KeyFor, IsGpu
  <2>3. thread[th].pc \in Backed => Vouched(KeyFor(th), thread[th].payload)'
    <3>1. ASSUME thread[th].pc \in Backed PROVE Vouched(KeyFor(th), thread[th].payload)'
      <4>1. PICK k, p : k \in Keys /\ k = KeyFor(th) /\ p = thread[th].payload
        BY <2>1
      <4>2. Vouched(k, p)'
        BY <1>2, <3>1, <4>1, VouchedStays DEF Ready
      <4> QED BY <4>1, <4>2, <2>2 DEF Vouched
    <3> QED BY <3>1
  <2>4. thread[th].pc \in Computes => value'[KeyFor(th)] = Absent
    BY <1>2, <2>1 DEF Ready, Apart, Computes, Locked
  <2>5. thread[th].pc \in Locked => keyLock'[KeyFor(th)] = th
    BY <1>2, <2>1 DEF Ready, Apart
  <2>6. /\ run'[th[1]].pc \in {"pool", "closing", "gpu"}
        /\ IsGpu(th) <=> run'[th[1]].pc = "gpu"
    BY <1>2 DEF Ready, Apart
  <2>7. IsGpu(th) /\ thread[th].pc \in InGpu => gpuLock' = th[1]
    BY <1>2 DEF Ready, Apart
  <2> QED BY <1>2, <2>1, <2>2, <2>3, <2>4, <2>5, <2>6, <2>7 DEF Ready, Active
<1> QED BY <1>1, <1>2

\* A scan keeps what it has seen, whatever others do to the cells.
LEMMA SeenStays ==
    ASSUME NEW r \in RunRecords, Seen(r), CellsStep
    PROVE  Seen(r)'
<1>1. PICK k \in Keys : k = KeyOf[Plan[r.at]]
  BY PlanTask, RunFields
<1>2. PICK f : f = r.found
  OBVIOUS
<1>3. Vouched(k, f) => Vouched(k, f)'
  BY VouchedStays
<1> QED BY <1>1, <1>2, <1>3 DEF Seen, CellsStep

LEMMA MainStays ==
    ASSUME Typed, NEW s \in Scheds, Main(s), run'[s] = run[s], CellsStep, gpuTasks' = gpuTasks
    PROVE  Main(s)'
<1>1. PICK r \in RunRecords : r = run[s]
  BY DEF Typed
<1>2. Seen(r)'
  BY <1>1, SeenStays DEF Main
<1> QED BY <1>1, <1>2 DEF Main, Queues, Seen

\* Nothing is remembered of the scan while tasks execute, or after.
LEMMA MainRests ==
    ASSUME Typed, NEW s \in Scheds, NEW r \in RunRecords, run'[s] = r, Queues(r),
           r.pc \notin {"hitStart", "hitFinish", "check", "reopen"}, gpuTasks' = gpuTasks
    PROVE  Main(s)'
  BY DEF Main, Queues, Seen
-------------------------------------------------------------------------------
(* The main thread.                                                        *)

Kept ==
    /\ Typed' /\ RecordsStep /\ CellsStep
    /\ \A th \in Threads : Ready(th)'
    /\ \A s \in Scheds : Main(s)'

\* What a scan leaves alone, the records and the cells apart.
Still ==
    /\ UNCHANGED <<alive, keyLock, gpuLock, thread, gpuTasks, harmed>>
    /\ runs' = runs \/ runs' \in 0 .. MaxRuns

LEMMA SetRunTyped ==
    ASSUME Typed, NEW s \in Scheds, NEW r \in RunRecords, SetRun(s, r)
    PROVE  run' \in [Scheds -> RunRecords] /\ run'[s] = r
           /\ \A o \in Scheds : o # s => run'[o] = run[o]
  BY DEF Typed, SetRun

LEMMA GotoIs ==
    ASSUME NEW s, NEW pc, Goto(s, pc)
    PROVE  SetRun(s, Going(run[s], pc))
  BY DEF Goto, Going

\* A step of a run that has no thread at work.
Quiet(s) == \A th \in Threads : th[1] = s => ~Active(th)

LEMMA QuietKept ==
    ASSUME IInv, NEW s \in Scheds, NEW r \in RunRecords, SetRun(s, r),
           Quiet(s), Queues(r), Seen(r), Still, RecordsStep,
           value' \in [Keys -> Cells], CellsStep,
           \A k \in Keys : value[k] = Absent => value'[k] = Absent,
           index' \in [Keys -> Payloads \cup {Absent}]
    PROVE  Kept
<1>1. Typed /\ gpuTasks' = gpuTasks
  BY DEF IInv, Still
<1>2. /\ run' \in [Scheds -> RunRecords] /\ run'[s] = r
      /\ \A o \in Scheds : o # s => run'[o] = run[o]
  BY <1>1, SetRunTyped
<1>3. Typed'
  BY <1>1, <1>2 DEF Typed, Still
<1>4. ASSUME NEW th \in Threads PROVE Ready(th)'
  <2>1. Ready(th) /\ thread'[th] = thread[th] /\ th[1] \in Scheds
    BY ThreadParts DEF IInv, Still
  <2>2. Active(th) => Apart(th)
    BY <2>1, <1>2 DEF Quiet, Apart, Still
  <2> QED BY <1>1, <2>1, <2>2, ApartReady
<1>5. ASSUME NEW o \in Scheds PROVE Main(o)'
  <2>1. CASE o # s
    BY <1>1, <1>2, <2>1, MainStays DEF IInv
  <2>2. CASE o = s
    <3>1. Seen(r)'
      BY SeenStays
    <3> QED BY <1>1, <1>2, <2>2, <3>1 DEF Main, Queues, Seen
  <2> QED BY <2>1, <2>2
<1> QED BY <1>3, <1>4, <1>5 DEF Kept

LEMMA QuietScan ==
    ASSUME IInv, NEW s \in Scheds, run[s].pc \in Scanning \cup Resting
    PROVE  Quiet(s)
  BY DEF Quiet, IInv, Ready, Scanning, Resting

\* The same when the cells stay as they are.
LEMMA ScanLooks ==
    ASSUME IInv, NEW s \in Scheds, NEW r \in RunRecords, SetRun(s, r),
           run[s].pc \in Scanning, Queues(r), Seen(r), Still, RecordsStep,
           UNCHANGED value, index' \in [Keys -> Payloads \cup {Absent}]
    PROVE  Kept
<1>1. CellsStep /\ value' \in [Keys -> Cells]
  BY SameCells DEF Still, IInv, Typed
<1> QED BY <1>1, QuietKept, QuietScan

Blind(pc) == pc \in RunSteps \ {"hitStart", "hitFinish", "check", "reopen"}

LEMMA BlindSees ==
    ASSUME NEW r \in RunRecords, Blind(r.pc)
    PROVE  Seen(r)
  BY DEF Blind, Seen

\* On to another place without having seen anything.
LEMMA ScanGoes ==
    ASSUME IInv, NEW s \in Scheds, NEW pc, Blind(pc), Goto(s, pc), run[s].pc \in Scanning,
           Still, UNCHANGED <<value, index>>, RecordsStep
    PROVE  Kept
<1>1. run[s] \in RunRecords /\ pc \in RunSteps /\ Queues(run[s])
  BY DEF IInv, Typed, Blind, Main
<1>2. PICK r : r = Going(run[s], pc)
  OBVIOUS
<1>3. r \in RunRecords /\ r.pc = pc /\ r.cpu = run[s].cpu /\ r.gpu = run[s].gpu
  BY <1>1, <1>2, RunGoes
<1>4. SetRun(s, r)
  BY <1>2, GotoIs
<1>5. Queues(r) /\ Seen(r)
  BY <1>1, <1>3, BlindSees DEF Queues
<1>6. index' \in [Keys -> Payloads \cup {Absent}]
  BY DEF IInv, Typed
<1> QED BY <1>3, <1>4, <1>5, <1>6, ScanLooks

LEMMA ScanRaisesKept ==
    ASSUME IInv, NEW s \in Scheds, Goto(s, "raised"), run[s].pc \in Scanning,
           Still, UNCHANGED <<value, index, tasks>>
    PROVE  Kept
<1>1. RecordsStep
  BY SameRecords DEF IInv
<1>2. Blind("raised")
  BY DEF Blind, RunSteps, Resting
<1> QED BY <1>1, <1>2, ScanGoes

LEMMA OnwardKept ==
    ASSUME IInv, NEW s \in Scheds, NEW r \in RunRecords, SetRun(s, Onward(r)),
           Queues(r), run[s].pc \in Scanning, Still, RecordsStep,
           UNCHANGED value, index' \in [Keys -> Payloads \cup {Absent}]
    PROVE  Kept
<1>1. PICK n : n = Onward(r)
  OBVIOUS
<1>2. n \in RunRecords /\ n.pc \in {"look", "submit"} /\ n.cpu = r.cpu /\ n.gpu = r.gpu
  BY <1>1, RunOnward
<1>3. Blind(n.pc)
  BY <1>2 DEF Blind, RunSteps, Scanning, Executing
<1>4. Queues(n) /\ Seen(n) /\ SetRun(s, n)
  BY <1>1, <1>2, <1>3, BlindSees DEF Queues
<1> QED BY <1>2, <1>4, ScanLooks

LEMMA ScanTask ==
    ASSUME IInv, NEW s \in Scheds
    PROVE  /\ run[s] \in RunRecords /\ Task(s) \in Tasks /\ KeyOf[Task(s)] \in Keys
           /\ Queues(run[s]) /\ Seen(run[s]) /\ s \in Pids
           /\ Task(s) = Plan[run[s].at]
           /\ index \in [Keys -> Payloads \cup {Absent}]
  BY PlanTask, RunFields, PidKinds DEF IInv, Typed, Task, Main

\* transition() in the scan.
LEMMA ScanMoveKept ==
    ASSUME IInv, NEW s \in Scheds, NEW to \in Status, NEW reason \in Reasons,
           NEW artifact \in Artifacts \cup {None}, NEW r \in RunRecords,
           ScanMove(s, to, reason, artifact, r), run[s].pc \in Scanning,
           Queues(r), Seen(r), Still, UNCHANGED <<value, index>>,
           to = "COMPLETE" => Vouched(KeyOf[Task(s)], artifact),
           reason = "INVALID_CACHE_ARTIFACT" => harmed[KeyOf[Task(s)]] > 0
    PROVE  Kept
<1>1. CASE Goto(s, "raised") /\ UNCHANGED tasks
  BY <1>1, ScanRaisesKept
<1>2. CASE /\ Accepts(tasks[Task(s)], to, reason, artifact)
           /\ tasks' = [tasks EXCEPT ![Task(s)] = Moved(@, to, s, artifact)]
           /\ SetRun(s, r)
  <2>1. RecordsStep
    BY <1>2, ScanTask, MoveRecords DEF IInv
  <2> QED BY <1>2, <2>1, ScanTask, ScanLooks
<1> QED BY <1>1, <1>2 DEF ScanMove

LEMMA StartRunKept ==
    ASSUME IInv, NEW s \in Scheds, NEW retry \in BOOLEAN, StartRun(s, retry)
    PROVE  Kept
<1>1. RecordsStep
  <2>1. tasks' = [t \in Tasks |-> Recovered(tasks[t], alive)]
    BY DEF StartRun
  <2>2. \E f : tasks' = [t \in Tasks |-> f[t]]
    <3> DEFINE f == [t \in Tasks |-> Recovered(tasks[t], alive)]
    <3>1. tasks' = [t \in Tasks |-> f[t]]
      BY <2>1
    <3> QED BY <3>1
  <2>3. ASSUME NEW t \in Tasks
        PROVE  /\ StepsTo(tasks[t], tasks'[t])
               /\ tasks'[t].state = "COMPLETE" => tasks'[t] = tasks[t]
               /\ tasks[t].state = "COMPLETE" => tasks'[t] = tasks[t]
    <3>1. tasks'[t] = Recovered(tasks[t], alive)
      BY <2>1
    <3>2. CASE Abandoned(tasks[t], alive)
      <4>1. Writable(tasks[t], "PENDING", None, None) /\ tasks[t].state = "RUNNING"
        BY <3>2 DEF Abandoned, IsRunning, Writable, MayMove, Reopens, Reasons
      <4>2. tasks'[t] = Moved(tasks[t], "PENDING", None, None)
        BY <3>1, <3>2 DEF Recovered
      <4>3. tasks'[t].state = "PENDING"
        BY <4>2 DEF Moved
      <4>4. "PENDING" \in Status
        BY DEF Status
      <4> QED BY <4>1, <4>2, <4>3, <4>4 DEF StepsTo
    <3>3. CASE ~Abandoned(tasks[t], alive)
      BY <3>1, <3>3 DEF Recovered, StepsTo
    <3> QED BY <3>2, <3>3
  <2> QED BY <2>2, <2>3 DEF RecordsStep
<1>2. PICK r : r = NewRun("rebuild", retry)
  OBVIOUS
<1>3. /\ r \in RunRecords /\ r.pc = "rebuild" /\ Queues(r)
  <2>1. Len(Plan) \in Nat /\ 1 \in 1 .. Len(Plan)
    BY SchedulerAssumption
  <2> QED BY <1>2, <2>1 DEF NewRun, RunRecords, Scanning, Queues
<1>4. Seen(r)
  BY <1>3, BlindSees DEF Blind, RunSteps, Scanning
<1>5. /\ SetRun(s, r) /\ run[s].pc \in Resting /\ Still
      /\ UNCHANGED <<value, index, harmed>>
  BY <1>2, SchedulerAssumption DEF StartRun, locks, IInv, Typed, Still
<1>6. /\ CellsStep /\ value' \in [Keys -> Cells]
      /\ index' \in [Keys -> Payloads \cup {Absent}]
  BY <1>5, SameCells DEF IInv, Typed
<1>7. Quiet(s)
  BY <1>5, QuietScan
<1> QED BY <1>1, <1>3, <1>4, <1>5, <1>6, <1>7, QuietKept
-------------------------------------------------------------------------------
(* The scan, step by step.                                                 *)

LEMMA ScanPlaces ==
    /\ Scanning \subseteq RunSteps
    /\ Blind("rebuild") /\ Blind("look") /\ Blind("retry") /\ Blind("clean")
    /\ Blind("second") /\ Blind("probe") /\ Blind("cleanProbe") /\ Blind("hitIndex")
    /\ Blind("schedule") /\ Blind("raised") /\ Blind("submit")
  BY DEF Scanning, Blind, RunSteps, Executing, Resting

LEMMA StatusReasons ==
    /\ {"PENDING", "RUNNING", "COMPLETE", "FAILED", "BLOCKED"} \subseteq Status
    /\ {"ORDINARY", "EXPLICIT_RETRY", "INVALID_CACHE_ARTIFACT"} \subseteq Reasons
  BY DEF Status, Reasons

\* The run as it is, at another place.
LEMMA RunGoing ==
    ASSUME IInv, NEW s \in Scheds, NEW pc \in RunSteps
    PROVE  LET r == Going(run[s], pc) IN
           /\ r \in RunRecords /\ r.pc = pc /\ r.at = run[s].at /\ r.found = run[s].found
           /\ Queues(r) /\ r.cpu = run[s].cpu /\ r.gpu = run[s].gpu
  BY ScanTask, RunGoes DEF Queues

LEMMA RebuildKept ==
    ASSUME IInv, NEW s \in Scheds, Rebuild(s)
    PROVE  Kept
<1>1. /\ Goto(s, "look") /\ UNCHANGED value /\ Still /\ UNCHANGED tasks
      /\ run[s].pc \in Scanning
  BY DEF Rebuild, At, Still, locks, history, Scanning
<1>2. index' \in [Keys -> Payloads \cup {Absent}]
  BY DEF Rebuild, IterValidated
<1>3. PICK r : r = Going(run[s], "look")
  OBVIOUS
<1>4. r \in RunRecords /\ Queues(r) /\ Seen(r) /\ SetRun(s, r)
  BY <1>1, <1>3, RunGoing, GotoIs, ScanPlaces, BlindSees DEF Blind
<1>5. RecordsStep
  BY <1>1, SameRecords DEF IInv
<1> QED BY <1>1, <1>2, <1>4, <1>5, ScanLooks

LEMMA LookKept ==
    ASSUME IInv, NEW s \in Scheds, Look(s)
    PROVE  Kept
<1>1. /\ Still /\ UNCHANGED <<value, index, tasks>> /\ run[s].pc \in Scanning
      /\ Queues(run[s]) /\ run[s] \in RunRecords
  BY ScanTask DEF Look, At, Still, locks, history, Scanning
<1>2. RecordsStep /\ index' \in [Keys -> Payloads \cup {Absent}]
  BY <1>1, SameRecords, ScanTask DEF IInv
<1>3. CASE SetRun(s, Onward(run[s]))
  BY <1>1, <1>2, <1>3, OnwardKept
<1>4. CASE Goto(s, "retry") \/ Goto(s, "second")
  BY <1>1, <1>2, <1>4, ScanGoes, ScanPlaces
<1>5. CASE tasks[Task(s)].state = "COMPLETE" /\ Goto(s, "check")
  <2>1. PICK r : r = Going(run[s], "check")
    OBVIOUS
  <2>2. "check" \in RunSteps
    BY DEF RunSteps, Scanning
  <2>3. r \in RunRecords /\ r.pc = "check" /\ r.at = run[s].at /\ Queues(r) /\ SetRun(s, r)
    BY <1>5, <2>1, <2>2, RunGoing, GotoIs
  <2>4. Vouched(KeyOf[Task(s)], tasks[Task(s)].artifact)
    BY <1>5, ScanTask DEF IInv, CompleteVouched
  <2>5. Seen(r)
    BY <2>3, <2>4, ScanTask DEF Seen, Vouched
  <2> QED BY <1>1, <1>2, <2>3, <2>5, ScanLooks
<1> QED BY <1>3, <1>4, <1>5 DEF Look

LEMMA RetryFailedKept ==
    ASSUME IInv, NEW s \in Scheds, RetryFailed(s)
    PROVE  Kept
<1>1. PICK r : r = Going(run[s], "second")
  OBVIOUS
<1>2. /\ ScanMove(s, "PENDING", "EXPLICIT_RETRY", None, r)
      /\ Still /\ UNCHANGED <<value, index>> /\ run[s].pc \in Scanning
  BY <1>1 DEF RetryFailed, Going, At, Still, locks, history, Scanning
<1>3. r \in RunRecords /\ Queues(r) /\ Seen(r)
  BY <1>1, RunGoing, ScanPlaces, BlindSees DEF Blind
<1> QED BY <1>2, <1>3, ScanMoveKept, StatusReasons

\* read_validated() in the scan, with what each outcome lets the run count on.
LEMMA ReadKept ==
    ASSUME IInv, NEW s \in Scheds, NEW from \in Scanning, NEW hit \in RunSteps,
           NEW broken \in RunSteps, NEW miss \in RunSteps, Read(s, from, hit, broken, miss),
           hit # "check" /\ hit # "reopen",
           \/ Blind(broken)
           \/ broken = "reopen" /\ (harmed[KeyOf[Task(s)]] > 0 \/ value[KeyOf[Task(s)]] \in Payloads),
           \/ Blind(miss)
           \/ miss = "reopen" /\ (harmed[KeyOf[Task(s)]] > 0 \/ value[KeyOf[Task(s)]] \in Payloads)
    PROVE  Kept
<1> DEFINE k == KeyOf[Task(s)]
           v == value[k]
<1>1. /\ Still /\ UNCHANGED <<value, index, tasks>> /\ run[s].pc \in Scanning
  BY DEF Read, At, Still, locks, history
<1>2. RecordsStep /\ index' \in [Keys -> Payloads \cup {Absent}]
  BY <1>1, SameRecords, ScanTask DEF IInv
<1>3. PICK pc, f : /\ pc = (IF v \in Payloads THEN hit ELSE IF v = Broken THEN broken ELSE miss)
                   /\ f = (IF v \in Payloads THEN v ELSE Absent)
  OBVIOUS
<1>4. PICK m : m = Going(run[s], pc)
  OBVIOUS
<1>5. PICK r : r = Finding(m, f)
  OBVIOUS
<1>6. SetRun(s, r)
  BY <1>3, <1>4, <1>5 DEF Read, Going, Finding
<1>7. pc \in RunSteps /\ f \in Payloads \cup {Absent}
  BY <1>3
<1>8. m \in RunRecords /\ m.pc = pc /\ m.at = run[s].at /\ Queues(m)
  BY <1>4, <1>7, RunGoing
<1>9. r \in RunRecords /\ r.pc = pc /\ r.at = run[s].at /\ r.found = f /\ Queues(r)
  BY <1>5, <1>7, <1>8, RunFinds DEF Queues
<1>10. Seen(r)
  <2>1. CASE v \in Payloads
    BY <1>3, <1>9, <2>1, ScanTask DEF Seen, Vouched
  <2>2. CASE v \notin Payloads
    BY <1>3, <1>9, <2>2, ScanTask DEF Seen, Blind
  <2> QED BY <2>1, <2>2
<1> QED BY <1>1, <1>2, <1>6, <1>9, <1>10, ScanLooks

LEMMA CheckCompleteKept ==
    ASSUME IInv, NEW s \in Scheds, CheckComplete(s)
    PROVE  Kept
<1>1. "check" \in Scanning /\ "hitIndex" \in RunSteps /\ "reopen" \in RunSteps
  BY DEF Scanning, RunSteps
<1>2. value[KeyOf[Task(s)]] \in Payloads \/ harmed[KeyOf[Task(s)]] > 0
  BY ScanTask DEF CheckComplete, Read, At, Seen
<1> QED BY <1>1, <1>2, ReadKept DEF CheckComplete

LEMMA ProbeKept ==
    ASSUME IInv, NEW s \in Scheds, Probe(s)
    PROVE  Kept
<1>1. "probe" \in Scanning /\ {"hitStart", "cleanProbe", "schedule"} \subseteq RunSteps
  BY DEF Scanning, RunSteps
<1> QED BY <1>1, ReadKept, ScanPlaces DEF Probe

LEMMA ReopenCompleteKept ==
    ASSUME IInv, NEW s \in Scheds, ReopenComplete(s)
    PROVE  Kept
<1>1. PICK r : r = Going(run[s], "clean")
  OBVIOUS
<1>2. /\ ScanMove(s, "PENDING", "INVALID_CACHE_ARTIFACT", None, r)
      /\ Still /\ UNCHANGED <<value, index>> /\ run[s].pc \in Scanning
      /\ run[s].pc = "reopen"
  BY <1>1 DEF ReopenComplete, Going, At, Still, locks, history, Scanning
<1>3. r \in RunRecords /\ Queues(r) /\ Seen(r)
  BY <1>1, RunGoing, ScanPlaces, BlindSees DEF Blind
<1>4. harmed[KeyOf[Task(s)]] > 0
  BY <1>2, ScanTask DEF Seen
<1> QED BY <1>2, <1>3, <1>4, ScanMoveKept, StatusReasons

LEMMA QuarantineCells ==
    ASSUME Typed, NEW k \in Keys, Quarantine(k), UNCHANGED harmed
    PROVE  /\ CellsStep /\ value' \in [Keys -> Cells]
           /\ \A j \in Keys : value[j] = Absent => value'[j] = Absent
<1>1. value' = [value EXCEPT ![k] = Absent] /\ value[k] = Broken /\ value \in [Keys -> Cells]
  BY DEF Quarantine, Typed
<1> QED BY <1>1, RegisterAssumption DEF CellsStep, Cells

LEMMA CleanKept ==
    ASSUME IInv, NEW s \in Scheds, NEW from \in Scanning, NEW to, Blind(to), Clean(s, from, to)
    PROVE  Kept
<1>1. /\ Still /\ UNCHANGED <<index, tasks>> /\ run[s].pc \in Scanning
  BY DEF Clean, At, Still, locks, history
<1>2. RecordsStep /\ index' \in [Keys -> Payloads \cup {Absent}] /\ KeyOf[Task(s)] \in Keys
  BY <1>1, SameRecords, ScanTask DEF IInv
<1>3. CASE Goto(s, to) /\ UNCHANGED value
  BY <1>1, <1>2, <1>3, ScanGoes
<1>4. CASE Goto(s, "raised") /\ UNCHANGED value
  BY <1>1, <1>2, <1>4, ScanGoes, ScanPlaces
<1>5. CASE Quarantine(KeyOf[Task(s)]) /\ Goto(s, to)
  <2>1. PICK r : r = Going(run[s], to)
    OBVIOUS
  <2>2. r \in RunRecords /\ r.pc = to /\ Queues(r) /\ SetRun(s, r)
    BY <1>5, <2>1, RunGoing, GotoIs DEF Blind
  <2>3. Seen(r)
    BY <2>2, BlindSees
  <2>4. /\ CellsStep /\ value' \in [Keys -> Cells]
        /\ \A j \in Keys : value[j] = Absent => value'[j] = Absent
    BY <1>1, <1>2, <1>5, QuarantineCells DEF Still, IInv
  <2> QED BY <1>1, <1>2, <2>2, <2>3, <2>4, QuietKept, QuietScan
<1> QED BY <1>3, <1>4, <1>5 DEF Clean

LEMMA SecondLookKept ==
    ASSUME IInv, NEW s \in Scheds, SecondLook(s)
    PROVE  Kept
<1>1. /\ Still /\ UNCHANGED <<value, index, tasks>> /\ run[s].pc \in Scanning
      /\ Queues(run[s]) /\ run[s] \in RunRecords
  BY ScanTask DEF SecondLook, At, Still, locks, history, Scanning
<1>2. RecordsStep /\ index' \in [Keys -> Payloads \cup {Absent}]
  BY <1>1, SameRecords, ScanTask DEF IInv
<1>3. CASE SetRun(s, Onward(run[s]))
  BY <1>1, <1>2, <1>3, OnwardKept
<1>4. CASE Goto(s, "probe")
  BY <1>1, <1>2, <1>4, ScanGoes, ScanPlaces
<1> QED BY <1>3, <1>4 DEF SecondLook

LEMMA HitStartKept ==
    ASSUME IInv, NEW s \in Scheds, HitStart(s)
    PROVE  Kept
<1>1. PICK r : r = Going(run[s], "hitFinish")
  OBVIOUS
<1>2. /\ ScanMove(s, "RUNNING", "ORDINARY", None, r)
      /\ Still /\ UNCHANGED <<value, index>> /\ run[s].pc \in Scanning
      /\ run[s].pc = "hitStart"
  BY <1>1 DEF HitStart, Going, At, Still, locks, history, Scanning
<1>3. "hitFinish" \in RunSteps
  BY DEF RunSteps, Scanning
<1>4. /\ r \in RunRecords /\ Queues(r) /\ r.pc = "hitFinish" /\ r.at = run[s].at
      /\ r.found = run[s].found
  BY <1>1, <1>3, RunGoing
<1>5. Seen(r)
  BY <1>2, <1>4, ScanTask DEF Seen
<1> QED BY <1>2, <1>4, <1>5, ScanMoveKept, StatusReasons

LEMMA HitFinishKept ==
    ASSUME IInv, NEW s \in Scheds, HitFinish(s)
    PROVE  Kept
<1>1. PICK r : r = Going(run[s], "hitIndex")
  OBVIOUS
<1>2. /\ ScanMove(s, "COMPLETE", "ORDINARY", run[s].found, r)
      /\ Still /\ UNCHANGED <<value, index>> /\ run[s].pc \in Scanning
      /\ run[s].pc = "hitFinish"
  BY <1>1 DEF HitFinish, Going, At, Still, locks, history, Scanning
<1>3. r \in RunRecords /\ Queues(r) /\ Seen(r)
  BY <1>1, RunGoing, ScanPlaces, BlindSees DEF Blind
<1>4. Vouched(KeyOf[Task(s)], run[s].found)
  BY <1>2, ScanTask DEF Seen
<1>5. run[s].found \in Artifacts
  BY <1>4, SchedulerAssumption DEF Vouched
<1> QED BY <1>2, <1>3, <1>4, <1>5, ScanMoveKept, StatusReasons

LEMMA HitIndexKept ==
    ASSUME IInv, NEW s \in Scheds, HitIndex(s)
    PROVE  Kept
<1>1. PICK r : r = [run[s] EXCEPT !.hits = @ \cup {Task(s)}]
  OBVIOUS
<1>2. /\ Still /\ UNCHANGED <<value, tasks>> /\ run[s].pc \in Scanning
      /\ SetRun(s, Onward(r))
      /\ index' = [index EXCEPT ![KeyOf[Task(s)]] = run[s].found]
  BY <1>1 DEF HitIndex, At, Still, locks, history, Scanning
<1>3. r \in RunRecords /\ Queues(r)
  BY <1>1, ScanTask DEF RunRecords, Queues
<1>4. index' \in [Keys -> Payloads \cup {Absent}]
  BY <1>2, ScanTask, RunFields
<1>5. RecordsStep
  BY <1>2, SameRecords DEF IInv
<1> QED BY <1>2, <1>3, <1>4, <1>5, OnwardKept

LEMMA ScheduleKept ==
    ASSUME IInv, NEW s \in Scheds, Schedule(s)
    PROVE  Kept
<1>1. PICK q : q = Queued(run[s], Task(s))
  OBVIOUS
<1>2. q \in RunRecords /\ Queues(q)
  BY <1>1, ScanTask, RunQueued
<1>3. PICK r : r = Onward(q)
  OBVIOUS
<1>4. /\ r \in RunRecords /\ r.pc \in {"look", "submit"} /\ Queues(r)
  BY <1>2, <1>3, RunOnward DEF Queues
<1>5. Seen(r)
  BY <1>4, BlindSees, ScanPlaces
<1>6. /\ ScanMove(s, "RUNNING", "ORDINARY", None, r)
      /\ Still /\ UNCHANGED <<value, index>> /\ run[s].pc \in Scanning
  BY <1>1, <1>3 DEF Schedule, At, Still, locks, history, Scanning
<1> QED BY <1>4, <1>5, <1>6, ScanMoveKept, StatusReasons

LEMMA ScanStepKept ==
    ASSUME IInv, NEW s \in Scheds, ScanStep(s) \/ CleanTimeout(s)
    PROVE  Kept
<1>1. CASE CleanComplete(s) \/ CleanProbe(s)
  <2>1. "clean" \in Scanning /\ "cleanProbe" \in Scanning
    BY DEF Scanning
  <2> QED BY <1>1, <2>1, CleanKept, ScanPlaces DEF CleanComplete, CleanProbe
<1>2. CASE ScanRaises(s) \/ CleanTimeout(s)
  BY <1>2, ScanRaisesKept DEF ScanRaises, CleanTimeout, Still, locks, history, Scanning
<1> QED
  BY <1>1, <1>2, RebuildKept, LookKept, RetryFailedKept, CheckCompleteKept, ReopenCompleteKept,
     SecondLookKept, ProbeKept, HitStartKept, HitFinishKept, HitIndexKept, ScheduleKept
     DEF ScanStep
-------------------------------------------------------------------------------
(* The main thread while tasks execute.                                    *)

\* Two threads of a run are never both at work once it is on the GPU queue.
LEMMA Alone ==
    ASSUME IInv, NEW th \in Threads, NEW o \in Threads, Active(th), Active(o),
           o[1] = th[1], run[th[1]].pc = "gpu"
    PROVE  o = th
<1>1. IsGpu(th) /\ IsGpu(o) /\ th[2] = 1 /\ o[2] = 1
  BY DEF IInv, Ready
<1> QED BY <1>1, ThreadParts

\* A step of thread th takes no lock from another, writes only what it has
\* locked, and lets the run go on.
Mild(th) ==
    /\ \A k \in Keys : keyLock'[k] = keyLock[k] \/ keyLock[k] \in {Free, th}
    /\ \A k \in Keys : value[k] = Absent => value'[k] = Absent \/ keyLock[k] = th
    /\ gpuLock' = gpuLock \/ gpuLock = Free \/ (gpuLock = th[1] /\ Active(th))
    /\ \/ run'[th[1]].pc = run[th[1]].pc
       \/ {run[th[1]].pc, run'[th[1]].pc} \subseteq {"pool", "closing"}
       \/ run[th[1]].pc = "gpu" /\ Active(th)

LEMMA OthersKept ==
    ASSUME IInv, NEW th \in Threads, Mild(th), CellsStep, gpuTasks' = gpuTasks,
           NEW x, thread' = [thread EXCEPT ![th] = x],
           \A s \in Scheds : s # th[1] => run'[s] = run[s],
           NEW o \in Threads, o # th
    PROVE  Ready(o)'
<1>1. Ready(o) /\ thread'[o] = thread[o] /\ o[1] \in Scheds /\ th[1] \in Scheds
  BY ThreadParts DEF IInv, Typed
<1>2. ASSUME Active(o) PROVE Apart(o)
  <2>1. o[1] = th[1] /\ run[th[1]].pc = "gpu" => ~Active(th)
    BY <1>2, Alone
  <2>2. run[o[1]].pc \in {"pool", "closing", "gpu"} /\ (IsGpu(o) => run[o[1]].pc = "gpu")
    BY <1>1, <1>2 DEF Ready
  <2>3. /\ run[o[1]].pc = "gpu" => run'[o[1]].pc = "gpu"
        /\ run[o[1]].pc \in {"pool", "closing"} => run'[o[1]].pc \in {"pool", "closing"}
    BY <1>1, <2>1 DEF Mild
  <2>4. IsGpu(o) /\ gpuLock = o[1] => gpuLock' = o[1]
    BY <1>1, <2>1, <2>2, PidKinds DEF Mild
  <2>5. \A k \in Keys : keyLock[k] = o => keyLock'[k] = o /\ (value[k] = Absent => value'[k] = Absent)
    BY PidKinds DEF Mild
  <2> QED BY <1>1, <2>3, <2>4, <2>5 DEF Apart
<1> QED BY <1>1, <1>2, ApartReady

\* A step that gives th the record x and its run the record r.
LEMMA ThreadKept ==
    ASSUME IInv, NEW th \in Threads, NEW x \in ThreadRecords, NEW r \in RunRecords,
           thread' = [thread EXCEPT ![th] = x], SetRun(th[1], r), Queues(r),
           r.pc \notin {"hitStart", "hitFinish", "check", "reopen"},
           Mild(th), Ready(th)', RecordsStep, CellsStep,
           UNCHANGED <<gpuTasks, runs, harmed>>, alive' \subseteq Pids,
           value' \in [Keys -> Cells], index' \in [Keys -> Payloads \cup {Absent}],
           keyLock' \in [Keys -> Threads \cup {Free}], gpuLock' \in Scheds \cup {Free}
    PROVE  Kept
<1>1. th[1] \in Scheds /\ Typed
  BY ThreadParts DEF IInv
<1>2. /\ run' \in [Scheds -> RunRecords] /\ run'[th[1]] = r
      /\ \A s \in Scheds : s # th[1] => run'[s] = run[s]
  BY <1>1, SetRunTyped
<1>3. Typed'
  BY <1>1, <1>2 DEF Typed
<1>4. \A o \in Threads : Ready(o)'
  BY <1>2, OthersKept
<1>5. ASSUME NEW s \in Scheds PROVE Main(s)'
  <2>1. CASE s = th[1]
    BY <1>1, <1>2, <2>1, MainRests
  <2>2. CASE s # th[1]
    BY <1>1, <1>2, <2>2, MainStays DEF IInv
  <2> QED BY <2>1, <2>2
<1> QED BY <1>3, <1>4, <1>5 DEF Kept

\* Records, locks and cells as they are.
LEMMA SharedSame ==
    ASSUME IInv
    PROVE  /\ alive \subseteq Pids /\ value \in [Keys -> Cells]
           /\ index \in [Keys -> Payloads \cup {Absent}]
           /\ keyLock \in [Keys -> Threads \cup {Free}] /\ gpuLock \in Scheds \cup {Free}
           /\ \A s \in Scheds : run[s] \in RunRecords /\ Queues(run[s])
           /\ \A th \in Threads : thread[th] \in ThreadRecords /\ Ready(th) /\ th[1] \in Scheds
           /\ StateInv /\ Typed
  BY ThreadParts DEF IInv, Typed, Main

Calm == UNCHANGED <<alive, value, index, keyLock, gpuLock, tasks, gpuTasks, runs, harmed>>

LEMMA CalmKept ==
    ASSUME IInv, Calm
    PROVE  /\ RecordsStep /\ CellsStep /\ alive' \subseteq Pids /\ value' \in [Keys -> Cells]
           /\ index' \in [Keys -> Payloads \cup {Absent}]
           /\ keyLock' \in [Keys -> Threads \cup {Free}] /\ gpuLock' \in Scheds \cup {Free}
           /\ UNCHANGED <<gpuTasks, runs, harmed>>
  BY SharedSame, SameRecords, SameCells DEF Calm

LEMMA SubmitKept ==
    ASSUME IInv, NEW s \in Scheds, Submit(s)
    PROVE  Kept
<1>1. Calm /\ run[s].pc = "submit"
  BY DEF Submit, Calm, At, locks, history
<1>2. PICK n : n = IF Len(run[s].cpu) < Workers THEN Len(run[s].cpu) ELSE Workers
  OBVIOUS
<1>3. /\ run[s].cpu \in Seq(Tasks) /\ run[s] \in RunRecords /\ Queues(run[s])
      /\ n \in Nat /\ n <= Len(run[s].cpu)
  BY <1>2, ScanTask, RunFields, SchedulerAssumption
<1>4. thread' = [th \in Threads |->
              IF th[1] = s /\ th[2] <= n THEN Assigned("keyWait", run[s].cpu[th[2]])
              ELSE thread[th]]
  BY <1>2 DEF Submit
<1>5. PICK m : m = Going(run[s], "pool")
  OBVIOUS
<1>6. PICK q : q = SubSeq(run[s].cpu, n + 1, Len(run[s].cpu))
  OBVIOUS
<1>7. PICK r : r = [m EXCEPT !.cpu = q]
  OBVIOUS
<1>8. SetRun(s, r)
  <2>1. SetRun(s, [run[s] EXCEPT !.pc = "pool", !.cpu = SubSeq(@, n + 1, Len(@))])
    BY <1>2 DEF Submit
  <2>2. m.cpu = run[s].cpu
    BY <1>3, <1>5, RunGoes DEF RunSteps, Executing
  <2>3. [run[s] EXCEPT !.pc = "pool", !.cpu = SubSeq(@, n + 1, Len(@))]
          = [m EXCEPT !.cpu = SubSeq(m.cpu, n + 1, Len(m.cpu))]
    BY <1>5 DEF Going
  <2> QED BY <1>6, <1>7, <2>1, <2>2, <2>3
<1>9. /\ m \in RunRecords /\ m.pc = "pool" /\ m.gpu = run[s].gpu
  BY <1>3, <1>5, RunGoes DEF RunSteps, Executing
<1>10. q \in Seq(Tasks) /\ \A i \in 1 .. Len(q) : q[i] \notin gpuTasks
  BY <1>3, <1>6 DEF Queues
<1>11. r \in RunRecords /\ r.pc = "pool" /\ Queues(r)
  BY <1>3, <1>7, <1>9, <1>10 DEF RunRecords, Queues
<1>12. /\ run' \in [Scheds -> RunRecords] /\ run'[s] = r
       /\ \A o \in Scheds : o # s => run'[o] = run[o]
  BY <1>8, <1>11, SetRunTyped, SharedSame
<1>13. \A th \in Threads : th[1] = s => ~Active(th)
  BY <1>1, SharedSame DEF Ready
<1>14. ASSUME NEW th \in Threads
       PROVE  thread'[th] \in ThreadRecords /\ Ready(th)'
  <2>1. CASE th[1] = s /\ th[2] <= n
    <3>1. th[2] \in 1 .. Len(run[s].cpu)
      BY <1>3, <2>1, ThreadParts, SchedulerAssumption DEF Slots
    <3>2. PICK t \in Tasks : t = run[s].cpu[th[2]] /\ t \notin gpuTasks
      BY <1>3, <3>1 DEF Queues
    <3>3. thread'[th] = [pc |-> "keyWait", task |-> t, payload |-> Absent]
      BY <1>4, <2>1, <3>2 DEF Assigned
    <3>4. thread'[th] \in ThreadRecords
      BY <3>3 DEF ThreadRecords
    <3> QED
      BY <3>2, <3>3, <3>4, <1>1, <1>11, <1>12, <2>1
         DEF Ready, Active, Locked, Computes, Backed, GpuOnly, IsGpu, Calm
  <2>2. CASE ~(th[1] = s /\ th[2] <= n)
    <3>1. thread'[th] = thread[th]
      BY <1>4, <2>2
    <3>2. Active(th) => Apart(th)
      BY <1>1, <1>12, <1>13, <3>1, SharedSame DEF Apart, Calm
    <3> QED BY <1>1, <3>1, <3>2, ApartReady, SharedSame, CalmKept DEF Calm
  <2> QED BY <2>1, <2>2
<1>15. thread' \in [Threads -> ThreadRecords]
  BY <1>4, <1>14
<1>16. Typed'
  BY <1>1, <1>12, <1>15, SharedSame DEF Typed, Calm
<1>17. ASSUME NEW o \in Scheds PROVE Main(o)'
  <2>1. CASE o = s
    BY <1>1, <1>11, <1>12, <2>1, MainRests, SharedSame DEF Calm
  <2>2. CASE o # s
    BY <1>1, <1>12, <2>2, MainStays, CalmKept DEF IInv, Calm
  <2> QED BY <2>1, <2>2
<1> QED BY <1>1, <1>14, <1>16, <1>17, CalmKept DEF Kept

\* A step that assigns a task or collects an error touches no shared state.
LEMMA CalmThreadKept ==
    ASSUME IInv, Calm, NEW th \in Threads, NEW x \in ThreadRecords, NEW r \in RunRecords,
           thread' = [thread EXCEPT ![th] = x], SetRun(th[1], r), Queues(r),
           \/ r.pc = run[th[1]].pc /\ r.pc \in {"pool", "closing", "gpu"}
           \/ {run[th[1]].pc, r.pc} \subseteq {"pool", "closing"},
           Ready(th)'
    PROVE  Kept
<1>1. run'[th[1]] = r
  BY SetRunTyped, SharedSame
<1>2. Mild(th)
  BY <1>1 DEF Mild, Calm
<1>3. r.pc \notin {"hitStart", "hitFinish", "check", "reopen"}
  OBVIOUS
<1>4. UNCHANGED <<gpuTasks, runs, harmed>>
  BY DEF Calm
<1> QED BY <1>2, <1>3, <1>4, ThreadKept, CalmKept

LEMMA DispatchKept ==
    ASSUME IInv, NEW th \in Threads, Dispatch(th)
    PROVE  Kept
<1> DEFINE s == th[1]
<1>1. Calm /\ run[s].pc = "pool" /\ s \in Scheds /\ run[s].cpu # << >>
  BY ThreadParts DEF Dispatch, Calm, At, locks, history
<1>2. run[s].cpu \in Seq(Tasks) /\ run[s] \in RunRecords /\ Queues(run[s])
  BY <1>1, ScanTask, RunFields
<1>3. PICK t \in Tasks : t = Head(run[s].cpu) /\ t \notin gpuTasks
  BY <1>1, <1>2 DEF Queues
<1>4. PICK q \in Seq(Tasks) : q = Tail(run[s].cpu) /\ \A i \in 1 .. Len(q) : q[i] \notin gpuTasks
  <2>1. Tail(run[s].cpu) \in Seq(Tasks) /\ Len(Tail(run[s].cpu)) = Len(run[s].cpu) - 1
    BY <1>1, <1>2
  <2>2. \A i \in 1 .. Len(Tail(run[s].cpu)) :
            Tail(run[s].cpu)[i] = run[s].cpu[i + 1] /\ i + 1 \in 1 .. Len(run[s].cpu)
    BY <1>1, <1>2
  <2> QED BY <1>2, <2>1, <2>2 DEF Queues
<1>5. PICK r : r = [run[s] EXCEPT !.cpu = q]
  OBVIOUS
<1>6. r \in RunRecords /\ r.pc = "pool" /\ Queues(r) /\ SetRun(s, r)
  BY <1>1, <1>2, <1>4, <1>5 DEF RunRecords, Queues, Dispatch
<1>7. PICK x : x = [pc |-> "keyWait", task |-> t, payload |-> Absent]
  OBVIOUS
<1>8. x \in ThreadRecords /\ thread' = [thread EXCEPT ![th] = x]
  BY <1>3, <1>7 DEF ThreadRecords, Dispatch, Assigned
<1>9. thread'[th] = x /\ run'[s] = r
  BY <1>1, <1>6, <1>8, SharedSame, SetRunTyped DEF Typed
<1>10. Ready(th)'
  BY <1>1, <1>3, <1>6, <1>7, <1>9
     DEF Ready, Active, Locked, Computes, Backed, GpuOnly, IsGpu, Calm
<1> QED BY <1>1, <1>6, <1>8, <1>10, CalmThreadKept

LEMMA DispatchGpuKept ==
    ASSUME IInv, NEW th \in Threads, DispatchGpu(th)
    PROVE  Kept
<1> DEFINE s == th[1]
<1>1. Calm /\ run[s].pc = "gpu" /\ s \in Scheds /\ run[s].gpu # << >> /\ th[2] = 1
  BY ThreadParts DEF DispatchGpu, Calm, At, locks, history
<1>2. run[s].gpu \in Seq(Tasks) /\ run[s] \in RunRecords /\ Queues(run[s])
  BY <1>1, ScanTask, RunFields
<1>3. PICK t \in Tasks : t = Head(run[s].gpu) /\ t \in gpuTasks
  BY <1>1, <1>2 DEF Queues
<1>4. PICK q \in Seq(Tasks) : q = Tail(run[s].gpu) /\ \A i \in 1 .. Len(q) : q[i] \in gpuTasks
  <2>1. Tail(run[s].gpu) \in Seq(Tasks) /\ Len(Tail(run[s].gpu)) = Len(run[s].gpu) - 1
    BY <1>1, <1>2
  <2>2. \A i \in 1 .. Len(Tail(run[s].gpu)) :
            Tail(run[s].gpu)[i] = run[s].gpu[i + 1] /\ i + 1 \in 1 .. Len(run[s].gpu)
    BY <1>1, <1>2
  <2> QED BY <1>2, <2>1, <2>2 DEF Queues
<1>5. PICK r : r = [run[s] EXCEPT !.gpu = q]
  OBVIOUS
<1>6. r \in RunRecords /\ r.pc = "gpu" /\ Queues(r) /\ SetRun(s, r)
  BY <1>1, <1>2, <1>4, <1>5 DEF RunRecords, Queues, DispatchGpu
<1>7. PICK x : x = [pc |-> "gpuWait", task |-> t, payload |-> Absent]
  OBVIOUS
<1>8. x \in ThreadRecords /\ thread' = [thread EXCEPT ![th] = x]
  BY <1>3, <1>7 DEF ThreadRecords, DispatchGpu, Assigned
<1>9. thread'[th] = x /\ run'[s] = r
  BY <1>1, <1>6, <1>8, SharedSame, SetRunTyped DEF Typed
<1>10. Ready(th)'
  BY <1>1, <1>3, <1>6, <1>7, <1>9
     DEF Ready, Active, Locked, Computes, Backed, InGpu, IsGpu, Calm
<1> QED BY <1>1, <1>6, <1>8, <1>10, CalmThreadKept

LEMMA CollectRaisedKept ==
    ASSUME IInv, NEW th \in Threads, CollectRaised(th)
    PROVE  Kept
<1>1. /\ Calm /\ run[th[1]].pc \in {"pool", "closing"} /\ th[1] \in Scheds
      /\ thread' = [thread EXCEPT ![th] = IdleThread] /\ Goto(th[1], "closing")
  BY ThreadParts DEF CollectRaised, Calm, locks, history
<1>2. PICK r : r = Going(run[th[1]], "closing")
  OBVIOUS
<1>3. r \in RunRecords /\ r.pc = "closing" /\ Queues(r) /\ SetRun(th[1], r)
  BY <1>1, <1>2, RunGoing, GotoIs DEF RunSteps, Executing
<1>4. IdleThread \in ThreadRecords
  BY DEF IdleThread, ThreadRecords
<1>5. Ready(th)'
  BY <1>1, SharedSame DEF Ready, Active, IdleThread, Typed
<1> QED BY <1>1, <1>3, <1>4, <1>5, CalmThreadKept

\* The pool is gone, or the run returns.
LEMMA PoolClosedKept ==
    ASSUME IInv, NEW s \in Scheds, PoolClosed(s) \/ Finish(s)
    PROVE  Kept
<1>1. Calm /\ thread' = thread
  BY DEF PoolClosed, Finish, Calm, locks, history
<1>2. Quiet(s)
  <2>1. ASSUME NEW th \in Threads, th[1] = s PROVE ~Active(th)
    <3>1. CASE PoolClosed(s)
      BY <2>1, <3>1, ThreadParts DEF PoolClosed, OfRun, On, Active
    <3>2. CASE Finish(s)
      BY <2>1, <3>2, ThreadParts, SharedSame DEF Finish, On, At, Ready, Active
    <3> QED BY <3>1, <3>2
  <2> QED BY <2>1 DEF Quiet
<1>3. PICK pc \in {"raised", "gpu", "done"} : Goto(s, pc)
  BY DEF PoolClosed, Finish
<1>4. PICK r : r = Going(run[s], pc)
  OBVIOUS
<1>5. pc \in RunSteps
  BY <1>3 DEF RunSteps, Resting, Executing
<1>6. r \in RunRecords /\ r.pc = pc /\ Queues(r) /\ SetRun(s, r)
  BY <1>3, <1>4, <1>5, RunGoing, GotoIs
<1>7. Seen(r) /\ Still
  BY <1>1, <1>3, <1>6 DEF Seen, Still, Calm
<1> QED BY <1>1, <1>2, <1>6, <1>7, CalmKept, QuietKept DEF Calm

LEMMA MainStepKept ==
    ASSUME IInv, NEW s \in Scheds, MainStep(s)
    PROVE  Kept
<1>1. \A th \in OfRun(s) : th \in Threads
  BY DEF OfRun, Threads
<1> QED
  BY <1>1, SubmitKept, DispatchKept, DispatchGpuKept, CollectRaisedKept, PoolClosedKept
     DEF MainStep
-------------------------------------------------------------------------------
(* A thread and its task.                                                  *)

LEMMA ThreadTask ==
    ASSUME IInv, NEW th \in Threads, Active(th)
    PROVE  /\ thread[th].task \in Tasks /\ KeyFor(th) = KeyOf[thread[th].task]
           /\ KeyFor(th) \in Keys /\ th[1] \in Pids /\ th[1] \in Scheds
           /\ run[th[1]].pc \in {"pool", "closing", "gpu"}
  BY ThreadParts, PidKinds, SchedulerAssumption DEF IInv, Ready, KeyFor

\* What a step that keeps the run of th leaves of it.
RunSame == run' = run

LEMMA SetSame ==
    ASSUME IInv, RunSame, NEW th \in Threads
    PROVE  SetRun(th[1], run[th[1]])
  BY SharedSame DEF SetRun, RunSame, Typed

\* A step under a lock, or towards one: x is the new record of th.
LEMMA GoesOn ==
    ASSUME IInv, NEW th \in Threads, Active(th), NEW x \in ThreadRecords,
           thread' = [thread EXCEPT ![th] = x], RunSame, Mild(th),
           RecordsStep, CellsStep, UNCHANGED <<gpuTasks, runs, harmed>>, alive' \subseteq Pids,
           value' \in [Keys -> Cells], index' \in [Keys -> Payloads \cup {Absent}],
           keyLock' \in [Keys -> Threads \cup {Free}], gpuLock' \in Scheds \cup {Free},
           x.task = thread[th].task,
           x.pc \in Locked => keyLock'[KeyFor(th)] = th,
           x.pc \in Computes => value'[KeyFor(th)] = Absent,
           x.pc = "publish" => x.payload \in Payloads,
           x.pc \in Backed => Vouched(KeyFor(th), x.payload)',
           x.pc \in GpuOnly => IsGpu(th),
           IsGpu(th) /\ x.pc \in InGpu => gpuLock' = th[1]
    PROVE  Kept
<1>1. thread'[th] = x /\ Ready(th)
  BY SharedSame DEF Typed
<1>2. KeyFor(th)' = KeyFor(th) /\ (IsGpu(th)' <=> IsGpu(th))
  BY <1>1 DEF KeyFor, IsGpu
<1>3. x.pc \in Backed => Vouched(KeyFor(th), thread[th].payload)'
  BY <1>1, <1>2 DEF Vouched
<1>4. Ready(th)'
  BY <1>1, <1>2, <1>3 DEF Ready, RunSame
<1>5. run[th[1]].pc \in {"pool", "closing", "gpu"} /\ run[th[1]] \in RunRecords /\ Queues(run[th[1]])
  BY ThreadTask, SharedSame
<1> QED BY <1>4, <1>5, SetSame, ThreadKept

LEMMA StepIs ==
    ASSUME NEW th, NEW pc, Step(th, pc), thread \in [Threads -> ThreadRecords], th \in Threads
    PROVE  thread' = [thread EXCEPT ![th] = Going(thread[th], pc)]
  BY DEF Step, Going

\* A step to another place; the locks stay, or th has taken one.
LEMMA StepKept ==
    ASSUME IInv, NEW th \in Threads, Active(th), NEW pc \in ThreadSteps, Step(th, pc),
           RunSame, Mild(th),
           RecordsStep, CellsStep, UNCHANGED <<gpuTasks, runs, harmed>>, alive' \subseteq Pids,
           value' \in [Keys -> Cells], index' \in [Keys -> Payloads \cup {Absent}],
           keyLock' \in [Keys -> Threads \cup {Free}], gpuLock' \in Scheds \cup {Free},
           pc \in Locked => keyLock'[KeyFor(th)] = th,
           pc \in Computes => value'[KeyFor(th)] = Absent,
           pc = "publish" => thread[th].payload \in Payloads,
           pc \in Backed => Vouched(KeyFor(th), thread[th].payload),
           pc \in GpuOnly => IsGpu(th),
           IsGpu(th) /\ pc \in InGpu => gpuLock' = th[1]
    PROVE  Kept
<1>1. PICK x : x = Going(thread[th], pc)
  OBVIOUS
<1>2. /\ x \in ThreadRecords /\ x.pc = pc /\ x.task = thread[th].task
      /\ x.payload = thread[th].payload
  BY <1>1, ThreadGoes, SharedSame
<1>3. thread' = [thread EXCEPT ![th] = x]
  BY <1>1, StepIs, SharedSame DEF Typed
<1>4. x.pc \in Backed => Vouched(KeyFor(th), x.payload)'
  <2>1. PICK k, p : k \in Keys /\ k = KeyFor(th) /\ p = thread[th].payload
    BY ThreadTask
  <2>2. x.pc \in Backed => Vouched(k, p)'
    BY <1>2, <2>1, VouchedStays
  <2>3. KeyFor(th)' = KeyFor(th)
    BY <1>2, <1>3, SharedSame DEF KeyFor, Typed
  <2> QED BY <1>2, <2>1, <2>2, <2>3 DEF Vouched
<1> QED BY <1>2, <1>3, <1>4, GoesOn

\* The task is over: the thread is idle and has given back its locks.
LEMMA EndKept ==
    ASSUME IInv, NEW th \in Threads, Active(th), NEW r \in RunRecords, End(th, r),
           Queues(r), r.pc = run[th[1]].pc \/ (r.pc = "raised" /\ run[th[1]].pc = "gpu"),
           RecordsStep, UNCHANGED <<alive, value, gpuTasks, runs, harmed>>,
           index' \in [Keys -> Payloads \cup {Absent}]
    PROVE  Kept
<1>1. /\ thread' = [thread EXCEPT ![th] = IdleThread] /\ SetRun(th[1], r)
      /\ keyLock' = [k \in Keys |-> IF keyLock[k] = th THEN Free ELSE keyLock[k]]
      /\ gpuLock' = IF gpuLock = th[1] THEN Free ELSE gpuLock
  BY DEF End, Unlocked
<1>2. IdleThread \in ThreadRecords
  BY DEF IdleThread, ThreadRecords
<1>3. run'[th[1]] = r /\ run[th[1]].pc \in {"pool", "closing", "gpu"}
  BY <1>1, SharedSame, SetRunTyped, ThreadTask
<1>4. Mild(th)
  BY <1>1, <1>3 DEF Mild
<1>5. Ready(th)'
  BY <1>1, SharedSame DEF Ready, Active, IdleThread, Typed
<1>6. /\ alive' \subseteq Pids /\ value' \in [Keys -> Cells] /\ CellsStep
      /\ keyLock' \in [Keys -> Threads \cup {Free}] /\ gpuLock' \in Scheds \cup {Free}
  BY <1>1, SharedSame, SameCells
<1>7. r.pc \notin {"hitStart", "hitFinish", "check", "reopen"}
  BY <1>3
<1> QED BY <1>1, <1>2, <1>4, <1>5, <1>6, <1>7, ThreadKept

LEMMA EndUncountedKept ==
    ASSUME IInv, NEW th \in Threads, Active(th), EndUncounted(th),
           RecordsStep, UNCHANGED <<alive, value, index, gpuTasks, runs, harmed>>
    PROVE  Kept
<1>1. run[th[1]] \in RunRecords /\ Queues(run[th[1]]) /\ index' \in [Keys -> Payloads \cup {Absent}]
  BY SharedSame
<1>2. End(th, run[th[1]])
  BY DEF EndUncounted
<1> QED BY <1>1, <1>2, EndKept

\* An exception under the identity lock.
LEMMA FallKept ==
    ASSUME IInv, NEW th \in Threads, thread[th].pc \in Locked, Fall(th), RecordsStep,
           UNCHANGED <<alive, gpuTasks, runs, harmed>>, CellsStep,
           value' \in [Keys -> Cells], index' \in [Keys -> Payloads \cup {Absent}],
           \A k \in Keys : value[k] = Absent => value'[k] = Absent \/ keyLock[k] = th
    PROVE  Kept
<1>1. /\ Step(th, "error") /\ RunSame /\ gpuLock' = gpuLock
      /\ keyLock' = [k \in Keys |-> IF keyLock[k] = th THEN Free ELSE keyLock[k]]
  BY DEF Fall, Unlocked, RunSame
<1>2. Active(th) /\ "error" \in ThreadSteps
  BY DEF Active, Locked, ThreadSteps
<1>3. Mild(th)
  BY <1>1 DEF Mild, RunSame
<1>4. /\ keyLock' \in [Keys -> Threads \cup {Free}] /\ gpuLock' \in Scheds \cup {Free}
      /\ alive' \subseteq Pids
  BY <1>1, SharedSame
<1>5. IsGpu(th) => gpuLock' = th[1]
  BY <1>1, <1>2, SharedSame DEF Ready, InGpu
<1>6. "error" \notin Locked \cup Computes \cup Backed \cup GpuOnly \cup {"publish"}
  BY DEF Locked, Computes, Backed, GpuOnly
<1> QED BY <1>1, <1>2, <1>3, <1>4, <1>5, <1>6, StepKept

\* transition() by a thread.
LEMMA MoveStep ==
    ASSUME IInv, NEW th \in Threads, Active(th), NEW to \in Status,
           NEW artifact \in Artifacts \cup {None}, Move(th, to, artifact),
           to = "COMPLETE" => Vouched(KeyFor(th), artifact)
    PROVE  RecordsStep
<1>1. "ORDINARY" \in Reasons /\ "ORDINARY" # "INVALID_CACHE_ARTIFACT"
  BY DEF Reasons
<1>2. /\ Accepts(tasks[thread[th].task], to, "ORDINARY", artifact)
      /\ tasks' = [tasks EXCEPT ![thread[th].task] = Moved(@, to, th[1], artifact)]
  BY DEF Move, CanMove
<1> QED BY <1>1, <1>2, ThreadTask, MoveRecords, SharedSame
-------------------------------------------------------------------------------
(* The thread, step by step.                                               *)

\* What most steps leave alone.
Shared == UNCHANGED <<index, run, runs, gpuTasks, harmed>>

LEMMA ThreadPlaces ==
    /\ Locked \subseteq ThreadSteps /\ Computes \subseteq Locked /\ Backed \subseteq Locked
    /\ Locked \subseteq InGpu /\ GpuOnly \cap InGpu = {} /\ GpuOnly \subseteq ThreadSteps
    /\ InGpu \subseteq ThreadSteps /\ "publish" \in Computes
    /\ Computes \cap Backed = {}
  BY DEF Locked, ThreadSteps, Computes, Backed, InGpu, GpuOnly

\* A step on the way to the lock, or among the handlers.
LEMMA WaitKept ==
    ASSUME IInv, NEW th \in Threads, Active(th), NEW pc \in ThreadSteps \ Locked, Step(th, pc),
           Shared, UNCHANGED <<tasks, alive, value, keyLock>>,
           gpuLock' = gpuLock \/ gpuLock = Free \/ gpuLock = th[1],
           gpuLock' \in Scheds \cup {Free},
           pc \in GpuOnly => IsGpu(th),
           IsGpu(th) /\ pc \in InGpu => gpuLock' = th[1]
    PROVE  Kept
<1>1. /\ RunSame /\ Mild(th) /\ RecordsStep /\ CellsStep /\ alive' \subseteq Pids
      /\ value' \in [Keys -> Cells] /\ index' \in [Keys -> Payloads \cup {Absent}]
      /\ keyLock' \in [Keys -> Threads \cup {Free}] /\ UNCHANGED <<gpuTasks, runs, harmed>>
  BY SharedSame, SameRecords, SameCells DEF RunSame, Mild, Shared
<1>2. pc \notin Computes \cup Backed \cup {"publish"}
  BY ThreadPlaces
<1> QED BY <1>1, <1>2, StepKept

\* A step under the identity lock that keeps locks and cells.
LEMMA LockedKept ==
    ASSUME IInv, NEW th \in Threads, thread[th].pc \in Locked, NEW pc \in Locked,
           Step(th, pc), RunSame, RecordsStep,
           UNCHANGED <<value, keyLock, gpuLock, gpuTasks, runs, harmed>>,
           alive' \subseteq Pids, index' \in [Keys -> Payloads \cup {Absent}],
           pc \in Computes => thread[th].pc \in Computes,
           pc # "publish",
           pc \in Backed => Vouched(KeyFor(th), thread[th].payload)
    PROVE  Kept
<1>1. Active(th) /\ pc \in ThreadSteps /\ pc \notin GpuOnly
  BY ThreadPlaces DEF Active, Locked
<1>2. /\ Mild(th) /\ CellsStep /\ value' \in [Keys -> Cells]
      /\ keyLock' \in [Keys -> Threads \cup {Free}] /\ gpuLock' \in Scheds \cup {Free}
      /\ UNCHANGED <<gpuTasks, runs, harmed>>
  BY SharedSame, SameCells DEF RunSame, Mild
<1>3. /\ keyLock'[KeyFor(th)] = th
      /\ pc \in Computes => value'[KeyFor(th)] = Absent
      /\ IsGpu(th) => gpuLock' = th[1]
  BY <1>1, SharedSame, ThreadPlaces DEF Ready
<1> QED BY <1>1, <1>2, <1>3, StepKept

LEMMA GpuLockKept ==
    ASSUME IInv, NEW th \in Threads, GpuAcquire(th) \/ GpuTimeout(th)
    PROVE  Kept
<1>1. /\ Active(th) /\ Shared /\ UNCHANGED <<tasks, alive, value, keyLock>>
      /\ IsGpu(th) /\ th[1] \in Scheds
  BY SharedSame DEF GpuAcquire, GpuTimeout, On, Active, Shared, locks, history, Ready, GpuOnly
<1>2. CASE GpuAcquire(th)
  BY <1>1, <1>2, WaitKept DEF GpuAcquire, ThreadSteps, Locked, GpuOnly
<1>3. CASE GpuTimeout(th)
  <2>1. Step(th, "gpuError") /\ gpuLock' = gpuLock
    BY <1>3 DEF GpuTimeout, locks
  <2>2. "gpuError" \in ThreadSteps \ Locked /\ "gpuError" \notin InGpu
    BY DEF ThreadSteps, Locked, InGpu
  <2> QED BY <1>1, <2>1, <2>2, WaitKept, SharedSame
<1> QED BY <1>2, <1>3

LEMMA KeyLockKept ==
    ASSUME IInv, NEW th \in Threads, KeyAcquire(th) \/ KeyTimeout(th)
    PROVE  Kept
<1>1. /\ Active(th) /\ Shared /\ UNCHANGED <<tasks, alive, value, gpuLock>>
      /\ IsGpu(th) => gpuLock = th[1]
  BY SharedSame
     DEF KeyAcquire, KeyTimeout, On, Active, Shared, locks, history, Ready, InGpu
<1>2. CASE KeyAcquire(th)
  <2>1. /\ keyLock[KeyFor(th)] = Free /\ Step(th, "recheck")
        /\ keyLock' = [keyLock EXCEPT ![KeyFor(th)] = th]
    BY <1>2 DEF KeyAcquire
  <2>2. /\ keyLock' \in [Keys -> Threads \cup {Free}] /\ keyLock'[KeyFor(th)] = th
        /\ \A k \in Keys : keyLock'[k] = keyLock[k] \/ keyLock[k] = Free
    BY <1>1, <2>1, ThreadTask, SharedSame
  <2>3. /\ RunSame /\ Mild(th) /\ RecordsStep /\ CellsStep /\ alive' \subseteq Pids
        /\ value' \in [Keys -> Cells] /\ index' \in [Keys -> Payloads \cup {Absent}]
        /\ gpuLock' \in Scheds \cup {Free} /\ UNCHANGED <<gpuTasks, runs, harmed>>
    BY <1>1, <2>2, SharedSame, SameRecords, SameCells DEF RunSame, Mild, Shared
  <2>4. /\ "recheck" \in ThreadSteps
        /\ "recheck" \notin Computes \cup Backed \cup GpuOnly \cup {"publish"}
    BY DEF ThreadSteps, Locked, Computes, Backed, GpuOnly
  <2> QED BY <1>1, <2>1, <2>2, <2>3, <2>4, StepKept
<1>3. CASE KeyTimeout(th)
  <2>1. Step(th, "error") /\ keyLock' = keyLock
    BY <1>3 DEF KeyTimeout, locks
  <2>2. "error" \in ThreadSteps \ Locked /\ "error" \notin GpuOnly
    BY DEF ThreadSteps, Locked, GpuOnly
  <2> QED BY <1>1, <2>1, <2>2, WaitKept, SharedSame
<1> QED BY <1>2, <1>3

\* The cell of the identity th has locked changes.
LEMMA OwnCell ==
    ASSUME IInv, NEW th \in Threads, thread[th].pc \in Locked, UNCHANGED harmed,
           Quarantine(KeyFor(th)) \/ \E p \in Payloads : Publish(KeyFor(th), p)
    PROVE  /\ CellsStep /\ value' \in [Keys -> Cells]
           /\ \A k \in Keys : value[k] = Absent => value'[k] = Absent \/ keyLock[k] = th
<1>1. KeyFor(th) \in Keys /\ keyLock[KeyFor(th)] = th /\ value \in [Keys -> Cells]
  BY ThreadTask, SharedSame DEF Active, Locked, Ready
<1>2. CASE Quarantine(KeyFor(th))
  BY <1>1, <1>2, RegisterAssumption DEF Quarantine, CellsStep, Cells
<1>3. ASSUME NEW p \in Payloads, Publish(KeyFor(th), p)
      PROVE  /\ CellsStep /\ value' \in [Keys -> Cells]
             /\ \A k \in Keys : value[k] = Absent => value'[k] = Absent \/ keyLock[k] = th
  BY <1>1, <1>3, RegisterAssumption DEF Publish, CellsStep, Cells
<1> QED BY <1>2, <1>3

LEMMA RecheckKept ==
    ASSUME IInv, NEW th \in Threads, Recheck(th)
    PROVE  Kept
<1> DEFINE k == KeyFor(th)
<1>1. /\ thread[th].pc = "recheck" /\ Shared /\ RunSame
      /\ UNCHANGED <<tasks, alive, keyLock, gpuLock, gpuTasks, runs, harmed>>
      /\ thread[th].pc \in Locked
  BY DEF Recheck, On, Shared, locks, history, RunSame, Locked
<1>2. Active(th) /\ k \in Keys /\ keyLock[k] = th /\ (IsGpu(th) => gpuLock = th[1])
  BY <1>1, ThreadTask, SharedSame, ThreadPlaces DEF Active, Ready
<1>3. /\ RecordsStep /\ alive' \subseteq Pids /\ index' \in [Keys -> Payloads \cup {Absent}]
      /\ keyLock' \in [Keys -> Threads \cup {Free}] /\ gpuLock' \in Scheds \cup {Free}
  BY <1>1, SharedSame, SameRecords DEF Shared
<1>4. CASE /\ value[k] \in Payloads /\ UNCHANGED value
           /\ thread' = [thread EXCEPT ![th] = [@ EXCEPT !.pc = "hit", !.payload = value[k]]]
  <2>1. PICK p \in Payloads : p = value[k]
    BY <1>4
  <2>2. PICK m : m = Going(thread[th], "hit")
    OBVIOUS
  <2>3. PICK x : x = Bearing(m, p)
    OBVIOUS
  <2>4. x \in ThreadRecords /\ x.pc = "hit" /\ x.task = thread[th].task /\ x.payload = p
    <3>1. "hit" \in ThreadSteps
      BY ThreadPlaces DEF Backed
    <3>2. m \in ThreadRecords /\ m.pc = "hit" /\ m.task = thread[th].task
      BY <2>2, <3>1, ThreadGoes, SharedSame
    <3> QED BY <2>3, <3>2, ThreadBears
  <2>5. thread' = [thread EXCEPT ![th] = x]
    <3>1. x = [thread[th] EXCEPT !.pc = "hit", !.payload = value[k]]
      BY <2>1, <2>2, <2>3 DEF Going, Bearing
    <3> QED BY <1>4, <3>1
  <2>6. Mild(th) /\ CellsStep /\ value' \in [Keys -> Cells]
    BY <1>1, <1>4, SameCells, SharedSame DEF Mild, RunSame
  <2>7. Vouched(k, x.payload)'
    <3>1. KeyFor(th)' = KeyFor(th)
      BY <2>4, <2>5, SharedSame DEF KeyFor, Typed
    <3> QED BY <1>4, <2>1, <2>4, <3>1 DEF Vouched
  <2>8. "hit" \notin Computes \cup GpuOnly \cup {"publish"}
    BY DEF Computes, GpuOnly
  <2> QED BY <1>1, <1>2, <1>3, <2>4, <2>5, <2>6, <2>7, <2>8, GoesOn
<1>5. CASE Step(th, "launch") /\ value'[k] = Absent /\ Mild(th) /\ CellsStep
           /\ value' \in [Keys -> Cells]
  <2>1. "launch" \in ThreadSteps /\ "launch" \notin Backed \cup GpuOnly \cup {"publish"}
    BY DEF ThreadSteps, Locked, Backed, GpuOnly
  <2> QED BY <1>1, <1>2, <1>3, <1>5, <2>1, StepKept
<1>6. CASE Quarantine(k) /\ Step(th, "launch")
  <2>1. /\ CellsStep /\ value' \in [Keys -> Cells]
        /\ \A j \in Keys : value[j] = Absent => value'[j] = Absent \/ keyLock[j] = th
    BY <1>1, <1>6, OwnCell
  <2>2. Mild(th) /\ value'[k] = Absent
    BY <1>1, <1>2, <1>6, <2>1, SharedSame DEF Mild, RunSame, Quarantine
  <2> QED BY <1>5, <1>6, <2>1, <2>2
<1>7. CASE value[k] = Absent /\ Step(th, "launch") /\ UNCHANGED value
  BY <1>1, <1>5, <1>7, SameCells, SharedSame DEF Mild, RunSame
<1> QED BY <1>4, <1>6, <1>7 DEF Recheck

\* What may follow a refused move: the exception.
LEMMA RefusedKept ==
    ASSUME IInv, NEW th \in Threads, thread[th].pc \in Locked, Fall(th), UNCHANGED tasks,
           UNCHANGED <<alive, value, index, gpuTasks, runs, harmed>>
    PROVE  Kept
<1>1. /\ RecordsStep /\ CellsStep /\ value' \in [Keys -> Cells]
      /\ index' \in [Keys -> Payloads \cup {Absent}]
  BY SharedSame, SameRecords, SameCells
<1> QED BY <1>1, FallKept

LEMMA CompleteHitKept ==
    ASSUME IInv, NEW th \in Threads, CompleteHit(th)
    PROVE  Kept
<1>1. /\ thread[th].pc = "hit" /\ thread[th].pc \in Locked /\ Active(th)
      /\ UNCHANGED <<alive, value, index, gpuTasks, runs, harmed>>
  BY DEF CompleteHit, On, Locked, Active, history
<1>2. Vouched(KeyFor(th), thread[th].payload) /\ thread[th].payload \in Artifacts
  BY <1>1, SharedSame, SchedulerAssumption DEF Ready, Backed, Vouched
<1>3. CASE /\ Move(th, "COMPLETE", thread[th].payload) /\ Step(th, "hitIndex")
           /\ UNCHANGED <<locks, run>>
  <2>1. RecordsStep
    BY <1>1, <1>2, <1>3, MoveStep, StatusReasons
  <2>2. "hitIndex" \in Locked /\ "hitIndex" \notin Computes
    BY DEF Locked, Computes
  <2> QED BY <1>1, <1>2, <1>3, <2>1, <2>2, LockedKept, SharedSame DEF RunSame, locks
<1>4. CASE Fall(th) /\ UNCHANGED tasks
  BY <1>1, <1>4, RefusedKept
<1> QED BY <1>3, <1>4 DEF CompleteHit

LEMMA AddTyped ==
    ASSUME IInv, NEW th \in Threads, Active(th), AddToIndex(th)
    PROVE  index' \in [Keys -> Payloads \cup {Absent}]
<1>1. thread[th].payload \in Payloads \cup {Absent}
  BY SharedSame DEF ThreadRecords
<1> QED BY <1>1, ThreadTask, SharedSame DEF AddToIndex

LEMMA IndexHitKept ==
    ASSUME IInv, NEW th \in Threads, IndexHit(th)
    PROVE  Kept
<1>1. PICK r : r = [run[th[1]] EXCEPT !.hits = @ \cup {thread[th].task}]
  OBVIOUS
<1>2. /\ Active(th) /\ AddToIndex(th) /\ End(th, r) /\ UNCHANGED tasks
      /\ UNCHANGED <<alive, value, gpuTasks, runs, harmed>>
  BY <1>1 DEF IndexHit, On, Active, history
<1>3. r \in RunRecords /\ Queues(r) /\ r.pc = run[th[1]].pc
  BY <1>1, <1>2, SharedSame, ThreadTask, RunCounts
<1>4. RecordsStep /\ index' \in [Keys -> Payloads \cup {Absent}]
  BY <1>2, AddTyped, SameRecords, SharedSame
<1> QED BY <1>2, <1>3, <1>4, EndKept

LEMMA GpuRefusedKept ==
    ASSUME IInv, NEW th \in Threads, GpuRefused(th)
    PROVE  Kept
<1>1. /\ thread[th].pc \in Locked /\ Active(th)
      /\ UNCHANGED <<alive, value, index, gpuTasks, runs, harmed>>
  BY DEF GpuRefused, On, Locked, Active, history
<1>2. CASE Move(th, "BLOCKED", None) /\ EndUncounted(th)
  BY <1>1, <1>2, MoveStep, EndUncountedKept, StatusReasons
<1>3. CASE Fall(th) /\ UNCHANGED tasks
  BY <1>1, <1>3, RefusedKept
<1> QED BY <1>2, <1>3 DEF GpuRefused

LEMMA LaunchKept ==
    ASSUME IInv, NEW th \in Threads, Launch(th)
    PROVE  Kept
<1>1. /\ thread[th].pc = "launch" /\ Step(th, "started") /\ alive' = alive \cup {th}
      /\ UNCHANGED <<tasks, value, index, keyLock, gpuLock, run, gpuTasks, runs, harmed>>
  BY DEF Launch, On, locks, history
<1>2. /\ {"launch", "started"} \subseteq Locked \cap Computes
      /\ "started" \notin Backed
  BY DEF Locked, Computes, Backed
<1>3. RecordsStep /\ alive' \subseteq Pids /\ index' \in [Keys -> Payloads \cup {Absent}]
  BY <1>1, SharedSame, SameRecords, PidKinds
<1> QED BY <1>1, <1>2, <1>3, LockedKept DEF RunSame

\* The monitor gives up on the worker, or hands its failure on.
LEMMA FailsKept ==
    ASSUME IInv, NEW th \in Threads, thread[th].pc \in Locked, Step(th, "fail"),
           alive' = alive \ {th},
           UNCHANGED <<tasks, value, index, keyLock, gpuLock, run, gpuTasks, runs, harmed>>
    PROVE  Kept
<1>1. "fail" \in Locked /\ "fail" \notin Computes \cup Backed
  BY DEF Locked, Computes, Backed
<1>2. RecordsStep /\ alive' \subseteq Pids /\ index' \in [Keys -> Payloads \cup {Absent}]
  BY SharedSame, SameRecords
<1> QED BY <1>1, <1>2, LockedKept DEF RunSame

LEMMA RecordWorkerKept ==
    ASSUME IInv, NEW th \in Threads, RecordWorker(th)
    PROVE  Kept
<1> DEFINE t == thread[th].task
<1>1. /\ thread[th].pc = "started" /\ thread[th].pc \in Locked /\ Active(th)
      /\ UNCHANGED <<value, index, keyLock, gpuLock, run, gpuTasks, runs, harmed>>
  BY DEF RecordWorker, On, locks, history, Locked, Active
<1>2. CASE /\ IsRunning(tasks[t]) /\ tasks' = [tasks EXCEPT ![t] = WithWorker(@, th)]
           /\ Step(th, "watching") /\ UNCHANGED alive
  <2>1. t \in Tasks /\ tasks[t] \in Records /\ th \in Pids
    BY <1>1, ThreadTask, PidKinds, SharedSame DEF StateInv, TaskStateTypeOK
  <2>2. PICK a : a = [Last(tasks[t]) EXCEPT !.worker = th]
    OBVIOUS
  <2>3. a \in Attempts /\ a.state = Last(tasks[t]).state
    BY <1>2, <2>1, <2>2, TouchesKeepState
  <2>4. tasks' = [tasks EXCEPT ![t] = Touched(@, a)]
    BY <1>2, <2>2 DEF WithWorker
  <2>5. RecordsStep
    BY <1>2, <2>1, <2>3, <2>4, TouchRecords, SharedSame
  <2>6. /\ "watching" \in Locked \cap Computes /\ "watching" \notin Backed
        /\ "started" \in Computes
    BY DEF Locked, Computes, Backed
  <2> QED BY <1>1, <1>2, <2>5, <2>6, LockedKept, SharedSame DEF RunSame
<1>3. CASE alive' = alive \ {th} /\ Step(th, "fail") /\ UNCHANGED tasks
  BY <1>1, <1>3, FailsKept
<1> QED BY <1>2, <1>3 DEF RecordWorker

LEMMA HeartbeatKept ==
    ASSUME IInv, NEW th \in Threads, Heartbeat(th)
    PROVE  Kept
<1> DEFINE t == thread[th].task
<1>1. /\ thread[th].pc = "watching" /\ thread[th].pc \in Locked /\ Active(th)
      /\ UNCHANGED <<value, index, keyLock, gpuLock, run, gpuTasks, runs, harmed>>
  BY DEF Heartbeat, On, locks, history, Locked, Active
<1>2. CASE /\ IsRunning(tasks[t]) /\ tasks' = [tasks EXCEPT ![t] = Beaten(@)]
           /\ UNCHANGED <<alive, thread>>
  <2>1. t \in Tasks /\ tasks[t] \in Records
    BY <1>1, ThreadTask, SharedSame DEF StateInv, TaskStateTypeOK
  <2>2. PICK a : a = [Last(tasks[t]) EXCEPT !.fresh = TRUE]
    OBVIOUS
  <2>3. a \in Attempts /\ a.state = Last(tasks[t]).state
    BY <1>2, <2>1, <2>2, LastTyped DEF Attempts
  <2>4. tasks' = [tasks EXCEPT ![t] = Touched(@, a)]
    BY <1>2, <2>2 DEF Beaten
  <2>5. RecordsStep
    BY <1>2, <2>1, <2>3, <2>4, TouchRecords, SharedSame
  <2>6. PICK x \in ThreadRecords : x = thread[th]
    BY SharedSame
  <2>7. thread' = [thread EXCEPT ![th] = x]
    BY <1>2, <2>6, SharedSame DEF Typed
  <2>8. Mild(th) /\ RunSame /\ CellsStep
    BY <1>1, SameCells DEF Mild, RunSame
  <2>9. KeyFor(th)' = KeyFor(th) /\ x.pc \notin Backed \cup GpuOnly \cup {"publish"}
    BY <1>1, <1>2, <2>6 DEF KeyFor, Backed, GpuOnly
  <2> QED
    BY <1>1, <1>2, <2>5, <2>6, <2>7, <2>8, <2>9, GoesOn, SharedSame DEF Ready, InGpu
<1>3. CASE alive' = alive \ {th} /\ Step(th, "fail") /\ UNCHANGED tasks
  BY <1>1, <1>3, FailsKept
<1> QED BY <1>2, <1>3 DEF Heartbeat

LEMMA WorkerPassesKept ==
    ASSUME IInv, NEW th \in Threads, NEW p \in Payloads, WorkerPasses(th, p)
    PROVE  Kept
<1>1. /\ thread[th].pc = "watching" /\ thread[th].pc \in Locked /\ Active(th)
      /\ UNCHANGED <<tasks, value, index, keyLock, gpuLock, run, gpuTasks, runs, harmed>>
      /\ alive' \subseteq alive
  BY DEF WorkerPasses, On, locks, history, Locked, Active
<1>2. PICK m : m = Going(thread[th], "publish")
  OBVIOUS
<1>3. PICK x : x = Bearing(m, p)
  OBVIOUS
<1>4. x \in ThreadRecords /\ x.pc = "publish" /\ x.task = thread[th].task /\ x.payload = p
  BY <1>2, <1>3, ThreadGoes, ThreadBears, SharedSame, ThreadPlaces
<1>5. thread' = [thread EXCEPT ![th] = x]
  BY <1>2, <1>3 DEF WorkerPasses, Going, Bearing
<1>6. /\ RunSame /\ Mild(th) /\ RecordsStep /\ CellsStep /\ alive' \subseteq Pids
      /\ value' \in [Keys -> Cells] /\ index' \in [Keys -> Payloads \cup {Absent}]
      /\ keyLock' \in [Keys -> Threads \cup {Free}] /\ gpuLock' \in Scheds \cup {Free}
      /\ UNCHANGED <<gpuTasks, runs, harmed>>
  BY <1>1, SharedSame, SameRecords, SameCells DEF RunSame, Mild
<1>7. "watching" \in Computes /\ "watching" \in InGpu /\ "publish" \notin Backed \cup GpuOnly
  BY DEF Computes, InGpu, Locked, Backed, GpuOnly
<1>8. /\ keyLock'[KeyFor(th)] = th /\ value'[KeyFor(th)] = Absent
      /\ IsGpu(th) => gpuLock' = th[1]
  BY <1>1, <1>7, SharedSame DEF Ready
<1> QED BY <1>1, <1>4, <1>5, <1>6, <1>7, <1>8, GoesOn

LEMMA PublishResultKept ==
    ASSUME IInv, NEW th \in Threads, PublishResult(th)
    PROVE  Kept
<1> DEFINE k == KeyFor(th)
           p == thread[th].payload
<1>1. /\ thread[th].pc = "publish" /\ thread[th].pc \in Locked /\ Active(th)
      /\ UNCHANGED <<tasks, alive, index, gpuTasks, runs, harmed>>
  BY DEF PublishResult, On, history, Locked, Active
<1>2. /\ p \in Payloads /\ k \in Keys /\ keyLock[k] = th /\ value[k] = Absent
      /\ IsGpu(th) => gpuLock = th[1]
  BY <1>1, SharedSame, ThreadTask, ThreadPlaces DEF Ready
<1>3. /\ RecordsStep /\ alive' \subseteq Pids /\ index' \in [Keys -> Payloads \cup {Absent}]
  BY <1>1, SharedSame, SameRecords
<1>4. CASE Publish(k, p)
  <2>1. /\ CellsStep /\ value' \in [Keys -> Cells]
        /\ \A j \in Keys : value[j] = Absent => value'[j] = Absent \/ keyLock[j] = th
    BY <1>1, <1>2, <1>4, OwnCell
  <2>2. CASE Step(th, "indexing") /\ UNCHANGED <<locks, run>>
    <3>1. PICK x : x = Going(thread[th], "indexing")
      OBVIOUS
    <3>2. /\ x \in ThreadRecords /\ x.pc = "indexing" /\ x.task = thread[th].task
          /\ x.payload = p
      BY <3>1, ThreadGoes, SharedSame, ThreadPlaces DEF Backed
    <3>3. thread' = [thread EXCEPT ![th] = x]
      BY <2>2, <3>1, StepIs, SharedSame DEF Typed
    <3>4. /\ RunSame /\ Mild(th) /\ keyLock' \in [Keys -> Threads \cup {Free}]
          /\ gpuLock' \in Scheds \cup {Free} /\ keyLock'[k] = th
          /\ IsGpu(th) => gpuLock' = th[1]
      BY <1>2, <2>1, <2>2, SharedSame DEF RunSame, Mild, locks
    <3>5. value'[k] = p
      BY <1>2, <1>4, SharedSame DEF Publish
    <3>6. KeyFor(th)' = KeyFor(th)
      BY <3>2, <3>3, SharedSame DEF KeyFor, Typed
    <3>7. Vouched(k, x.payload)'
      BY <1>2, <3>2, <3>5, <3>6 DEF Vouched
    <3>8. "indexing" \notin Computes \cup GpuOnly \cup {"publish"}
      BY DEF Computes, GpuOnly
    <3> QED BY <1>1, <1>3, <2>1, <3>2, <3>3, <3>4, <3>7, <3>8, GoesOn
  <2>3. CASE Fall(th)
    BY <1>1, <1>3, <2>1, <2>3, FallKept
  <2> QED BY <1>2, <1>4, <2>2, <2>3, RegisterAssumption DEF PublishResult
<1>5. CASE ~Publish(k, p)
  BY <1>2, <1>5, RegisterAssumption DEF PublishResult
<1> QED BY <1>4, <1>5

LEMMA IndexResultKept ==
    ASSUME IInv, NEW th \in Threads, IndexResult(th)
    PROVE  Kept
<1>1. /\ thread[th].pc = "indexing" /\ thread[th].pc \in Locked /\ Active(th)
      /\ UNCHANGED <<tasks, alive, value, keyLock, gpuLock, run, gpuTasks, runs, harmed>>
      /\ AddToIndex(th) /\ Step(th, "complete")
  BY DEF IndexResult, On, history, locks, Locked, Active
<1>2. /\ RecordsStep /\ index' \in [Keys -> Payloads \cup {Absent}] /\ alive' \subseteq Pids
      /\ Vouched(KeyFor(th), thread[th].payload)
  BY <1>1, SameRecords, AddTyped, SharedSame DEF Ready, Backed
<1>3. "complete" \in Locked /\ "complete" \notin Computes
  BY DEF Locked, Computes
<1> QED BY <1>1, <1>2, <1>3, LockedKept DEF RunSame

LEMMA CompleteKept ==
    ASSUME IInv, NEW th \in Threads, Complete(th)
    PROVE  Kept
<1>1. /\ thread[th].pc = "complete" /\ thread[th].pc \in Locked /\ Active(th)
      /\ UNCHANGED <<alive, value, index, gpuTasks, runs, harmed>>
  BY DEF Complete, On, Locked, Active, history
<1>2. Vouched(KeyFor(th), thread[th].payload) /\ thread[th].payload \in Artifacts
  BY <1>1, SharedSame, SchedulerAssumption DEF Ready, Backed, Vouched
<1>3. PICK r : r = [run[th[1]] EXCEPT !.executed = @ \cup {thread[th].task}]
  OBVIOUS
<1>4. CASE Move(th, "COMPLETE", thread[th].payload) /\ End(th, r)
  <2>1. RecordsStep
    BY <1>1, <1>2, <1>4, MoveStep, StatusReasons
  <2>2. r \in RunRecords /\ Queues(r) /\ r.pc = run[th[1]].pc
    BY <1>1, <1>3, SharedSame, ThreadTask, RunCounts
  <2> QED BY <1>1, <1>4, <2>1, <2>2, EndKept, SharedSame
<1>5. CASE Fall(th) /\ UNCHANGED tasks
  BY <1>1, <1>5, RefusedKept
<1> QED BY <1>3, <1>4, <1>5 DEF Complete

LEMMA RecordFailureKept ==
    ASSUME IInv, NEW th \in Threads, RecordFailure(th)
    PROVE  Kept
<1>1. /\ thread[th].pc \in Locked /\ Active(th)
      /\ UNCHANGED <<alive, value, index, gpuTasks, runs, harmed>>
  BY DEF RecordFailure, On, Locked, Active, history
<1>2. CASE Move(th, "FAILED", None) /\ EndUncounted(th)
  BY <1>1, <1>2, MoveStep, EndUncountedKept, StatusReasons
<1>3. CASE Fall(th) /\ UNCHANGED tasks
  BY <1>1, <1>3, RefusedKept
<1> QED BY <1>2, <1>3 DEF RecordFailure

LEMMA StepRaisesKept ==
    ASSUME IInv, NEW th \in Threads, StepRaises(th)
    PROVE  Kept
  BY RefusedKept DEF StepRaises, history

LEMMA HandlerReadsKept ==
    ASSUME IInv, NEW th \in Threads, HandlerReads(th) \/ GpuHandlerReads(th)
    PROVE  Kept
<1>1. PICK from \in {"error", "gpuError"}, to \in {"errorRunning", "gpuErrorRunning"} :
          /\ ReadAfterError(th, from, to)
          /\ from = "error" <=> to = "errorRunning"
  BY DEF HandlerReads, GpuHandlerReads
<1>2. /\ thread[th].pc = from /\ Active(th)
      /\ UNCHANGED <<tasks, alive, value, index, gpuTasks, runs, harmed>>
  BY <1>1 DEF ReadAfterError, On, Active, history
<1>3. CASE EndUncounted(th)
  BY <1>2, <1>3, EndUncountedKept, SameRecords, SharedSame
<1>4. CASE Step(th, to) /\ UNCHANGED <<locks, run>>
  <2>1. /\ to \in ThreadSteps \ Locked /\ (to \in GpuOnly <=> from \in GpuOnly)
        /\ to \in InGpu <=> from \in InGpu
    BY <1>1 DEF ThreadSteps, Locked, GpuOnly, InGpu
  <2>2. /\ to \in GpuOnly => IsGpu(th)
        /\ IsGpu(th) /\ to \in InGpu => gpuLock = th[1]
    BY <1>2, <2>1, SharedSame DEF Ready
  <2> QED BY <1>2, <1>4, <2>1, <2>2, WaitKept, SharedSame DEF Shared, locks
<1> QED BY <1>1, <1>3, <1>4 DEF ReadAfterError

LEMMA HandlerFailsKept ==
    ASSUME IInv, NEW th \in Threads, HandlerFails(th) \/ GpuHandlerBlocks(th)
    PROVE  Kept
<1>1. /\ Active(th) /\ EndUncounted(th)
      /\ Move(th, "FAILED", None) \/ Move(th, "BLOCKED", None)
      /\ UNCHANGED <<alive, value, index, gpuTasks, runs, harmed>>
  BY DEF HandlerFails, GpuHandlerBlocks, On, Active, history
<1> QED BY <1>1, MoveStep, EndUncountedKept, StatusReasons

LEMMA HandlerRaisesKept ==
    ASSUME IInv, NEW th \in Threads, HandlerRaises(th)
    PROVE  Kept
<1>1. /\ thread[th].pc \in {"error", "errorRunning"} /\ Active(th) /\ Shared
      /\ UNCHANGED <<tasks, alive, value, keyLock>>
      /\ gpuLock' = IF IsGpu(th) THEN Free ELSE gpuLock
  BY DEF HandlerRaises, On, Active, Shared, history
<1>2. IsGpu(th) => gpuLock = th[1]
  BY <1>1, SharedSame DEF Ready, InGpu
<1>3. PICK pc : Step(th, pc) /\ pc = IF IsGpu(th) THEN "gpuError" ELSE "raised"
  BY DEF HandlerRaises
<1>4. /\ pc \in ThreadSteps \ Locked /\ pc \notin InGpu /\ (pc \in GpuOnly => IsGpu(th))
  BY <1>3 DEF ThreadSteps, Locked, InGpu, GpuOnly
<1>5. gpuLock' \in Scheds \cup {Free} /\ (gpuLock' = gpuLock \/ gpuLock = th[1])
  BY <1>1, <1>2, SharedSame
<1> QED BY <1>1, <1>3, <1>4, <1>5, WaitKept

LEMMA GpuHandlerRaisesKept ==
    ASSUME IInv, NEW th \in Threads, GpuHandlerRaises(th)
    PROVE  Kept
<1>1. PICK r : r = Going(run[th[1]], "raised")
  OBVIOUS
<1>2. /\ thread[th].pc \in GpuOnly /\ Active(th) /\ End(th, r)
      /\ UNCHANGED <<tasks, alive, value, index, gpuTasks, runs, harmed>>
  BY <1>1 DEF GpuHandlerRaises, On, Active, history, GpuOnly, Going
<1>3. run[th[1]].pc = "gpu"
  BY <1>2, SharedSame DEF Ready
<1>4. r \in RunRecords /\ r.pc = "raised" /\ Queues(r)
  BY <1>1, RunGoing, SharedSame DEF RunSteps, Resting
<1> QED BY <1>2, <1>3, <1>4, EndKept, SameRecords, SharedSame

LEMMA ThreadStepKept ==
    ASSUME IInv, NEW th \in Threads,
           ThreadStep(th) \/ Heartbeat(th) \/ GpuTimeout(th) \/ KeyTimeout(th)
    PROVE  Kept
<1>1. CASE WorkerFails(th)
  BY <1>1, FailsKept DEF WorkerFails, On, Locked, locks, history
<1> QED
  BY <1>1, GpuLockKept, KeyLockKept, RecheckKept, CompleteHitKept, IndexHitKept,
     GpuRefusedKept, LaunchKept, RecordWorkerKept, HeartbeatKept, WorkerPassesKept,
     PublishResultKept, IndexResultKept, CompleteKept, RecordFailureKept, StepRaisesKept,
     HandlerReadsKept, HandlerFailsKept, HandlerRaisesKept, GpuHandlerRaisesKept
     DEF ThreadStep
-------------------------------------------------------------------------------
(* What happens to the processes and the files.                            *)

LEMMA OffTyped ==
    /\ NewRun("off", FALSE) \in RunRecords /\ NewRun("off", FALSE).pc = "off"
    /\ Queues(NewRun("off", FALSE))
<1>1. Len(Plan) \in Nat /\ 1 \in 1 .. Len(Plan)
  BY SchedulerAssumption
<1> QED BY <1>1 DEF NewRun, RunRecords, Resting, Queues

\* No thread gets on: some fall silent, the others are left alone.
LEMMA WorldKept ==
    ASSUME IInv, thread' \in [Threads -> ThreadRecords],
           \A th \in Threads : Active(th)' => Apart(th),
           run' \in [Scheds -> RunRecords],
           \A s \in Scheds : run'[s] = run[s] \/ run'[s] = NewRun("off", FALSE),
           RecordsStep, CellsStep, alive' \subseteq Pids, UNCHANGED <<index, runs, gpuTasks>>,
           value' \in [Keys -> Cells], harmed' \in [Keys -> 0 .. MaxDamage],
           keyLock' \in [Keys -> Threads \cup {Free}], gpuLock' \in Scheds \cup {Free}
    PROVE  Kept
<1>1. Typed'
  BY DEF IInv, Typed
<1>2. ASSUME NEW th \in Threads PROVE Ready(th)'
  <2>1. CASE Active(th)'
    <3>1. Ready(th) /\ Apart(th) /\ thread'[th] = thread[th]
      BY <2>1 DEF IInv, Apart
    <3> QED BY <3>1, ApartReady
  <2>2. CASE ~Active(th)'
    BY <2>2 DEF Ready
  <2> QED BY <2>1, <2>2
<1>3. ASSUME NEW s \in Scheds PROVE Main(s)'
  <2>1. CASE run'[s] = run[s]
    BY <2>1, MainStays DEF IInv
  <2>2. CASE run'[s] = NewRun("off", FALSE)
    <3>1. PICK r \in RunRecords : r = run'[s]
      OBVIOUS
    <3>2. Queues(r) /\ r.pc = "off"
      BY <2>2, <3>1, OffTyped
    <3> QED BY <3>1, <3>2, MainRests DEF IInv
  <2> QED BY <2>1, <2>2
<1> QED BY <1>1, <1>2, <1>3 DEF Kept

LEMMA CrashKept ==
    ASSUME IInv, NEW s \in Scheds, Crash(s)
    PROVE  Kept
<1>1. /\ alive' = alive \ {s} /\ SetRun(s, NewRun("off", FALSE))
      /\ thread' = [th \in Threads |->
             IF th[1] # s THEN thread[th]
             ELSE IF th \in alive THEN Assigned("orphan", thread[th].task)
             ELSE IdleThread]
      /\ keyLock' = [k \in Keys |-> IF keyLock[k] \in OfRun(s) THEN Free ELSE keyLock[k]]
      /\ gpuLock' = IF gpuLock = s THEN Free ELSE gpuLock
      /\ UNCHANGED <<tasks, value, index, runs, gpuTasks, harmed>>
  BY DEF Crash, history
<1>2. /\ run' \in [Scheds -> RunRecords] /\ run'[s] = NewRun("off", FALSE)
      /\ \A o \in Scheds : o # s => run'[o] = run[o]
  BY <1>1, OffTyped, SetRunTyped, SharedSame
<1>3. thread' \in [Threads -> ThreadRecords]
  <2>1. ASSUME NEW th \in Threads
        PROVE  Assigned("orphan", thread[th].task) \in ThreadRecords
    <3>1. PICK t \in Tasks \cup {None} : t = thread[th].task
      BY SharedSame DEF ThreadRecords
    <3> QED BY <3>1 DEF Assigned, ThreadRecords
  <2>2. IdleThread \in ThreadRecords
    BY DEF IdleThread, ThreadRecords
  <2>3. \A th \in Threads : thread[th] \in ThreadRecords
    BY SharedSame
  <2> QED BY <1>1, <2>1, <2>2, <2>3
<1>4. ASSUME NEW th \in Threads, Active(th)' PROVE Apart(th)
  <2>1. th[1] # s
    BY <1>1, <1>4 DEF Active, Assigned, IdleThread
  <2>2. thread'[th] = thread[th] /\ run'[th[1]] = run[th[1]] /\ th \notin OfRun(s)
    BY <1>1, <1>2, <2>1, ThreadParts DEF OfRun
  <2>3. \A k \in Keys : keyLock[k] = th => keyLock'[k] = th
    BY <1>1, <2>2
  <2>4. gpuLock = th[1] => gpuLock' = th[1]
    BY <1>1, <2>1
  <2>5. value' = value
    BY <1>1
  <2> QED BY <2>2, <2>3, <2>4, <2>5 DEF Apart
<1>5. /\ RecordsStep /\ CellsStep /\ alive' \subseteq Pids
      /\ value' \in [Keys -> Cells] /\ harmed' \in [Keys -> 0 .. MaxDamage]
      /\ keyLock' \in [Keys -> Threads \cup {Free}] /\ gpuLock' \in Scheds \cup {Free}
  BY <1>1, SharedSame, SameRecords, SameCells DEF Typed
<1> QED BY <1>1, <1>2, <1>3, <1>4, <1>5, WorldKept

\* Threads, runs and locks as they are.
LEMMA SameApart ==
    ASSUME UNCHANGED <<keyLock, gpuLock, run>>, NEW th \in Threads, thread'[th] = thread[th],
           \A k \in Keys : value[k] = Absent => value'[k] = Absent
    PROVE  Apart(th)
  BY DEF Apart

LEMMA OrphanEndsKept ==
    ASSUME IInv, NEW th \in Threads, OrphanEnds(th)
    PROVE  Kept
<1>1. /\ thread' = [thread EXCEPT ![th] = IdleThread] /\ alive' = alive \ {th}
      /\ UNCHANGED <<tasks, value, index, keyLock, gpuLock, run, runs, gpuTasks, harmed>>
  BY DEF OrphanEnds, locks, history
<1>2. IdleThread \in ThreadRecords /\ IdleThread.pc = "idle"
  BY DEF IdleThread, ThreadRecords
<1>3. /\ thread' \in [Threads -> ThreadRecords]
      /\ \A o \in Threads : Active(o)' => thread'[o] = thread[o]
  BY <1>1, <1>2, SharedSame DEF Active, Typed
<1>4. \A o \in Threads : Active(o)' => Apart(o)
  BY <1>1, <1>3, SameApart
<1>5. /\ RecordsStep /\ CellsStep /\ alive' \subseteq Pids
      /\ value' \in [Keys -> Cells] /\ harmed' \in [Keys -> 0 .. MaxDamage]
      /\ keyLock' \in [Keys -> Threads \cup {Free}] /\ gpuLock' \in Scheds \cup {Free}
      /\ run' \in [Scheds -> RunRecords]
  BY <1>1, SharedSame, SameRecords, SameCells DEF Typed
<1> QED BY <1>1, <1>3, <1>4, <1>5, WorldKept

LEMMA LeaseRunsOutKept ==
    ASSUME IInv, NEW t \in Tasks, LeaseRunsOut(t)
    PROVE  Kept
<1>1. /\ IsRunning(tasks[t]) /\ tasks' = [tasks EXCEPT ![t] = Aged(@)]
      /\ UNCHANGED <<alive, value, index, keyLock, gpuLock, run, thread, runs, gpuTasks, harmed>>
  BY DEF LeaseRunsOut, LeaseExpires, locks, history
<1>2. tasks[t] \in Records
  BY SharedSame DEF StateInv, TaskStateTypeOK
<1>3. PICK a : a = [Last(tasks[t]) EXCEPT !.fresh = FALSE]
  OBVIOUS
<1>4. a \in Attempts /\ a.state = Last(tasks[t]).state
  BY <1>1, <1>2, <1>3, LastTyped DEF Attempts
<1>5. tasks' = [tasks EXCEPT ![t] = Touched(@, a)]
  BY <1>1, <1>3 DEF Aged
<1>6. RecordsStep
  BY <1>1, <1>4, <1>5, TouchRecords, SharedSame
<1>7. \A th \in Threads : Apart(th)
  BY <1>1, SameApart
<1>8. /\ CellsStep /\ alive' \subseteq Pids /\ thread' \in [Threads -> ThreadRecords]
      /\ value' \in [Keys -> Cells] /\ harmed' \in [Keys -> 0 .. MaxDamage]
      /\ keyLock' \in [Keys -> Threads \cup {Free}] /\ gpuLock' \in Scheds \cup {Free}
      /\ run' \in [Scheds -> RunRecords]
  BY <1>1, SharedSame, SameCells DEF Typed
<1> QED BY <1>1, <1>6, <1>7, <1>8, WorldKept

LEMMA EntryDamagedKept ==
    ASSUME IInv, NEW k \in Keys, EntryDamaged(k)
    PROVE  Kept
<1>1. /\ harmed[k] < MaxDamage /\ harmed' = [harmed EXCEPT ![k] = @ + 1]
      /\ value[k] \in Payloads /\ value' = [value EXCEPT ![k] = Broken]
      /\ UNCHANGED <<tasks, alive, index, keyLock, gpuLock, run, thread, runs, gpuTasks>>
  BY DEF EntryDamaged, Damage, locks
<1>2. harmed \in [Keys -> 0 .. MaxDamage] /\ value \in [Keys -> Cells] /\ MaxDamage \in Nat
  BY SchedulerAssumption, SharedSame DEF Typed
<1>3. harmed[k] + 1 \in 0 .. MaxDamage /\ harmed[k] + 1 > 0
  BY <1>1, <1>2
<1>4. harmed' \in [Keys -> 0 .. MaxDamage] /\ value' \in [Keys -> Cells] /\ CellsStep
  BY <1>1, <1>2, <1>3 DEF Cells, CellsStep
<1>5. \A j \in Keys : value[j] = Absent => value'[j] = Absent
  BY <1>1, <1>2, RegisterAssumption
<1>6. \A th \in Threads : Apart(th)
  BY <1>1, <1>5, SameApart
<1>7. /\ RecordsStep /\ alive' \subseteq Pids /\ thread' \in [Threads -> ThreadRecords]
      /\ keyLock' \in [Keys -> Threads \cup {Free}] /\ gpuLock' \in Scheds \cup {Free}
      /\ run' \in [Scheds -> RunRecords]
  BY <1>1, SharedSame, SameRecords DEF Typed
<1> QED BY <1>1, <1>4, <1>6, <1>7, WorldKept

LEMMA StutterKept ==
    ASSUME IInv, UNCHANGED vars
    PROVE  Kept
<1>1. UNCHANGED <<tasks, alive, value, index, keyLock, gpuLock, run, thread, runs, gpuTasks, harmed>>
  BY DEF vars
<1>2. \A th \in Threads : Apart(th)
  BY <1>1, SameApart
<1>3. /\ RecordsStep /\ CellsStep /\ alive' \subseteq Pids
      /\ thread' \in [Threads -> ThreadRecords]
      /\ value' \in [Keys -> Cells] /\ harmed' \in [Keys -> 0 .. MaxDamage]
      /\ keyLock' \in [Keys -> Threads \cup {Free}] /\ gpuLock' \in Scheds \cup {Free}
      /\ run' \in [Scheds -> RunRecords]
  BY <1>1, SharedSame, SameRecords, SameCells DEF Typed
<1> QED BY <1>1, <1>2, <1>3, WorldKept
-------------------------------------------------------------------------------
(* The invariant.                                                          *)

LEMMA InitIInv == Init => IInv
<1> SUFFICES ASSUME Init PROVE IInv
  OBVIOUS
<1>1. StateInv
  <2>1. alive \subseteq Pids
    BY PidKinds DEF Init
  <2>2. NewRecord \in Records
    BY DEF NewRecord, Records, Status
  <2>3. TrailExplains(NewRecord) /\ AttemptsAgreeWith(NewRecord)
    BY DEF NewRecord, TrailExplains, AttemptsAgreeWith
  <2> QED BY <2>1, <2>2, <2>3 DEF Init, StateInv, RecordInv, TaskStateTypeOK
<1>2. IdleThread \in ThreadRecords /\ IdleThread.pc = "idle"
  BY DEF IdleThread, ThreadRecords
<1>3. Typed
  <2>1. MaxRuns \in Nat /\ MaxDamage \in Nat
    BY SchedulerAssumption
  <2>2. alive \subseteq Pids
    BY PidKinds DEF Init
  <2>3. /\ value \in [Keys -> Cells] /\ index \in [Keys -> Payloads \cup {Absent}]
        /\ keyLock \in [Keys -> Threads \cup {Free}] /\ gpuLock \in Scheds \cup {Free}
    BY DEF Init, RegisterInit, Cells
  <2>4. run \in [Scheds -> RunRecords] /\ thread \in [Threads -> ThreadRecords]
    BY <1>2, OffTyped DEF Init
  <2>5. runs \in 0 .. MaxRuns /\ gpuTasks \in Placements /\ harmed \in [Keys -> 0 .. MaxDamage]
    BY <2>1 DEF Init
  <2> QED BY <2>2, <2>3, <2>4, <2>5 DEF Typed
<1>4. CompleteVouched
  BY DEF Init, CompleteVouched, NewRecord
<1>5. \A th \in Threads : Ready(th)
  BY <1>2 DEF Init, Ready, Active
<1>6. ASSUME NEW s \in Scheds PROVE Main(s)
  BY OffTyped DEF Init, Main, Seen
<1> QED BY <1>1, <1>3, <1>4, <1>5, <1>6 DEF IInv

LEMMA NextKept ==
    ASSUME IInv, [Next]_vars
    PROVE  Kept
<1>1. ASSUME NEW s \in Scheds, NEW retry \in BOOLEAN, StartRun(s, retry) PROVE Kept
  BY <1>1, StartRunKept
<1>2. ASSUME NEW s \in Scheds, ScanStep(s) \/ CleanTimeout(s) \/ MainStep(s) PROVE Kept
  BY <1>2, ScanStepKept, MainStepKept
<1>3. ASSUME NEW th \in Threads,
             ThreadStep(th) \/ Heartbeat(th) \/ GpuTimeout(th) \/ KeyTimeout(th)
      PROVE  Kept
  BY <1>3, ThreadStepKept
<1>4. CASE Environment
  BY <1>4, CrashKept, OrphanEndsKept, LeaseRunsOutKept, EntryDamagedKept DEF Environment
<1>5. CASE UNCHANGED vars
  BY <1>5, StutterKept
<1> QED BY <1>1, <1>2, <1>3, <1>4, <1>5 DEF Next

LEMMA NextIInv ==
    ASSUME IInv, [Next]_vars
    PROVE  IInv'
<1>1. Kept
  BY NextKept
<1>2. alive' \subseteq Pids
  BY <1>1 DEF Kept, Typed
<1>3. StateInv' /\ CompleteVouched'
  BY <1>1, <1>2, RecordsKept DEF Kept, IInv
<1> QED BY <1>1, <1>3 DEF Kept, IInv

\* The invariant holds in every state of every behaviour: the theorems below
\* read their properties off it.
THEOREM SchedulerInvariant == Spec => []IInv
<1>1. IInv /\ [Next]_vars => IInv'
  BY NextIInv
<1> QED BY <1>1, InitIInv, PTL DEF Spec

\* Records, cells, locks, runs and threads keep their types.
THEOREM SchedulerTypes == Spec => []SchedulerTypeOK
<1>1. IInv => SchedulerTypeOK
  BY DEF IInv, Typed, StateInv, SchedulerTypeOK
<1> QED BY <1>1, SchedulerInvariant, PTL

\* A complete task has its artifact in the cache, unless the disk harmed it:
\* whatever crashes, raises or races, completion follows publication.
THEOREM SchedulerCompletesCached == Spec => []CompleteIsCached
<1>1. IInv => CompleteIsCached
  BY DEF IInv, CompleteVouched, Vouched, CompleteIsCached
<1> QED BY <1>1, SchedulerInvariant, PTL

\* For any number of schedulers and threads, no two compute results of the
\* same identity at a time, and none computes what the cache has.
THEOREM SchedulerComputesOnce == Spec => []ComputesOnce
<1>1. ASSUME IInv PROVE ComputesOnce
  <2>1. ASSUME NEW th \in Threads, Computing(th)
        PROVE  /\ value[KeyFor(th)] = Absent /\ keyLock[KeyFor(th)] = th
    BY <1>1, <2>1 DEF IInv, Ready, Active, Computing, Computes, Locked
  <2> QED BY <2>1 DEF ComputesOnce
<1> QED BY <1>1, SchedulerInvariant, PTL

\* GPU work, with its error handling, is the work of one scheduler and of one
\* thread at a time.
THEOREM SchedulerGpuExclusive == Spec => []GpuIsExclusive
<1>1. ASSUME IInv PROVE GpuIsExclusive
  <2>1. ASSUME NEW th \in Threads, OnGpu(th)
        PROVE  gpuLock = th[1] /\ th[2] = 1 /\ th = <<th[1], th[2]>>
    BY <1>1, <2>1, ThreadParts DEF IInv, Ready, Active, OnGpu, InGpu, Locked
  <2> QED BY <2>1 DEF GpuIsExclusive
<1> QED BY <1>1, SchedulerInvariant, PTL

\* No step of any process reopens a complete task whose entry was not harmed.
THEOREM SchedulerNoRework == Spec => NoRework
<1>1. IInv /\ [Next]_vars
          => [\A t \in Tasks :
                 tasks[t].state = "COMPLETE" /\ tasks'[t].state # "COMPLETE" =>
                     harmed[KeyOf[t]] > 0]_vars
  BY NextKept DEF Kept, RecordsStep
<1> QED BY <1>1, SchedulerInvariant, PTL DEF Spec, NoRework

\* What TaskState promises of a record holds of the records of schedulers that
\* crash, retry, recover and race over them.
THEOREM SchedulerKeepsTrail == Spec => []TrailIsPath
<1>1. IInv => TrailIsPath
  BY DEF IInv, StateInv, RecordInv, TrailIsPath
<1> QED BY <1>1, SchedulerInvariant, PTL

\* Likewise the attempts of a record agree with its status, whoever wrote it.
THEOREM SchedulerKeepsAttempts == Spec => []AttemptsAgree
<1>1. IInv => AttemptsAgree
  BY DEF IInv, StateInv, RecordInv, AttemptsAgree
<1> QED BY <1>1, SchedulerInvariant, PTL

\* No scheduler, thread or recovery rewrites a closed attempt or drops a move.
THEOREM SchedulerKeepsHistory == Spec => HistoryIsKept
<1>1. ASSUME IInv, [Next]_vars
      PROVE  [\A t \in Tasks : HistoryKept(tasks[t], tasks'[t])]_stateVars
  <2>1. RecordsStep
    BY <1>1, NextKept DEF Kept
  <2>2. \A t \in Tasks : HistoryKept(tasks[t], tasks'[t])
    BY <1>1, <2>1, RecordStep DEF IInv, StateInv, RecordsStep
  <2> QED BY <2>2
<1> QED BY <1>1, SchedulerInvariant, PTL DEF Spec, HistoryIsKept
-------------------------------------------------------------------------------
(* Who works on a task.  A second invariant, on top of the first: a task with *)
(* an item of work (a place in a queue, a scan about to complete it, a thread) *)
(* has one item, and its open attempt is that scheduler's.                     *)

\* An item of thread record x: t is done with once it is complete, though its
\* thread goes on to the index or to a handler.
Spent == {"hitIndex", "error", "gpuError"}
Live(x, t) == x.task = t /\ x.pc \notin {"idle", "orphan", "raised"}
Busy(x, t) == x.task = t /\ x.pc \notin {"idle", "orphan", "hitIndex"}
Waits(r, t) == InQueue(r.cpu, t) \/ InQueue(r.gpu, t)
Starts(r, t) == r.pc = "hitFinish" /\ Plan[r.at] = t
Once(q, t) == \A i, j \in 1 .. Len(q) : q[i] = t /\ q[j] = t => i = j

Holds(s, t) == IsRunning(tasks[t]) /\ Last(tasks[t]).owner = s

Single(s, t) ==
    /\ Once(run[s].cpu, t) /\ Once(run[s].gpu, t)
    /\ Starts(run[s], t) => ~Waits(run[s], t)
    /\ \A th \in Threads :
          th[1] = s /\ Live(thread[th], t) =>
              /\ ~Waits(run[s], t)
              /\ \A o \in Threads : o[1] = s /\ Live(thread[o], t) => o = th

Held(s, t) ==
    /\ Starts(run[s], t) \/ Waits(run[s], t) => Holds(s, t)
    /\ \A th \in Threads :
          th[1] = s /\ Live(thread[th], t) =>
              Holds(s, t) \/ (thread[th].pc \in Spent /\ tasks[t].state = "COMPLETE")

\* A damaged entry may put a task into two hands.
Owned(s, t) == harmed[KeyOf[t]] = 0 => Single(s, t) /\ Held(s, t)

\* Only a living process has work; a run returns when its queues are empty.
Serving(s) ==
    /\ run[s].pc # "off" => s \in alive
    /\ run[s].pc = "off" => run[s].cpu = << >> /\ run[s].gpu = << >>
    /\ run[s].pc \in {"gpu", "done"} => run[s].cpu = << >>
    /\ run[s].pc = "done" => run[s].gpu = << >>

\* What a run marked RUNNING is still in its hands as long as it is open.
Settling(s) ==
    \A t \in run[s].mine :
        /\ run[s].pc \in Scanning \cup {"submit"} => Waits(run[s], t)
        /\ run[s].pc \in {"pool", "gpu", "done"} /\ Holds(s, t) =>
              Waits(run[s], t) \/ \E th \in Threads : th[1] = s /\ Busy(thread[th], t)

\* A thread with nothing to do remembers no task.
Vacant == \A th \in Threads : thread[th].pc = "idle" => thread[th].task = None

OInv ==
    /\ Vacant
    /\ \A s \in Scheds : Serving(s) /\ Settling(s)
    /\ \A s \in Scheds : \A t \in Tasks : Owned(s, t)
-------------------------------------------------------------------------------
(* What a step does to the record of a task.                               *)

Untouched(t) ==
    /\ tasks'[t].state = tasks[t].state
    /\ \A s \in Scheds : Holds(s, t)' <=> Holds(s, t)

LEMMA SameUntouched ==
    ASSUME NEW t, tasks'[t] = tasks[t]
    PROVE  Untouched(t)
  BY DEF Untouched, Holds, IsRunning, Last

LEMMA TouchUntouched ==
    ASSUME NEW t, tasks[t] \in Records, IsRunning(tasks[t]), NEW a \in Attempts,
           a.owner = Last(tasks[t]).owner, tasks'[t] = Touched(tasks[t], a)
    PROVE  Untouched(t)
<1> DEFINE n == Len(tasks[t].attempts)
<1>1. tasks[t].attempts \in Seq(Attempts) /\ n \in 1 .. n
  BY RecordFields DEF IsRunning
<1>2. /\ tasks'[t].attempts = [tasks[t].attempts EXCEPT ![n] = a]
      /\ tasks'[t].state = tasks[t].state
  BY DEF Touched, Records
<1>3. /\ Len([tasks[t].attempts EXCEPT ![n] = a]) = n
      /\ [tasks[t].attempts EXCEPT ![n] = a][n] = a
      /\ [tasks[t].attempts EXCEPT ![n] = a] \in Seq(Attempts)
  BY <1>1
<1>4. tasks'[t].attempts # << >> /\ Last(tasks'[t]) = a
  BY <1>1, <1>2, <1>3 DEF Last
<1> QED BY <1>2, <1>4 DEF Untouched, Holds, IsRunning

LEMMA MoveHolds ==
    ASSUME NEW t \in Tasks, tasks[t] \in Records, NEW to, NEW pid, NEW artifact,
           tasks'[t] = Moved(tasks[t], to, pid, artifact)
    PROVE  /\ tasks'[t].state = to
           /\ \A s \in Scheds : Holds(s, t)' => to = "RUNNING" /\ s = pid
           /\ to = "RUNNING" => Holds(pid, t)'
<1>1. tasks'[t].state = to
  BY DEF Moved
<1>2. ASSUME to = "RUNNING"
      PROVE  tasks'[t].attempts # << >> /\ Last(tasks'[t]).owner = pid
  <2> DEFINE a == [state |-> "RUNNING", owner |-> pid, worker |-> None, fresh |-> TRUE]
             q == tasks[t].attempts
  <2>1. tasks'[t].attempts = Append(q, a)
    BY <1>2 DEF Moved, AttemptsAfter
  <2>2. q \in Seq(Attempts)
    BY RecordFields
  <2>3. a.owner = pid
    OBVIOUS
  <2> HIDE DEF a
  <2>4. Len(Append(q, a)) = Len(q) + 1 /\ Append(q, a)[Len(q) + 1] = a /\ Append(q, a) # << >>
    BY <2>2
  <2> QED BY <2>1, <2>3, <2>4 DEF Last
<1> QED BY <1>1, <1>2 DEF Holds, IsRunning

\* Two schedulers never hold one task.
LEMMA HoldsOne ==
    ASSUME NEW s, NEW o, NEW t, Holds(s, t), Holds(o, t)
    PROVE  s = o
  BY DEF Holds
-------------------------------------------------------------------------------
(* What a step leaves to the items of a scheduler.                         *)

Shrinks(s, t) ==
    /\ Waits(run'[s], t) => Waits(run[s], t)
    /\ Starts(run'[s], t) => Starts(run[s], t)
    /\ \A th \in Threads : th[1] = s /\ Live(thread'[th], t) => Live(thread[th], t)

Fewer(s, t) ==
    /\ Shrinks(s, t)
    /\ Once(run[s].cpu, t) => Once(run'[s].cpu, t)
    /\ Once(run[s].gpu, t) => Once(run'[s].gpu, t)
    /\ \A th \in Threads :
          th[1] = s /\ Live(thread'[th], t) /\ thread[th].pc \in Spent =>
              thread'[th].pc \in Spent \/ tasks[t].state # "COMPLETE"

Bare(s, t) ==
    /\ ~Waits(run[s], t) /\ ~Starts(run[s], t)
    /\ \A th \in Threads : th[1] = s => ~Live(thread[th], t)

Unharmed(t) == harmed'[KeyOf[t]] = 0 => harmed[KeyOf[t]] = 0

LEMMA OwnedStays ==
    ASSUME NEW s \in Scheds, NEW t \in Tasks, Owned(s, t), Fewer(s, t), Untouched(t), Unharmed(t)
    PROVE  Owned(s, t)'
<1> SUFFICES ASSUME harmed'[KeyOf[t]] = 0 PROVE Single(s, t)' /\ Held(s, t)'
  BY DEF Owned
<1>1. Single(s, t) /\ Held(s, t)
  BY DEF Owned, Unharmed
<1>2. Single(s, t)'
  BY <1>1 DEF Single, Fewer, Shrinks, Starts, Waits, Live, Once
<1>3. Held(s, t)'
  BY <1>1 DEF Held, Fewer, Shrinks, Untouched
<1> QED BY <1>2, <1>3

LEMMA BareOwned ==
    ASSUME NEW s \in Scheds, NEW t \in Tasks, Bare(s, t)'
    PROVE  Owned(s, t)'
<1>1. Once(run'[s].cpu, t) /\ Once(run'[s].gpu, t)
  BY DEF Bare, Waits, InQueue, Once
<1>2. Single(s, t)'
  BY <1>1 DEF Bare, Single
<1>3. Held(s, t)'
  BY DEF Bare, Held
<1> QED BY <1>2, <1>3 DEF Owned

LEMMA BareStays ==
    ASSUME NEW s \in Scheds, NEW t \in Tasks, Bare(s, t), Shrinks(s, t)
    PROVE  Owned(s, t)'
<1>1. Bare(s, t)'
  BY DEF Bare, Shrinks
<1> QED BY <1>1, BareOwned

\* No items of a task that somebody else holds, or nobody.
LEMMA NotHeldBare ==
    ASSUME NEW s \in Scheds, NEW t \in Tasks, Owned(s, t), harmed[KeyOf[t]] = 0,
           ~Holds(s, t), tasks[t].state # "COMPLETE"
    PROVE  Bare(s, t)
  BY DEF Owned, Held, Bare

\* A scheduler that does not act.
Rests(s) ==
    /\ run'[s] = run[s]
    /\ \A th \in Threads : th[1] = s => thread'[th] = thread[th]
    /\ s \in alive => s \in alive'

LEMMA RestsFewer ==
    ASSUME NEW s \in Scheds, NEW t, Rests(s)
    PROVE  Fewer(s, t)
  BY DEF Rests, Fewer, Shrinks

LEMMA RestsServe ==
    ASSUME NEW s \in Scheds, Rests(s), Serving(s), Settling(s),
           \A t \in run[s].mine : Holds(s, t)' => Holds(s, t)
    PROVE  Serving(s)' /\ Settling(s)'
<1>1. Serving(s)'
  BY DEF Serving, Rests
<1>2. Settling(s)'
  BY DEF Settling, Rests
<1> QED BY <1>1, <1>2
-------------------------------------------------------------------------------
(* A thread's step, as its scheduler and the others see it.                *)

Frame(th, x, r) ==
    /\ thread' = [thread EXCEPT ![th] = x]
    /\ SetRun(th[1], r)
    /\ r.cpu = run[th[1]].cpu /\ r.gpu = run[th[1]].gpu /\ r.mine = run[th[1]].mine
    /\ r.pc = run[th[1]].pc \/ r.pc = "raised"
    /\ harmed' = harmed
    /\ \A s \in Scheds : s \in alive => s \in alive'

LEMMA FrameParts ==
    ASSUME IInv, NEW th \in Threads, Active(th), NEW x, NEW r, Frame(th, x, r)
    PROVE  /\ th[1] \in Scheds /\ thread[th].task \in Tasks
           /\ run[th[1]].pc \in {"pool", "closing", "gpu"}
           /\ run[th[1]].mine \subseteq Tasks
           /\ thread'[th] = x /\ run'[th[1]] = r
           /\ \A o \in Threads : o # th => thread'[o] = thread[o]
           /\ \A s \in Scheds : s # th[1] => Rests(s)
           /\ OInv /\ (x.pc = "idle" => x = IdleThread) => Vacant'
<1>1. th[1] \in Scheds /\ thread[th].task \in Tasks /\ run[th[1]].pc \in {"pool", "closing", "gpu"}
  BY ThreadTask
<1>2. run[th[1]].mine \subseteq Tasks
  BY <1>1, SharedSame, RunFields
<1>3. thread'[th] = x /\ \A o \in Threads : o # th => thread'[o] = thread[o]
  BY SharedSame DEF Frame, Typed
<1>4. run'[th[1]] = r /\ \A s \in Scheds : s # th[1] => run'[s] = run[s]
  BY <1>1, SharedSame DEF Frame, SetRun, Typed
<1>5. ASSUME NEW s \in Scheds, s # th[1] PROVE Rests(s)
  BY <1>3, <1>4, <1>5 DEF Rests, Frame
<1>6. ASSUME OInv, x.pc = "idle" => x = IdleThread PROVE Vacant'
  BY <1>3, <1>6 DEF OInv, Vacant, IdleThread
<1> QED BY <1>1, <1>2, <1>3, <1>4, <1>5, <1>6

LEMMA FrameServes ==
    ASSUME IInv, OInv, NEW th \in Threads, Active(th), NEW x, NEW r, Frame(th, x, r)
    PROVE  Serving(th[1])'
<1>1. /\ th[1] \in Scheds /\ run[th[1]].pc \in {"pool", "closing", "gpu"} /\ run'[th[1]] = r
      /\ Serving(th[1])
  BY FrameParts DEF OInv
<1> QED BY <1>1 DEF Serving, Frame

LEMMA FrameFewer ==
    ASSUME IInv, NEW th \in Threads, Active(th), NEW x, NEW r, Frame(th, x, r), NEW t,
           Live(x, t) =>
               /\ Live(thread[th], t)
               /\ thread[th].pc \in Spent => x.pc \in Spent \/ tasks[t].state # "COMPLETE",
           NEW s \in Scheds
    PROVE  Fewer(s, t)
<1>1. CASE s # th[1]
  BY <1>1, FrameParts, RestsFewer
<1>2. CASE s = th[1]
  <2>1. /\ run'[s] = r /\ thread'[th] = x /\ \A o \in Threads : o # th => thread'[o] = thread[o]
        /\ r.pc # "hitFinish"
        /\ r.cpu = run[s].cpu /\ r.gpu = run[s].gpu
    <3>1. /\ run'[s] = r /\ thread'[th] = x /\ \A o \in Threads : o # th => thread'[o] = thread[o]
          /\ run[s].pc \in {"pool", "closing", "gpu"}
      BY <1>2, FrameParts
    <3>2. (r.pc = run[s].pc \/ r.pc = "raised") /\ r.cpu = run[s].cpu /\ r.gpu = run[s].gpu
      BY <1>2 DEF Frame
    <3> QED BY <3>1, <3>2
  <2>2. Waits(run'[s], t) <=> Waits(run[s], t)
    BY <2>1 DEF Waits
  <2>3. ~Starts(run'[s], t)
    BY <2>1 DEF Starts
  <2>4. ASSUME NEW o \in Threads, Live(thread'[o], t)
        PROVE  /\ Live(thread[o], t)
               /\ thread[o].pc \in Spent => thread'[o].pc \in Spent \/ tasks[t].state # "COMPLETE"
    BY <2>1, <2>4
  <2> QED BY <2>1, <2>2, <2>3, <2>4 DEF Fewer, Shrinks
<1> QED BY <1>1, <1>2

LEMMA FrameSettles ==
    ASSUME IInv, OInv, NEW th \in Threads, Active(th), NEW x, NEW r, Frame(th, x, r),
           \A t \in Tasks : \A s \in Scheds : Holds(s, t)' => Holds(s, t),
           \/ r.pc = "raised"
           \/ \A t \in Tasks : Busy(thread[th], t) /\ Holds(th[1], t)' => Busy(x, t)
    PROVE  \A s \in Scheds : Serving(s)' /\ Settling(s)'
<1> TAKE s \in Scheds
<1>0. run[s].mine \subseteq Tasks /\ Serving(s) /\ Settling(s)
  BY SharedSame, RunFields DEF OInv
<1>1. CASE s # th[1]
  BY <1>0, <1>1, FrameParts, RestsServe
<1>2. CASE s = th[1] /\ r.pc = "raised"
  <2>1. run'[s].pc = "raised"
    BY <1>2, FrameParts
  <2>2. Settling(s)'
    BY <2>1 DEF Settling, Scanning
  <2> QED BY <1>2, <2>2, FrameServes
<1>3. CASE s = th[1] /\ r.pc # "raised"
  <2>1. /\ run'[s] = r /\ thread'[th] = x /\ \A o \in Threads : o # th => thread'[o] = thread[o]
        /\ r.pc = run[s].pc /\ r.mine = run[s].mine /\ r.cpu = run[s].cpu /\ r.gpu = run[s].gpu
        /\ r.pc \in {"pool", "closing", "gpu"}
    <3>1. /\ run'[s] = r /\ thread'[th] = x /\ \A o \in Threads : o # th => thread'[o] = thread[o]
          /\ run[s].pc \in {"pool", "closing", "gpu"}
      BY <1>3, FrameParts
    <3>2. /\ r.pc = run[s].pc /\ r.mine = run[s].mine
          /\ r.cpu = run[s].cpu /\ r.gpu = run[s].gpu
      BY <1>3 DEF Frame
    <3> QED BY <3>1, <3>2
  <2>2. ASSUME NEW t \in run[s].mine, r.pc \in {"pool", "gpu", "done"}, Holds(s, t)'
        PROVE  Waits(r, t) \/ \E o \in Threads : o[1] = s /\ Busy(thread'[o], t)
    <3>1. t \in Tasks /\ Holds(s, t)
      BY <1>0, <2>2
    <3>2. Waits(run[s], t) \/ \E o \in Threads : o[1] = s /\ Busy(thread[o], t)
      BY <1>0, <2>1, <2>2, <3>1 DEF Settling
    <3>3. CASE Waits(run[s], t)
      BY <2>1, <3>3 DEF Waits
    <3>4. ASSUME NEW o \in Threads, o[1] = s, Busy(thread[o], t)
          PROVE  Busy(thread'[o], t)
      BY <1>3, <2>1, <2>2, <3>1, <3>4
    <3> QED BY <3>2, <3>3, <3>4
  <2>3. Settling(s)'
    BY <2>1, <2>2 DEF Settling, Scanning
  <2> QED BY <1>3, <2>3, FrameServes
<1> QED BY <1>1, <1>2, <1>3

\* The thread goes on or ends without a move of its task.
LEMMA ThreadGoesOwned ==
    ASSUME IInv, OInv, NEW th \in Threads, Active(th), NEW x, NEW r, Frame(th, x, r),
           \A t \in Tasks : Untouched(t),
           \/ /\ x.task = thread[th].task /\ x.pc \notin {"idle", "orphan", "hitIndex"}
              /\ x.pc # "raised" => thread[th].pc # "raised"
              /\ thread[th].pc \in Spent =>
                    x.pc \in Spent \cup {"raised"} \/ tasks[thread[th].task].state # "COMPLETE"
           \/ /\ x = IdleThread
              /\ \/ r.pc = "raised" \/ tasks[thread[th].task].state # "RUNNING"
                 \/ thread[th].pc = "hitIndex"
    PROVE  OInv'
<1>1. thread[th].task \in Tasks
  BY FrameParts
<1>2. IdleThread.pc = "idle"
  BY DEF IdleThread
<1>3. ASSUME NEW s \in Scheds, NEW t \in Tasks PROVE Owned(s, t)'
  <2>1. Live(x, t) =>
               /\ Live(thread[th], t)
               /\ thread[th].pc \in Spent => x.pc \in Spent \/ tasks[t].state # "COMPLETE"
    BY <1>2 DEF Live, Active
  <2>2. Fewer(s, t)
    BY <2>1, FrameFewer
  <2> QED BY <2>2, OwnedStays DEF OInv, Frame, Unharmed
<1>4. \A t \in Tasks : \A s \in Scheds : Holds(s, t)' => Holds(s, t)
  BY DEF Untouched
<1>5. \/ r.pc = "raised"
      \/ \A t \in Tasks : Busy(thread[th], t) /\ Holds(th[1], t)' => Busy(x, t)
  <2> SUFFICES ASSUME r.pc # "raised", NEW t \in Tasks, Busy(thread[th], t), Holds(th[1], t)'
               PROVE  Busy(x, t)
    OBVIOUS
  <2>1. t = thread[th].task /\ thread[th].pc # "hitIndex" /\ th[1] \in Scheds
    BY FrameParts DEF Busy
  <2>2. tasks[t].state = "RUNNING"
    BY <1>4, <2>1 DEF Holds, IsRunning
  <2> QED BY <2>1, <2>2 DEF Busy
<1>6. \A s \in Scheds : Serving(s)' /\ Settling(s)'
  BY <1>4, <1>5, FrameSettles
<1>7. Vacant'
  BY FrameParts
<1> QED BY <1>3, <1>6, <1>7 DEF OInv

\* The move that closes the task of a thread that works on it.
LEMMA ThreadClosesOwned ==
    ASSUME IInv, OInv, NEW th \in Threads, Active(th), NEW x, NEW r, Frame(th, x, r),
           NEW to \in Status \ {"RUNNING"}, NEW artifact, Move(th, to, artifact),
           thread[th].pc \notin Spent \cup {"raised"},
           x = IdleThread \/ (x.task = thread[th].task /\ x.pc = "hitIndex" /\ to = "COMPLETE")
    PROVE  OInv'
<1> DEFINE s == th[1]
<1>0. PICK u \in Tasks : u = thread[th].task
  BY FrameParts
<1>1. /\ s \in Scheds /\ thread'[th] = x /\ run'[s] = r
      /\ \A o \in Threads : o # th => thread'[o] = thread[o]
      /\ r.pc # "hitFinish" /\ r.cpu = run[s].cpu /\ r.gpu = run[s].gpu
      /\ None \notin Tasks
  <2>1. /\ s \in Scheds /\ thread'[th] = x /\ run'[s] = r
        /\ \A o \in Threads : o # th => thread'[o] = thread[o]
        /\ run[s].pc \in {"pool", "closing", "gpu"}
    BY FrameParts
  <2>2. (r.pc = run[s].pc \/ r.pc = "raised") /\ r.cpu = run[s].cpu /\ r.gpu = run[s].gpu
    BY DEF Frame
  <2>3. None \notin Tasks
    BY SchedulerAssumption
  <2> QED BY <2>1, <2>2, <2>3
<1>2. tasks \in [Tasks -> Records]
  BY SharedSame DEF StateInv, TaskStateTypeOK
<1>3. /\ tasks'[u] = Moved(tasks[u], to, s, artifact)
      /\ \A t \in Tasks : t # u => tasks'[t] = tasks[t]
  BY <1>0, <1>2 DEF Move
<1>4. tasks'[u].state = to /\ \A o : ~Holds(o, u)'
  <2>1. tasks[u] \in Records /\ to \in Status /\ to # "RUNNING"
    BY <1>2
  <2>2. tasks'[u] = Moved(tasks[u], to, s, artifact)
    BY <1>3
  <2>3. tasks'[u].state = to
    BY <2>2 DEF Moved
  <2>4. \A o : Holds(o, u)' => tasks'[u].state = "RUNNING"
    BY DEF Holds, IsRunning
  <2> QED BY <2>1, <2>3, <2>4
<1>5. \A t \in Tasks : t # u => Untouched(t)
  BY <1>3, SameUntouched
<1>6. IdleThread.pc = "idle" /\ IdleThread.task = None
  BY DEF IdleThread
<1>7. Live(thread[th], u)
  BY <1>0 DEF Live, Active
<1>8. ASSUME NEW o \in Scheds, NEW t \in Tasks PROVE Owned(o, t)'
  <2>1. CASE t # u
    <3>1. ~Live(x, t)
      BY <1>0, <1>1, <1>6, <2>1 DEF Live
    <3>2. Fewer(o, t)
      BY <3>1, FrameFewer
    <3> QED BY <1>5, <2>1, <3>2, OwnedStays DEF OInv, Frame, Unharmed
  <2>2. CASE t = u /\ harmed[KeyOf[u]] = 0
    <3>1. Single(s, u) /\ Held(s, u) /\ Owned(o, u)
      BY <1>1, <2>2 DEF OInv, Owned
    <3>2. Holds(s, u) /\ ~Waits(run[s], u)
      BY <1>7, <3>1 DEF Held, Single
    <3>3. CASE o # s
      <4>1. ~Holds(o, u) /\ tasks[u].state # "COMPLETE"
        BY <3>2, <3>3, HoldsOne DEF Holds, IsRunning
      <4>2. Bare(o, u)
        BY <1>1, <2>2, <3>1, <4>1, NotHeldBare
      <4>3. Fewer(o, u)
        BY <3>3, FrameParts, RestsFewer
      <4> QED BY <1>1, <2>2, <4>2, <4>3, BareStays DEF Fewer
    <3>4. CASE o = s
      <4>1. ~Waits(run'[s], u) /\ ~Starts(run'[s], u)
        BY <1>1, <3>2 DEF Waits, Starts
      <4>2. \A p \in Threads : p[1] = s /\ p # th => ~Live(thread'[p], u)
        BY <1>1, <1>7, <3>1 DEF Single
      <4>3. Once(run'[s].cpu, u) /\ Once(run'[s].gpu, u)
        BY <1>1, <3>1 DEF Single
      <4>4. Single(s, u)'
        BY <1>1, <4>1, <4>2, <4>3 DEF Single
      <4>5. Live(x, u) => x.pc \in Spent /\ tasks'[u].state = "COMPLETE"
        BY <1>4, <1>6 DEF Live, Spent
      <4>6. Held(s, u)'
        BY <1>1, <4>1, <4>2, <4>5 DEF Held
      <4> QED BY <2>2, <3>4, <4>4, <4>6 DEF Owned
    <3> QED BY <3>3, <3>4
  <2>3. CASE t = u /\ harmed[KeyOf[u]] # 0
    BY <2>3 DEF Owned, Frame
  <2> QED BY <2>1, <2>2, <2>3
<1>9. \A t \in Tasks : \A o \in Scheds : Holds(o, t)' => Holds(o, t)
  BY <1>4, <1>5 DEF Untouched
<1>10. \A t \in Tasks : Busy(thread[th], t) => ~Holds(s, t)'
  BY <1>0, <1>4 DEF Busy
<1>11. \A o \in Scheds : Serving(o)' /\ Settling(o)'
  BY <1>9, <1>10, FrameSettles
<1>12. Vacant'
  BY FrameParts
<1> QED BY <1>8, <1>11, <1>12 DEF OInv
-------------------------------------------------------------------------------
(* A thread, step by step.                                                 *)

Lives == \A s \in Scheds : s \in alive => s \in alive'

\* Only the clock, the disk or a heartbeat acts.
LEMMA ItemsSame ==
    ASSUME IInv, OInv, run' = run, thread' = thread, Lives,
           \A t \in Tasks : Untouched(t) /\ Unharmed(t)
    PROVE  OInv'
<1>1. \A s \in Scheds : Rests(s)
  BY DEF Rests, Lives
<1>2. ASSUME NEW s \in Scheds, NEW t \in Tasks PROVE Owned(s, t)'
  <2>1. Fewer(s, t)
    BY <1>1, RestsFewer
  <2> QED BY <2>1, OwnedStays DEF OInv
<1>3. ASSUME NEW s \in Scheds PROVE Serving(s)' /\ Settling(s)'
  <2>1. run[s].mine \subseteq Tasks
    BY SharedSame, RunFields
  <2>2. \A t \in run[s].mine : Holds(s, t)' => Holds(s, t)
    BY <2>1 DEF Untouched
  <2> QED BY <1>1, <2>2, RestsServe DEF OInv
<1>4. Vacant'
  BY DEF OInv, Vacant
<1> QED BY <1>2, <1>3, <1>4 DEF OInv

LEMMA StepFrame ==
    ASSUME IInv, NEW th \in Threads, NEW pc \in ThreadSteps, Step(th, pc), RunSame,
           harmed' = harmed, Lives
    PROVE  \E x : /\ Frame(th, x, run[th[1]]) /\ x.pc = pc /\ x.task = thread[th].task
<1>1. PICK x : x = Going(thread[th], pc)
  OBVIOUS
<1>2. thread[th] \in ThreadRecords /\ thread \in [Threads -> ThreadRecords]
  BY SharedSame DEF Typed
<1>3. thread' = [thread EXCEPT ![th] = x] /\ x.pc = pc /\ x.task = thread[th].task
  BY <1>1, <1>2, StepIs, ThreadGoes
<1>4. SetRun(th[1], run[th[1]])
  BY SetSame
<1> QED BY <1>3, <1>4 DEF Frame, Lives

\* On to another place of the same task.
LEMMA StepOwned ==
    ASSUME IInv, OInv, NEW th \in Threads, Active(th), NEW pc \in ThreadSteps, Step(th, pc),
           RunSame, harmed' = harmed, Lives, \A t \in Tasks : Untouched(t),
           pc \notin {"idle", "orphan", "hitIndex"},
           pc # "raised" => thread[th].pc # "raised",
           thread[th].pc \in Spent =>
               pc \in Spent \cup {"raised"} \/ tasks[thread[th].task].state # "COMPLETE"
    PROVE  OInv'
<1>1. PICK x : Frame(th, x, run[th[1]]) /\ x.pc = pc /\ x.task = thread[th].task
  BY StepFrame
<1> QED BY <1>1, ThreadGoesOwned

LEMMA FallOwned ==
    ASSUME IInv, OInv, NEW th \in Threads, thread[th].pc \in Locked, Fall(th),
           UNCHANGED <<tasks, alive, harmed>>
    PROVE  OInv'
<1>1. Active(th) /\ thread[th].pc # "raised" /\ "error" \in ThreadSteps /\ "error" \in Spent
  BY DEF Active, Locked, ThreadSteps, Spent
<1>2. Step(th, "error") /\ RunSame /\ Lives /\ \A t \in Tasks : Untouched(t)
  BY SameUntouched DEF Fall, RunSame, Lives
<1> QED BY <1>1, <1>2, StepOwned

LEMMA EndFrame ==
    ASSUME NEW th \in Threads, NEW r, End(th, r), r.cpu = run[th[1]].cpu,
           r.gpu = run[th[1]].gpu, r.mine = run[th[1]].mine,
           r.pc = run[th[1]].pc \/ r.pc = "raised", harmed' = harmed, Lives
    PROVE  Frame(th, IdleThread, r)
  BY DEF Frame, End, Lives

\* The end of a task that is closed, or of the run.
LEMMA EndOwned ==
    ASSUME IInv, OInv, NEW th \in Threads, Active(th), NEW r, End(th, r),
           r.cpu = run[th[1]].cpu, r.gpu = run[th[1]].gpu, r.mine = run[th[1]].mine,
           r.pc = run[th[1]].pc \/ r.pc = "raised", UNCHANGED <<tasks, alive, harmed>>,
           \/ r.pc = "raised" \/ tasks[thread[th].task].state # "RUNNING"
           \/ thread[th].pc = "hitIndex"
    PROVE  OInv'
<1>1. Lives /\ \A t \in Tasks : Untouched(t)
  BY SameUntouched DEF Lives
<1>2. Frame(th, IdleThread, r)
  BY <1>1, EndFrame
<1> QED BY <1>1, <1>2, ThreadGoesOwned

\* A task closed by its thread, which ends.
LEMMA CloseOwned ==
    ASSUME IInv, OInv, NEW th \in Threads, Active(th), NEW r, End(th, r),
           r.cpu = run[th[1]].cpu, r.gpu = run[th[1]].gpu, r.mine = run[th[1]].mine,
           r.pc = run[th[1]].pc, UNCHANGED <<alive, harmed>>,
           NEW to \in Status \ {"RUNNING"}, NEW artifact, Move(th, to, artifact),
           thread[th].pc \notin Spent \cup {"raised"}
    PROVE  OInv'
<1>1. Frame(th, IdleThread, r)
  BY EndFrame DEF Lives
<1> QED BY <1>1, ThreadClosesOwned

LEMMA ThreadLives ==
    ASSUME NEW th \in Threads, alive' = alive \/ alive' = alive \cup {th} \/ alive' = alive \ {th}
    PROVE  Lives
  BY SchedulerAssumption DEF Lives

LEMMA LockOwned ==
    ASSUME IInv, OInv, NEW th \in Threads,
           GpuAcquire(th) \/ GpuTimeout(th) \/ KeyAcquire(th) \/ KeyTimeout(th)
    PROVE  OInv'
<1>1. PICK pc \in {"keyWait", "gpuError", "recheck", "error"} : Step(th, pc)
  BY DEF GpuAcquire, GpuTimeout, KeyAcquire, KeyTimeout
<1>2. /\ thread[th].pc \in {"gpuWait", "keyWait"} /\ RunSame
      /\ UNCHANGED <<tasks, alive, harmed>>
  BY DEF GpuAcquire, GpuTimeout, KeyAcquire, KeyTimeout, On, RunSame, history
<1>3. Active(th) /\ pc \in ThreadSteps /\ thread[th].pc \notin Spent \cup {"raised"}
  BY <1>1, <1>2 DEF Active, ThreadSteps, Locked, Spent
<1>4. Lives /\ \A t \in Tasks : Untouched(t)
  BY <1>2, SameUntouched DEF Lives
<1> QED BY <1>1, <1>2, <1>3, <1>4, StepOwned

\* Under the identity lock, without a call on the record.
LEMMA WorkOwned ==
    ASSUME IInv, OInv, NEW th \in Threads, NEW pc \in Locked \cup {"error"}, Step(th, pc), RunSame,
           thread[th].pc \in {"recheck", "launch", "started", "watching", "publish", "indexing"},
           alive' = alive \/ alive' = alive \cup {th} \/ alive' = alive \ {th},
           harmed' = harmed, \A t \in Tasks : Untouched(t), pc # "hitIndex"
    PROVE  OInv'
<1>1. /\ Active(th) /\ pc \in ThreadSteps /\ thread[th].pc \notin Spent \cup {"raised"}
      /\ pc \notin {"idle", "orphan", "raised"}
  BY DEF Active, ThreadSteps, Locked, Spent
<1> QED BY <1>1, ThreadLives, StepOwned

\* The same with a result in hand.
LEMMA BearOwned ==
    ASSUME IInv, OInv, NEW th \in Threads, NEW pc \in Locked \ {"hitIndex"}, NEW p, RunSame,
           thread' = [thread EXCEPT ![th] = [@ EXCEPT !.pc = pc, !.payload = p]],
           thread[th].pc \in {"recheck", "watching"},
           alive' = alive \/ alive' = alive \ {th}, UNCHANGED <<tasks, harmed>>
    PROVE  OInv'
<1>1. PICK x : x = [thread[th] EXCEPT !.pc = pc, !.payload = p]
  OBVIOUS
<1>2. thread[th] \in ThreadRecords
  BY SharedSame
<1>3. x.pc = pc /\ x.task = thread[th].task /\ thread' = [thread EXCEPT ![th] = x]
  BY <1>1, <1>2 DEF ThreadRecords
<1>4. Lives /\ SetRun(th[1], run[th[1]]) /\ \A t \in Tasks : Untouched(t)
  BY ThreadLives, SetSame, SameUntouched
<1>5. Frame(th, x, run[th[1]])
  BY <1>3, <1>4 DEF Frame, Lives
<1>6. /\ Active(th) /\ thread[th].pc \notin Spent \cup {"raised"}
      /\ pc \notin {"idle", "orphan", "hitIndex", "raised"}
  BY DEF Active, Spent, Locked
<1> QED BY <1>3, <1>4, <1>5, <1>6, ThreadGoesOwned

LEMMA RecheckOwned ==
    ASSUME IInv, OInv, NEW th \in Threads, Recheck(th)
    PROVE  OInv'
<1>1. thread[th].pc = "recheck" /\ RunSame /\ UNCHANGED <<tasks, alive, harmed>>
  BY DEF Recheck, On, RunSame, history
<1>2. \A t \in Tasks : Untouched(t)
  BY <1>1, SameUntouched
<1>3. "launch" \in Locked /\ "hit" \in Locked
  BY DEF Locked
<1>4. CASE Step(th, "launch")
  BY <1>1, <1>2, <1>3, <1>4, WorkOwned
<1>5. CASE thread' = [thread EXCEPT ![th] = [@ EXCEPT !.pc = "hit", !.payload = value[KeyFor(th)]]]
  BY <1>1, <1>3, <1>5, BearOwned
<1> QED BY <1>4, <1>5 DEF Recheck

LEMMA TaskRunning ==
    ASSUME IInv, NEW t \in Tasks, IsRunning(tasks[t]), NEW w \in Pids, NEW b \in BOOLEAN
    PROVE  LET a == Last(tasks[t]) IN
           /\ tasks[t] \in Records /\ tasks \in [Tasks -> Records]
           /\ [a EXCEPT !.fresh = b] \in Attempts /\ [a EXCEPT !.worker = w] \in Attempts
           /\ [a EXCEPT !.fresh = b].owner = a.owner
           /\ [a EXCEPT !.worker = w].owner = a.owner
<1>1. tasks[t] \in Records /\ tasks \in [Tasks -> Records]
  BY SharedSame DEF StateInv, TaskStateTypeOK
<1>2. tasks[t].attempts \in Seq(Attempts) /\ tasks[t].attempts # << >>
  BY <1>1, RecordFields DEF IsRunning
<1>3. Last(tasks[t]) \in Attempts
  BY <1>2 DEF Last
<1> QED BY <1>1, <1>3 DEF Attempts

LEMMA TouchedOwned ==
    ASSUME IInv, NEW u \in Tasks, IsRunning(tasks[u]), NEW a \in Attempts,
           a.owner = Last(tasks[u]).owner, tasks' = [tasks EXCEPT ![u] = Touched(@, a)]
    PROVE  \A t \in Tasks : Untouched(t)
<1>1. tasks \in [Tasks -> Records]
  BY SharedSame DEF StateInv, TaskStateTypeOK
<1>2. tasks'[u] = Touched(tasks[u], a) /\ \A t \in Tasks : t # u => tasks'[t] = tasks[t]
  BY <1>1
<1>3. Untouched(u)
  BY <1>1, <1>2, TouchUntouched
<1>4. \A t \in Tasks : t # u => Untouched(t)
  BY <1>2, SameUntouched
<1> QED BY <1>3, <1>4

LEMMA WatchOwned ==
    ASSUME IInv, OInv, NEW th \in Threads, RecordWorker(th) \/ Heartbeat(th)
    PROVE  OInv'
<1>1. thread[th].pc \in {"started", "watching"} /\ RunSame /\ harmed' = harmed
  BY DEF RecordWorker, Heartbeat, On, RunSame, history
<1>2. PICK u \in Tasks : u = thread[th].task
  BY <1>1, ThreadTask DEF Active
<1>3. {"watching", "fail"} \subseteq Locked
  BY DEF Locked
<1>4. CASE UNCHANGED tasks /\ Step(th, "fail") /\ alive' = alive \ {th}
  BY <1>1, <1>3, <1>4, SameUntouched, WorkOwned
<1>5. CASE /\ IsRunning(tasks[u]) /\ tasks' = [tasks EXCEPT ![u] = WithWorker(@, th)]
           /\ Step(th, "watching") /\ UNCHANGED alive
  <2>1. PICK a : a = [Last(tasks[u]) EXCEPT !.worker = th]
    OBVIOUS
  <2>2. a \in Attempts /\ a.owner = Last(tasks[u]).owner
    BY <1>5, <2>1, PidKinds, TaskRunning
  <2>3. tasks' = [tasks EXCEPT ![u] = Touched(@, a)]
    BY <1>5, <2>1 DEF WithWorker
  <2>4. \A t \in Tasks : Untouched(t)
    BY <1>5, <2>2, <2>3, TouchedOwned
  <2> QED BY <1>1, <1>3, <1>5, <2>4, WorkOwned
<1>6. CASE /\ IsRunning(tasks[u]) /\ tasks' = [tasks EXCEPT ![u] = Beaten(@)]
           /\ UNCHANGED <<alive, thread>>
  <2>1. PICK a : a = [Last(tasks[u]) EXCEPT !.fresh = TRUE]
    OBVIOUS
  <2>2. a \in Attempts /\ a.owner = Last(tasks[u]).owner
    BY <1>6, <2>1, PidKinds, TaskRunning
  <2>3. tasks' = [tasks EXCEPT ![u] = Touched(@, a)]
    BY <1>6, <2>1 DEF Beaten
  <2>4. \A t \in Tasks : Untouched(t) /\ Unharmed(t)
    BY <1>1, <1>6, <2>2, <2>3, TouchedOwned DEF Unharmed
  <2> QED BY <1>1, <1>6, <2>4, ItemsSame DEF Lives, RunSame
<1> QED BY <1>2, <1>4, <1>5, <1>6 DEF RecordWorker, Heartbeat

LEMMA WorkerOwned ==
    ASSUME IInv, OInv, NEW th \in Threads,
           Launch(th) \/ WorkerFails(th) \/ IndexResult(th)
           \/ (\E p \in Payloads : WorkerPasses(th, p))
    PROVE  OInv'
<1>1. {"started", "fail", "complete", "publish"} \subseteq Locked
  BY DEF Locked
<1>2. UNCHANGED tasks /\ RunSame /\ harmed' = harmed
  BY DEF Launch, WorkerFails, IndexResult, WorkerPasses, RunSame, history
<1>3. \A t \in Tasks : Untouched(t)
  BY <1>2, SameUntouched
<1>4. CASE Launch(th) \/ WorkerFails(th) \/ IndexResult(th)
  <2>1. PICK pc \in {"started", "fail", "complete"} : Step(th, pc)
    BY <1>4 DEF Launch, WorkerFails, IndexResult
  <2>2. /\ thread[th].pc \in {"launch", "watching", "indexing"}
        /\ alive' = alive \/ alive' = alive \cup {th} \/ alive' = alive \ {th}
    BY <1>4 DEF Launch, WorkerFails, IndexResult, On
  <2> QED BY <1>1, <1>2, <1>3, <2>1, <2>2, WorkOwned
<1>5. ASSUME NEW p \in Payloads, WorkerPasses(th, p) PROVE OInv'
  <2>1. /\ thread' = [thread EXCEPT ![th] = [@ EXCEPT !.pc = "publish", !.payload = p]]
        /\ alive' = alive \ {th} /\ thread[th].pc = "watching"
    BY <1>5 DEF WorkerPasses, On
  <2>2. "publish" \in Locked \ {"hitIndex"}
    BY <1>1
  <2> QED BY <1>2, <2>1, <2>2, BearOwned
<1> QED BY <1>4, <1>5

LEMMA PublishOwned ==
    ASSUME IInv, OInv, NEW th \in Threads, PublishResult(th)
    PROVE  OInv'
<1>1. /\ thread[th].pc = "publish" /\ thread[th].pc \in Locked /\ "indexing" \in Locked
      /\ UNCHANGED <<tasks, alive, harmed>>
  BY DEF PublishResult, On, Locked, history
<1>2. \A t \in Tasks : Untouched(t)
  BY <1>1, SameUntouched
<1>3. CASE Step(th, "indexing") /\ UNCHANGED run
  BY <1>1, <1>2, <1>3, WorkOwned DEF RunSame
<1>4. CASE Fall(th)
  BY <1>1, <1>4, FallOwned
<1> QED BY <1>3, <1>4 DEF PublishResult

LEMMA RunSelf ==
    ASSUME IInv, NEW th \in Threads
    PROVE  LET r == run[th[1]]
               h == [r EXCEPT !.hits = @ \cup {thread[th].task}]
               e == [r EXCEPT !.executed = @ \cup {thread[th].task}]
               g == [r EXCEPT !.pc = "raised"] IN
           /\ h.cpu = r.cpu /\ h.gpu = r.gpu /\ h.mine = r.mine /\ h.pc = r.pc
           /\ e.cpu = r.cpu /\ e.gpu = r.gpu /\ e.mine = r.mine /\ e.pc = r.pc
           /\ g.cpu = r.cpu /\ g.gpu = r.gpu /\ g.mine = r.mine /\ g.pc = "raised"
<1>1. run[th[1]] \in RunRecords
  BY SharedSame
<1> QED BY <1>1 DEF RunRecords

LEMMA CompleteHitOwned ==
    ASSUME IInv, OInv, NEW th \in Threads, CompleteHit(th)
    PROVE  OInv'
<1>1. /\ thread[th].pc = "hit" /\ thread[th].pc \in Locked /\ Active(th)
      /\ thread[th].pc \notin Spent \cup {"raised"} /\ UNCHANGED <<alive, harmed>>
  BY DEF CompleteHit, On, Locked, Active, Spent, history
<1>2. CASE /\ Move(th, "COMPLETE", thread[th].payload) /\ Step(th, "hitIndex")
           /\ UNCHANGED run
  <2>1. "hitIndex" \in ThreadSteps /\ "COMPLETE" \in Status \ {"RUNNING"} /\ Lives /\ RunSame
    BY <1>1, <1>2 DEF ThreadSteps, Locked, Status, Lives, RunSame
  <2>2. PICK x : Frame(th, x, run[th[1]]) /\ x.pc = "hitIndex" /\ x.task = thread[th].task
    BY <1>1, <1>2, <2>1, StepFrame
  <2> QED BY <1>1, <1>2, <2>1, <2>2, ThreadClosesOwned
<1>3. CASE Fall(th) /\ UNCHANGED tasks
  BY <1>1, <1>3, FallOwned
<1> QED BY <1>2, <1>3 DEF CompleteHit

\* The moves that end a task under the lock.
LEMMA ClosingOwned ==
    ASSUME IInv, OInv, NEW th \in Threads, GpuRefused(th) \/ Complete(th) \/ RecordFailure(th)
    PROVE  OInv'
<1>1. /\ thread[th].pc \in {"launch", "complete", "fail"} /\ thread[th].pc \in Locked /\ Active(th)
      /\ thread[th].pc \notin Spent \cup {"raised"} /\ UNCHANGED <<alive, harmed>>
  BY DEF GpuRefused, Complete, RecordFailure, On, Locked, Active, Spent, history
<1>2. {"BLOCKED", "COMPLETE", "FAILED"} \subseteq Status \ {"RUNNING"}
  BY DEF Status
<1>3. CASE Fall(th) /\ UNCHANGED tasks
  BY <1>1, <1>3, FallOwned
<1>4. ASSUME NEW to \in {"BLOCKED", "FAILED"}, Move(th, to, None), EndUncounted(th)
      PROVE  OInv'
  BY <1>1, <1>2, <1>4, CloseOwned DEF EndUncounted
<1>5. CASE /\ Move(th, "COMPLETE", thread[th].payload)
           /\ End(th, [run[th[1]] EXCEPT !.executed = @ \cup {thread[th].task}])
  BY <1>1, <1>2, <1>5, RunSelf, CloseOwned
<1> QED BY <1>3, <1>4, <1>5 DEF GpuRefused, Complete, RecordFailure

LEMMA IndexHitOwned ==
    ASSUME IInv, OInv, NEW th \in Threads, IndexHit(th)
    PROVE  OInv'
<1>1. /\ thread[th].pc = "hitIndex" /\ Active(th) /\ UNCHANGED <<tasks, alive, harmed>>
      /\ End(th, [run[th[1]] EXCEPT !.hits = @ \cup {thread[th].task}])
  BY DEF IndexHit, On, Active, history
<1> QED BY <1>1, RunSelf, EndOwned

LEMMA StepRaisesOwned ==
    ASSUME IInv, OInv, NEW th \in Threads, StepRaises(th)
    PROVE  OInv'
  BY FallOwned DEF StepRaises, history

LEMMA ReadOwned ==
    ASSUME IInv, OInv, NEW th \in Threads, HandlerReads(th) \/ GpuHandlerReads(th)
    PROVE  OInv'
<1>1. PICK from \in {"error", "gpuError"}, to \in {"errorRunning", "gpuErrorRunning"} :
          ReadAfterError(th, from, to)
  BY DEF HandlerReads, GpuHandlerReads
<1>2. /\ thread[th].pc = from /\ Active(th) /\ UNCHANGED <<tasks, alive, harmed>>
      /\ to \in ThreadSteps /\ Lives /\ \A t \in Tasks : Untouched(t)
  BY <1>1, SameUntouched DEF ReadAfterError, On, Active, ThreadSteps, history, Lives
<1>3. CASE tasks[thread[th].task].state = "RUNNING" /\ Step(th, to) /\ UNCHANGED run
  BY <1>2, <1>3, StepOwned DEF RunSame
<1>4. CASE tasks[thread[th].task].state # "RUNNING" /\ EndUncounted(th)
  BY <1>2, <1>4, EndOwned DEF EndUncounted
<1> QED BY <1>1, <1>3, <1>4 DEF ReadAfterError

LEMMA HandlerClosesOwned ==
    ASSUME IInv, OInv, NEW th \in Threads, HandlerFails(th) \/ GpuHandlerBlocks(th)
    PROVE  OInv'
<1>1. /\ thread[th].pc \in {"errorRunning", "gpuErrorRunning"} /\ Active(th)
      /\ thread[th].pc \notin Spent \cup {"raised"} /\ UNCHANGED <<alive, harmed>>
  BY DEF HandlerFails, GpuHandlerBlocks, On, Active, Spent, history
<1>2. PICK to \in {"FAILED", "BLOCKED"} : Move(th, to, None) /\ End(th, run[th[1]])
  BY DEF HandlerFails, GpuHandlerBlocks, EndUncounted
<1>3. to \in Status \ {"RUNNING"}
  BY <1>2 DEF Status
<1> QED BY <1>1, <1>2, <1>3, CloseOwned

LEMMA HandlerRaisesOwned ==
    ASSUME IInv, OInv, NEW th \in Threads, HandlerRaises(th)
    PROVE  OInv'
<1>1. /\ thread[th].pc \in {"error", "errorRunning"} /\ Active(th) /\ RunSame
      /\ UNCHANGED <<tasks, alive, harmed>>
  BY DEF HandlerRaises, On, Active, RunSame, history
<1>2. PICK pc \in {"gpuError", "raised"} : Step(th, pc)
  BY DEF HandlerRaises
<1>3. /\ pc \in ThreadSteps /\ pc \in Spent \cup {"raised"} /\ thread[th].pc # "raised"
      /\ pc \notin {"idle", "orphan", "hitIndex"} /\ Lives /\ \A t \in Tasks : Untouched(t)
  BY <1>1, <1>2, SameUntouched DEF ThreadSteps, Spent, Lives
<1> QED BY <1>1, <1>2, <1>3, StepOwned

LEMMA GpuHandlerRaisesOwned ==
    ASSUME IInv, OInv, NEW th \in Threads, GpuHandlerRaises(th)
    PROVE  OInv'
<1>1. /\ Active(th) /\ UNCHANGED <<tasks, alive, harmed>>
      /\ End(th, [run[th[1]] EXCEPT !.pc = "raised"])
  BY DEF GpuHandlerRaises, On, Active, history
<1> QED BY <1>1, RunSelf, EndOwned

LEMMA ThreadStepOwned ==
    ASSUME IInv, OInv, NEW th \in Threads,
           ThreadStep(th) \/ Heartbeat(th) \/ GpuTimeout(th) \/ KeyTimeout(th)
    PROVE  OInv'
<1>1. CASE GpuAcquire(th) \/ KeyAcquire(th) \/ GpuTimeout(th) \/ KeyTimeout(th)
  BY <1>1, LockOwned
<1>2. CASE RecordWorker(th) \/ Heartbeat(th)
  BY <1>2, WatchOwned
<1>3. CASE Launch(th) \/ WorkerFails(th) \/ IndexResult(th)
           \/ (\E p \in Payloads : WorkerPasses(th, p))
  BY <1>3, WorkerOwned
<1>4. CASE GpuRefused(th) \/ Complete(th) \/ RecordFailure(th)
  BY <1>4, ClosingOwned
<1>5. CASE HandlerReads(th) \/ GpuHandlerReads(th) \/ HandlerFails(th) \/ GpuHandlerBlocks(th)
  BY <1>5, ReadOwned, HandlerClosesOwned
<1>6. CASE Recheck(th) \/ CompleteHit(th) \/ IndexHit(th) \/ PublishResult(th)
           \/ StepRaises(th) \/ HandlerRaises(th) \/ GpuHandlerRaises(th)
  BY <1>6, RecheckOwned, CompleteHitOwned, IndexHitOwned, PublishOwned, StepRaisesOwned,
     HandlerRaisesOwned, GpuHandlerRaisesOwned
<1> QED BY <1>1, <1>2, <1>3, <1>4, <1>5, <1>6 DEF ThreadStep
-------------------------------------------------------------------------------
(* A scan, step by step.                                                   *)

\* The main thread of s acts: the others only see what becomes of a record.
LEMMA MainOwned ==
    ASSUME IInv, OInv, NEW s \in Scheds, NEW r, SetRun(s, r), UNCHANGED <<thread, alive, harmed>>,
           \A t \in Tasks : Owned(s, t)',
           \A o \in Scheds \ {s} : \A t \in Tasks :
               /\ Holds(o, t)' => Holds(o, t)
               /\ Untouched(t) \/ Bare(o, t) \/ harmed[KeyOf[t]] # 0,
           Serving(s)', Settling(s)'
    PROVE  OInv'
<1>1. \A o \in Scheds \ {s} : Rests(o)
  BY SharedSame DEF Rests, SetRun, Typed
<1>2. ASSUME NEW o \in Scheds \ {s}, NEW t \in Tasks PROVE Owned(o, t)'
  <2>1. Fewer(o, t) /\ Owned(o, t)
    BY <1>1, RestsFewer DEF OInv
  <2>2. CASE Untouched(t)
    BY <2>1, <2>2, OwnedStays DEF Unharmed
  <2>3. CASE Bare(o, t)
    BY <2>1, <2>3, BareStays DEF Fewer
  <2>4. CASE harmed[KeyOf[t]] # 0
    BY <2>4 DEF Owned
  <2> QED BY <2>2, <2>3, <2>4
<1>3. ASSUME NEW o \in Scheds \ {s} PROVE Serving(o)' /\ Settling(o)'
  <2>1. run[o].mine \subseteq Tasks
    BY SharedSame, RunFields
  <2>2. \A t \in run[o].mine : Holds(o, t)' => Holds(o, t)
    BY <2>1
  <2> QED BY <1>1, <2>2, RestsServe DEF OInv
<1>4. Vacant'
  BY DEF OInv, Vacant
<1> QED BY <1>2, <1>3, <1>4 DEF OInv

\* The new place of a scan that keeps its queues.
SameQueues(s, r) == r.cpu = run[s].cpu /\ r.gpu = run[s].gpu /\ r.mine = run[s].mine
Onwards == Scanning \cup {"submit", "raised"}

LEMMA ScanServes ==
    ASSUME IInv, OInv, NEW s \in Scheds, run[s].pc \in Scanning, NEW r, SetRun(s, r),
           alive' = alive, r.pc \in Onwards
    PROVE  run'[s] = r /\ Serving(s)'
<1>1. run'[s] = r
  BY SharedSame DEF SetRun, Typed
<1>2. s \in alive
  BY DEF OInv, Serving, Scanning
<1> QED BY <1>1, <1>2 DEF Serving, Onwards, Scanning

LEMMA ScanSettles ==
    ASSUME IInv, OInv, NEW s \in Scheds, run[s].pc \in Scanning, NEW r, SetRun(s, r),
           alive' = alive, r.pc \in Onwards,
           r.pc # "raised" =>
               \A t \in r.mine : t \in run[s].mine => (Waits(run[s], t) => Waits(r, t)),
           r.pc # "raised" => \A t \in r.mine : t \notin run[s].mine => Waits(r, t)
    PROVE  Settling(s)'
<1>1. run'[s] = r
  BY ScanServes
<1>2. \A t \in run[s].mine : Waits(run[s], t)
  BY DEF OInv, Settling
<1> QED BY <1>1, <1>2 DEF Settling, Onwards, Scanning

LEMMA ScanFewer ==
    ASSUME NEW s \in Scheds, NEW r, run'[s] = r, thread' = thread, SameQueues(s, r),
           NEW t, ~Starts(r, t)
    PROVE  Fewer(s, t)
  BY DEF Fewer, Shrinks, SameQueues, Waits

\* A scan without threads.
LEMMA QuietNotLive ==
    ASSUME NEW s, Quiet(s), NEW t, NEW th \in Threads, th[1] = s
    PROVE  ~Live(thread[th], t) /\ ~Busy(thread[th], t)
  BY DEF Quiet, Active, Live, Busy

\* On without a move.
LEMMA ScanGoesOwned ==
    ASSUME IInv, OInv, NEW s \in Scheds, run[s].pc \in Scanning, NEW r, SetRun(s, r),
           UNCHANGED <<tasks, thread, alive, harmed>>, SameQueues(s, r),
           r.pc \in Onwards, r.pc # "hitFinish"
    PROVE  OInv'
<1>1. run'[s] = r /\ Serving(s)'
  BY ScanServes
<1>2. Settling(s)'
  BY ScanSettles DEF SameQueues, Waits
<1>3. \A t \in Tasks : Untouched(t) /\ Unharmed(t)
  BY SameUntouched DEF Unharmed
<1>4. ASSUME NEW t \in Tasks PROVE Owned(s, t)'
  <2>1. Fewer(s, t)
    BY <1>1, ScanFewer DEF Starts
  <2> QED BY <1>3, <2>1, OwnedStays DEF OInv
<1>5. \A o \in Scheds \ {s} : \A t \in Tasks : Holds(o, t)' => Holds(o, t)
  BY <1>3 DEF Untouched
<1> QED BY <1>1, <1>2, <1>3, <1>4, <1>5, MainOwned

LEMMA ScanGotoOwned ==
    ASSUME IInv, OInv, NEW s \in Scheds, run[s].pc \in Scanning, NEW pc \in Onwards \ {"hitFinish"},
           Goto(s, pc), UNCHANGED <<tasks, thread, alive, harmed>>
    PROVE  OInv'
<1>1. PICK r : r = [run[s] EXCEPT !.pc = pc]
  OBVIOUS
<1>2. run[s] \in RunRecords
  BY SharedSame
<1>3. SetRun(s, r) /\ SameQueues(s, r) /\ r.pc = pc
  BY <1>1, <1>2 DEF Goto, SameQueues, RunRecords
<1> QED BY <1>3, ScanGoesOwned

LEMMA OnwardIs ==
    ASSUME NEW r \in RunRecords
    PROVE  /\ Onward(r).pc \in {"look", "submit"} /\ Onward(r).mine = r.mine
           /\ Onward(r).cpu = r.cpu /\ Onward(r).gpu = r.gpu
<1>1. CASE r.at = Len(Plan)
  BY <1>1 DEF Onward, RunRecords
<1>2. CASE r.at # Len(Plan)
  BY <1>2 DEF Onward, RunRecords
<1> QED BY <1>1, <1>2

LEMMA OnwardOwned ==
    ASSUME IInv, OInv, NEW s \in Scheds, run[s].pc \in Scanning, NEW r \in RunRecords,
           SameQueues(s, r), SetRun(s, Onward(r)), UNCHANGED <<tasks, thread, alive, harmed>>
    PROVE  OInv'
<1>1. PICK n : n = Onward(r)
  OBVIOUS
<1>2. n.pc \in {"look", "submit"} /\ SameQueues(s, n) /\ SetRun(s, n)
  BY <1>1, OnwardIs DEF SameQueues
<1>3. n.pc \in Onwards /\ n.pc # "hitFinish"
  BY <1>2 DEF Onwards, Scanning
<1> QED BY <1>2, <1>3, ScanGoesOwned

LEMMA LooksOwned ==
    ASSUME IInv, OInv, NEW s \in Scheds,
           Rebuild(s) \/ Look(s) \/ SecondLook(s) \/ CleanComplete(s) \/ CleanProbe(s)
           \/ ScanRaises(s) \/ CleanTimeout(s)
    PROVE  OInv'
<1>1. run[s].pc \in Scanning
  BY DEF Rebuild, Look, SecondLook, CleanComplete, CleanProbe, Clean, ScanRaises, CleanTimeout,
         At, Scanning
<1>2. UNCHANGED <<tasks, thread, alive, harmed>>
  BY DEF Rebuild, Look, SecondLook, CleanComplete, CleanProbe, Clean, ScanRaises, CleanTimeout,
         history
<1>3. {"look", "retry", "check", "second", "probe", "schedule", "raised"} \subseteq Onwards \ {"hitFinish"}
  BY DEF Onwards, Scanning
<1>4. CASE SetRun(s, Onward(run[s]))
  BY <1>1, <1>2, <1>4, SharedSame, OnwardOwned DEF SameQueues
<1>5. CASE \E pc \in {"look", "retry", "check", "second", "probe", "schedule", "raised"} :
               Goto(s, pc)
  BY <1>1, <1>2, <1>3, <1>5, ScanGotoOwned
<1> QED
  BY <1>4, <1>5
     DEF Rebuild, Look, SecondLook, CleanComplete, CleanProbe, Clean, ScanRaises, CleanTimeout

LEMMA ReadsOwned ==
    ASSUME IInv, OInv, NEW s \in Scheds, CheckComplete(s) \/ Probe(s)
    PROVE  OInv'
<1>1. run[s].pc \in Scanning /\ UNCHANGED <<tasks, thread, alive, harmed>>
  BY DEF CheckComplete, Probe, Read, At, Scanning, history
<1>2. PICK pc \in {"hitIndex", "reopen", "hitStart", "cleanProbe", "schedule"} :
          \E f : SetRun(s, [run[s] EXCEPT !.pc = pc, !.found = f])
  <2>1. CASE CheckComplete(s)
    BY <2>1 DEF CheckComplete, Read
  <2>2. CASE Probe(s)
    BY <2>2 DEF Probe, Read
  <2> QED BY <2>1, <2>2
<1>3. PICK f, r : r = [run[s] EXCEPT !.pc = pc, !.found = f] /\ SetRun(s, r)
  BY <1>2
<1>4. run[s] \in RunRecords
  BY SharedSame
<1>5. SetRun(s, r) /\ SameQueues(s, r) /\ r.pc = pc
  BY <1>3, <1>4 DEF SameQueues, RunRecords
<1>6. r.pc \in Onwards /\ r.pc # "hitFinish"
  BY <1>5 DEF Onwards, Scanning
<1> QED BY <1>1, <1>5, <1>6, ScanGoesOwned

LEMMA HitIndexOwned ==
    ASSUME IInv, OInv, NEW s \in Scheds, HitIndex(s)
    PROVE  OInv'
<1>1. PICK r : r = [run[s] EXCEPT !.hits = @ \cup {Task(s)}]
  OBVIOUS
<1>2. /\ run[s].pc \in Scanning /\ UNCHANGED <<tasks, thread, alive, harmed>>
      /\ SetRun(s, Onward(r))
  BY <1>1 DEF HitIndex, At, Scanning, history
<1>3. run[s] \in RunRecords /\ Task(s) \in Tasks
  BY ScanTask
<1>4. r \in RunRecords /\ SameQueues(s, r)
  BY <1>1, <1>3 DEF RunRecords, SameQueues
<1> QED BY <1>2, <1>4, OnwardOwned

\* What a move by the scan does to the record of its task, and to the others.
Transitions(s, u, to) ==
    /\ u = Plan[run[s].at]
    /\ to # "RUNNING" => \A o \in Scheds : ~Holds(o, u)'
    /\ to = "RUNNING" => Holds(s, u)'
    /\ \A o \in Scheds : Holds(o, u)' => o = s
    /\ \A t \in Tasks : t # u => Untouched(t)

LEMMA ScanMoves ==
    ASSUME IInv, NEW s \in Scheds, NEW to \in Status, NEW artifact,
           tasks' = [tasks EXCEPT ![Task(s)] = Moved(@, to, s, artifact)]
    PROVE  \E u \in Tasks : u = Task(s) /\ Transitions(s, u, to)
<1>1. tasks \in [Tasks -> Records]
  BY SharedSame DEF StateInv, TaskStateTypeOK
<1>2. PICK u \in Tasks : u = Task(s) /\ u = Plan[run[s].at]
  BY ScanTask
<1>3. tasks'[u] = Moved(tasks[u], to, s, artifact)
  BY <1>1, <1>2
<1>4. \A t \in Tasks : t # u => tasks'[t] = tasks[t]
  BY <1>1, <1>2
<1>5. tasks[u] \in Records
  BY <1>1
<1>6. /\ tasks'[u].state = to
      /\ \A o \in Scheds : Holds(o, u)' => to = "RUNNING" /\ o = s
      /\ to = "RUNNING" => Holds(s, u)'
  BY <1>3, <1>5, MoveHolds
<1>7. \A t \in Tasks : t # u => Untouched(t)
  BY <1>4, SameUntouched
<1> QED BY <1>2, <1>6, <1>7 DEF Transitions

\* The scan closes or reopens its task, which then has no item.
LEMMA ScanClosesOwned ==
    ASSUME IInv, OInv, NEW s \in Scheds, run[s].pc \in Scanning, NEW r, SetRun(s, r),
           UNCHANGED <<thread, alive, harmed>>, SameQueues(s, r),
           r.pc \in Onwards, r.pc # "hitFinish",
           NEW u \in Tasks, NEW to, to # "RUNNING", Transitions(s, u, to),
           \/ harmed[KeyOf[u]] # 0
           \/ tasks[u].state \notin {"COMPLETE", "RUNNING"}
           \/ run[s].pc = "hitFinish"
    PROVE  OInv'
<1>1. run'[s] = r /\ Serving(s)'
  BY ScanServes
<1>2. Settling(s)'
  BY ScanSettles DEF SameQueues, Waits
<1>3. u = Plan[run[s].at]
  BY DEF Transitions
<1>4. /\ \A o \in Scheds : ~Holds(o, u)'
      /\ \A t \in Tasks : t # u => Untouched(t)
  BY DEF Transitions
<1>5. ASSUME harmed[KeyOf[u]] = 0
      PROVE  /\ \A o \in Scheds \ {s} : Bare(o, u)
             /\ Bare(s, u)'
  <2>1. \A o \in Scheds : Owned(o, u)
    BY DEF OInv
  <2>2. Quiet(s)
    BY QuietScan
  <2>3. \A th \in Threads : th[1] = s => ~Live(thread[th], u)
    BY <2>2, QuietNotLive
  <2>4. ~Starts(run'[s], u)
    BY <1>1 DEF Starts
  <2>5. CASE tasks[u].state \notin {"COMPLETE", "RUNNING"}
    <3>1. \A o \in Scheds : ~Holds(o, u)
      BY <2>5 DEF Holds, IsRunning
    <3>2. \A o \in Scheds : Bare(o, u)
      BY <1>5, <2>1, <2>5, <3>1, NotHeldBare
    <3>3. ~Waits(run'[s], u)
      BY <1>1, <3>2 DEF Bare, Waits, SameQueues
    <3> QED BY <2>3, <2>4, <3>2, <3>3 DEF Bare
  <2>6. CASE run[s].pc = "hitFinish"
    <3>1. Holds(s, u) /\ ~Waits(run[s], u)
      BY <1>3, <1>5, <2>1, <2>6 DEF Owned, Single, Held, Starts
    <3>2. \A o \in Scheds \ {s} : ~Holds(o, u)
      BY <3>1, HoldsOne
    <3>3. tasks[u].state # "COMPLETE"
      BY <3>1 DEF Holds, IsRunning
    <3>4. \A o \in Scheds \ {s} : Bare(o, u)
      BY <1>5, <2>1, <3>2, <3>3, NotHeldBare
    <3>5. ~Waits(run'[s], u)
      BY <1>1, <3>1 DEF Waits, SameQueues
    <3> QED BY <2>3, <2>4, <3>4, <3>5 DEF Bare
  <2> QED BY <1>3, <1>5, <2>5, <2>6
<1>6. ASSUME NEW t \in Tasks PROVE Owned(s, t)'
  <2>1. CASE t # u
    <3>1. Fewer(s, t)
      BY <1>1, ScanFewer DEF Starts
    <3> QED BY <1>4, <2>1, <3>1, OwnedStays DEF OInv, Unharmed
  <2>2. CASE t = u /\ harmed[KeyOf[u]] = 0
    BY <1>5, <2>2, BareOwned
  <2>3. CASE t = u /\ harmed[KeyOf[u]] # 0
    BY <2>3 DEF Owned
  <2> QED BY <2>1, <2>2, <2>3
<1>7. \A o \in Scheds \ {s} : \A t \in Tasks :
          /\ Holds(o, t)' => Holds(o, t)
          /\ Untouched(t) \/ Bare(o, t) \/ harmed[KeyOf[t]] # 0
  BY <1>4, <1>5 DEF Untouched
<1> QED BY <1>1, <1>2, <1>6, <1>7, MainOwned

\* A refused move raises.
LEMMA RefusedOwned ==
    ASSUME IInv, OInv, NEW s \in Scheds, run[s].pc \in Scanning, Goto(s, "raised"),
           UNCHANGED <<tasks, thread, alive, harmed>>
    PROVE  OInv'
  BY ScanGotoOwned DEF Onwards

LEMMA ReopensOwned ==
    ASSUME IInv, OInv, NEW s \in Scheds, RetryFailed(s) \/ ReopenComplete(s) \/ HitFinish(s)
    PROVE  OInv'
<1>1. run[s].pc \in Scanning /\ UNCHANGED <<thread, alive, harmed>> /\ run[s] \in RunRecords
  BY SharedSame DEF RetryFailed, ReopenComplete, HitFinish, At, Scanning, history
<1>2. {"second", "clean", "hitIndex"} \subseteq Onwards \ {"hitFinish"}
  BY DEF Onwards, Scanning
<1>3. {"PENDING", "COMPLETE"} \subseteq Status \ {"RUNNING"}
  BY DEF Status
<1>4. ASSUME NEW pc \in {"second", "clean", "hitIndex"}, NEW to \in {"PENDING", "COMPLETE"},
             NEW reason, NEW artifact,
             ScanMove(s, to, reason, artifact, [run[s] EXCEPT !.pc = pc]),
             \/ harmed[KeyOf[Task(s)]] # 0
             \/ reason = "EXPLICIT_RETRY" /\ to = "PENDING"
             \/ run[s].pc = "hitFinish"
      PROVE  OInv'
  <2>1. PICK r : r = [run[s] EXCEPT !.pc = pc]
    OBVIOUS
  <2>2. SameQueues(s, r) /\ r.pc = pc
    BY <1>1, <2>1 DEF SameQueues, RunRecords
  <2>3. CASE Goto(s, "raised") /\ UNCHANGED tasks
    BY <1>1, <2>3, RefusedOwned
  <2>4. CASE /\ Accepts(tasks[Task(s)], to, reason, artifact)
             /\ tasks' = [tasks EXCEPT ![Task(s)] = Moved(@, to, s, artifact)]
             /\ SetRun(s, r)
    <3>1. \/ harmed[KeyOf[Task(s)]] # 0
          \/ tasks[Task(s)].state \notin {"COMPLETE", "RUNNING"}
          \/ run[s].pc = "hitFinish"
      BY <1>4, <2>4 DEF Accepts, MayMove, Allowed, Reopens
    <3>2. PICK u \in Tasks : u = Task(s) /\ Transitions(s, u, to)
      BY <1>3, <2>4, ScanMoves
    <3>3. r.pc \in Onwards /\ r.pc # "hitFinish" /\ to # "RUNNING"
      BY <1>2, <1>3, <2>2
    <3> QED BY <1>1, <2>2, <2>4, <3>1, <3>2, <3>3, ScanClosesOwned
  <2> QED BY <1>4, <2>1, <2>3, <2>4 DEF ScanMove
<1>5. CASE RetryFailed(s)
  BY <1>4, <1>5 DEF RetryFailed
<1>6. CASE ReopenComplete(s)
  <2>1. harmed[KeyOf[Task(s)]] > 0 /\ KeyOf[Task(s)] \in Keys
    BY <1>6, ScanTask DEF ReopenComplete, At, Seen
  <2>2. harmed[KeyOf[Task(s)]] # 0
    BY <2>1
  <2>3. ScanMove(s, "PENDING", "INVALID_CACHE_ARTIFACT", None, [run[s] EXCEPT !.pc = "clean"])
    BY <1>6 DEF ReopenComplete
  <2> QED BY <1>4, <2>2, <2>3
<1>7. CASE HitFinish(s)
  BY <1>4, <1>7 DEF HitFinish, At
<1> QED BY <1>5, <1>6, <1>7

\* A pending task belongs to nobody.
LEMMA PendingBare ==
    ASSUME OInv, NEW u \in Tasks, tasks[u].state = "PENDING", harmed[KeyOf[u]] = 0
    PROVE  \A o \in Scheds : Bare(o, u)
<1>1. \A o \in Scheds : Owned(o, u) /\ ~Holds(o, u)
  BY DEF OInv, Holds, IsRunning
<1> QED BY <1>1, NotHeldBare

\* The scan starts a pending task: its one item, if it has one, is that of s.
LEMMA ScanStartsOwned ==
    ASSUME IInv, OInv, NEW s \in Scheds, run[s].pc \in Scanning, NEW r, SetRun(s, r),
           UNCHANGED <<thread, alive, harmed>>, r.pc \in Onwards,
           NEW u \in Tasks, tasks[u].state = "PENDING", Transitions(s, u, "RUNNING"),
           \A t \in Tasks \ {u} : Fewer(s, t),
           harmed[KeyOf[u]] = 0 => Single(s, u)',
           Settling(s)'
    PROVE  OInv'
<1>1. Serving(s)'
  BY ScanServes
<1>2. /\ Holds(s, u)' /\ \A o \in Scheds : Holds(o, u)' => o = s
      /\ \A t \in Tasks : t # u => Untouched(t)
  BY DEF Transitions
<1>3. Quiet(s)
  BY QuietScan
<1>4. ASSUME NEW t \in Tasks PROVE Owned(s, t)'
  <2>1. CASE t # u
    BY <1>2, <2>1, OwnedStays DEF OInv, Unharmed
  <2>2. CASE t = u
    <3>1. Held(s, u)'
      BY <1>2 DEF Held
    <3> QED BY <2>2, <3>1 DEF Owned
  <2> QED BY <2>1, <2>2
<1>5. \A o \in Scheds \ {s} : \A t \in Tasks :
          /\ Holds(o, t)' => Holds(o, t)
          /\ Untouched(t) \/ Bare(o, t) \/ harmed[KeyOf[t]] # 0
  BY <1>2, PendingBare DEF Untouched
<1> QED BY <1>1, <1>4, <1>5, MainOwned

LEMMA StartsPending ==
    ASSUME NEW rec, NEW reason, NEW artifact, Accepts(rec, "RUNNING", reason, artifact)
    PROVE  rec.state = "PENDING"
  BY DEF Accepts, MayMove, Allowed

LEMMA HitStartOwned ==
    ASSUME IInv, OInv, NEW s \in Scheds, HitStart(s)
    PROVE  OInv'
<1>1. PICK r : r = [run[s] EXCEPT !.pc = "hitFinish"]
  OBVIOUS
<1>2. /\ run[s].pc \in Scanning /\ UNCHANGED <<thread, alive, harmed>> /\ run[s] \in RunRecords
      /\ ScanMove(s, "RUNNING", "ORDINARY", None, r)
  BY <1>1, SharedSame DEF HitStart, At, Scanning, history
<1>3. SameQueues(s, r) /\ r.pc = "hitFinish" /\ r.at = run[s].at /\ r.pc \in Onwards
  BY <1>1, <1>2 DEF SameQueues, RunRecords, Onwards, Scanning
<1>4. CASE Goto(s, "raised") /\ UNCHANGED tasks
  BY <1>2, <1>4, RefusedOwned
<1>5. CASE /\ Accepts(tasks[Task(s)], "RUNNING", "ORDINARY", None)
           /\ tasks' = [tasks EXCEPT ![Task(s)] = Moved(@, "RUNNING", s, None)]
           /\ SetRun(s, r)
  <2>1. PICK u \in Tasks : u = Task(s) /\ Transitions(s, u, "RUNNING")
    BY <1>5, StatusReasons, ScanMoves
  <2>2. tasks[u].state = "PENDING"
    BY <1>5, <2>1, StartsPending
  <2>3. u = Plan[run[s].at]
    BY <2>1 DEF Transitions
  <2>4. run'[s] = r
    BY <1>2, <1>3, <1>5, ScanServes
  <2>5. \A t \in Tasks \ {u} : Fewer(s, t)
    BY <1>2, <1>3, <2>3, <2>4, ScanFewer DEF Starts
  <2>6. ASSUME harmed[KeyOf[u]] = 0 PROVE Single(s, u)'
    <3>1. Bare(s, u)
      BY <2>2, <2>6, PendingBare
    <3>2. ~Waits(run'[s], u)
      BY <1>3, <2>4, <3>1 DEF Bare, Waits, SameQueues
    <3>3. Once(run'[s].cpu, u) /\ Once(run'[s].gpu, u)
      BY <3>2 DEF Waits, InQueue, Once
    <3>4. \A th \in Threads : th[1] = s => ~Live(thread'[th], u)
      BY <1>2, <3>1 DEF Bare
    <3> QED BY <3>2, <3>3, <3>4 DEF Single
  <2>7. Settling(s)'
    BY <1>2, <1>3, <1>5, ScanSettles DEF SameQueues, Waits
  <2> QED BY <1>2, <1>3, <1>5, <2>1, <2>2, <2>5, <2>6, <2>7, ScanStartsOwned
<1> QED BY <1>2, <1>4, <1>5 DEF ScanMove

\* A task at the end of a queue.
LEMMA AppendOnce ==
    ASSUME NEW q \in Seq(Tasks), NEW u \in Tasks
    PROVE  /\ InQueue(Append(q, u), u)
           /\ \A t : InQueue(q, t) => InQueue(Append(q, u), t)
           /\ \A t : t # u /\ InQueue(Append(q, u), t) => InQueue(q, t)
           /\ \A t : t # u /\ Once(q, t) => Once(Append(q, u), t)
           /\ ~InQueue(q, u) => Once(Append(q, u), u)
<1> DEFINE n == Append(q, u)
<1>1. Len(q) \in Nat /\ Len(n) = Len(q) + 1 /\ n[Len(q) + 1] = u
  OBVIOUS
<1>2. \A i \in 1 .. Len(q) : n[i] = q[i]
  OBVIOUS
<1> HIDE DEF n
<1>3. \A i \in 1 .. Len(n) : i \in 1 .. Len(q) \/ i = Len(q) + 1
  BY <1>1
<1>4. \A i \in 1 .. Len(q) : i \in 1 .. Len(n)
  BY <1>1
<1>5. Len(q) + 1 \in 1 .. Len(n)
  BY <1>1
<1>6. InQueue(n, u) /\ \A t : InQueue(q, t) => InQueue(n, t)
  BY <1>1, <1>2, <1>4, <1>5 DEF InQueue
<1>7. \A t : t # u /\ InQueue(n, t) => InQueue(q, t)
  BY <1>1, <1>2, <1>3 DEF InQueue
<1>8. \A t : t # u /\ Once(q, t) => Once(n, t)
  BY <1>1, <1>2, <1>3 DEF Once
<1>9. ~InQueue(q, u) => Once(n, u)
  BY <1>1, <1>2, <1>3 DEF Once, InQueue
<1> QED BY <1>6, <1>7, <1>8, <1>9 DEF n

LEMMA QueuedIs ==
    ASSUME NEW r \in RunRecords, NEW u \in Tasks
    PROVE  LET q == Queued(r, u) IN
           /\ q \in RunRecords
           /\ q.mine = r.mine \cup {u}
           /\ \/ q.cpu = Append(r.cpu, u) /\ q.gpu = r.gpu
              \/ q.cpu = r.cpu /\ q.gpu = Append(r.gpu, u)
<1>1. /\ r.mine \cup {u} \in SUBSET Tasks
      /\ Append(r.cpu, u) \in Seq(Tasks) /\ Append(r.gpu, u) \in Seq(Tasks)
  BY RunFields
<1>2. PICK c \in Seq(Tasks), g \in Seq(Tasks), m \in SUBSET Tasks :
          c = Append(r.cpu, u) /\ g = Append(r.gpu, u) /\ m = r.mine \cup {u}
  BY <1>1
<1>3. CASE u \in gpuTasks
  <2>1. Queued(r, u) = [r EXCEPT !.gpu = g, !.mine = m]
    BY <1>2, <1>3 DEF Queued
  <2>2. LET q == [r EXCEPT !.gpu = g, !.mine = m] IN
        q \in RunRecords /\ q.mine = m /\ q.cpu = r.cpu /\ q.gpu = g
    BY DEF RunRecords
  <2> QED BY <1>2, <2>1, <2>2
<1>4. CASE u \notin gpuTasks
  <2>1. Queued(r, u) = [r EXCEPT !.cpu = c, !.mine = m]
    BY <1>2, <1>4 DEF Queued
  <2>2. LET q == [r EXCEPT !.cpu = c, !.mine = m] IN
        q \in RunRecords /\ q.mine = m /\ q.cpu = c /\ q.gpu = r.gpu
    BY DEF RunRecords
  <2> QED BY <1>2, <2>1, <2>2
<1> QED BY <1>3, <1>4

LEMMA ScheduleOwned ==
    ASSUME IInv, OInv, NEW s \in Scheds, Schedule(s)
    PROVE  OInv'
<1>1. PICK r : r = Onward(Queued(run[s], Task(s)))
  OBVIOUS
<1>2. /\ run[s].pc \in Scanning /\ UNCHANGED <<thread, alive, harmed>> /\ run[s] \in RunRecords
      /\ ScanMove(s, "RUNNING", "ORDINARY", None, r) /\ Task(s) \in Tasks
      /\ run[s].cpu \in Seq(Tasks) /\ run[s].gpu \in Seq(Tasks)
  BY <1>1, ScanTask, RunFields DEF Schedule, At, Scanning, history
<1>3. CASE Goto(s, "raised") /\ UNCHANGED tasks
  BY <1>2, <1>3, RefusedOwned
<1>4. CASE /\ Accepts(tasks[Task(s)], "RUNNING", "ORDINARY", None)
           /\ tasks' = [tasks EXCEPT ![Task(s)] = Moved(@, "RUNNING", s, None)]
           /\ SetRun(s, r)
  <2>1. PICK u \in Tasks : u = Task(s) /\ Transitions(s, u, "RUNNING")
    BY <1>4, StatusReasons, ScanMoves
  <2>2. tasks[u].state = "PENDING"
    BY <1>4, <2>1, StartsPending
  <2>3. /\ r.pc \in {"look", "submit"} /\ r.mine = run[s].mine \cup {u}
        /\ \/ r.cpu = Append(run[s].cpu, u) /\ r.gpu = run[s].gpu
           \/ r.cpu = run[s].cpu /\ r.gpu = Append(run[s].gpu, u)
    <3>1. PICK q : q = Queued(run[s], u)
      OBVIOUS
    <3>2. /\ q \in RunRecords /\ q.mine = run[s].mine \cup {u}
          /\ \/ q.cpu = Append(run[s].cpu, u) /\ q.gpu = run[s].gpu
             \/ q.cpu = run[s].cpu /\ q.gpu = Append(run[s].gpu, u)
      BY <1>2, <3>1, QueuedIs
    <3>3. r = Onward(q)
      BY <1>1, <2>1, <3>1
    <3> QED BY <3>2, <3>3, OnwardIs
  <2>4. r.pc \in Onwards /\ r.pc # "hitFinish" /\ run'[s] = r
    BY <1>2, <1>4, <2>3, ScanServes DEF Onwards, Scanning
  <2>5. /\ \A t : Waits(run[s], t) => Waits(r, t)
        /\ \A t : t # u /\ Waits(r, t) => Waits(run[s], t)
        /\ \A t : t # u /\ Once(run[s].cpu, t) => Once(r.cpu, t)
        /\ \A t : t # u /\ Once(run[s].gpu, t) => Once(r.gpu, t)
        /\ Waits(r, u)
        /\ ~Waits(run[s], u) => Once(r.cpu, u) /\ Once(r.gpu, u)
    <3>1. \A q \in Seq(Tasks) : ~InQueue(q, u) => Once(q, u)
      BY DEF InQueue, Once
    <3>2. CASE r.cpu = Append(run[s].cpu, u) /\ r.gpu = run[s].gpu
      BY <1>2, <3>1, <3>2, AppendOnce DEF Waits
    <3>3. CASE r.cpu = run[s].cpu /\ r.gpu = Append(run[s].gpu, u)
      BY <1>2, <3>1, <3>3, AppendOnce DEF Waits
    <3> QED BY <2>3, <3>2, <3>3
  <2>6. \A t \in Tasks \ {u} : Fewer(s, t)
    BY <1>2, <2>4, <2>5 DEF Fewer, Shrinks, Starts
  <2>7. ASSUME harmed[KeyOf[u]] = 0 PROVE Single(s, u)'
    <3>1. Bare(s, u)
      BY <2>2, <2>7, PendingBare
    <3>2. Once(run'[s].cpu, u) /\ Once(run'[s].gpu, u) /\ ~Starts(run'[s], u)
      BY <2>4, <2>5, <3>1 DEF Bare, Starts
    <3>3. \A th \in Threads : th[1] = s => ~Live(thread'[th], u)
      BY <1>2, <3>1 DEF Bare
    <3> QED BY <3>2, <3>3 DEF Single
  <2>8. Settling(s)'
    BY <1>2, <1>4, <2>3, <2>4, <2>5, ScanSettles
  <2> QED BY <1>2, <1>4, <2>1, <2>2, <2>4, <2>6, <2>7, <2>8, ScanStartsOwned
<1> QED BY <1>2, <1>3, <1>4 DEF ScanMove

LEMMA ScanStepOwned ==
    ASSUME IInv, OInv, NEW s \in Scheds, ScanStep(s) \/ CleanTimeout(s)
    PROVE  OInv'
  BY LooksOwned, ReadsOwned, HitIndexOwned, ReopensOwned, HitStartOwned, ScheduleOwned DEF ScanStep
-------------------------------------------------------------------------------
(* A run begins, hands out its queues, and ends.                           *)

LEMMA EmptyQueues ==
    ASSUME NEW r, r.cpu = << >>, r.gpu = << >>
    PROVE  \A t : ~Waits(r, t)
  BY DEF Waits, InQueue

LEMMA OffBare ==
    ASSUME IInv, OInv, NEW o \in Scheds, o \notin alive, NEW t
    PROVE  Bare(o, t)
<1>1. run[o].pc = "off" /\ run[o].cpu = << >> /\ run[o].gpu = << >>
  BY DEF OInv, Serving
<1>2. Quiet(o)
  BY <1>1, QuietScan DEF Resting
<1> QED BY <1>1, <1>2, EmptyQueues, QuietNotLive DEF Bare, Starts

LEMMA StartRunOwned ==
    ASSUME IInv, OInv, NEW s \in Scheds, NEW retry \in BOOLEAN, StartRun(s, retry)
    PROVE  OInv'
<1>1. PICK r : r = NewRun("rebuild", retry)
  OBVIOUS
<1>2. /\ s \in alive /\ run[s].pc \in Resting /\ SetRun(s, r)
      /\ tasks' = [t \in Tasks |-> Recovered(tasks[t], alive)]
      /\ UNCHANGED <<thread, alive, harmed>>
  BY <1>1 DEF StartRun
<1>3. r.pc = "rebuild" /\ r.cpu = << >> /\ r.gpu = << >> /\ r.mine = {}
  BY <1>1 DEF NewRun
<1>4. run'[s] = r
  BY <1>2, SharedSame DEF SetRun, Typed
<1>5. Serving(s)' /\ Settling(s)'
  BY <1>2, <1>3, <1>4 DEF Serving, Settling
<1>6. Quiet(s)
  BY <1>2, QuietScan
<1>7. ASSUME NEW t \in Tasks PROVE Owned(s, t)'
  <2>1. ~Waits(run'[s], t) /\ ~Starts(run'[s], t)
    BY <1>3, <1>4, EmptyQueues DEF Starts
  <2>2. Bare(s, t)'
    BY <1>2, <1>6, <2>1, QuietNotLive DEF Bare
  <2> QED BY <2>2, BareOwned
<1>8. ASSUME NEW o \in Scheds \ {s}, NEW t \in Tasks
      PROVE  /\ Holds(o, t)' => Holds(o, t)
             /\ Untouched(t) \/ Bare(o, t) \/ harmed[KeyOf[t]] # 0
  <2>1. tasks'[t] = Recovered(tasks[t], alive) /\ tasks[t] \in Records
    BY <1>2, SharedSame DEF StateInv, TaskStateTypeOK
  <2>2. CASE ~Abandoned(tasks[t], alive)
    <3>1. tasks'[t] = tasks[t]
      BY <2>1, <2>2 DEF Recovered
    <3> QED BY <3>1, SameUntouched DEF Untouched
  <2>3. CASE Abandoned(tasks[t], alive)
    <3>1. tasks'[t] = Moved(tasks[t], "PENDING", None, None)
      BY <2>1, <2>3 DEF Recovered
    <3>2. ~Holds(o, t)'
      <4>1. tasks'[t].state = "PENDING"
        BY <3>1 DEF Moved
      <4> QED BY <4>1 DEF Holds, IsRunning
    <3>3. IsRunning(tasks[t]) /\ Last(tasks[t]).owner \notin alive
      BY <2>3 DEF Abandoned
    <3>4. CASE Holds(o, t)
      BY <3>2, <3>3, <3>4, OffBare DEF Holds
    <3>5. CASE ~Holds(o, t)
      BY <3>2, <3>3, <3>5, NotHeldBare DEF OInv, IsRunning
    <3> QED BY <3>4, <3>5
  <2> QED BY <2>2, <2>3
<1> QED BY <1>2, <1>5, <1>7, <1>8, MainOwned

\* The pool is gone, or the run returns: all its threads are idle.
LEMMA PoolClosedOwned ==
    ASSUME IInv, OInv, NEW s \in Scheds, PoolClosed(s) \/ Finish(s)
    PROVE  OInv'
<1>1. /\ UNCHANGED <<tasks, thread, alive, harmed>> /\ run[s] \in RunRecords
      /\ \A t \in Tasks : Untouched(t) /\ Unharmed(t)
  BY SharedSame, SameUntouched DEF PoolClosed, Finish, history, Unharmed
<1>2. \A th \in Threads : th[1] = s => ~Active(th)
  <2>1. CASE PoolClosed(s)
    BY <2>1, ThreadParts DEF PoolClosed, OfRun, On, Active
  <2>2. CASE Finish(s)
    BY <2>2, ThreadParts, SharedSame DEF Finish, On, At, Ready, Active
  <2> QED BY <2>1, <2>2
<1>3. Quiet(s)
  BY <1>2 DEF Quiet
<1>4. PICK pc \in {"raised", "gpu", "done"} :
          /\ Goto(s, pc) /\ run[s].pc \in {"pool", "closing", "gpu"}
          /\ pc = "gpu" => run[s].pc = "pool" /\ run[s].cpu = << >>
          /\ pc = "done" => run[s].pc = "gpu" /\ run[s].gpu = << >>
  BY DEF PoolClosed, Finish, At
<1>5. PICK r : r = [run[s] EXCEPT !.pc = pc]
  OBVIOUS
<1>6. SetRun(s, r) /\ r.pc = pc /\ SameQueues(s, r)
  BY <1>1, <1>4, <1>5 DEF Goto, SameQueues, RunRecords
<1>7. run'[s] = r
  BY <1>6, SharedSame DEF SetRun, Typed
<1>8. Serving(s)'
  BY <1>1, <1>4, <1>6, <1>7 DEF OInv, Serving, SameQueues
<1>9. ASSUME NEW t \in r.mine, pc # "raised", Holds(s, t)' PROVE Waits(r, t)
  <2>1. t \in Tasks /\ t \in run[s].mine
    BY <1>1, <1>6, <1>9, RunFields DEF SameQueues
  <2>2. Holds(s, t) /\ run[s].pc \in {"pool", "gpu"}
    BY <1>1, <1>4, <1>9, <2>1 DEF Untouched
  <2>3. Waits(run[s], t) \/ \E th \in Threads : th[1] = s /\ Busy(thread[th], t)
    BY <2>1, <2>2 DEF OInv, Settling
  <2> QED BY <1>3, <1>6, <2>3, QuietNotLive DEF Waits, SameQueues
<1>10. Settling(s)'
  BY <1>4, <1>6, <1>7, <1>9 DEF Settling, Scanning
<1>11. ASSUME NEW t \in Tasks PROVE Owned(s, t)'
  <2>1. Fewer(s, t)
    BY <1>1, <1>4, <1>6, <1>7, ScanFewer DEF Starts
  <2> QED BY <1>1, <2>1, OwnedStays DEF OInv
<1>12. \A o \in Scheds \ {s} : \A t \in Tasks : Holds(o, t)' => Holds(o, t)
  BY <1>1 DEF Untouched
<1> QED BY <1>1, <1>6, <1>8, <1>10, <1>11, <1>12, MainOwned

\* Threads of s begin or end; the records stay.
LEMMA HandsOver ==
    ASSUME IInv, OInv, NEW s \in Scheds, NEW r, SetRun(s, r), UNCHANGED <<tasks, alive, harmed>>,
           \A th \in Threads : th[1] # s => thread'[th] = thread[th],
           \A th \in Threads : \/ thread'[th] = thread[th] \/ thread'[th] = IdleThread
                               \/ thread'[th].pc # "idle",
           \A t \in Tasks : Owned(s, t)', Serving(s)', Settling(s)'
    PROVE  OInv'
<1>1. \A o \in Scheds \ {s} : Rests(o)
  BY SharedSame DEF Rests, SetRun, Typed
<1>2. \A t \in Tasks : Untouched(t) /\ Unharmed(t)
  BY SameUntouched DEF Unharmed
<1>3. ASSUME NEW o \in Scheds \ {s}, NEW t \in Tasks PROVE Owned(o, t)'
  <2>1. Fewer(o, t)
    BY <1>1, RestsFewer
  <2> QED BY <1>2, <2>1, OwnedStays DEF OInv
<1>4. ASSUME NEW o \in Scheds \ {s} PROVE Serving(o)' /\ Settling(o)'
  <2>1. run[o].mine \subseteq Tasks
    BY SharedSame, RunFields
  <2>2. \A t \in run[o].mine : Holds(o, t)' => Holds(o, t)
    BY <1>2, <2>1 DEF Untouched
  <2> QED BY <1>1, <2>2, RestsServe DEF OInv
<1>5. Vacant'
  BY DEF OInv, Vacant, IdleThread
<1> QED BY <1>3, <1>4, <1>5 DEF OInv

LEMMA CollectRaisedOwned ==
    ASSUME IInv, OInv, NEW th \in Threads, CollectRaised(th)
    PROVE  OInv'
<1>1. PICK s \in Scheds : s = th[1] /\ run[s] \in RunRecords
  BY SharedSame
<1>2. PICK r : r = [run[s] EXCEPT !.pc = "closing"]
  OBVIOUS
<1>3. /\ UNCHANGED <<tasks, alive, harmed>> /\ thread' = [thread EXCEPT ![th] = IdleThread]
      /\ SetRun(s, r) /\ run[s].pc # "off"
  BY <1>1, <1>2 DEF CollectRaised, Goto, history
<1>4. r.pc = "closing" /\ SameQueues(s, r)
  BY <1>1, <1>2 DEF SameQueues, RunRecords
<1>5. run'[s] = r /\ thread'[th] = IdleThread /\ \A o \in Threads : o # th => thread'[o] = thread[o]
  BY <1>3, SharedSame DEF SetRun, Typed
<1>6. Serving(s)' /\ Settling(s)'
  BY <1>3, <1>4, <1>5 DEF OInv, Serving, Settling, Scanning
<1>7. ASSUME NEW t \in Tasks PROVE Owned(s, t)'
  <2>1. ~Live(IdleThread, t)
    BY DEF Live, IdleThread
  <2>2. \A o \in Threads : Live(thread'[o], t) => thread'[o] = thread[o]
    BY <1>5, <2>1
  <2>3. Fewer(s, t)
    BY <1>4, <1>5, <2>2 DEF Fewer, Shrinks, Waits, Starts, SameQueues
  <2>4. Untouched(t) /\ Unharmed(t)
    BY <1>3, SameUntouched DEF Unharmed
  <2> QED BY <2>3, <2>4, OwnedStays DEF OInv
<1>8. \A o \in Threads : /\ o[1] # s => thread'[o] = thread[o]
                         /\ thread'[o] = thread[o] \/ thread'[o] = IdleThread
  BY <1>1, <1>5
<1> QED BY <1>3, <1>6, <1>7, <1>8, HandsOver

\* p is what is left of queue q when its first n tasks are out.
Rest(p, q, n) ==
    /\ p \in Seq(Tasks) /\ q \in Seq(Tasks) /\ n \in 0 .. Len(q)
    /\ Len(p) = Len(q) - n
    /\ \A i \in 1 .. Len(p) : p[i] = q[i + n]

LEMMA RestOf ==
    ASSUME NEW p, NEW q, NEW n, Rest(p, q, n)
    PROVE  \A t :
             /\ InQueue(p, t) => InQueue(q, t)
             /\ Once(q, t) => Once(p, t)
             /\ \A i \in 1 .. n : q[i] = t => InQueue(q, t) /\ (Once(q, t) => ~InQueue(p, t))
             /\ InQueue(q, t) => InQueue(p, t) \/ \E i \in 1 .. n : q[i] = t
<1> TAKE t
<1>1. Len(p) \in Nat /\ Len(q) \in Nat /\ n \in Nat /\ n <= Len(q) /\ Len(p) = Len(q) - n
  BY DEF Rest
<1>2. \A i \in 1 .. Len(p) : i + n \in 1 .. Len(q) /\ p[i] = q[i + n]
  BY <1>1 DEF Rest
<1>3. \A i \in 1 .. n : i \in 1 .. Len(q)
  BY <1>1
<1>4. \A i \in 1 .. Len(q) : i \in 1 .. n \/ (i - n \in 1 .. Len(p) /\ (i - n) + n = i)
  BY <1>1
<1>5. InQueue(p, t) => InQueue(q, t)
  BY <1>2 DEF InQueue
<1>6. ASSUME Once(q, t) PROVE Once(p, t)
  <2> SUFFICES ASSUME NEW i \in 1 .. Len(p), NEW j \in 1 .. Len(p), p[i] = t, p[j] = t PROVE i = j
    BY DEF Once
  <2>1. i + n = j + n
    BY <1>2, <1>6 DEF Once
  <2> QED BY <1>1, <2>1
<1>7. ASSUME NEW i \in 1 .. n, q[i] = t PROVE InQueue(q, t) /\ (Once(q, t) => ~InQueue(p, t))
  <2>1. InQueue(q, t)
    BY <1>3, <1>7 DEF InQueue
  <2>2. ASSUME Once(q, t), NEW j \in 1 .. Len(p), p[j] = t PROVE FALSE
    <3>1. i = j + n
      BY <1>2, <1>3, <1>7, <2>2 DEF Once
    <3> QED BY <1>1, <3>1
  <2> QED BY <2>1, <2>2 DEF InQueue
<1>8. ASSUME InQueue(q, t) PROVE InQueue(p, t) \/ \E i \in 1 .. n : q[i] = t
  <2>1. PICK j \in 1 .. Len(q) : q[j] = t
    BY <1>8 DEF InQueue
  <2>2. CASE j - n \in 1 .. Len(p) /\ (j - n) + n = j
    BY <1>2, <2>1, <2>2 DEF InQueue
  <2> QED BY <1>4, <2>1, <2>2
<1> QED BY <1>5, <1>6, <1>7, <1>8

LEMMA NotBoth ==
    ASSUME IInv, NEW s \in Scheds, NEW t
    PROVE  ~(InQueue(run[s].cpu, t) /\ InQueue(run[s].gpu, t))
<1>1. Queues(run[s])
  BY SharedSame
<1> QED BY <1>1 DEF Queues, InQueue

\* The first n tasks of a queue go to n threads, those of H.
LEMMA HandsOutOwned ==
    ASSUME IInv, OInv, NEW s \in Scheds, NEW r, SetRun(s, r), UNCHANGED <<tasks, alive, harmed>>,
           r.mine = run[s].mine, NEW q, NEW p, NEW n, Rest(p, q, n),
           \/ q = run[s].cpu /\ p = r.cpu /\ r.gpu = run[s].gpu
           \/ q = run[s].gpu /\ p = r.gpu /\ r.cpu = run[s].cpu,
           \/ run[s].pc \in {"submit", "pool"} /\ r.pc = "pool"
           \/ run[s].pc = "gpu" /\ r.pc = "gpu" /\ r.cpu = run[s].cpu,
           NEW H \in SUBSET Threads, NEW place,
           \A th \in H : /\ th[1] = s /\ thread[th].pc \in {"idle", "orphan"} /\ place[th] \in 1 .. n
                         /\ thread'[th].pc \in {"keyWait", "gpuWait"}
                         /\ thread'[th].task = q[place[th]],
           \A th \in Threads \ H : thread'[th] = thread[th],
           \A th, o \in H : place[th] = place[o] => th = o,
           \A i \in 1 .. n : \E th \in H : place[th] = i
    PROVE  OInv'
<1>1. run'[s] = r
  BY SharedSame DEF SetRun, Typed
<1>2. \A t \in Tasks : Untouched(t) /\ Unharmed(t)
  BY SameUntouched DEF Unharmed
<1>3. ASSUME NEW t
      PROVE  /\ Waits(r, t) => Waits(run[s], t)
             /\ Once(run[s].cpu, t) => Once(r.cpu, t)
             /\ Once(run[s].gpu, t) => Once(r.gpu, t)
             /\ \A i \in 1 .. n : q[i] = t => Waits(run[s], t)
             /\ \A i \in 1 .. n : q[i] = t /\ Once(q, t) => ~Waits(r, t)
             /\ Waits(run[s], t) => Waits(r, t) \/ \E i \in 1 .. n : q[i] = t
  BY RestOf, NotBoth DEF Waits
<1>4. \A th \in H : ~Active(th)
  BY DEF Active
<1>5. ASSUME NEW th \in Threads, NEW t, Live(thread'[th], t)
      PROVE  \/ th \in H /\ q[place[th]] = t /\ place[th] \in 1 .. n
             \/ th \notin H /\ Live(thread[th], t)
  BY <1>5 DEF Live
<1>6. ASSUME NEW t \in Tasks PROVE Owned(s, t)'
  <2> SUFFICES ASSUME harmed[KeyOf[t]] = 0 PROVE Single(s, t)' /\ Held(s, t)'
    BY DEF Owned
  <2>1. Single(s, t) /\ Held(s, t)
    BY DEF OInv, Owned
  <2>2. Once(q, t) /\ Once(run'[s].cpu, t) /\ Once(run'[s].gpu, t)
    BY <1>1, <1>3, <2>1 DEF Single
  <2>3. ~Starts(run'[s], t)
    BY <1>1 DEF Starts
  <2>4. ASSUME NEW th \in Threads, th[1] = s, Live(thread'[th], t)
        PROVE  /\ ~Waits(run'[s], t) /\ (Waits(run[s], t) \/ Live(thread[th], t))
               /\ th \in H => Waits(run[s], t)
               /\ th \notin H => Live(thread[th], t)
    <3>1. CASE th \in H /\ q[place[th]] = t /\ place[th] \in 1 .. n
      BY <1>1, <1>3, <2>2, <3>1
    <3>2. CASE th \notin H /\ Live(thread[th], t)
      BY <1>1, <1>3, <2>1, <2>4, <3>2 DEF Single
    <3> QED BY <1>5, <2>4, <3>1, <3>2
  <2>5. ASSUME NEW th \in Threads, th[1] = s, Live(thread'[th], t),
               NEW o \in Threads, o[1] = s, Live(thread'[o], t)
        PROVE  o = th
    <3>1. CASE th \in H /\ o \in H
      <4>1. /\ q[place[th]] = t /\ place[th] \in 1 .. n
            /\ q[place[o]] = t /\ place[o] \in 1 .. n
        BY <1>5, <2>5, <3>1
      <4>2. n <= Len(q) /\ n \in Nat /\ Len(q) \in Nat
        BY DEF Rest
      <4>3. place[th] \in 1 .. Len(q) /\ place[o] \in 1 .. Len(q)
        BY <4>1, <4>2
      <4>4. place[th] = place[o]
        BY <2>2, <4>1, <4>3 DEF Once
      <4> QED BY <3>1, <4>4
    <3>2. CASE th \notin H /\ o \notin H
      BY <2>1, <2>4, <2>5, <3>2 DEF Single
    <3>3. CASE th \in H /\ o \notin H
      BY <2>1, <2>4, <2>5, <3>3 DEF Single
    <3>4. CASE th \notin H /\ o \in H
      BY <2>1, <2>4, <2>5, <3>4 DEF Single
    <3> QED BY <3>1, <3>2, <3>3, <3>4
  <2>6. Single(s, t)'
    BY <2>2, <2>3, <2>4, <2>5 DEF Single
  <2>7. Waits(run[s], t) => Holds(s, t)'
    BY <1>2, <2>1 DEF Held, Untouched
  <2>8. ASSUME NEW th \in Threads, th[1] = s, Live(thread'[th], t)
        PROVE  Holds(s, t)' \/ (thread'[th].pc \in Spent /\ tasks'[t].state = "COMPLETE")
    <3>1. CASE th \in H
      BY <2>4, <2>7, <2>8, <3>1
    <3>2. CASE th \notin H
      BY <1>2, <2>1, <2>4, <2>8, <3>2 DEF Held, Untouched
    <3> QED BY <3>1, <3>2
  <2>9. Held(s, t)'
    BY <1>1, <1>3, <2>3, <2>7, <2>8 DEF Held
  <2> QED BY <2>6, <2>9
<1>7. Serving(s)'
  BY <1>1 DEF OInv, Serving
<1>8. ASSUME NEW t \in r.mine, Holds(s, t)'
      PROVE  Waits(r, t) \/ \E th \in Threads : th[1] = s /\ Busy(thread'[th], t)
  <2>1. t \in Tasks
    BY SharedSame, RunFields
  <2>2. Holds(s, t)
    BY <1>2, <1>8, <2>1 DEF Untouched
  <2>3. Waits(run[s], t) \/ \E th \in Threads : th[1] = s /\ Busy(thread[th], t)
    BY <2>2 DEF OInv, Settling
  <2>4. ASSUME NEW i \in 1 .. n, q[i] = t
        PROVE  \E th \in Threads : th[1] = s /\ Busy(thread'[th], t)
    <3>1. PICK th \in H : place[th] = i
      OBVIOUS
    <3> QED BY <2>4, <3>1 DEF Busy
  <2>5. ASSUME NEW th \in Threads, Busy(thread[th], t) PROVE Busy(thread'[th], t)
    BY <2>5 DEF Busy
  <2> QED BY <1>3, <2>3, <2>4, <2>5
<1>9. Settling(s)'
  BY <1>1, <1>8 DEF Settling, Scanning
<1>10. \A th \in Threads : /\ th[1] # s => thread'[th] = thread[th]
                           /\ thread'[th] = thread[th] \/ thread'[th].pc # "idle"
  OBVIOUS
<1> QED BY <1>6, <1>7, <1>9, <1>10, HandsOver

LEMMA SubmitOwned ==
    ASSUME IInv, OInv, NEW s \in Scheds, Submit(s)
    PROVE  OInv'
<1>1. PICK n : n = IF Len(run[s].cpu) < Workers THEN Len(run[s].cpu) ELSE Workers
  OBVIOUS
<1>2. PICK q : q = run[s].cpu
  OBVIOUS
<1>3. /\ run[s] \in RunRecords /\ q \in Seq(Tasks)
      /\ n \in 0 .. Len(q) /\ n <= Workers /\ Workers \in Nat
  BY <1>1, <1>2, ScanTask, RunFields, SchedulerAssumption
<1>4. PICK p : p = SubSeq(q, n + 1, Len(q))
  OBVIOUS
<1>5. Rest(p, q, n)
  BY <1>3, <1>4 DEF Rest
<1>6. PICK r : r = [run[s] EXCEPT !.pc = "pool", !.cpu = p]
  OBVIOUS
<1>7. /\ UNCHANGED <<tasks, alive, harmed>> /\ run[s].pc = "submit"
      /\ thread' = [th \in Threads |->
              IF th[1] = s /\ th[2] <= n THEN Assigned("keyWait", q[th[2]]) ELSE thread[th]]
      /\ SetRun(s, [run[s] EXCEPT !.pc = "pool", !.cpu = SubSeq(run[s].cpu, n + 1, Len(run[s].cpu))])
  BY <1>1, <1>2 DEF Submit, At, history
<1>8. /\ SetRun(s, r) /\ r.pc = "pool" /\ r.cpu = p /\ r.gpu = run[s].gpu /\ r.mine = run[s].mine
  BY <1>2, <1>3, <1>4, <1>6, <1>7 DEF RunRecords
<1>9. PICK H : H = {th \in Threads : th[1] = s /\ th[2] <= n}
  OBVIOUS
<1>10. PICK place : place = [th \in Threads |-> th[2]]
  OBVIOUS
<1>11. Quiet(s)
  BY <1>7, SharedSame DEF Quiet, Ready
<1>12. ASSUME NEW th \in H
       PROVE  /\ th \in Threads /\ th[1] = s /\ thread[th].pc \in {"idle", "orphan"}
              /\ place[th] \in 1 .. n /\ place[th] = th[2]
              /\ thread'[th].pc \in {"keyWait", "gpuWait"}
              /\ thread'[th].task = q[place[th]]
  <2>1. th \in Threads /\ th[1] = s /\ th[2] <= n /\ th[2] \in Slots
    BY <1>9, ThreadParts
  <2>2. thread'[th] = Assigned("keyWait", q[th[2]])
    BY <1>7, <2>1
  <2>3. place[th] = th[2] /\ th[2] \in 1 .. n
    BY <1>3, <1>10, <2>1 DEF Slots
  <2> QED BY <1>11, <2>1, <2>2, <2>3 DEF Quiet, Active, Assigned
<1>13. \A th \in Threads \ H : thread'[th] = thread[th]
  BY <1>7, <1>9
<1>14. \A th, o \in H : place[th] = place[o] => th = o
  BY <1>12, ThreadParts
<1>15. ASSUME NEW i \in 1 .. n PROVE \E th \in H : place[th] = i
  <2>1. <<s, i>> \in Threads
    BY <1>3 DEF Threads, Slots
  <2>2. <<s, i>> \in H /\ place[<<s, i>>] = i
    BY <1>3, <1>9, <1>10, <2>1
  <2> QED BY <2>2
<1>16. H \in SUBSET Threads
  BY <1>9
<1>17. \A th \in H : /\ th[1] = s /\ thread[th].pc \in {"idle", "orphan"} /\ place[th] \in 1 .. n
                     /\ thread'[th].pc \in {"keyWait", "gpuWait"}
                     /\ thread'[th].task = q[place[th]]
  BY <1>12
<1>18. /\ q = run[s].cpu /\ p = r.cpu /\ r.gpu = run[s].gpu /\ r.mine = run[s].mine
       /\ run[s].pc \in {"submit", "pool"} /\ r.pc = "pool" /\ SetRun(s, r)
       /\ UNCHANGED <<tasks, alive, harmed>>
  BY <1>2, <1>7, <1>8
<1> QED BY <1>5, <1>13, <1>14, <1>15, <1>16, <1>17, <1>18, HandsOutOwned

LEMMA TailRest ==
    ASSUME NEW q \in Seq(Tasks), q # << >>
    PROVE  Rest(Tail(q), q, 1) /\ Head(q) = q[1]
<1>1. Tail(q) \in Seq(Tasks) /\ Len(Tail(q)) = Len(q) - 1 /\ 1 \in 0 .. Len(q)
  OBVIOUS
<1>2. \A i \in 1 .. Len(Tail(q)) : Tail(q)[i] = q[i + 1]
  OBVIOUS
<1> QED BY <1>1, <1>2 DEF Rest

\* The head of a queue goes to a thread.
LEMMA HandsHeadOwned ==
    ASSUME IInv, OInv, NEW s \in Scheds, NEW r, SetRun(s, r), UNCHANGED <<tasks, alive, harmed>>,
           r.mine = run[s].mine, NEW q, NEW p, Rest(p, q, 1),
           \/ q = run[s].cpu /\ p = r.cpu /\ r.gpu = run[s].gpu
           \/ q = run[s].gpu /\ p = r.gpu /\ r.cpu = run[s].cpu,
           \/ run[s].pc \in {"submit", "pool"} /\ r.pc = "pool"
           \/ run[s].pc = "gpu" /\ r.pc = "gpu" /\ r.cpu = run[s].cpu,
           NEW th \in Threads, th[1] = s, thread[th].pc = "idle",
           thread'[th].pc \in {"keyWait", "gpuWait"}, thread'[th].task = q[1],
           \A o \in Threads : o # th => thread'[o] = thread[o]
    PROVE  OInv'
<1>1. PICK H : H = {th}
  OBVIOUS
<1>2. PICK place : place = [o \in Threads |-> 1]
  OBVIOUS
<1>3. H \in SUBSET Threads
  BY <1>1
<1>4. \A o \in H : /\ o[1] = s /\ thread[o].pc \in {"idle", "orphan"} /\ place[o] \in 1 .. 1
                   /\ thread'[o].pc \in {"keyWait", "gpuWait"}
                   /\ thread'[o].task = q[place[o]]
  BY <1>1, <1>2
<1>5. \A o \in Threads \ H : thread'[o] = thread[o]
  BY <1>1
<1>6. \A o, w \in H : place[o] = place[w] => o = w
  BY <1>1
<1>7. \A i \in 1 .. 1 : \E o \in H : place[o] = i
  BY <1>1, <1>2
<1> QED BY <1>3, <1>4, <1>5, <1>6, <1>7, HandsOutOwned

LEMMA HandedOver ==
    ASSUME IInv, NEW th \in Threads, NEW pc \in {"keyWait", "gpuWait"}, NEW q \in Seq(Tasks),
           q # << >>, thread' = [thread EXCEPT ![th] = Assigned(pc, Head(q))]
    PROVE  /\ Rest(Tail(q), q, 1)
           /\ thread'[th].pc \in {"keyWait", "gpuWait"} /\ thread'[th].task = q[1]
           /\ \A o \in Threads : o # th => thread'[o] = thread[o]
<1>1. Rest(Tail(q), q, 1) /\ Head(q) = q[1]
  BY TailRest
<1>2. thread'[th] = Assigned(pc, q[1]) /\ \A o \in Threads : o # th => thread'[o] = thread[o]
  BY <1>1, SharedSame DEF Typed
<1> QED BY <1>1, <1>2 DEF Assigned

LEMMA DispatchOwned ==
    ASSUME IInv, OInv, NEW th \in Threads, Dispatch(th)
    PROVE  OInv'
<1>1. PICK s \in Scheds : s = th[1]
  BY SharedSame
<1>2. run[s] \in RunRecords /\ run[s].cpu \in Seq(Tasks)
  BY SharedSame, RunFields
<1>3. PICK r : r = [run[s] EXCEPT !.cpu = Tail(@)]
  OBVIOUS
<1>4. /\ SetRun(s, r) /\ UNCHANGED <<tasks, alive, harmed>> /\ run[s].pc = "pool"
      /\ run[s].cpu # << >> /\ thread[th].pc = "idle"
      /\ thread' = [thread EXCEPT ![th] = Assigned("keyWait", Head(run[s].cpu))]
  BY <1>1, <1>3 DEF Dispatch, At, On, history
<1>5. r.cpu = Tail(run[s].cpu) /\ r.gpu = run[s].gpu /\ r.mine = run[s].mine /\ r.pc = "pool"
  BY <1>2, <1>3, <1>4 DEF RunRecords
<1>6. /\ Rest(Tail(run[s].cpu), run[s].cpu, 1)
      /\ thread'[th].pc \in {"keyWait", "gpuWait"} /\ thread'[th].task = run[s].cpu[1]
      /\ \A o \in Threads : o # th => thread'[o] = thread[o]
  BY <1>2, <1>4, HandedOver
<1>7. Rest(r.cpu, run[s].cpu, 1) /\ th[1] = s /\ run[s].pc \in {"submit", "pool"}
  BY <1>1, <1>4, <1>5, <1>6
<1> QED BY <1>4, <1>5, <1>6, <1>7, HandsHeadOwned

LEMMA DispatchGpuOwned ==
    ASSUME IInv, OInv, NEW th \in Threads, DispatchGpu(th)
    PROVE  OInv'
<1>1. PICK s \in Scheds : s = th[1]
  BY SharedSame
<1>2. run[s] \in RunRecords /\ run[s].gpu \in Seq(Tasks)
  BY SharedSame, RunFields
<1>3. PICK r : r = [run[s] EXCEPT !.gpu = Tail(@)]
  OBVIOUS
<1>4. /\ SetRun(s, r) /\ UNCHANGED <<tasks, alive, harmed>> /\ run[s].pc = "gpu"
      /\ run[s].gpu # << >> /\ thread[th].pc = "idle"
      /\ thread' = [thread EXCEPT ![th] = Assigned("gpuWait", Head(run[s].gpu))]
  BY <1>1, <1>3 DEF DispatchGpu, At, On, history
<1>5. r.gpu = Tail(run[s].gpu) /\ r.cpu = run[s].cpu /\ r.mine = run[s].mine /\ r.pc = "gpu"
  BY <1>2, <1>3, <1>4 DEF RunRecords
<1>6. /\ Rest(Tail(run[s].gpu), run[s].gpu, 1)
      /\ thread'[th].pc \in {"keyWait", "gpuWait"} /\ thread'[th].task = run[s].gpu[1]
      /\ \A o \in Threads : o # th => thread'[o] = thread[o]
  BY <1>2, <1>4, HandedOver
<1>7. Rest(r.gpu, run[s].gpu, 1) /\ th[1] = s
  BY <1>1, <1>5, <1>6
<1> QED BY <1>4, <1>5, <1>6, <1>7, HandsHeadOwned

LEMMA MainStepOwned ==
    ASSUME IInv, OInv, NEW s \in Scheds, MainStep(s)
    PROVE  OInv'
<1>1. \A th \in OfRun(s) : th \in Threads
  BY DEF OfRun, Threads
<1> QED
  BY <1>1, SubmitOwned, DispatchOwned, DispatchGpuOwned, CollectRaisedOwned, PoolClosedOwned
     DEF MainStep
-------------------------------------------------------------------------------
(* Crashes, time and the disk.                                             *)

LEMMA CrashOwned ==
    ASSUME IInv, OInv, NEW s \in Scheds, Crash(s)
    PROVE  OInv'
<1>1. PICK r : r = NewRun("off", FALSE)
  OBVIOUS
<1>2. /\ alive' = alive \ {s} /\ SetRun(s, r) /\ UNCHANGED <<tasks, harmed>>
      /\ thread' = [th \in Threads |->
             IF th[1] # s THEN thread[th]
             ELSE IF th \in alive THEN Assigned("orphan", thread[th].task)
             ELSE IdleThread]
  BY <1>1 DEF Crash, history
<1>3. r.pc = "off" /\ r.cpu = << >> /\ r.gpu = << >> /\ r.mine = {}
  BY <1>1 DEF NewRun
<1>4. run'[s] = r /\ \A o \in Scheds \ {s} : Rests(o)
  BY <1>2, SharedSame DEF SetRun, Typed, Rests
<1>5. \A t \in Tasks : Untouched(t) /\ Unharmed(t)
  BY <1>2, SameUntouched DEF Unharmed
<1>6. Serving(s)' /\ Settling(s)'
  BY <1>3, <1>4 DEF Serving, Settling
<1>7. ASSUME NEW th \in Threads, th[1] = s
      PROVE  /\ \A t : ~Live(thread'[th], t)
             /\ thread'[th].pc = "idle" => thread'[th].task = None
  BY <1>2, <1>7 DEF Live, Assigned, IdleThread
<1>8. ASSUME NEW t \in Tasks PROVE Owned(s, t)'
  <2>1. ~Waits(run'[s], t) /\ ~Starts(run'[s], t)
    BY <1>3, <1>4, EmptyQueues DEF Starts
  <2>2. Bare(s, t)'
    BY <1>7, <2>1 DEF Bare
  <2> QED BY <2>2, BareOwned
<1>9. ASSUME NEW o \in Scheds \ {s}, NEW t \in Tasks PROVE Owned(o, t)'
  <2>1. Fewer(o, t)
    BY <1>4, RestsFewer
  <2> QED BY <1>5, <2>1, OwnedStays DEF OInv
<1>10. ASSUME NEW o \in Scheds \ {s} PROVE Serving(o)' /\ Settling(o)'
  <2>1. run[o].mine \subseteq Tasks
    BY SharedSame, RunFields
  <2>2. \A t \in run[o].mine : Holds(o, t)' => Holds(o, t)
    BY <1>5, <2>1 DEF Untouched
  <2> QED BY <1>4, <2>2, RestsServe DEF OInv
<1>11. Vacant'
  BY <1>2, <1>7 DEF OInv, Vacant
<1> QED BY <1>6, <1>8, <1>9, <1>10, <1>11 DEF OInv

LEMMA OrphanEndsOwned ==
    ASSUME IInv, OInv, NEW th \in Threads, OrphanEnds(th)
    PROVE  OInv'
<1>1. /\ thread[th].pc = "orphan" /\ thread' = [thread EXCEPT ![th] = IdleThread]
      /\ alive' = alive \ {th} /\ run' = run /\ UNCHANGED <<tasks, harmed>>
  BY DEF OrphanEnds, On, history
<1>2. thread'[th] = IdleThread /\ \A o \in Threads : o # th => thread'[o] = thread[o]
  BY <1>1, SharedSame DEF Typed
<1>3. Lives /\ \A t \in Tasks : Untouched(t) /\ Unharmed(t)
  BY <1>1, ThreadLives, SameUntouched DEF Unharmed
<1>4. ASSUME NEW t
      PROVE  /\ ~Live(IdleThread, t) /\ ~Busy(thread[th], t)
  BY <1>1 DEF Live, Busy, IdleThread
<1>5. ASSUME NEW s \in Scheds, NEW t \in Tasks PROVE Owned(s, t)'
  <2>1. \A o \in Threads : Live(thread'[o], t) => thread'[o] = thread[o]
    BY <1>2, <1>4
  <2>2. Fewer(s, t)
    BY <1>1, <2>1 DEF Fewer, Shrinks
  <2> QED BY <1>3, <2>2, OwnedStays DEF OInv
<1>6. ASSUME NEW s \in Scheds PROVE Serving(s)' /\ Settling(s)'
  <2>1. Serving(s)'
    BY <1>1, <1>3 DEF OInv, Serving, Lives
  <2>2. run[s].mine \subseteq Tasks
    BY SharedSame, RunFields
  <2>3. \A t \in run[s].mine : Holds(s, t)' => Holds(s, t)
    BY <1>3, <2>2 DEF Untouched
  <2>4. \A o \in Threads, t \in Tasks : Busy(thread[o], t) => Busy(thread'[o], t)
    BY <1>2, <1>4
  <2>5. Settling(s)'
    BY <1>1, <2>2, <2>3, <2>4 DEF OInv, Settling
  <2> QED BY <2>1, <2>5
<1>7. Vacant'
  BY <1>2 DEF OInv, Vacant, IdleThread
<1> QED BY <1>5, <1>6, <1>7 DEF OInv

LEMMA LeaseRunsOutOwned ==
    ASSUME IInv, OInv, NEW t \in Tasks, LeaseRunsOut(t)
    PROVE  OInv'
<1>1. /\ IsRunning(tasks[t]) /\ tasks' = [tasks EXCEPT ![t] = Aged(@)]
      /\ UNCHANGED <<alive, run, thread, harmed>>
  BY DEF LeaseRunsOut, LeaseExpires, history
<1>2. PICK a : a = [Last(tasks[t]) EXCEPT !.fresh = FALSE]
  OBVIOUS
<1>3. PICK w : w \in Pids
  <2>1. tasks[t].attempts \in Seq(Attempts) /\ tasks[t].attempts # << >>
    BY <1>1, SharedSame, RecordFields DEF StateInv, TaskStateTypeOK, IsRunning
  <2>2. Last(tasks[t]) \in Attempts
    BY <2>1 DEF Last
  <2> QED BY <2>2 DEF Attempts
<1>4. a \in Attempts /\ a.owner = Last(tasks[t]).owner
  BY <1>1, <1>2, <1>3, TaskRunning
<1>5. tasks' = [tasks EXCEPT ![t] = Touched(@, a)]
  BY <1>1, <1>2 DEF Aged
<1>6. \A u \in Tasks : Untouched(u) /\ Unharmed(u)
  BY <1>1, <1>4, <1>5, TouchedOwned DEF Unharmed
<1> QED BY <1>1, <1>6, ItemsSame DEF Lives

LEMMA EntryDamagedOwned ==
    ASSUME IInv, OInv, NEW k \in Keys, EntryDamaged(k)
    PROVE  OInv'
<1>1. /\ harmed' = [harmed EXCEPT ![k] = @ + 1]
      /\ UNCHANGED <<tasks, alive, run, thread>>
  BY DEF EntryDamaged
<1>2. harmed \in [Keys -> 0 .. MaxDamage] /\ MaxDamage \in Nat
  BY SharedSame, SchedulerAssumption DEF Typed
<1>3. ASSUME NEW t \in Tasks PROVE Untouched(t) /\ Unharmed(t)
  <2>1. KeyOf[t] \in Keys
    BY SchedulerAssumption
  <2>2. Unharmed(t)
    BY <1>1, <1>2, <2>1 DEF Unharmed
  <2> QED BY <1>1, <2>2, SameUntouched
<1> QED BY <1>1, <1>3, ItemsSame DEF Lives

LEMMA StutterOwned ==
    ASSUME IInv, OInv, UNCHANGED vars
    PROVE  OInv'
<1>1. UNCHANGED <<tasks, alive, run, thread, harmed>>
  BY DEF vars
<1>2. \A t \in Tasks : Untouched(t) /\ Unharmed(t)
  BY <1>1, SameUntouched DEF Unharmed
<1> QED BY <1>1, <1>2, ItemsSame DEF Lives

LEMMA InitOInv == Init => OInv
<1> SUFFICES ASSUME Init PROVE OInv
  OBVIOUS
<1>1. PICK r : r = NewRun("off", FALSE)
  OBVIOUS
<1>2. r.pc = "off" /\ r.cpu = << >> /\ r.gpu = << >> /\ r.mine = {}
  BY <1>1 DEF NewRun
<1>3. \A s \in Scheds : run[s] = r
  BY <1>1 DEF Init
<1>4. \A th \in Threads : thread[th] = IdleThread
  BY DEF Init
<1>5. \A s \in Scheds : Serving(s) /\ Settling(s)
  BY <1>2, <1>3 DEF Serving, Settling
<1>6. ASSUME NEW s \in Scheds, NEW t \in Tasks PROVE Owned(s, t)
  <2>1. ~Waits(run[s], t) /\ ~Starts(run[s], t)
    BY <1>2, <1>3, EmptyQueues DEF Starts
  <2>2. \A th \in Threads : ~Live(thread[th], t)
    BY <1>4 DEF Live, IdleThread
  <2>3. Once(run[s].cpu, t) /\ Once(run[s].gpu, t)
    BY <1>2, <1>3 DEF Once
  <2> QED BY <2>1, <2>2, <2>3 DEF Owned, Single, Held
<1>7. Vacant
  BY <1>4 DEF Vacant, IdleThread
<1> QED BY <1>5, <1>6, <1>7 DEF OInv

LEMMA NextOInv ==
    ASSUME IInv, OInv, [Next]_vars
    PROVE  OInv'
<1>1. ASSUME NEW s \in Scheds, NEW retry \in BOOLEAN, StartRun(s, retry) PROVE OInv'
  BY <1>1, StartRunOwned
<1>2. ASSUME NEW s \in Scheds, ScanStep(s) \/ CleanTimeout(s) \/ MainStep(s) PROVE OInv'
  BY <1>2, ScanStepOwned, MainStepOwned
<1>3. ASSUME NEW th \in Threads,
             ThreadStep(th) \/ Heartbeat(th) \/ GpuTimeout(th) \/ KeyTimeout(th)
      PROVE  OInv'
  BY <1>3, ThreadStepOwned
<1>4. CASE Environment
  BY <1>4, CrashOwned, OrphanEndsOwned, LeaseRunsOutOwned, EntryDamagedOwned DEF Environment
<1>5. CASE UNCHANGED vars
  BY <1>5, StutterOwned
<1> QED BY <1>1, <1>2, <1>3, <1>4, <1>5 DEF Next

\* The second invariant holds in every state of every behaviour: one item of
\* work for a task, under its open attempt.
THEOREM SchedulerOwnership == Spec => []OInv
<1>1. IInv /\ OInv /\ [Next]_vars => OInv'
  BY NextOInv
<1> QED BY <1>1, InitOInv, SchedulerInvariant, PTL DEF Spec

\* Whoever works on a task, or is about to, has its open attempt.
THEOREM SchedulerOwnsWork == Spec => []WorkIsOwned
<1>1. ASSUME OInv PROVE WorkIsOwned
  <2> SUFFICES ASSUME NEW s \in Scheds, NEW t \in Tasks, Owes(s, t), harmed[KeyOf[t]] = 0
               PROVE  Holds(s, t)
    BY DEF WorkIsOwned, Holds
  <2>1. Held(s, t)
    BY <1>1 DEF OInv, Owned
  <2>2. CASE Waits(run[s], t) \/ Starts(run[s], t)
    BY <2>1, <2>2 DEF Held
  <2>3. ASSUME NEW th \in OfRun(s), thread[th].task = t, thread[th].pc \notin Settled
        PROVE  Holds(s, t)
    <3>1. th \in Threads /\ th[1] = s
      BY DEF OfRun, Threads
    <3>2. thread[th].pc # "idle"
      BY <1>1, <2>3, <3>1, SchedulerAssumption DEF OInv, Vacant
    <3>3. Live(thread[th], t) /\ thread[th].pc \notin Spent
      BY <2>3, <3>2 DEF Live, Settled, Spent
    <3> QED BY <2>1, <3>1, <3>3 DEF Held
  <2> QED BY <2>2, <2>3 DEF Owes, Waits, Starts, Task
<1> QED BY <1>1, SchedulerOwnership, PTL

\* A run that returns has closed what it marked RUNNING.
THEOREM SchedulerSettles == Spec => []RunSettlesItsTasks
<1>1. ASSUME IInv, OInv PROVE RunSettlesItsTasks
  <2> SUFFICES ASSUME NEW s \in Scheds, run[s].pc = "done", NEW t \in run[s].mine,
                      tasks[t].state = "RUNNING", Last(tasks[t]).owner = s
               PROVE  FALSE
    BY DEF RunSettlesItsTasks
  <2>1. t \in Tasks
    BY <1>1, SharedSame, RunFields
  <2>2. Holds(s, t)
    BY <1>1, <2>1 DEF IInv, StateInv, RecordInv, AttemptsAgreeWith, Holds, IsRunning
  <2>3. Waits(run[s], t) \/ \E th \in Threads : th[1] = s /\ Busy(thread[th], t)
    BY <1>1, <2>2 DEF OInv, Settling
  <2>4. ~Waits(run[s], t)
    BY <1>1, EmptyQueues DEF OInv, Serving
  <2>5. Quiet(s)
    BY <1>1, QuietScan DEF Resting
  <2> QED BY <2>3, <2>4, <2>5, QuietNotLive
<1> QED BY <1>1, SchedulerInvariant, SchedulerOwnership, PTL
-------------------------------------------------------------------------------
(* The worker that outlives its scheduler.                                 *)

\* A running task of a dead scheduler whose recorded worker lives.
Orphaned(t) ==
    /\ IsRunning(tasks[t]) /\ harmed[KeyOf[t]] = 0
    /\ Last(tasks[t]).owner \notin alive /\ Last(tasks[t]).worker \in alive

Continues(t) ==
    /\ tasks'[t].state = "RUNNING"
    /\ Len(tasks'[t].attempts) = Len(tasks[t].attempts)

LEMMA SameContinues ==
    ASSUME NEW t, Orphaned(t), tasks'[t] = tasks[t]
    PROVE  Continues(t)
  BY DEF Orphaned, Continues, IsRunning

LEMMA TouchedFields ==
    ASSUME NEW x \in Records, NEW a
    PROVE  /\ Touched(x, a).state = x.state
           /\ Touched(x, a).attempts = [x.attempts EXCEPT ![Len(x.attempts)] = a]
  BY DEF Touched, Records

LEMMA TouchContinues ==
    ASSUME IInv, NEW t \in Tasks, Orphaned(t), NEW u \in Tasks, NEW a,
           tasks' = [tasks EXCEPT ![u] = Touched(@, a)]
    PROVE  Continues(t)
<1>1. tasks \in [Tasks -> Records]
  BY SharedSame DEF StateInv, TaskStateTypeOK
<1>2. CASE t # u
  <2>1. tasks'[t] = tasks[t]
    BY <1>1, <1>2
  <2> QED BY <2>1, SameContinues
<1>3. CASE t = u
  <2>1. tasks'[t] = Touched(tasks[t], a) /\ tasks[t] \in Records
    BY <1>1, <1>3
  <2>2. tasks[t].attempts \in Seq(Attempts)
    BY <2>1, RecordFields
  <2>3. /\ tasks'[t].state = tasks[t].state
        /\ tasks'[t].attempts = [tasks[t].attempts EXCEPT ![Len(tasks[t].attempts)] = a]
    BY <2>1, TouchedFields
  <2>4. Len(tasks'[t].attempts) = Len(tasks[t].attempts)
    BY <2>2, <2>3
  <2> QED BY <2>3, <2>4 DEF Orphaned, Continues, IsRunning
<1> QED BY <1>2, <1>3

\* Nobody who acts has it: a scheduler that has a task is alive.
LEMMA OrphanedUnheld ==
    ASSUME NEW t, Orphaned(t), NEW s, s \in alive
    PROVE  ~Holds(s, t)
  BY DEF Orphaned, Holds

\* The task that a thread moves is not orphaned.
LEMMA MoverHolds ==
    ASSUME IInv, OInv, NEW th \in Threads, Active(th), thread[th].pc \notin Spent \cup {"raised"},
           NEW t \in Tasks, Orphaned(t)
    PROVE  thread[th].task # t
<1> SUFFICES ASSUME thread[th].task = t PROVE FALSE
  OBVIOUS
<1>1. PICK s \in Scheds : s = th[1]
  BY ThreadParts
<1>2. run[s].pc \in {"pool", "closing", "gpu"}
  BY <1>1 DEF IInv, Ready
<1>3. s \in alive
  BY <1>2 DEF OInv, Serving
<1>4. Held(s, t)
  BY DEF OInv, Owned, Orphaned
<1>5. Live(thread[th], t)
  BY DEF Live, Active
<1>6. Holds(s, t)
  BY <1>1, <1>4, <1>5 DEF Held
<1> QED BY <1>3, <1>6, OrphanedUnheld

LEMMA ThreadMoveContinues ==
    ASSUME IInv, OInv, NEW th \in Threads, NEW t \in Tasks, Orphaned(t),
           Active(th), thread[th].pc \notin Spent \cup {"raised"},
           \/ UNCHANGED tasks
           \/ \E to, artifact : Move(th, to, artifact)
    PROVE  Continues(t)
<1>1. tasks \in [Tasks -> Records]
  BY SharedSame DEF StateInv, TaskStateTypeOK
<1>2. tasks'[t] = tasks[t]
  BY <1>1, MoverHolds DEF Move
<1> QED BY <1>2, SameContinues

LEMMA ThreadContinues ==
    ASSUME IInv, OInv, NEW th \in Threads, NEW t \in Tasks, Orphaned(t),
           ThreadStep(th) \/ Heartbeat(th) \/ GpuTimeout(th) \/ KeyTimeout(th)
    PROVE  Continues(t)
<1>1. CASE UNCHANGED tasks
  BY <1>1, SameContinues
<1>2. CASE CompleteHit(th) \/ GpuRefused(th) \/ Complete(th) \/ RecordFailure(th)
           \/ HandlerFails(th) \/ GpuHandlerBlocks(th)
  <2>1. /\ thread[th].pc \in {"hit", "launch", "complete", "fail", "errorRunning", "gpuErrorRunning"}
        /\ \/ UNCHANGED tasks
           \/ \E to, artifact : Move(th, to, artifact)
    BY <1>2 DEF CompleteHit, GpuRefused, Complete, RecordFailure, HandlerFails,
                GpuHandlerBlocks, On
  <2>2. Active(th) /\ thread[th].pc \notin Spent \cup {"raised"}
    BY <2>1 DEF Active, Spent
  <2> QED BY <2>1, <2>2, ThreadMoveContinues
<1>3. CASE (RecordWorker(th) \/ Heartbeat(th)) /\ tasks' # tasks
  <2>1. PICK u \in Tasks : u = thread[th].task
    BY <1>3, ThreadTask DEF RecordWorker, Heartbeat, On, Active
  <2>2. \E a : tasks' = [tasks EXCEPT ![u] = Touched(@, a)]
    BY <1>3, <2>1 DEF RecordWorker, Heartbeat, WithWorker, Beaten
  <2> QED BY <2>2, TouchContinues
<1>4. CASE \/ GpuAcquire(th) \/ KeyAcquire(th) \/ Recheck(th) \/ IndexHit(th) \/ Launch(th)
           \/ (\E p \in Payloads : WorkerPasses(th, p)) \/ WorkerFails(th)
           \/ PublishResult(th) \/ IndexResult(th) \/ StepRaises(th)
  <2>1. UNCHANGED tasks
    BY <1>4 DEF GpuAcquire, KeyAcquire, Recheck, IndexHit, Launch, WorkerPasses, WorkerFails,
                PublishResult, IndexResult, StepRaises
  <2> QED BY <1>1, <2>1
<1>5. CASE \/ HandlerReads(th) \/ GpuHandlerReads(th) \/ HandlerRaises(th)
           \/ GpuHandlerRaises(th) \/ GpuTimeout(th) \/ KeyTimeout(th)
  <2>1. UNCHANGED tasks
    BY <1>5 DEF HandlerReads, GpuHandlerReads, ReadAfterError, HandlerRaises,
                GpuHandlerRaises, GpuTimeout, KeyTimeout
  <2> QED BY <1>1, <2>1
<1> QED BY <1>1, <1>2, <1>3, <1>4, <1>5 DEF ThreadStep

\* Nor is the task that a scan moves: what runs, only its holder moves.
LEMMA ScanMoveContinues ==
    ASSUME IInv, OInv, NEW s \in Scheds, NEW t \in Tasks, Orphaned(t), NEW to, NEW reason,
           NEW artifact, NEW r, ScanMove(s, to, reason, artifact, r),
           \/ to = "RUNNING"
           \/ to = "PENDING" /\ reason # "ABANDONED_LEASE_RECOVERY"
           \/ run[s].pc = "hitFinish"
    PROVE  Continues(t)
<1>1. tasks \in [Tasks -> Records]
  BY SharedSame DEF StateInv, TaskStateTypeOK
<1>2. CASE UNCHANGED tasks
  BY <1>2, SameContinues
<1>3. CASE /\ Accepts(tasks[Task(s)], to, reason, artifact)
           /\ tasks' = [tasks EXCEPT ![Task(s)] = Moved(@, to, s, artifact)]
  <2>1. ASSUME Task(s) = t PROVE FALSE
    <3>1. tasks[t].state = "RUNNING"
      BY DEF Orphaned, IsRunning
    <3>2. MayMove("RUNNING", to, reason)
      BY <1>3, <2>1, <3>1 DEF Accepts
    <3>3. to # "RUNNING" /\ (to = "PENDING" => reason = "ABANDONED_LEASE_RECOVERY")
      BY <3>2 DEF MayMove, Allowed, Reopens
    <3>4. run[s].pc = "hitFinish" /\ Starts(run[s], t)
      BY <2>1, <3>3 DEF Starts, Task
    <3>5. Held(s, t)
      BY DEF OInv, Owned, Orphaned
    <3>6. Holds(s, t) /\ s \in alive
      BY <3>4, <3>5 DEF Held, OInv, Serving
    <3> QED BY <3>6, OrphanedUnheld
  <2>2. tasks'[t] = tasks[t]
    BY <1>1, <1>3, <2>1
  <2> QED BY <2>2, SameContinues
<1> QED BY <1>2, <1>3 DEF ScanMove

LEMMA MainContinues ==
    ASSUME IInv, OInv, NEW s \in Scheds, NEW t \in Tasks, Orphaned(t),
           ScanStep(s) \/ CleanTimeout(s) \/ MainStep(s)
    PROVE  Continues(t)
<1>1. CASE UNCHANGED tasks
  BY <1>1, SameContinues
<1>2. CASE RetryFailed(s)
  BY <1>2, ScanMoveContinues DEF RetryFailed
<1>3. CASE ReopenComplete(s)
  BY <1>3, ScanMoveContinues DEF ReopenComplete
<1>4. CASE HitStart(s)
  BY <1>4, ScanMoveContinues DEF HitStart
<1>5. CASE HitFinish(s)
  BY <1>5, ScanMoveContinues DEF HitFinish, At
<1>6. CASE Schedule(s)
  BY <1>6, ScanMoveContinues DEF Schedule
<1>7. CASE \/ Rebuild(s) \/ Look(s) \/ CheckComplete(s) \/ CleanComplete(s) \/ CleanProbe(s)
           \/ SecondLook(s) \/ Probe(s) \/ HitIndex(s) \/ ScanRaises(s) \/ CleanTimeout(s)
  <2>1. UNCHANGED tasks
    BY <1>7 DEF Rebuild, Look, CheckComplete, CleanComplete, CleanProbe, SecondLook, Probe,
                HitIndex, ScanRaises, CleanTimeout, Read, Clean
  <2> QED BY <1>1, <2>1
<1>8. CASE MainStep(s)
  <2>1. UNCHANGED tasks
    BY <1>8 DEF MainStep, Submit, PoolClosed, Finish, Dispatch, CollectRaised, DispatchGpu
  <2> QED BY <1>1, <2>1
<1> QED BY <1>2, <1>3, <1>4, <1>5, <1>6, <1>7, <1>8 DEF ScanStep

LEMMA NextContinues ==
    ASSUME IInv, OInv, NEW t \in Tasks, Orphaned(t), [Next]_vars
    PROVE  Continues(t)
<1>1. ASSUME NEW s \in Scheds, NEW retry \in BOOLEAN, StartRun(s, retry) PROVE Continues(t)
  <2>1. tasks'[t] = Recovered(tasks[t], alive)
    BY <1>1 DEF StartRun
  <2>2. ~Abandoned(tasks[t], alive)
    BY DEF Abandoned, Orphaned
  <2>3. tasks'[t] = tasks[t]
    BY <2>1, <2>2 DEF Recovered
  <2> QED BY <2>3, SameContinues
<1>2. ASSUME NEW u \in Tasks, LeaseRunsOut(u) PROVE Continues(t)
  <2>1. \E a : tasks' = [tasks EXCEPT ![u] = Touched(@, a)]
    BY <1>2 DEF LeaseRunsOut, LeaseExpires, Aged
  <2> QED BY <2>1, TouchContinues
<1>3. CASE \/ \E s \in Scheds : Crash(s)
           \/ \E th \in Threads : OrphanEnds(th)
           \/ \E k \in Keys : EntryDamaged(k)
           \/ UNCHANGED vars
  <2>1. UNCHANGED tasks
    BY <1>3 DEF Crash, OrphanEnds, EntryDamaged, vars
  <2> QED BY <2>1, SameContinues
<1> QED BY <1>1, <1>2, <1>3, MainContinues, ThreadContinues DEF Next, Environment

\* While the worker of a dead scheduler computes, no step of any process ends
\* its attempt or starts another.
THEOREM SchedulerKeepsOrphans == Spec => OrphanKeepsTask
<1>1. ASSUME IInv, OInv, [Next]_vars
      PROVE  [\A t \in Tasks :
                 /\ IsRunning(tasks[t])
                 /\ harmed[KeyOf[t]] = 0
                 /\ Last(tasks[t]).owner \notin alive
                 /\ Last(tasks[t]).worker \in alive
                 => tasks'[t].state = "RUNNING"
                    /\ Len(tasks'[t].attempts) = Len(tasks[t].attempts)]_vars
  BY <1>1, NextContinues DEF Orphaned, Continues
<1> QED BY <1>1, SchedulerInvariant, SchedulerOwnership, PTL DEF Spec, OrphanKeepsTask
=============================================================================
