-------------------------- MODULE CacheStore_proofs --------------------------
(***************************************************************************)
(* Proofs about CacheStore for any processes, identities and payloads: the *)
(* type invariant, the two safety invariants, the implementation of        *)
(* CacheRegister, and that what a lock-free read returns was valid.        *)
(***************************************************************************)
EXTENDS CacheStore, TLAPS

(* Who works under a lock holds it, and for a call that may work.          *)
LockInv ==
    \A p \in Procs :
        /\ pc[p] # "idle" => job[p] \in Jobs
        /\ pc[p] \in Holding => lock[Key(p)] = p
        /\ pc[p] \in Holding \ {"locked"} => job[p].payload \in Payloads

IInv == TypeOK /\ LockInv /\ WorkOnlyOnMiss /\ QuarantineOnlyInvalid

LEMMA EmptyTyped == EmptyDir \in Dirs
  BY DEF EmptyDir, Dirs, File

LEMMA OutcomeTyped ==
    ASSUME NEW kind \in {"none", "miss", "published", "reused", "moved",
                         "integrity", "refused", "oserror", "timeout", "failed"}
    PROVE  Outcome(kind) \in Outcomes
  BY DEF Outcome, Outcomes, File

LEMMA InitIInv == Init => IInv
<1> SUFFICES ASSUME Init PROVE IInv
  OBVIOUS
<1> USE DEF Init
<1>1. TypeOK
  BY EmptyTyped, OutcomeTyped, StoreAssumption DEF TypeOK, Steps
<1>2. LockInv
  BY DEF LockInv, Holding, Writing
<1>3. WorkOnlyOnMiss
  BY DEF WorkOnlyOnMiss, Writing
<1>4. QuarantineOnlyInvalid
  BY DEF QuarantineOnlyInvalid
<1>5. QED
  BY <1>1, <1>2, <1>3, <1>4 DEF IInv
-------------------------------------------------------------------------------
(* Every action keeps the types.                                           *)

LEMMA AnswerTyped ==
    ASSUME TypeOK, NEW p \in Procs, NEW o \in Outcomes, Answer(p, o)
    PROVE  /\ pc' \in [Procs -> Steps]
           /\ result' \in [Procs -> Outcomes]
           /\ job' \in [Procs -> Jobs \cup {NoJob}]
           /\ txn' \in [Procs -> Dirs]
           /\ view' \in [Procs -> Dirs]
  BY EmptyTyped DEF TypeOK, Answer, Goto, Steps

LEMMA ReturnTyped ==
    ASSUME TypeOK, NEW p \in Procs, NEW o \in Outcomes, Return(p, o),
           job[p] \in Jobs
    PROVE  /\ pc' \in [Procs -> Steps]
           /\ result' \in [Procs -> Outcomes]
           /\ job' \in [Procs -> Jobs \cup {NoJob}]
           /\ txn' \in [Procs -> Dirs]
           /\ view' \in [Procs -> Dirs]
           /\ lock' \in [Keys -> Procs \cup {Free}]
<1>1. Answer(p, o)
  BY DEF Return
<1>2. lock' \in [Keys -> Procs \cup {Free}]
  BY DEF TypeOK, Return
<1>3. QED
  BY <1>1, <1>2, AnswerTyped

LEMMA KeyTyped ==
    ASSUME NEW p \in Procs, job[p] \in Jobs
    PROVE  Key(p) \in Keys
  BY DEF Key, Jobs

\* A valid directory is described by a manifest and holds a payload.
LEMMA ValidTyped ==
    ASSUME NEW d, Valid(d)
    PROVE  d.manifest \in Manifests /\ d.payload \in Payloads
  BY DEF Valid, Manifests

LEMMA FieldTyped ==
    ASSUME NEW d \in Dirs
    PROVE  /\ \A x \in File(Payloads) : [d EXCEPT !["payload"] = x] \in Dirs
           /\ \A x \in File(Manifests) : [d EXCEPT !["manifest"] = x] \in Dirs
           /\ \A x \in File(Manifests) : [d EXCEPT !["marker"] = x] \in Dirs
  BY DEF Dirs

LEMMA ObserveTyped ==
    ASSUME TypeOK, Observe, job' \in [Procs -> Jobs \cup {NoJob}]
    PROVE  seen' \in [Procs -> SUBSET Manifests]
<1>1. ASSUME NEW p \in Procs PROVE seen'[p] \in SUBSET Manifests
  <2>1. seen[p] \subseteq Manifests
    BY DEF TypeOK
  <2>2. (IF Valid(entry'[job'[p].key]) THEN {entry'[job'[p].key].manifest} ELSE {})
            \subseteq Manifests
    BY DEF Valid
  <2>3. QED
    BY <2>1, <2>2 DEF Observe
<1>2. QED
  BY <1>1 DEF Observe

LEMMA TypeStep ==
    ASSUME TypeOK, LockInv, Step
    PROVE  /\ entry' \in [Keys -> Dirs \cup {NoDir}]
           /\ quarantine' \in [Keys -> SUBSET Dirs]
           /\ lock' \in [Keys -> Procs \cup {Free}]
           /\ pc' \in [Procs -> Steps]
           /\ job' \in [Procs -> Jobs \cup {NoJob}]
           /\ txn' \in [Procs -> Dirs]
           /\ view' \in [Procs -> Dirs]
           /\ result' \in [Procs -> Outcomes]
           /\ written' \in 0 .. MaxManifests
<1> DEFINE Goal == /\ entry' \in [Keys -> Dirs \cup {NoDir}]
                   /\ quarantine' \in [Keys -> SUBSET Dirs]
                   /\ lock' \in [Keys -> Procs \cup {Free}]
                   /\ pc' \in [Procs -> Steps]
                   /\ job' \in [Procs -> Jobs \cup {NoJob}]
                   /\ txn' \in [Procs -> Dirs]
                   /\ view' \in [Procs -> Dirs]
                   /\ result' \in [Procs -> Outcomes]
                   /\ written' \in 0 .. MaxManifests
<1> USE EmptyTyped, OutcomeTyped, StoreAssumption
<1>1. ASSUME NEW p \in Procs, CallStep(p) PROVE Goal
  <2> pc[p] # "idle"
    BY <1>1 DEF CallStep, Exists, ListFiles, ReadManifest, ReadMarker, HashPayload,
       RehashManifest, Acquire, LockTimeout, QuarantineLocked, LookAgain, Compute,
       CheckDestination, WritePayload, WriteManifest, WriteMarker, Replace,
       ConfirmPublished, AbortTransaction, Writing
  <2> /\ job[p] \in Jobs
      /\ Key(p) \in Keys
    BY KeyTyped DEF LockInv
  <2> /\ At(p) \in Dirs \cup {NoDir}
      /\ view[p] \in Dirs
      /\ txn[p] \in Dirs
    BY DEF TypeOK, At
  <2>1. CASE Exists(p)
    BY <2>1, AnswerTyped DEF Exists, TypeOK, Goto, Steps, Reading
  <2>2. CASE ListFiles(p)
    BY <2>2, AnswerTyped DEF ListFiles, TypeOK, Goto, Steps, Reading
  <2>3. CASE ReadManifest(p)
    <3>1. CASE At(p) # NoDir /\ At(p).manifest \in Manifests
      <4>1. [view[p] EXCEPT !["manifest"] = At(p).manifest] \in Dirs
        BY <3>1, FieldTyped DEF File
      <4>2. view' = [view EXCEPT ![p] = [view[p] EXCEPT !["manifest"] = At(p).manifest]]
        BY <2>3, <3>1 DEF ReadManifest, ReadNext
      <4>3. view' \in [Procs -> Dirs]
        BY <4>1, <4>2 DEF TypeOK
      <4>4. pc' \in [Procs -> Steps]
        BY <2>3, <3>1 DEF ReadManifest, ReadNext, TypeOK, Goto, Steps, Reading
      <4>5. QED
        BY <2>3, <3>1, <4>3, <4>4 DEF ReadManifest, ReadNext, TypeOK
    <3>2. CASE ~(At(p) # NoDir /\ At(p).manifest \in Manifests)
      BY <2>3, <3>2, AnswerTyped DEF ReadManifest, TypeOK
    <3>3. QED
      BY <3>1, <3>2
  <2>4. CASE ReadMarker(p)
    <3>1. CASE At(p) # NoDir /\ At(p).marker \in Manifests
      <4>1. [view[p] EXCEPT !["marker"] = At(p).marker] \in Dirs
        BY <3>1, FieldTyped DEF File
      <4>2. view' = [view EXCEPT ![p] = [view[p] EXCEPT !["marker"] = At(p).marker]]
        BY <2>4, <3>1 DEF ReadMarker, ReadNext
      <4>3. view' \in [Procs -> Dirs]
        BY <4>1, <4>2 DEF TypeOK
      <4>4. pc' \in [Procs -> Steps]
        BY <2>4, <3>1 DEF ReadMarker, ReadNext, TypeOK, Goto, Steps, Reading
      <4>5. QED
        BY <2>4, <3>1, <4>3, <4>4 DEF ReadMarker, ReadNext, TypeOK
    <3>2. CASE ~(At(p) # NoDir /\ At(p).marker \in Manifests)
      BY <2>4, <3>2, AnswerTyped DEF ReadMarker, TypeOK
    <3>3. QED
      BY <3>1, <3>2
  <2>5. CASE HashPayload(p)
    <3>1. CASE At(p) # NoDir /\ At(p).payload = view[p].manifest.payload
      <4>1. [view[p] EXCEPT !["payload"] = At(p).payload] \in Dirs
        BY <3>1, FieldTyped DEF Dirs
      <4>2. view' = [view EXCEPT ![p] = [view[p] EXCEPT !["payload"] = At(p).payload]]
        BY <2>5, <3>1 DEF HashPayload, ReadNext
      <4>3. view' \in [Procs -> Dirs]
        BY <4>1, <4>2 DEF TypeOK
      <4>4. pc' \in [Procs -> Steps]
        BY <2>5, <3>1 DEF HashPayload, ReadNext, TypeOK, Goto, Steps, Reading
      <4>5. QED
        BY <2>5, <3>1, <4>3, <4>4 DEF HashPayload, ReadNext, TypeOK
    <3>2. CASE ~(At(p) # NoDir /\ At(p).payload = view[p].manifest.payload)
      BY <2>5, <3>2, AnswerTyped DEF HashPayload, TypeOK
    <3>3. QED
      BY <3>1, <3>2
  <2>6. CASE RehashManifest(p)
    <3>1. [kind |-> "hit", manifest |-> view[p].manifest, payload |-> view[p].payload]
              \in Outcomes
      BY DEF Outcomes, Dirs
    <3>2. QED
      BY <2>6, <3>1, AnswerTyped DEF RehashManifest, TypeOK
  <2>7. CASE Acquire(p)
    BY <2>7 DEF Acquire, TypeOK, Goto, Steps, Holding
  <2>8. CASE LockTimeout(p)
    BY <2>8, AnswerTyped DEF LockTimeout, TypeOK
  <2>9. CASE QuarantineLocked(p)
    BY <2>9, ReturnTyped, SMTT(30) DEF QuarantineLocked, MoveAside, TypeOK, At
  <2> Valid(At(p)) => \A kind \in {"hit", "reused", "published"} :
          [kind |-> kind, manifest |-> Missing, payload |-> At(p).payload] \in Outcomes
    BY ValidTyped DEF Outcomes, File
  <2>10. CASE LookAgain(p)
    BY <2>10, ReturnTyped, SMTT(30) DEF LookAgain, MoveAside, TypeOK, At, Goto, Steps, Holding
  <2>11. CASE Compute(p)
    BY <2>11, ReturnTyped DEF Compute, TypeOK, Goto, Steps, Holding
  <2>12. CASE CheckDestination(p)
    BY <2>12, ReturnTyped DEF CheckDestination, TypeOK, Goto, Steps, Holding, Writing
  <2>13. CASE WritePayload(p)
    <3>1. job[p].payload \in File(Payloads)
      BY DEF Jobs, File
    <3>2. [txn[p] EXCEPT !["payload"] = job[p].payload] \in Dirs
      BY <3>1, FieldTyped
    <3>3. QED
      BY <2>13, <3>2 DEF WritePayload, WriteFile, TypeOK, Goto, Steps, Holding, Writing
  <2>14. CASE WriteManifest(p)
    <3>1. written + 1 \in 1 .. MaxManifests
      BY <2>14 DEF WriteManifest, TypeOK
    <3>2. job[p].payload \in Payloads
      BY <2>14 DEF WriteManifest, LockInv, Holding, Writing
    <3>3. [payload |-> job[p].payload, serial |-> written + 1] \in File(Manifests)
      BY <3>1, <3>2 DEF File, Manifests
    <3>4. [txn[p] EXCEPT !["manifest"] =
               [payload |-> job[p].payload, serial |-> written + 1]] \in Dirs
      BY <3>3, FieldTyped
    <3>5. written' \in 0 .. MaxManifests
      BY <2>14, <3>1 DEF WriteManifest
    <3>6. QED
      BY <2>14, <3>4, <3>5
         DEF WriteManifest, WriteFile, TypeOK, Goto, Steps, Holding, Writing
  <2>15. CASE WriteMarker(p)
    <3>1. [txn[p] EXCEPT !["marker"] = txn[p].manifest] \in Dirs
      BY FieldTyped DEF Dirs
    <3>2. QED
      BY <2>15, <3>1 DEF WriteMarker, WriteFile, TypeOK, Goto, Steps, Holding, Writing
  <2>16. CASE Replace(p)
    BY <2>16, ReturnTyped DEF Replace, TypeOK, Goto, Steps, Holding
  <2>17. CASE ConfirmPublished(p)
    BY <2>17, ReturnTyped DEF ConfirmPublished, TypeOK
  <2>18. CASE AbortTransaction(p)
    BY <2>18, ReturnTyped DEF AbortTransaction, TypeOK
  <2>19. QED
    BY <1>1, <2>1, <2>2, <2>3, <2>4, <2>5, <2>6, <2>7, <2>8, <2>9, <2>10, <2>11,
       <2>12, <2>13, <2>14, <2>15, <2>16, <2>17, <2>18 DEF CallStep
<1>2. ASSUME NEW p \in Procs, Crash(p) PROVE Goal
  BY <1>2, AnswerTyped DEF Crash, TypeOK
<1>3. ASSUME NEW p \in Procs, NEW call \in Jobs, Begin(p, call) PROVE Goal
  BY <1>3 DEF Begin, TypeOK, Goto, Steps
<1>4. ASSUME NEW k \in Keys, DamageFile(k) PROVE Goal
  <2>1. PICK field \in {"payload", "manifest", "marker"}, bad \in {Missing, Bad} :
            entry' = [entry EXCEPT ![k] = [@ EXCEPT ![field] = bad]]
    BY <1>4 DEF DamageFile
  <2>2. entry[k] \in Dirs
    BY <1>4 DEF DamageFile, Valid, TypeOK
  <2>3. [entry[k] EXCEPT ![field] = bad] \in Dirs
    BY <2>2, FieldTyped DEF File
  <2>4. entry' \in [Keys -> Dirs \cup {NoDir}]
    BY <2>1, <2>3 DEF TypeOK
  <2>5. QED
    BY <1>4, <2>4 DEF DamageFile, TypeOK
<1>5. QED
  BY <1>1, <1>2, <1>3, <1>4 DEF Step
-------------------------------------------------------------------------------
(* The lock discipline.                                                    *)

\* A step of p leaves the other processes and, but for its own lock, the
\* locks alone; if p goes on working under a lock it holds that lock.
Frame(p) ==
    /\ \A q \in Procs \ {p} : pc'[q] = pc[q] /\ job'[q] = job[q]
    /\ \A k \in Keys : lock'[k] # lock[k] => k = Key(p) /\ lock[k] \in {p, Free}
    /\ pc'[p] # "idle" => job'[p] = job[p]
    /\ pc'[p] \in Holding => lock'[Key(p)] = p
    /\ pc'[p] \in Holding \ {"locked"} => job[p].payload \in Payloads

LEMMA AnswerFrame ==
    ASSUME TypeOK, NEW p \in Procs, NEW o, Answer(p, o), UNCHANGED lock
    PROVE  Frame(p)
  BY DEF Frame, Answer, Goto, TypeOK, Holding, Writing

LEMMA ReturnFrame ==
    ASSUME TypeOK, LockInv, NEW p \in Procs, NEW o, Return(p, o), pc[p] \in Holding
    PROVE  Frame(p)
<1> pc[p] # "idle"
  BY DEF Holding, Writing
<1> lock[Key(p)] = p
  BY DEF LockInv
<1> QED
  BY DEF Frame, Return, Answer, Goto, TypeOK, Holding, Writing

\* A step from one place under the lock to the next.
LEMMA AdvanceFrame ==
    ASSUME TypeOK, LockInv, NEW p \in Procs, NEW step, Goto(p, step),
           UNCHANGED <<job, lock>>, pc[p] \in Holding,
           job[p].payload \in Payloads
    PROVE  Frame(p)
<1> lock[Key(p)] = p
  BY DEF LockInv
<1> QED
  BY DEF Frame, Goto, TypeOK

\* A step of a read or of a call that has not taken its lock yet.
LEMMA OutsideFrame ==
    ASSUME TypeOK, NEW p \in Procs, NEW step \in {"waiting"} \cup Reading,
           Goto(p, step), UNCHANGED <<job, lock>>
    PROVE  Frame(p)
  BY DEF Frame, Goto, TypeOK, Holding, Writing, Reading

LEMMA CallFrame ==
    ASSUME TypeOK, LockInv, NEW p \in Procs, CallStep(p)
    PROVE  Frame(p)
<1>1. CASE Exists(p)
  BY <1>1, AnswerFrame, OutsideFrame DEF Exists, Reading
<1>2. CASE ListFiles(p)
  BY <1>2, AnswerFrame, OutsideFrame DEF ListFiles, Reading
<1>3. CASE ReadManifest(p)
  BY <1>3, AnswerFrame, OutsideFrame DEF ReadManifest, ReadNext, Reading
<1>4. CASE ReadMarker(p)
  BY <1>4, AnswerFrame, OutsideFrame DEF ReadMarker, ReadNext, Reading
<1>5. CASE HashPayload(p)
  BY <1>5, AnswerFrame, OutsideFrame DEF HashPayload, ReadNext, Reading
<1>6. CASE RehashManifest(p)
  BY <1>6, AnswerFrame DEF RehashManifest
<1>7. CASE Acquire(p)
  <2>1. job[p] \in Jobs
    BY <1>7 DEF Acquire, LockInv
  <2>2. Key(p) \in Keys
    BY <2>1, KeyTyped
  <2>3. job[p].op = "publish" => job[p].payload \in Payloads
    BY <2>1 DEF Jobs
  <2>4. QED
    BY <1>7, <2>2, <2>3 DEF Acquire, Frame, Goto, TypeOK, Holding, Writing
<1>8. CASE LockTimeout(p)
  BY <1>8, AnswerFrame DEF LockTimeout
<1>9. CASE QuarantineLocked(p)
  BY <1>9, ReturnFrame DEF QuarantineLocked, Holding
<1>10. CASE LookAgain(p)
  <2>1. pc[p] \in Holding /\ pc[p] # "idle"
    BY <1>10 DEF LookAgain, Holding
  <2>2. job[p].payload \in Payloads
    BY <1>10, <2>1 DEF LookAgain, LockInv, Jobs
  <2>3. QED
    BY <1>10, <2>1, <2>2, ReturnFrame, AdvanceFrame DEF LookAgain
<1>11. CASE Compute(p)
  <2>1. pc[p] \in Holding \ {"locked"}
    BY <1>11 DEF Compute, Holding
  <2>2. QED
    BY <1>11, <2>1, ReturnFrame, AdvanceFrame DEF Compute, LockInv
<1>12. CASE CheckDestination(p)
  <2>1. pc[p] \in Holding \ {"locked"}
    BY <1>12 DEF CheckDestination, Holding
  <2>2. QED
    BY <1>12, <2>1, ReturnFrame, AdvanceFrame DEF CheckDestination, LockInv
<1>13. CASE WritePayload(p) \/ WriteManifest(p) \/ WriteMarker(p)
  <2>1. pc[p] \in Holding \ {"locked"}
    BY <1>13 DEF WritePayload, WriteManifest, WriteMarker, Holding, Writing
  <2>2. QED
    BY <1>13, <2>1, AdvanceFrame
       DEF WritePayload, WriteManifest, WriteMarker, WriteFile, LockInv
<1>14. CASE Replace(p)
  <2>1. pc[p] \in Holding \ {"locked"}
    BY <1>14 DEF Replace, Holding, Writing
  <2>2. QED
    BY <1>14, <2>1, ReturnFrame, AdvanceFrame DEF Replace, LockInv
<1>15. CASE ConfirmPublished(p)
  BY <1>15, ReturnFrame DEF ConfirmPublished, Holding
<1>16. CASE AbortTransaction(p)
  BY <1>16, ReturnFrame DEF AbortTransaction, Holding
<1>17. QED
  BY <1>1, <1>2, <1>3, <1>4, <1>5, <1>6, <1>7, <1>8, <1>9, <1>10, <1>11, <1>12,
     <1>13, <1>14, <1>15, <1>16 DEF CallStep

LEMMA CallLockInv ==
    ASSUME TypeOK, LockInv, NEW p \in Procs, CallStep(p)
    PROVE  LockInv'
<1> Frame(p)
  BY CallFrame
<1>1. ASSUME NEW q \in Procs, q # p
      PROVE  /\ pc'[q] # "idle" => job'[q] \in Jobs
             /\ pc'[q] \in Holding => lock'[job'[q].key] = q
             /\ pc'[q] \in Holding \ {"locked"} => job'[q].payload \in Payloads
  <2>1. pc'[q] = pc[q] /\ job'[q] = job[q]
    BY <1>1 DEF Frame
  <2>2. ASSUME pc[q] \in Holding PROVE lock'[job[q].key] = q
    <3>1. lock[job[q].key] = q
      BY <2>2 DEF LockInv, Key
    <3>2. job[q].key \in Keys
      BY <2>2 DEF LockInv, Jobs, Holding, Writing
    <3>3. q \notin {p, Free}
      BY <1>1, StoreAssumption
    <3>4. QED
      BY <3>1, <3>2, <3>3 DEF Frame
  <2>3. QED
    BY <2>1, <2>2 DEF LockInv
<1>2. /\ pc'[p] # "idle" => job'[p] \in Jobs
      /\ pc'[p] \in Holding => lock'[job'[p].key] = p
      /\ pc'[p] \in Holding \ {"locked"} => job'[p].payload \in Payloads
  <2>1. pc[p] # "idle"
    BY DEF CallStep, Exists, ListFiles, ReadManifest, ReadMarker, HashPayload,
       RehashManifest, Acquire, LockTimeout, QuarantineLocked, LookAgain, Compute,
       CheckDestination, WritePayload, WriteManifest, WriteMarker, Replace,
       ConfirmPublished, AbortTransaction, Writing
  <2>2. "idle" \notin Holding
    BY DEF Holding, Writing
  <2>3. QED
    BY <2>1, <2>2 DEF Frame, LockInv, Key
<1>3. QED
  BY <1>1, <1>2 DEF LockInv, Key

LEMMA LockStep ==
    ASSUME TypeOK, LockInv, Step
    PROVE  LockInv'
<1>1. ASSUME NEW p \in Procs, Crash(p) PROVE LockInv'
  <2>1. pc'[p] = "idle" /\ "idle" \notin Holding
    BY <1>1 DEF Crash, Answer, Goto, TypeOK, Holding, Writing
  <2>2. ASSUME NEW q \in Procs, q # p
        PROVE  /\ pc'[q] = pc[q] /\ job'[q] = job[q]
               /\ \A k \in Keys : lock[k] = q => lock'[k] = q
    BY <1>1, <2>2 DEF Crash, Answer, Goto, TypeOK
  <2>3. \A q \in Procs : pc[q] \in Holding => job[q].key \in Keys
    BY <2>1 DEF LockInv, Jobs
  <2>4. QED
    BY <2>1, <2>2, <2>3 DEF LockInv, Key
<1>2. ASSUME NEW p \in Procs, NEW call \in Jobs, Begin(p, call) PROVE LockInv'
  <2>1. pc'[p] \notin Holding /\ job'[p] \in Jobs
    BY <1>2 DEF Begin, Goto, TypeOK, Holding, Writing
  <2>2. \A q \in Procs \ {p} : pc'[q] = pc[q] /\ job'[q] = job[q]
    BY <1>2 DEF Begin, Goto, TypeOK
  <2>3. UNCHANGED lock
    BY <1>2 DEF Begin
  <2>4. QED
    BY <2>1, <2>2, <2>3 DEF LockInv, Key
<1>3. ASSUME NEW k \in Keys, DamageFile(k) PROVE LockInv'
  BY <1>3 DEF DamageFile, LockInv, Key
<1>4. QED
  BY <1>1, <1>2, <1>3, CallLockInv DEF Step
-------------------------------------------------------------------------------
(* The three ways an entry changes.                                        *)

Appears(k)   == /\ entry[k] = NoDir
                /\ \E d \in Dirs : Valid(d) /\ entry' = [entry EXCEPT ![k] = d]
MovedAside(k) == /\ entry[k] # NoDir /\ ~Valid(entry[k])
                /\ entry' = [entry EXCEPT ![k] = NoDir]
                /\ quarantine' = [quarantine EXCEPT ![k] = @ \cup {entry[k]}]
Damaged(k)   == /\ Valid(entry[k])
                /\ \E d \in Dirs : ~Valid(d) /\ entry' = [entry EXCEPT ![k] = d]

\* Only a process that works under the lock of an identity changes its entry.
LEMMA CallEntry ==
    ASSUME TypeOK, LockInv, NEW p \in Procs, CallStep(p)
    PROVE  \/ UNCHANGED <<entry, quarantine>>
           \/ /\ pc[p] \in Holding
              /\ \/ Appears(Key(p)) /\ UNCHANGED quarantine
                 \/ MovedAside(Key(p))
<1>1. CASE QuarantineLocked(p)
  BY <1>1 DEF QuarantineLocked, MoveAside, MovedAside, At, Holding
<1>2. CASE LookAgain(p)
  BY <1>2 DEF LookAgain, MoveAside, MovedAside, At, Holding
<1>3. CASE Replace(p)
  <2>1. txn[p] \in Dirs
    BY DEF TypeOK
  <2>2. QED
    BY <1>3, <2>1 DEF Replace, Appears, At, Holding, Writing
<1>4. CASE ~(QuarantineLocked(p) \/ LookAgain(p) \/ Replace(p))
  BY <1>4 DEF CallStep, Exists, ListFiles, ReadManifest, ReadMarker, HashPayload,
     RehashManifest, Acquire, LockTimeout, Compute, CheckDestination, WritePayload,
     WriteManifest, WriteMarker, WriteFile, ConfirmPublished, AbortTransaction
<1>5. QED
  BY <1>1, <1>2, <1>3, <1>4

LEMMA DamageEntry ==
    ASSUME TypeOK, NEW k \in Keys, DamageFile(k)
    PROVE  Damaged(k) /\ UNCHANGED quarantine
<1>1. PICK field \in {"payload", "manifest", "marker"}, bad \in {Missing, Bad} :
          entry' = [entry EXCEPT ![k] = [@ EXCEPT ![field] = bad]]
  BY DEF DamageFile
<1> DEFINE d == [entry[k] EXCEPT ![field] = bad]
<1>2. entry[k] \in Dirs
  BY DEF DamageFile, Valid, TypeOK
<1>3. d \in Dirs
  BY <1>2, FieldTyped DEF File
<1>4. d[field] = bad
  BY <1>2 DEF Dirs
<1>5. ~Valid(d)
  BY <1>4, ValidTyped, StoreAssumption DEF Valid
<1>6. QED
  BY <1>1, <1>3, <1>5 DEF DamageFile, Damaged

LEMMA StepEntry ==
    ASSUME TypeOK, LockInv, Step
    PROVE  \/ UNCHANGED <<entry, quarantine>>
           \/ \E k \in Keys : \/ Appears(k) /\ UNCHANGED quarantine
                              \/ MovedAside(k)
                              \/ Damaged(k) /\ UNCHANGED quarantine
<1>1. ASSUME NEW p \in Procs, CallStep(p), pc[p] \in Holding PROVE Key(p) \in Keys
  BY <1>1, KeyTyped DEF LockInv, Holding, Writing
<1>2. ASSUME NEW p \in Procs, CallStep(p)
      PROVE  \/ UNCHANGED <<entry, quarantine>>
             \/ \E k \in Keys : \/ Appears(k) /\ UNCHANGED quarantine
                                \/ MovedAside(k)
  BY <1>1, <1>2, CallEntry
<1>3. QED
  BY <1>2, DamageEntry DEF Step, Crash, Begin

\* Whatever entry appears, no one is at work for its identity who does not
\* hold the lock, and the holder was not at work before the entry was there.
LEMMA WorkStep ==
    ASSUME TypeOK, LockInv, WorkOnlyOnMiss, Step
    PROVE  WorkOnlyOnMiss'
<1> DEFINE Work == {"computing"} \cup Writing
<1>0. Work \subseteq Holding \ {"locked"} /\ "idle" \notin Work /\ "waiting" \notin Work
  BY DEF Holding, Writing
<1>a. \A q \in Procs : pc[q] \in Work => Key(q) \in Keys /\ lock[Key(q)] = q
  BY <1>0, KeyTyped DEF LockInv, Holding, Writing
<1>1. ASSUME NEW p \in Procs, CallStep(p) PROVE WorkOnlyOnMiss'
  <2>1. Frame(p)
    BY <1>1, CallFrame
  <2>2. ASSUME NEW q \in Procs, q # p, pc'[q] \in Work PROVE entry'[job'[q].key] = NoDir
    <3>1. pc[q] \in Work /\ job'[q] = job[q]
      BY <2>1, <2>2 DEF Frame
    <3>2. entry[Key(q)] = NoDir
      BY <3>1 DEF WorkOnlyOnMiss
    <3>3. pc[p] \in Holding => Key(p) # Key(q)
      BY <1>a, <2>2, <3>1 DEF LockInv
    <3>4. entry'[Key(q)] = entry[Key(q)]
      BY <1>1, <1>a, <3>1, <3>3, CallEntry DEF Appears, MovedAside, TypeOK
    <3>5. QED
      BY <3>1, <3>2, <3>4 DEF Key
  <2>3. ASSUME pc'[p] \in Work PROVE entry'[job'[p].key] = NoDir
    <3>1. job'[p] = job[p]
      BY <1>0, <2>1, <2>3 DEF Frame
    <3>2. CASE LookAgain(p)
      <4>1. Key(p) \in Keys
        BY <3>2, KeyTyped DEF LookAgain, LockInv
      <4>2. ~(\E o : Return(p, o))
        BY <1>0, <2>3 DEF Return, Answer, Goto, TypeOK
      <4>3. QED
        BY <3>1, <3>2, <4>1, <4>2 DEF LookAgain, MoveAside, At, Key, TypeOK
    <3>3. CASE CheckDestination(p)
      <4>1. ~(\E o : Return(p, o))
        BY <1>0, <2>3 DEF Return, Answer, Goto, TypeOK
      <4>2. QED
        BY <3>1, <3>3, <4>1 DEF CheckDestination, At, Key
    <3>4. CASE WritePayload(p) \/ WriteManifest(p) \/ WriteMarker(p)
      <4>1. pc[p] \in Work /\ UNCHANGED entry
        BY <3>4 DEF WritePayload, WriteManifest, WriteMarker, WriteFile, Writing
      <4>2. QED
        BY <3>1, <4>1 DEF WorkOnlyOnMiss, Key
    <3>5. CASE ~(LookAgain(p) \/ CheckDestination(p) \/ WritePayload(p)
                 \/ WriteManifest(p) \/ WriteMarker(p))
      <4>1. pc'[p] \notin Work
        BY <1>1, <3>5 DEF CallStep, Exists, ListFiles, ReadManifest, ReadMarker,
           HashPayload, RehashManifest, Acquire, LockTimeout, QuarantineLocked,
           Compute, Replace, ConfirmPublished, AbortTransaction, ReadNext, Return,
           Answer, Goto, TypeOK, Writing
      <4>2. QED
        BY <2>3, <4>1
    <3>6. QED
      BY <3>2, <3>3, <3>4, <3>5
  <2>4. QED
    BY <2>2, <2>3 DEF WorkOnlyOnMiss, Key
<1>2. ASSUME NEW p \in Procs, Crash(p) \/ (\E call \in Jobs : Begin(p, call))
      PROVE  WorkOnlyOnMiss'
  <2>1. pc'[p] \notin Work
    BY <1>2 DEF Crash, Begin, Answer, Goto, TypeOK, Writing
  <2>2. \A q \in Procs \ {p} : pc'[q] = pc[q] /\ job'[q] = job[q]
    BY <1>2 DEF Crash, Begin, Answer, Goto, TypeOK
  <2>3. UNCHANGED entry
    BY <1>2 DEF Crash, Begin
  <2>4. QED
    BY <2>1, <2>2, <2>3 DEF WorkOnlyOnMiss, Key
<1>3. ASSUME NEW k \in Keys, DamageFile(k) PROVE WorkOnlyOnMiss'
  <2>1. Damaged(k) /\ UNCHANGED <<pc, job>>
    BY <1>3, DamageEntry DEF DamageFile
  <2>2. entry[k] # NoDir
    BY <2>1 DEF Damaged, Valid
  <2>3. \A j \in Keys \ {k} : entry'[j] = entry[j]
    BY <2>1 DEF Damaged, TypeOK
  <2>4. QED
    BY <1>a, <2>1, <2>2, <2>3 DEF WorkOnlyOnMiss, Key
<1>4. QED
  BY <1>1, <1>2, <1>3 DEF Step

LEMMA QuarantineStep ==
    ASSUME TypeOK, LockInv, QuarantineOnlyInvalid, Step
    PROVE  QuarantineOnlyInvalid'
<1>1. CASE UNCHANGED quarantine
  BY <1>1 DEF QuarantineOnlyInvalid
<1>2. ASSUME NEW k \in Keys, MovedAside(k) PROVE QuarantineOnlyInvalid'
  BY <1>2 DEF MovedAside, QuarantineOnlyInvalid, TypeOK
<1>3. QED
  BY <1>1, <1>2, StepEntry
-------------------------------------------------------------------------------
LEMMA NextIInv == IInv /\ [Next]_vars => IInv'
<1> SUFFICES ASSUME IInv, [Next]_vars PROVE IInv'
  OBVIOUS
<1>1. CASE Next
  <2>1. Step /\ Observe
    BY <1>1 DEF Next
  <2>2. TypeOK'
    BY <2>1, TypeStep, ObserveTyped DEF IInv, TypeOK
  <2>3. QED
    BY <2>1, <2>2, LockStep, WorkStep, QuarantineStep DEF IInv
<1>2. CASE UNCHANGED vars
  BY <1>2 DEF vars, IInv, TypeOK, LockInv, WorkOnlyOnMiss, QuarantineOnlyInvalid, Key
<1>3. QED
  BY <1>1, <1>2

THEOREM StoreInvariant == Spec => []IInv
  BY InitIInv, NextIInv, PTL DEF Spec

\* The state of the store has the declared types in every behaviour.
THEOREM StoreTypes == Spec => []TypeOK
<1>1. IInv => TypeOK
  BY DEF IInv
<1>2. QED
  BY <1>1, StoreInvariant, PTL

\* Between a miss under the lock and the rename the path stays empty, for any
\* number of processes computing, publishing, quarantining and crashing.
THEOREM StoreComputesOnce == Spec => []WorkOnlyOnMiss
<1>1. IInv => WorkOnlyOnMiss
  BY DEF IInv
<1>2. QED
  BY <1>1, StoreInvariant, PTL

\* No valid artifact is ever moved to quarantine.
THEOREM StoreKeepsValid == Spec => []QuarantineOnlyInvalid
<1>1. IInv => QuarantineOnlyInvalid
  BY DEF IInv
<1>2. QED
  BY <1>1, StoreInvariant, PTL
-------------------------------------------------------------------------------
(* The implementation of the write-once register.                          *)

cells == [k \in Keys |-> Cell(entry[k])]

LEMMA CellOfDir ==
    ASSUME NEW d \in Dirs
    PROVE  /\ Valid(d) => Cell(d) = d.payload /\ d.payload \in Payloads
           /\ ~Valid(d) => Cell(d) = Bad
  BY ValidTyped, StoreAssumption DEF Cell

LEMMA RegisterStep ==
    ASSUME IInv, Step
    PROVE  [Register!RegisterNext]_cells
<1> TypeOK /\ LockInv
  BY DEF IInv
<1> USE StoreAssumption
<1>1. CASE UNCHANGED <<entry, quarantine>>
  BY <1>1 DEF cells
<1>2. ASSUME NEW k \in Keys, Appears(k) PROVE Register!RegisterNext
  <2>1. PICK d \in Dirs : Valid(d) /\ entry' = [entry EXCEPT ![k] = d]
    BY <1>2 DEF Appears
  <2>2. cells[k] = NoDir
    BY <1>2 DEF Appears, cells, Cell
  <2>3. cells' = [cells EXCEPT ![k] = d.payload]
    BY <2>1, CellOfDir DEF cells, TypeOK
  <2>4. Register!Publish(k, d.payload)
    BY <2>2, <2>3 DEF Register!Publish, cells
  <2>5. QED
    BY <2>1, <2>4, CellOfDir DEF Register!RegisterNext
<1>3. ASSUME NEW k \in Keys, MovedAside(k) PROVE Register!RegisterNext
  <2>1. cells[k] = Bad
    BY <1>3 DEF MovedAside, cells, Cell
  <2>2. cells' = [cells EXCEPT ![k] = NoDir]
    BY <1>3 DEF MovedAside, cells, Cell, TypeOK
  <2>3. QED
    BY <2>1, <2>2 DEF Register!RegisterNext, Register!Quarantine, cells
<1>4. ASSUME NEW k \in Keys, Damaged(k) PROVE Register!RegisterNext
  <2>1. PICK d \in Dirs : ~Valid(d) /\ entry' = [entry EXCEPT ![k] = d]
    BY <1>4 DEF Damaged
  <2>2. cells[k] \in Payloads
    BY <1>4, ValidTyped DEF Damaged, cells, Cell, Valid
  <2>3. cells' = [cells EXCEPT ![k] = Bad]
    BY <2>1, CellOfDir DEF cells, TypeOK
  <2>4. QED
    BY <2>2, <2>3 DEF Register!RegisterNext, Register!Damage, cells
<1>5. QED
  BY <1>1, <1>2, <1>3, <1>4, StepEntry

\* The files, locks and transactions implement the write-once register.
THEOREM StoreImplementsRegister == Spec => ImplementsRegister
<1>1. Init => Register!RegisterInit
  BY DEF Init, Register!RegisterInit, Cell
<1>2. IInv /\ [Next]_vars => [Register!RegisterNext]_cells
  <2>1. IInv /\ Next => [Register!RegisterNext]_cells
    BY RegisterStep DEF Next
  <2>2. UNCHANGED vars => UNCHANGED cells
    BY DEF vars, cells
  <2>3. QED
    BY <2>1, <2>2
<1>3. QED
  BY <1>1, <1>2, StoreInvariant, PTL
     DEF Spec, ImplementsRegister, Register!RegisterSpec, cells
-------------------------------------------------------------------------------
(* Reads without a lock.  What a read that has passed the marker may count  *)
(* on: the entry it saw was valid then, or it will not pass.                *)

Garbage == {Missing, Bad}

\* A directory that does not validate shows it: damage leaves garbage behind.
DamageShows ==
    \A k \in Keys :
        entry[k] = NoDir \/ Valid(entry[k])
        \/ Garbage \cap {entry[k].payload, entry[k].manifest, entry[k].marker} # {}

\* Manifests carry the numbers given out so far.
Dated ==
    /\ \A k \in Keys :
          entry[k] # NoDir /\ entry[k].marker \in Manifests => entry[k].marker.serial <= written
    /\ \A q \in Procs :
          pc[q] \in {"tx_marker", "tx_replace"} =>
              txn[q].manifest \in Manifests /\ txn[q].manifest.serial <= written

\* The entry of manifest m is no longer, or not, at the path of k, and nobody
\* is about to put it there.
Gone(k, m) ==
    /\ entry[k] # NoDir => entry[k].manifest # m
    /\ \A q \in Procs :
          pc[q] \in {"tx_marker", "tx_replace"} /\ Key(q) = k => txn[q].manifest # m

\* The entry at the path of k has marker m, and a file in fields is garbage.
Spoilt(k, m, fields) ==
    /\ entry[k] # NoDir /\ entry[k].marker = m
    /\ \E f \in fields : entry[k][f] \in Garbage

Certain(p, m, fields) ==
    /\ m \in Manifests /\ m.serial <= written
    /\ m \in seen[p] \/ Gone(Key(p), m) \/ Spoilt(Key(p), m, fields)

ReadInv ==
    \A p \in Procs :
        /\ pc[p] \in Reading => job[p].op = "read"
        /\ pc[p] \in {"marker", "payload"} => view[p].manifest \in Manifests
        /\ pc[p] = "payload" => Certain(p, view[p].marker, {"payload", "manifest"})
        /\ pc[p] = "rehash" => Certain(p, view[p].marker, {"manifest"})

GenuineInv == DamageShows /\ Dated /\ ReadInv

Filled == {"tx_marker", "tx_replace"}

LEMMA GarbageApart ==
    /\ Garbage \cap Payloads = {} /\ Garbage \cap Manifests = {}
    /\ Missing \in Garbage /\ Bad \in Garbage
  BY StoreAssumption DEF Garbage

\* What a step may do to the entry of an identity.
LEMMA EntryStep ==
    ASSUME TypeOK, LockInv, Step, NEW k \in Keys
    PROVE  \/ entry'[k] = entry[k]
           \/ entry[k] # NoDir /\ ~Valid(entry[k]) /\ entry'[k] = NoDir
           \/ /\ entry[k] = NoDir
              /\ \E q \in Procs : /\ pc[q] = "tx_replace" /\ Key(q) = k
                                  /\ Valid(txn[q]) /\ entry'[k] = txn[q]
           \/ /\ Valid(entry[k]) /\ entry[k] \in Dirs
              /\ \E f \in {"payload", "manifest", "marker"}, bad \in Garbage :
                    entry'[k] = [entry[k] EXCEPT ![f] = bad]
<1>1. ASSUME NEW p \in Procs, CallStep(p)
      PROVE  \/ entry'[k] = entry[k]
             \/ entry[k] # NoDir /\ ~Valid(entry[k]) /\ entry'[k] = NoDir
             \/ /\ entry[k] = NoDir
                /\ pc[p] = "tx_replace" /\ Key(p) = k /\ Valid(txn[p]) /\ entry'[k] = txn[p]
  <2>1. CASE Replace(p)
    BY <2>1 DEF Replace, TypeOK, At
  <2>2. CASE QuarantineLocked(p) \/ LookAgain(p)
    BY <2>2 DEF QuarantineLocked, LookAgain, MoveAside, TypeOK, At
  <2>3. CASE ~(QuarantineLocked(p) \/ LookAgain(p) \/ Replace(p))
    BY <1>1, <2>3 DEF CallStep, Exists, ListFiles, ReadManifest, ReadMarker, HashPayload,
       RehashManifest, Acquire, LockTimeout, Compute, CheckDestination, WritePayload,
       WriteManifest, WriteMarker, WriteFile, ConfirmPublished, AbortTransaction
  <2> QED BY <2>1, <2>2, <2>3
<1>2. ASSUME NEW j \in Keys, DamageFile(j)
      PROVE  \/ entry'[k] = entry[k]
             \/ /\ Valid(entry[k]) /\ entry[k] \in Dirs
                /\ \E f \in {"payload", "manifest", "marker"}, bad \in Garbage :
                      entry'[k] = [entry[k] EXCEPT ![f] = bad]
  BY <1>2 DEF DamageFile, TypeOK, Garbage, Valid
<1>3. CASE UNCHANGED entry
  BY <1>3
<1> QED BY <1>1, <1>2, <1>3 DEF Step, Crash, Begin

\* Damage is plain to see, and leaves the files it does not hit.
LEMMA DamageLeaves ==
    ASSUME NEW d \in Dirs, NEW f \in {"payload", "manifest", "marker"}, NEW bad \in Garbage,
           NEW e, e = [d EXCEPT ![f] = bad]
    PROVE  /\ Garbage \cap {e.payload, e.manifest, e.marker} # {}
           /\ e.manifest = d.manifest \/ e.manifest \in Garbage
           /\ e.marker = d.marker \/ e.marker \in Garbage
<1>1. CASE f = "payload"
  BY <1>1 DEF Dirs
<1>2. CASE f = "manifest"
  BY <1>2 DEF Dirs
<1>3. CASE f = "marker"
  BY <1>3 DEF Dirs
<1> QED BY <1>1, <1>2, <1>3

\* What a step may do to a transaction that has a manifest.
LEMMA TxnStep ==
    ASSUME TypeOK, LockInv, Step
    PROVE  /\ written' \in Nat /\ written \in Nat /\ written <= written'
           /\ \A q \in Procs : pc'[q] \in Filled =>
                 /\ pc[q] \in Writing /\ job'[q] = job[q]
                 /\ \/ pc[q] \in Filled /\ txn'[q].manifest = txn[q].manifest
                    \/ /\ txn'[q].manifest \in Manifests
                       /\ txn'[q].manifest.serial = written + 1 /\ written' = written + 1
<1> DEFINE Goes(q) ==
      pc'[q] \in Filled =>
                 /\ pc[q] \in Writing /\ job'[q] = job[q]
                 /\ \/ pc[q] \in Filled /\ txn'[q].manifest = txn[q].manifest
                    \/ /\ txn'[q].manifest \in Manifests
                       /\ txn'[q].manifest.serial = written + 1 /\ written' = written + 1
<1>0. written \in Nat /\ MaxManifests \in Nat
  BY StoreAssumption DEF TypeOK
<1>1. ASSUME NEW p \in Procs, CallStep(p)
      PROVE  /\ written' \in Nat /\ written <= written'
             /\ \A q \in Procs : Goes(q)
  <2>1. Frame(p)
    BY <1>1, CallFrame
  <2>2. ASSUME NEW q \in Procs, q # p PROVE txn'[q] = txn[q]
    BY <1>1, <2>2 DEF CallStep, Exists, ListFiles, ReadManifest, ReadMarker, HashPayload,
       RehashManifest, Acquire, LockTimeout, QuarantineLocked, LookAgain, Compute,
       CheckDestination, WritePayload, WriteManifest, WriteMarker, WriteFile, Replace,
       ConfirmPublished, AbortTransaction, ReadNext, Return, Answer, TypeOK
  <2>3. ASSUME NEW q \in Procs, q # p PROVE Goes(q)
    BY <2>1, <2>2, <2>3 DEF Frame, Filled, Writing
  <2>4. CASE WriteManifest(p)
    <3>1. job[p].payload \in Payloads /\ written + 1 \in 1 .. MaxManifests
      BY <1>0, <2>4 DEF WriteManifest, LockInv, Holding, Writing
    <3>2. PICK m : m = [payload |-> job[p].payload, serial |-> written + 1]
      OBVIOUS
    <3>3. m \in Manifests /\ m.serial = written + 1
      BY <3>1, <3>2 DEF Manifests
    <3>4. txn' = [txn EXCEPT ![p] = [@ EXCEPT !["manifest"] = m]]
      BY <2>4, <3>2 DEF WriteManifest, WriteFile
    <3>5. txn'[p].manifest = m
      BY <3>4 DEF TypeOK, Dirs
    <3>6. pc[p] \in Writing /\ written' = written + 1 /\ job' = job
      BY <2>4 DEF WriteManifest, WriteFile, Writing
    <3> QED BY <1>0, <2>3, <3>3, <3>5, <3>6
  <2>5. CASE WriteMarker(p)
    <3>1. pc[p] \in Filled /\ pc[p] \in Writing /\ written' = written /\ job' = job
      BY <2>5 DEF WriteMarker, WriteFile, Writing, Filled
    <3>2. txn' = [txn EXCEPT ![p] = [@ EXCEPT !["marker"] = txn[p].manifest]]
      BY <2>5 DEF WriteMarker, WriteFile
    <3>3. txn'[p].manifest = txn[p].manifest
      BY <3>2 DEF TypeOK, Dirs
    <3> QED BY <1>0, <2>3, <3>1, <3>3
  <2>6. CASE ~(WriteManifest(p) \/ WriteMarker(p))
    <3>1. written' = written
      BY <1>1, <2>6 DEF CallStep, Exists, ListFiles, ReadManifest, ReadMarker, HashPayload,
         RehashManifest, Acquire, LockTimeout, QuarantineLocked, LookAgain, Compute,
         CheckDestination, WritePayload, Replace, ConfirmPublished, AbortTransaction
    <3>2. pc'[p] \notin Filled
      BY <1>1, <2>6 DEF CallStep, Exists, ListFiles, ReadManifest, ReadMarker, HashPayload,
         RehashManifest, Acquire, LockTimeout, QuarantineLocked, LookAgain, Compute,
         CheckDestination, WritePayload, WriteFile, Replace,
         ConfirmPublished, AbortTransaction, ReadNext, Return, Answer, Goto, TypeOK, Filled
    <3> QED BY <1>0, <2>3, <3>1, <3>2
  <2> QED BY <2>4, <2>5, <2>6
<1>2. ASSUME NEW p \in Procs, Crash(p) \/ (\E call \in Jobs : Begin(p, call))
      PROVE  /\ written' = written
             /\ \A q \in Procs : Goes(q)
  <2>1. pc'[p] \notin Filled /\ written' = written
    BY <1>2 DEF Crash, Begin, Answer, Goto, TypeOK, Filled
  <2>2. \A q \in Procs \ {p} : pc'[q] = pc[q] /\ job'[q] = job[q] /\ txn'[q] = txn[q]
    BY <1>2 DEF Crash, Begin, Answer, Goto, TypeOK
  <2> QED BY <2>1, <2>2 DEF Filled, Writing
<1>3. ASSUME NEW k \in Keys, DamageFile(k)
      PROVE  /\ written' = written
             /\ \A q \in Procs : Goes(q)
  BY <1>3 DEF DamageFile, Filled, Writing
<1>4. (\A q \in Procs : Goes(q)) /\ written' \in Nat /\ written <= written'
  BY <1>0, <1>1, <1>2, <1>3 DEF Step
<1> QED BY <1>0, <1>4

LEMMA ShowsStep ==
    ASSUME TypeOK, LockInv, DamageShows, Step
    PROVE  DamageShows'
<1> SUFFICES ASSUME NEW k \in Keys
             PROVE  \/ entry'[k] = NoDir \/ Valid(entry'[k])
                    \/ Garbage \cap {entry'[k].payload, entry'[k].manifest, entry'[k].marker} # {}
  BY DEF DamageShows
<1>1. CASE entry'[k] = entry[k]
  BY <1>1 DEF DamageShows
<1>2. CASE /\ Valid(entry[k]) /\ entry[k] \in Dirs
           /\ \E f \in {"payload", "manifest", "marker"}, bad \in Garbage :
                 entry'[k] = [entry[k] EXCEPT ![f] = bad]
  BY <1>2, DamageLeaves
<1> QED BY <1>1, <1>2, EntryStep

LEMMA DatedStep ==
    ASSUME TypeOK, LockInv, Dated, Step
    PROVE  Dated'
<1>1. /\ written' \in Nat /\ written \in Nat /\ written <= written'
  BY TxnStep
<1>2. ASSUME NEW q \in Procs, pc'[q] \in Filled
      PROVE  txn'[q].manifest \in Manifests /\ txn'[q].manifest.serial <= written'
  <2>1. CASE pc[q] \in Filled /\ txn'[q].manifest = txn[q].manifest
    <3>1. txn[q].manifest \in Manifests /\ txn[q].manifest.serial <= written
      BY <2>1 DEF Dated, Filled
    <3>2. txn[q].manifest.serial \in Nat
      BY <3>1 DEF Manifests
    <3> QED BY <1>1, <2>1, <3>1, <3>2
  <2>2. CASE /\ txn'[q].manifest \in Manifests
             /\ txn'[q].manifest.serial = written + 1 /\ written' = written + 1
    BY <1>1, <2>2
  <2> QED BY <1>2, <2>1, <2>2, TxnStep
<1>3. ASSUME NEW k \in Keys, entry'[k] # NoDir, entry'[k].marker \in Manifests
      PROVE  entry'[k].marker.serial <= written'
  <2>1. entry'[k].marker.serial <= written
    <3>1. CASE entry'[k] = entry[k]
      BY <1>3, <3>1 DEF Dated
    <3>2. CASE \E q \in Procs : /\ pc[q] = "tx_replace" /\ Key(q) = k
                                /\ Valid(txn[q]) /\ entry'[k] = txn[q]
      BY <3>2 DEF Dated, Valid
    <3>3. CASE /\ Valid(entry[k]) /\ entry[k] \in Dirs
               /\ \E f \in {"payload", "manifest", "marker"}, bad \in Garbage :
                     entry'[k] = [entry[k] EXCEPT ![f] = bad]
      <4>1. entry'[k].marker = entry[k].marker
        BY <1>3, <3>3, DamageLeaves, GarbageApart
      <4> QED BY <1>3, <3>3, <4>1 DEF Dated, Valid
    <3> QED BY <1>3, <3>1, <3>2, <3>3, EntryStep
  <2>2. entry'[k].marker.serial \in Nat
    BY <1>3 DEF Manifests
  <2> QED BY <1>1, <2>1, <2>2
<1> QED BY <1>2, <1>3 DEF Dated, Filled

\* What is gone stays gone: no manifest is written twice.
LEMMA GoneStays ==
    ASSUME TypeOK, LockInv, Step, NEW k \in Keys,
           NEW m \in Manifests, m.serial <= written, Gone(k, m)
    PROVE  Gone(k, m)'
<1>1. ASSUME entry'[k] # NoDir PROVE entry'[k].manifest # m
  <2>1. CASE entry'[k] = entry[k]
    BY <1>1, <2>1 DEF Gone
  <2>2. CASE \E q \in Procs : /\ pc[q] = "tx_replace" /\ Key(q) = k
                              /\ Valid(txn[q]) /\ entry'[k] = txn[q]
    BY <2>2 DEF Gone
  <2>3. CASE /\ Valid(entry[k]) /\ entry[k] \in Dirs
             /\ \E f \in {"payload", "manifest", "marker"}, bad \in Garbage :
                   entry'[k] = [entry[k] EXCEPT ![f] = bad]
    BY <2>3, DamageLeaves, GarbageApart DEF Gone, Valid
  <2> QED BY <1>1, <2>1, <2>2, <2>3, EntryStep
<1>2. ASSUME NEW q \in Procs, pc'[q] \in Filled, job'[q].key = k PROVE txn'[q].manifest # m
  <2>1. CASE pc[q] \in Filled /\ job'[q] = job[q] /\ txn'[q].manifest = txn[q].manifest
    BY <1>2, <2>1 DEF Gone, Filled, Key
  <2>2. CASE txn'[q].manifest.serial = written + 1
    <3>1. m.serial \in Nat /\ written \in Nat
      BY TxnStep DEF Manifests
    <3> QED BY <2>2, <3>1
  <2> QED BY <1>2, <2>1, <2>2, TxnStep
<1> QED BY <1>1, <1>2 DEF Gone, Filled, Key

\* A spoilt entry stays as it is until it is moved aside.
LEMMA SpoiltStays ==
    ASSUME TypeOK, LockInv, WorkOnlyOnMiss, Step, NEW k \in Keys, NEW m \in Manifests,
           NEW fields \in SUBSET {"payload", "manifest"}, Spoilt(k, m, fields)
    PROVE  Spoilt(k, m, fields)' \/ Gone(k, m)'
<1>1. CASE entry'[k] = entry[k]
  BY <1>1 DEF Spoilt
<1>2. CASE entry'[k] = NoDir
  <2>1. ASSUME NEW q \in Procs, pc'[q] \in Filled, job'[q].key = k PROVE FALSE
    <3>1. pc[q] \in Writing /\ Key(q) = k
      BY <2>1, TxnStep DEF Key
    <3> QED BY <3>1 DEF WorkOnlyOnMiss, Spoilt
  <2> QED BY <1>2, <2>1 DEF Gone, Filled, Key
<1>3. ~Valid(entry[k])
  <2>1. PICK f \in fields : entry[k][f] \in Garbage
    BY DEF Spoilt
  <2>2. entry[k].payload \in Garbage \/ entry[k].manifest \in Garbage
    BY <2>1
  <2> QED BY <2>2, ValidTyped, GarbageApart
<1> QED BY <1>1, <1>2, <1>3, EntryStep DEF Spoilt

LEMMA CertainStays ==
    ASSUME TypeOK, LockInv, WorkOnlyOnMiss, Step, NEW p \in Procs, Key(p) \in Keys,
           job'[p] = job[p], seen[p] \subseteq seen'[p], NEW m,
           NEW fields \in SUBSET {"payload", "manifest"}, Certain(p, m, fields)
    PROVE  /\ m \in Manifests /\ m.serial <= written'
           /\ \/ m \in seen'[p] \/ Gone(job[p].key, m)' \/ Spoilt(job[p].key, m, fields)'
<1>1. m \in Manifests /\ m.serial <= written
  BY DEF Certain
<1>2. m.serial <= written'
  <2>1. m.serial \in Nat /\ written \in Nat /\ written' \in Nat /\ written <= written'
    BY <1>1, TxnStep DEF Manifests
  <2> QED BY <1>1, <2>1
<1>3. PICK k \in Keys : k = Key(p)
  OBVIOUS
<1>4. m \in seen[p] \/ Gone(k, m) \/ Spoilt(k, m, fields)
  BY <1>3 DEF Certain
<1>5. m \in seen'[p] \/ Gone(k, m)' \/ Spoilt(k, m, fields)'
  BY <1>1, <1>4, GoneStays, SpoiltStays
<1>6. k = job[p].key
  BY <1>3 DEF Key
<1> QED BY <1>1, <1>2, <1>5, <1>6

\* How a read goes on.
ReadGoes(p) ==
    /\ job'[p] = job[p] /\ pc[p] # "idle" /\ UNCHANGED entry
    /\ \/ pc'[p] = "list" /\ job[p].op = "read"
       \/ pc[p] = "list" /\ pc'[p] = "manifest"
       \/ pc[p] = "manifest" /\ pc'[p] = "marker" /\ view'[p].manifest \in Manifests
       \/ /\ pc[p] = "marker" /\ pc'[p] = "payload"
          /\ view'[p].manifest = view[p].manifest /\ view'[p].marker = At(p).marker
          /\ At(p) # NoDir /\ At(p).marker \in Manifests
       \/ /\ pc[p] = "payload" /\ pc'[p] = "rehash" /\ view'[p].marker = view[p].marker
          /\ At(p) # NoDir /\ At(p).payload = view[p].manifest.payload

LEMMA ReadStep ==
    ASSUME TypeOK, LockInv, Step, NEW p \in Procs, pc'[p] \in Reading
    PROVE  \/ pc'[p] = pc[p] /\ job'[p] = job[p] /\ view'[p] = view[p]
           \/ ReadGoes(p)
<1>1. ASSUME CallStep(p) PROVE ReadGoes(p)
  <2>1. CASE Exists(p)
    BY <2>1 DEF Exists, Answer, Goto, TypeOK, Reading, ReadGoes
  <2>2. CASE ListFiles(p)
    BY <2>2 DEF ListFiles, Answer, Goto, TypeOK, Reading, ReadGoes
  <2>3. CASE ReadManifest(p)
    <3>1. PICK m : m = At(p).manifest
      OBVIOUS
    <3>2. /\ m \in Manifests /\ view' = [view EXCEPT ![p] = [@ EXCEPT !["manifest"] = m]]
          /\ pc'[p] = "marker" /\ pc[p] = "manifest" /\ job' = job /\ entry' = entry
      BY <2>3, <3>1 DEF ReadManifest, ReadNext, Answer, Goto, TypeOK, Reading
    <3>3. view'[p].manifest = m
      BY <3>2 DEF TypeOK, Dirs
    <3> QED BY <3>2, <3>3 DEF ReadGoes
  <2>4. CASE ReadMarker(p)
    <3>1. PICK m : m = At(p).marker
      OBVIOUS
    <3>2. /\ m \in Manifests /\ view' = [view EXCEPT ![p] = [@ EXCEPT !["marker"] = m]]
          /\ pc'[p] = "payload" /\ pc[p] = "marker" /\ job' = job /\ entry' = entry
          /\ At(p) # NoDir
      BY <2>4, <3>1 DEF ReadMarker, ReadNext, Answer, Goto, TypeOK, Reading
    <3>3. view'[p].marker = m /\ view'[p].manifest = view[p].manifest
      BY <3>2 DEF TypeOK, Dirs
    <3> QED BY <3>1, <3>2, <3>3 DEF ReadGoes
  <2>5. CASE HashPayload(p)
    <3>1. PICK x : x = At(p).payload
      OBVIOUS
    <3>2. /\ view' = [view EXCEPT ![p] = [@ EXCEPT !["payload"] = x]]
          /\ pc'[p] = "rehash" /\ pc[p] = "payload" /\ job' = job /\ entry' = entry
          /\ At(p) # NoDir /\ At(p).payload = view[p].manifest.payload
      BY <2>5, <3>1 DEF HashPayload, ReadNext, Answer, Goto, TypeOK, Reading
    <3>3. view'[p].marker = view[p].marker
      BY <3>2 DEF TypeOK, Dirs
    <3> QED BY <3>2, <3>3 DEF ReadGoes
  <2>6. CASE ~(Exists(p) \/ ListFiles(p) \/ ReadManifest(p) \/ ReadMarker(p) \/ HashPayload(p))
    <3>1. pc'[p] \notin Reading
      BY <1>1, <2>6 DEF CallStep, RehashManifest, Acquire, LockTimeout, QuarantineLocked,
         LookAgain, Compute, CheckDestination, WritePayload, WriteManifest, WriteMarker,
         WriteFile, Replace, ConfirmPublished, AbortTransaction, Return, Answer, Goto,
         TypeOK, Reading
    <3> QED BY <3>1
  <2> QED BY <2>1, <2>2, <2>3, <2>4, <2>5, <2>6
<1>2. ASSUME NEW q \in Procs, q # p, CallStep(q)
      PROVE  pc'[p] = pc[p] /\ job'[p] = job[p] /\ view'[p] = view[p]
  <2>1. pc'[p] = pc[p] /\ job'[p] = job[p]
    BY <1>2, CallFrame DEF Frame
  <2>2. view'[p] = view[p]
    BY <1>2 DEF CallStep, Exists, ListFiles, ReadManifest, ReadMarker, HashPayload,
       RehashManifest, Acquire, LockTimeout, QuarantineLocked, LookAgain, Compute,
       CheckDestination, WritePayload, WriteManifest, WriteMarker, WriteFile, Replace,
       ConfirmPublished, AbortTransaction, ReadNext, Return, Answer, TypeOK
  <2> QED BY <2>1, <2>2
<1>3. ASSUME NEW q \in Procs, Crash(q) \/ (\E call \in Jobs : Begin(q, call))
      PROVE  pc'[p] = pc[p] /\ job'[p] = job[p] /\ view'[p] = view[p]
  <2>1. pc'[q] \notin Reading
    BY <1>3 DEF Crash, Begin, Answer, Goto, TypeOK, Reading
  <2>2. q # p
    BY <2>1
  <2> QED BY <1>3, <2>2 DEF Crash, Begin, Answer, Goto, TypeOK
<1>4. ASSUME NEW k \in Keys, DamageFile(k)
      PROVE  pc'[p] = pc[p] /\ job'[p] = job[p] /\ view'[p] = view[p]
  BY <1>4 DEF DamageFile
<1> QED BY <1>1, <1>2, <1>3, <1>4 DEF Step

LEMMA SeenStep ==
    ASSUME Observe, NEW p \in Procs, pc[p] # "idle", job'[p] = job[p], job[p].op = "read"
    PROVE  /\ seen[p] \subseteq seen'[p]
           /\ Valid(entry'[job[p].key]) => entry'[job[p].key].manifest \in seen'[p]
  BY DEF Observe

\* The places of a read are made up of the step that came there and of what
\* the others did to what was certain before.
LEMMA ReadInvStep ==
    ASSUME IInv, GenuineInv, Step, Observe
    PROVE  ReadInv'
<1>0. TypeOK /\ LockInv /\ WorkOnlyOnMiss /\ "idle" \notin Reading
  BY DEF IInv, Reading
<1> SUFFICES ASSUME NEW p \in Procs, pc'[p] \in Reading
             PROVE  /\ job'[p].op = "read"
                    /\ pc'[p] \in {"marker", "payload"} => view'[p].manifest \in Manifests
                    /\ pc'[p] = "payload" =>
                          Certain(p, view[p].marker, {"payload", "manifest"})'
                    /\ pc'[p] = "rehash" => Certain(p, view[p].marker, {"manifest"})'
  BY DEF ReadInv, Reading
<1>1. /\ job'[p] = job[p] /\ pc[p] # "idle" /\ job[p].op = "read"
  BY <1>0, ReadStep DEF ReadGoes, GenuineInv, ReadInv, Reading
<1>2. Key(p) \in Keys
  BY <1>0, <1>1, KeyTyped DEF LockInv
<1>3. /\ seen[p] \subseteq seen'[p]
      /\ Valid(entry'[Key(p)]) => entry'[Key(p)].manifest \in seen'[p]
  BY <1>1, SeenStep DEF Key
<1>4. ASSUME NEW m, NEW fields \in SUBSET {"payload", "manifest"}, Certain(p, m, fields),
             m = view'[p].marker
      PROVE  Certain(p, view[p].marker, fields)'
  BY <1>0, <1>1, <1>2, <1>3, <1>4, CertainStays DEF Certain, Key
<1>5. CASE pc'[p] = pc[p] /\ view'[p] = view[p]
  BY <1>1, <1>4, <1>5 DEF GenuineInv, ReadInv
<1>6. CASE ReadGoes(p) /\ pc'[p] \in {"list", "manifest", "marker"}
  BY <1>1, <1>6 DEF ReadGoes
<1>7. CASE ReadGoes(p) /\ pc'[p] = "payload"
  <2>1. PICK k, m : k \in Keys /\ k = Key(p) /\ m = view'[p].marker
    BY <1>2
  <2>2. /\ entry[k] # NoDir /\ m = entry[k].marker /\ m \in Manifests /\ entry'[k] = entry[k]
        /\ view'[p].manifest = view[p].manifest /\ pc[p] = "marker"
    BY <1>7, <2>1 DEF ReadGoes, At
  <2>3. m.serial <= written
    BY <2>1, <2>2 DEF GenuineInv, Dated
  <2>4. m.serial <= written'
    <3>1. m.serial \in Nat /\ written \in Nat /\ written' \in Nat /\ written <= written'
      BY <1>0, <2>2, TxnStep DEF Manifests
    <3> QED BY <2>3, <3>1
  <2>5. ASSUME Valid(entry[k]) PROVE m \in seen'[p]
    BY <1>3, <2>1, <2>2, <2>5 DEF Valid
  <2>6. ASSUME ~Valid(entry[k]) PROVE Spoilt(k, m, {"payload", "manifest"})'
    <3>1. entry[k].payload \in Garbage \/ entry[k].manifest \in Garbage
      BY <2>1, <2>2, <2>6, GarbageApart DEF GenuineInv, DamageShows
    <3>2. \E f \in {"payload", "manifest"} : entry[k][f] \in Garbage
      BY <3>1
    <3> QED BY <2>2, <3>2 DEF Spoilt
  <2>7. m \in seen'[p] \/ Spoilt(k, m, {"payload", "manifest"})'
    BY <2>5, <2>6
  <2>8. Certain(p, view[p].marker, {"payload", "manifest"})'
    BY <1>1, <2>1, <2>2, <2>4, <2>7 DEF Certain, Key
  <2> QED BY <1>1, <1>7, <2>2, <2>8 DEF GenuineInv, ReadInv
<1>8. CASE ReadGoes(p) /\ pc'[p] = "rehash"
  <2>1. PICK k, m : k \in Keys /\ k = Key(p) /\ m = view'[p].marker
    BY <1>2
  <2>2. /\ entry[k] # NoDir /\ entry[k].payload = view[p].manifest.payload
        /\ m = view[p].marker /\ pc[p] = "payload"
    BY <1>8, <2>1 DEF ReadGoes, At
  <2>3. entry[k].payload \in Payloads
    BY <2>2 DEF GenuineInv, ReadInv, Manifests
  <2>4. Certain(p, m, {"payload", "manifest"})
    BY <2>2 DEF GenuineInv, ReadInv
  <2>5. Spoilt(k, m, {"payload", "manifest"}) => Spoilt(k, m, {"manifest"})
    BY <2>3, GarbageApart DEF Spoilt
  <2>6. Certain(p, m, {"manifest"})
    BY <2>1, <2>4, <2>5 DEF Certain
  <2>7. Certain(p, view[p].marker, {"manifest"})'
    BY <1>4, <2>1, <2>6
  <2> QED BY <1>1, <1>8, <2>7
<1> QED BY <1>0, <1>1, <1>5, <1>6, <1>7, <1>8, ReadStep DEF Reading, ReadGoes

LEMMA InitGenuine == Init => GenuineInv
<1> SUFFICES ASSUME Init PROVE GenuineInv
  OBVIOUS
<1>1. DamageShows /\ Dated
  BY DEF Init, DamageShows, Dated
<1>2. ReadInv
  BY DEF Init, ReadInv, Reading
<1> QED BY <1>1, <1>2 DEF GenuineInv

LEMMA NextGenuine ==
    ASSUME IInv, GenuineInv, [Next]_vars
    PROVE  GenuineInv'
<1>1. CASE Next
  BY <1>1, ShowsStep, DatedStep, ReadInvStep DEF Next, IInv, GenuineInv
<1>2. CASE UNCHANGED vars
  <2>1. DamageShows' /\ Dated'
    BY <1>2 DEF vars, GenuineInv, DamageShows, Dated
  <2>2. ReadInv'
    BY <1>2 DEF vars, GenuineInv, ReadInv, Certain, Gone, Spoilt, Key
  <2> QED BY <2>1, <2>2 DEF GenuineInv
<1> QED BY <1>1, <1>2

\* What a lock-free read returns was the payload of a valid entry at some
\* moment of the read, whoever published, quarantined, damaged or died in it.
THEOREM StoreReadsGenuine == Spec => ReadsAreGenuine
<1>1. ASSUME GenuineInv, NEW p \in Procs, RehashManifest(p), result'[p].kind = "hit", IInv
      PROVE  \E m \in seen[p] : m.payload = result'[p].payload
  <2>1. PICK k, m : k = Key(p) /\ m = view[p].marker
    OBVIOUS
  <2>2. /\ pc[p] = "rehash" /\ entry[k] # NoDir /\ entry[k].manifest = m
        /\ m.payload = view[p].payload /\ result'[p].payload = view[p].payload
    BY <1>1, <2>1 DEF RehashManifest, Answer, Outcome, At, IInv, TypeOK
  <2>3. Certain(p, m, {"manifest"})
    BY <1>1, <2>1, <2>2 DEF GenuineInv, ReadInv
  <2>4. ~Gone(k, m) /\ ~Spoilt(k, m, {"manifest"})
    BY <2>2, <2>3, GarbageApart DEF Gone, Spoilt, Certain
  <2> QED BY <2>1, <2>2, <2>3, <2>4 DEF Certain
<1>2. IInv /\ GenuineInv /\ [Next]_vars => GenuineInv'
  BY NextGenuine
<1>3. IInv /\ GenuineInv /\ [Next]_vars
          => [\A p \in Procs :
                 RehashManifest(p) /\ result'[p].kind = "hit" =>
                     \E m \in seen[p] : m.payload = result'[p].payload]_vars
  BY <1>1
<1> QED BY <1>2, <1>3, InitGenuine, StoreInvariant, PTL DEF Spec, ReadsAreGenuine
=============================================================================
