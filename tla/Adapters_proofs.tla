--------------------------- MODULE Adapters_proofs ---------------------------
(***************************************************************************)
(* Proofs about Adapters, for any number of workers, any payloads, any     *)
(* relation of agreement and any number of damaged files.  The inductive   *)
(* invariant says, for each worker, what it may count on at the step it is *)
(* at (Ready); other workers and damaged files leave that alone.           *)
(***************************************************************************)
EXTENDS Adapters, TLAPS

\* From a lock that was taken until the references are dropped.
Guarded == {"build", "fit", "limits"} \cup Using
Fitted == {"limits"} \cup Using
Watched == {"fit"} \cup Fitted
Released == {"record", "archive", "report"}

\* The objects of a worker: what is in memory, and what is known of it.
Memory(p) ==
    /\ pc[p] \in Fitted => model[p] # None
    /\ pc[p] \notin Fitted \cup {"drop"} => model[p] = None
    /\ pc[p] \in {"verify", "unlock"} \cup Released => restored[p] = None
    /\ pc[p] \in Watched => tracker[p].stage = "running"
    /\ pc[p] \in {"drop", "verify"} /\ after[p] = "passed" => tracker[p].stage = "running"
    /\ pc[p] = "unlock" /\ after[p] = "passed" => tracker[p].stage = "stopped"
    /\ pc[p] \in Released => tracker[p].stage = "stopped"
    /\ pc[p] \in {"archive", "report"} => tracker[p].clean /\ ~tracker[p].over

\* What the worker's end will say is true.
Told(p) ==
    /\ pc[p] = "idle" => after[p] = "none"
    /\ pc[p] = "idle" => job[p] = NoJob
    /\ pc[p] # "idle" => exit[p] = "none"
    /\ after[p] = "zero" => wrote[p]
    /\ Passes(p) => wrote[p]

\* The GPU lock, and what it protects.
Guard(p) ==
    /\ job[p].foundation /\ pc[p] \in Guarded => gpuLock = p
    /\ job[p].foundation /\ model[p] # None => gpuLock = p
    /\ pc[p] \in Released => gpuLock # p

\* The lock of the key, and what was found under it.
Store(p) ==
    /\ pc[p] \in Storing => storeLock[Kind(p)] = p
    /\ pc[p] = "write" => entry[Kind(p)] = Absent
    /\ pc[p] = "attach" =>
          /\ hold[p].cert # None
          /\ Valid(hold[p].envelope)
          /\ hold[p].cert.existing = hold[p].envelope.payload
          /\ Valid(entry[Kind(p)]) => entry[Kind(p)] = hold[p].envelope
    /\ hold[p].cert # None => <<hold[p].cert.existing, hold[p].cert.candidate>> \in Close

Ready(p) == Memory(p) /\ Told(p) /\ Guard(p) /\ Store(p)
IInv == AdaptersTypeOK /\ CertificatesHold /\ \A p \in Procs : Ready(p)

-------------------------------------------------------------------------------
\* The types, by what a step may change at once.
ControlTyped ==
    /\ pc \in [Procs -> Steps]
    /\ job \in [Procs -> Jobs \cup {NoJob}]
    /\ after \in [Procs -> {"none", "raised", "failed", "passed", "zero", "nonzero"}]
MemoryTyped ==
    /\ model \in [Procs -> Bytes \cup {None}]
    /\ restored \in [Procs -> Bytes \cup {None}]
    /\ tracker \in [Procs -> [stage : {"none", "running", "stopped"},
                              over : BOOLEAN, clean : BOOLEAN]]
HoldTyped ==
    hold \in [Procs -> [envelope : Envelopes \cup {None}, cert : Certificates \cup {None}]]
OutcomeTyped ==
    /\ result \in [Procs -> {"none", "PASS", "FAIL"}]
    /\ exit \in [Procs -> {"none", "zero", "nonzero"}]
    /\ wrote \in [Procs -> BOOLEAN]
SharedTyped ==
    /\ entry \in [Kinds -> Envelopes \cup {Absent, Broken}]
    /\ storeLock \in [Kinds -> Procs \cup {Free}]
    /\ gpuLock \in Procs \cup {Free}
    /\ faults \in 0 .. MaxFaults
    /\ mix \in Mixes

LEMMA TypesAreParts ==
    AdaptersTypeOK <=> ControlTyped /\ MemoryTyped /\ HoldTyped /\ OutcomeTyped /\ SharedTyped
BY DEF AdaptersTypeOK, ControlTyped, MemoryTyped, HoldTyped, OutcomeTyped, SharedTyped

LEMMA TypesAreKept ==
    ASSUME ControlTyped', MemoryTyped', HoldTyped', OutcomeTyped', SharedTyped'
    PROVE  AdaptersTypeOK'
BY DEF AdaptersTypeOK, ControlTyped, MemoryTyped, HoldTyped, OutcomeTyped, SharedTyped

LEMMA KindIsKind == \A p : Kind(p) \in Kinds
BY DEF Kind, Kinds

\* What a step of another worker leaves alone.
Apart(q) ==
    /\ pc'[q] = pc[q] /\ job'[q] = job[q] /\ after'[q] = after[q]
    /\ model'[q] = model[q] /\ restored'[q] = restored[q]
    /\ tracker'[q] = tracker[q] /\ hold'[q] = hold[q]
    /\ result'[q] = result[q] /\ exit'[q] = exit[q] /\ wrote'[q] = wrote[q]
    /\ gpuLock' = q <=> gpuLock = q
    /\ \A k \in Kinds : storeLock[k] = q => storeLock'[k] = q /\ entry'[k] = entry[k]

\* A worker counts on nothing a step apart from it could change.
LEMMA ApartReady ==
    ASSUME NEW q \in Procs, Ready(q), Apart(q)
    PROVE  Ready(q)'
<1>1. Memory(q)' BY DEF Ready, Apart, Memory
<1>2. Told(q)' BY DEF Ready, Apart, Told, Passes
<1>3. Guard(q)' BY DEF Ready, Apart, Guard
<1>4. Kind(q)' = Kind(q) BY DEF Apart, Kind, Program
<1>5. Store(q)'
  <2>1. pc[q] \in Storing => storeLock'[Kind(q)] = q /\ entry'[Kind(q)] = entry[Kind(q)]
    BY KindIsKind DEF Ready, Apart, Store
  <2> QED BY <1>4, <2>1 DEF Ready, Apart, Store, Storing, Valid
<1> QED BY <1>1, <1>2, <1>3, <1>5 DEF Ready

\* Away from the store, nothing is counted on but the certificate.
LEMMA NotStoring ==
    ASSUME NEW p \in Procs, Store(p), pc'[p] \notin Storing,
           hold'[p] = hold[p] \/ hold'[p] = NoHold
    PROVE  Store(p)'
BY DEF Store, Storing, NoHold

\* The end of a worker takes its objects with it.
LEMMA EndTyped ==
    ASSUME NEW p \in Procs, NEW code \in {"zero", "nonzero"}, MemoryTyped, HoldTyped,
    End(p, code)
    PROVE  MemoryTyped' /\ HoldTyped'
<1>1. NewTracker \in [stage : {"none", "running", "stopped"}, over : BOOLEAN,
   clean : BOOLEAN]
  BY DEF NewTracker
<1>2. MemoryTyped' BY <1>1, SMTT(30) DEF MemoryTyped, End
<1>3. HoldTyped' BY DEF HoldTyped, End, NoHold
<1> QED BY <1>2, <1>3

\* A file of the cache is replaced, and the lock of its key given back.
LEMMA ReplaceTyped ==
    ASSUME NEW p \in Procs, NEW e \in Envelopes \cup {Absent}, SharedTyped,
           entry' = entry \/ entry' = [entry EXCEPT ![Kind(p)] = e],
           storeLock' = Unheld(p), UNCHANGED <<gpuLock, setting>>
    PROVE  SharedTyped'
<1>1. entry' \in [Kinds -> Envelopes \cup {Absent, Broken}] BY KindIsKind DEF SharedTyped
<1>2. storeLock' \in [Kinds -> Procs \cup {Free}] BY DEF SharedTyped, Unheld
<1> QED BY <1>1, <1>2 DEF SharedTyped, setting

LEMMA BeginKeeps ==
    ASSUME IInv, NEW p \in Procs, Begin(p)
    PROVE  IInv'
<1>1. AdaptersTypeOK /\ CertificatesHold /\ Ready(p) BY DEF IInv
<1>2. ControlTyped /\ MemoryTyped /\ HoldTyped /\ OutcomeTyped /\ SharedTyped
  BY <1>1, TypesAreParts
<1>3. ControlTyped'
  <2>1. PICK j \in mix : job' = [job EXCEPT ![p] = j] BY DEF Begin
  <2>2. j \in Jobs BY <1>2, AdapterAssumption DEF SharedTyped
  <2>3. PICK step \in {"prepare", "reportFail"} : Go(p, step) BY DEF Begin
  <2>4. job' \in [Procs -> Jobs \cup {NoJob}] BY <1>2, <2>1, <2>2 DEF ControlTyped
  <2>5. pc' \in [Procs -> Steps] BY <1>2, <2>3 DEF ControlTyped, Go, Steps, Fitting, Ending
  <2>6. after' = after BY DEF Begin, adapter
  <2> QED BY <1>2, <2>4, <2>5, <2>6 DEF ControlTyped
<1>4. OutcomeTyped'
  BY <1>2, AdapterAssumption, SMTT(30) DEF Begin, OutcomeTyped, adapter, cache, setting,
     Go, Is
<1>5. MemoryTyped' /\ HoldTyped' /\ SharedTyped'
  BY <1>2 DEF Begin, MemoryTyped, HoldTyped, SharedTyped, adapter, cache, setting, Go, Is
<1>6. AdaptersTypeOK' BY <1>3, <1>4, <1>5, TypesAreKept
<1>7. CertificatesHold'
  BY <1>1 DEF Begin, CertificatesHold, adapter, cache, setting
<1>8. Memory(p)'
  BY <1>1, <1>2, AdapterAssumption, SMTT(30) DEF Begin, Ready, Memory, Guard,
     ControlTyped, MemoryTyped, adapter, cache, setting, Go, Is, Steps, Fitting, Using,
     Storing, Ending, Fitted, Watched, Released, Guarded
<1>9. Told(p)'
  BY <1>1, <1>2, SMTT(30) DEF Begin, Ready, Told, Passes, ControlTyped, OutcomeTyped,
     adapter, cache, setting, Go, Is, Steps, Fitting, Using, Storing, Ending
<1>10. Guard(p)'
  BY <1>1, <1>2, AdapterAssumption, SMTT(30) DEF Begin, Ready, Guard, Memory, Told,
     ControlTyped, MemoryTyped, SharedTyped, adapter, cache, setting, Go, Is, Steps,
     Fitting, Using, Storing, Ending, Fitted, Watched, Released, Guarded
<1>11. Store(p)'
  <2>1. pc'[p] \notin Storing
    BY <1>2 DEF Begin, ControlTyped, Storing, Go, Is
  <2>2. hold'[p] = hold[p] \/ hold'[p] = NoHold
    BY <1>2 DEF Begin, HoldTyped, adapter, cache, setting, Go, Is
  <2> QED BY <1>1, <2>1, <2>2, NotStoring DEF Ready
<1>12. ASSUME NEW q \in Procs, q # p PROVE Ready(q)'
  <2>1. Apart(q)
    BY <1>2, <1>12, AdapterAssumption, SMTT(30) DEF Begin, Apart, ControlTyped,
       MemoryTyped, HoldTyped, OutcomeTyped, SharedTyped, adapter, cache, setting, Go, Is
  <2> QED BY <2>1, ApartReady DEF IInv
<1> QED BY <1>6, <1>7, <1>8, <1>9, <1>10, <1>11, <1>12 DEF IInv, Ready

LEMMA PrepareKeeps ==
    ASSUME IInv, NEW p \in Procs, Prepare(p)
    PROVE  IInv'
<1>1. AdaptersTypeOK /\ CertificatesHold /\ Ready(p) BY DEF IInv
<1>2. ControlTyped /\ MemoryTyped /\ HoldTyped /\ OutcomeTyped /\ SharedTyped
  BY <1>1, TypesAreParts
<1>3. ControlTyped'
  BY <1>2, AdapterAssumption, SMTT(30) DEF Prepare, ControlTyped, outcome, cache,
     setting, Release, FitRaises, Go, Is, Steps, Fitting, Using, Storing, Ending
<1>4. MemoryTyped' /\ HoldTyped' /\ OutcomeTyped' /\ SharedTyped'
  BY <1>2 DEF Prepare, MemoryTyped, HoldTyped, OutcomeTyped, SharedTyped, outcome, cache,
     setting, Release, FitRaises, Go, Is
<1>5. AdaptersTypeOK' BY <1>3, <1>4, TypesAreKept
<1>6. CertificatesHold'
  BY <1>1 DEF Prepare, CertificatesHold, outcome, cache, setting
<1>7. Memory(p)'
  BY <1>1, <1>2, AdapterAssumption, SMTT(30) DEF Prepare, Ready, Memory, Guard,
     ControlTyped, MemoryTyped, outcome, cache, setting, Release, FitRaises, Go, Is,
     Steps, Fitting, Using, Storing, Ending, Fitted, Watched, Released, Guarded
<1>8. Told(p)'
  BY <1>1, <1>2, SMTT(30) DEF Prepare, Ready, Told, Passes, ControlTyped, OutcomeTyped,
     outcome, cache, setting, Release, FitRaises, Go, Is, Steps, Fitting, Using, Storing,
     Ending
<1>9. Guard(p)'
  BY <1>1, <1>2, AdapterAssumption, SMTT(30) DEF Prepare, Ready, Guard, Memory, Told,
     ControlTyped, MemoryTyped, SharedTyped, outcome, cache, setting, Release, FitRaises,
     Go, Is, Steps, Fitting, Using, Storing, Ending, Fitted, Watched, Released, Guarded
<1>10. Store(p)'
  <2>1. pc'[p] \notin Storing
    BY <1>2 DEF Prepare, ControlTyped, Storing, Release, FitRaises, Go, Is
  <2>2. hold'[p] = hold[p] \/ hold'[p] = NoHold
    BY <1>2 DEF Prepare, HoldTyped, outcome, cache, setting, Release, FitRaises, Go, Is
  <2> QED BY <1>1, <2>1, <2>2, NotStoring DEF Ready
<1>11. ASSUME NEW q \in Procs, q # p PROVE Ready(q)'
  <2>1. Apart(q)
    BY <1>2, <1>11, AdapterAssumption, SMTT(30) DEF Prepare, Apart, ControlTyped,
       MemoryTyped, HoldTyped, OutcomeTyped, SharedTyped, outcome, cache, setting,
       Release, FitRaises, Go, Is
  <2> QED BY <2>1, ApartReady DEF IInv
<1> QED BY <1>5, <1>6, <1>7, <1>8, <1>9, <1>10, <1>11 DEF IInv, Ready

LEMMA AcquireGpuKeeps ==
    ASSUME IInv, NEW p \in Procs, AcquireGpu(p)
    PROVE  IInv'
<1>1. AdaptersTypeOK /\ CertificatesHold /\ Ready(p) BY DEF IInv
<1>2. ControlTyped /\ MemoryTyped /\ HoldTyped /\ OutcomeTyped /\ SharedTyped
  BY <1>1, TypesAreParts
<1>3. ControlTyped'
  BY <1>2, AdapterAssumption, SMTT(30) DEF AcquireGpu, ControlTyped, adapter, outcome,
     cache, setting, Go, Is, Steps, Fitting, Using, Storing, Ending
<1>4. SharedTyped'
  BY <1>2, AdapterAssumption, SMTT(30) DEF AcquireGpu, SharedTyped, adapter, outcome,
     cache, setting, Go, Is
<1>5. MemoryTyped' /\ HoldTyped' /\ OutcomeTyped'
  BY <1>2 DEF AcquireGpu, MemoryTyped, HoldTyped, OutcomeTyped, adapter, outcome, cache,
     setting, Go, Is
<1>6. AdaptersTypeOK' BY <1>3, <1>4, <1>5, TypesAreKept
<1>7. CertificatesHold'
  BY <1>1 DEF AcquireGpu, CertificatesHold, adapter, outcome, cache, setting
<1>8. Memory(p)'
  BY <1>1, <1>2, AdapterAssumption, SMTT(30) DEF AcquireGpu, Ready, Memory, Guard,
     ControlTyped, MemoryTyped, adapter, outcome, cache, setting, Go, Is, Steps, Fitting,
     Using, Storing, Ending, Fitted, Watched, Released, Guarded
<1>9. Told(p)'
  BY <1>1, <1>2, SMTT(30) DEF AcquireGpu, Ready, Told, Passes, ControlTyped,
     OutcomeTyped, adapter, outcome, cache, setting, Go, Is, Steps, Fitting, Using,
     Storing, Ending
<1>10. Guard(p)'
  BY <1>1, <1>2, AdapterAssumption, SMTT(30) DEF AcquireGpu, Ready, Guard, Memory, Told,
     ControlTyped, MemoryTyped, SharedTyped, adapter, outcome, cache, setting, Go, Is,
     Steps, Fitting, Using, Storing, Ending, Fitted, Watched, Released, Guarded
<1>11. Store(p)'
  <2>1. pc'[p] \notin Storing
    BY <1>2 DEF AcquireGpu, ControlTyped, Storing, Go, Is
  <2>2. hold'[p] = hold[p] \/ hold'[p] = NoHold
    BY <1>2 DEF AcquireGpu, HoldTyped, adapter, outcome, cache, setting, Go, Is
  <2> QED BY <1>1, <2>1, <2>2, NotStoring DEF Ready
<1>12. ASSUME NEW q \in Procs, q # p PROVE Ready(q)'
  <2>1. Apart(q)
    BY <1>2, <1>12, AdapterAssumption, SMTT(30) DEF AcquireGpu, Apart, ControlTyped,
       MemoryTyped, HoldTyped, OutcomeTyped, SharedTyped, adapter, outcome, cache,
       setting, Go, Is
  <2> QED BY <2>1, ApartReady DEF IInv
<1> QED BY <1>6, <1>7, <1>8, <1>9, <1>10, <1>11, <1>12 DEF IInv, Ready

LEMMA GpuLockTimeoutKeeps ==
    ASSUME IInv, NEW p \in Procs, GpuLockTimeout(p)
    PROVE  IInv'
<1>1. AdaptersTypeOK /\ CertificatesHold /\ Ready(p) BY DEF IInv
<1>2. ControlTyped /\ MemoryTyped /\ HoldTyped /\ OutcomeTyped /\ SharedTyped
  BY <1>1, TypesAreParts
<1>3. ControlTyped'
  BY <1>2, AdapterAssumption, SMTT(30) DEF GpuLockTimeout, ControlTyped, outcome, cache,
     setting, Release, FitRaises, Go, Is, Steps, Fitting, Using, Storing, Ending
<1>4. MemoryTyped' /\ HoldTyped' /\ OutcomeTyped' /\ SharedTyped'
  BY <1>2 DEF GpuLockTimeout, MemoryTyped, HoldTyped, OutcomeTyped, SharedTyped, outcome,
     cache, setting, Release, FitRaises, Go, Is
<1>5. AdaptersTypeOK' BY <1>3, <1>4, TypesAreKept
<1>6. CertificatesHold'
  BY <1>1 DEF GpuLockTimeout, CertificatesHold, outcome, cache, setting
<1>7. Memory(p)'
  BY <1>1, <1>2, AdapterAssumption, SMTT(30) DEF GpuLockTimeout, Ready, Memory, Guard,
     ControlTyped, MemoryTyped, outcome, cache, setting, Release, FitRaises, Go, Is,
     Steps, Fitting, Using, Storing, Ending, Fitted, Watched, Released, Guarded
<1>8. Told(p)'
  BY <1>1, <1>2, SMTT(30) DEF GpuLockTimeout, Ready, Told, Passes, ControlTyped,
     OutcomeTyped, outcome, cache, setting, Release, FitRaises, Go, Is, Steps, Fitting,
     Using, Storing, Ending
<1>9. Guard(p)'
  BY <1>1, <1>2, AdapterAssumption, SMTT(30) DEF GpuLockTimeout, Ready, Guard, Memory,
     Told, ControlTyped, MemoryTyped, SharedTyped, outcome, cache, setting, Release,
     FitRaises, Go, Is, Steps, Fitting, Using, Storing, Ending, Fitted, Watched,
     Released, Guarded
<1>10. Store(p)'
  <2>1. pc'[p] \notin Storing
    BY <1>2 DEF GpuLockTimeout, ControlTyped, Storing, Release, FitRaises, Go, Is
  <2>2. hold'[p] = hold[p] \/ hold'[p] = NoHold
    BY <1>2 DEF GpuLockTimeout, HoldTyped, outcome, cache, setting, Release, FitRaises,
       Go, Is
  <2> QED BY <1>1, <2>1, <2>2, NotStoring DEF Ready
<1>11. ASSUME NEW q \in Procs, q # p PROVE Ready(q)'
  <2>1. Apart(q)
    BY <1>2, <1>11, AdapterAssumption, SMTT(30) DEF GpuLockTimeout, Apart, ControlTyped,
       MemoryTyped, HoldTyped, OutcomeTyped, SharedTyped, outcome, cache, setting,
       Release, FitRaises, Go, Is
  <2> QED BY <2>1, ApartReady DEF IInv
<1> QED BY <1>5, <1>6, <1>7, <1>8, <1>9, <1>10, <1>11 DEF IInv, Ready

LEMMA BuildKeeps ==
    ASSUME IInv, NEW p \in Procs, Build(p)
    PROVE  IInv'
<1>1. AdaptersTypeOK /\ CertificatesHold /\ Ready(p) BY DEF IInv
<1>2. ControlTyped /\ MemoryTyped /\ HoldTyped /\ OutcomeTyped /\ SharedTyped
  BY <1>1, TypesAreParts
<1>3. ControlTyped'
  BY <1>2, AdapterAssumption, SMTT(30) DEF Build, ControlTyped, outcome, cache, setting,
     Release, FitRaises, Go, Is, Steps, Fitting, Using, Storing, Ending
<1>4. MemoryTyped'
  <2>1. CASE UNCHANGED tracker BY <1>2, <2>1 DEF Build, MemoryTyped
  <2>2. CASE tracker' = [tracker EXCEPT ![p] = [stage |-> "running", over |-> FALSE,
     clean |-> FALSE]]
    BY <1>2, <2>2 DEF Build, MemoryTyped
  <2> QED BY <2>1, <2>2 DEF Build
<1>5. HoldTyped' /\ OutcomeTyped' /\ SharedTyped'
  BY <1>2 DEF Build, HoldTyped, OutcomeTyped, SharedTyped, outcome, cache, setting,
     Release, FitRaises, Go, Is
<1>6. AdaptersTypeOK' BY <1>3, <1>4, <1>5, TypesAreKept
<1>7. CertificatesHold'
  BY <1>1 DEF Build, CertificatesHold, outcome, cache, setting
<1>8. Memory(p)'
  BY <1>1, <1>2, AdapterAssumption, SMTT(30) DEF Build, Ready, Memory, Guard,
     ControlTyped, MemoryTyped, outcome, cache, setting, Release, FitRaises, Go, Is,
     Steps, Fitting, Using, Storing, Ending, Fitted, Watched, Released, Guarded
<1>9. Told(p)'
  BY <1>1, <1>2, SMTT(30) DEF Build, Ready, Told, Passes, ControlTyped, OutcomeTyped,
     outcome, cache, setting, Release, FitRaises, Go, Is, Steps, Fitting, Using, Storing,
     Ending
<1>10. Guard(p)'
  BY <1>1, <1>2, AdapterAssumption, SMTT(30) DEF Build, Ready, Guard, Memory, Told,
     ControlTyped, MemoryTyped, SharedTyped, outcome, cache, setting, Release, FitRaises,
     Go, Is, Steps, Fitting, Using, Storing, Ending, Fitted, Watched, Released, Guarded
<1>11. Store(p)'
  <2>1. pc'[p] \notin Storing
    BY <1>2 DEF Build, ControlTyped, Storing, Release, FitRaises, Go, Is
  <2>2. hold'[p] = hold[p] \/ hold'[p] = NoHold
    BY <1>2 DEF Build, HoldTyped, outcome, cache, setting, Release, FitRaises, Go, Is
  <2> QED BY <1>1, <2>1, <2>2, NotStoring DEF Ready
<1>12. ASSUME NEW q \in Procs, q # p PROVE Ready(q)'
  <2>1. Apart(q)
    BY <1>2, <1>12, AdapterAssumption, SMTT(30) DEF Build, Apart, ControlTyped,
       MemoryTyped, HoldTyped, OutcomeTyped, SharedTyped, outcome, cache, setting,
       Release, FitRaises, Go, Is
  <2> QED BY <2>1, ApartReady DEF IInv
<1> QED BY <1>6, <1>7, <1>8, <1>9, <1>10, <1>11, <1>12 DEF IInv, Ready

LEMMA OverrunKeeps ==
    ASSUME IInv, NEW p \in Procs, Overrun(p)
    PROVE  IInv'
<1>1. AdaptersTypeOK /\ CertificatesHold /\ Ready(p) BY DEF IInv
<1>2. ControlTyped /\ MemoryTyped /\ HoldTyped /\ OutcomeTyped /\ SharedTyped
  BY <1>1, TypesAreParts
<1>3. MemoryTyped'
  BY <1>2, AdapterAssumption, SMTT(30) DEF Overrun, MemoryTyped, outcome, cache, setting,
     Samples
<1>4. ControlTyped' /\ HoldTyped' /\ OutcomeTyped' /\ SharedTyped'
  BY <1>2 DEF Overrun, ControlTyped, HoldTyped, OutcomeTyped, SharedTyped, outcome,
     cache, setting, Samples
<1>5. AdaptersTypeOK' BY <1>3, <1>4, TypesAreKept
<1>6. CertificatesHold'
  BY <1>1 DEF Overrun, CertificatesHold, outcome, cache, setting
<1>7. Memory(p)'
  BY <1>1, <1>2, AdapterAssumption, SMTT(30) DEF Overrun, Ready, Memory, Guard,
     ControlTyped, MemoryTyped, outcome, cache, setting, Samples, Steps, Fitting, Using,
     Storing, Ending, Fitted, Watched, Released, Guarded
<1>8. Told(p)'
  BY <1>1, <1>2, SMTT(30) DEF Overrun, Ready, Told, Passes, ControlTyped, OutcomeTyped,
     outcome, cache, setting, Samples, Steps, Fitting, Using, Storing, Ending
<1>9. Guard(p)'
  BY <1>1, <1>2, AdapterAssumption, SMTT(30) DEF Overrun, Ready, Guard, Memory, Told,
     ControlTyped, MemoryTyped, SharedTyped, outcome, cache, setting, Samples, Steps,
     Fitting, Using, Storing, Ending, Fitted, Watched, Released, Guarded
<1>10. Store(p)'
  <2>1. Kind(p)' = Kind(p) BY DEF Overrun, Kind, Program
  <2> QED BY <1>1, <2>1 DEF Overrun, Ready, Store, cache, Valid
<1>11. ASSUME NEW q \in Procs, q # p PROVE Ready(q)'
  <2>1. Apart(q)
    BY <1>2, <1>11, AdapterAssumption, SMTT(30) DEF Overrun, Apart, ControlTyped,
       MemoryTyped, HoldTyped, OutcomeTyped, SharedTyped, outcome, cache, setting, Samples
  <2> QED BY <2>1, ApartReady DEF IInv
<1> QED BY <1>5, <1>6, <1>7, <1>8, <1>9, <1>10, <1>11 DEF IInv, Ready

LEMMA FitKeeps ==
    ASSUME IInv, NEW p \in Procs, Fit(p)
    PROVE  IInv'
<1>1. AdaptersTypeOK /\ CertificatesHold /\ Ready(p) BY DEF IInv
<1>2. ControlTyped /\ MemoryTyped /\ HoldTyped /\ OutcomeTyped /\ SharedTyped
  BY <1>1, TypesAreParts
<1>3. ControlTyped'
  BY <1>2, AdapterAssumption, SMTT(30) DEF Fit, ControlTyped, outcome, cache, setting,
     Release, FitRaises, Go, Is, Steps, Fitting, Using, Storing, Ending
<1>4. MemoryTyped'
  BY <1>2, AdapterAssumption, SMTT(30) DEF Fit, MemoryTyped, outcome, cache, setting,
     Release, FitRaises, Go, Is
<1>5. HoldTyped' /\ OutcomeTyped' /\ SharedTyped'
  BY <1>2 DEF Fit, HoldTyped, OutcomeTyped, SharedTyped, outcome, cache, setting,
     Release, FitRaises, Go, Is
<1>6. AdaptersTypeOK' BY <1>3, <1>4, <1>5, TypesAreKept
<1>7. CertificatesHold'
  BY <1>1 DEF Fit, CertificatesHold, outcome, cache, setting
<1>8. Memory(p)'
  BY <1>1, <1>2, AdapterAssumption, SMTT(30) DEF Fit, Ready, Memory, Guard, ControlTyped,
     MemoryTyped, outcome, cache, setting, Release, FitRaises, Go, Is, Steps, Fitting,
     Using, Storing, Ending, Fitted, Watched, Released, Guarded
<1>9. Told(p)'
  BY <1>1, <1>2, SMTT(30) DEF Fit, Ready, Told, Passes, ControlTyped, OutcomeTyped,
     outcome, cache, setting, Release, FitRaises, Go, Is, Steps, Fitting, Using, Storing,
     Ending
<1>10. Guard(p)'
  BY <1>1, <1>2, AdapterAssumption, SMTT(30) DEF Fit, Ready, Guard, Memory, Told,
     ControlTyped, MemoryTyped, SharedTyped, outcome, cache, setting, Release, FitRaises,
     Go, Is, Steps, Fitting, Using, Storing, Ending, Fitted, Watched, Released, Guarded
<1>11. Store(p)'
  <2>1. pc'[p] \notin Storing
    BY <1>2 DEF Fit, ControlTyped, Storing, Release, FitRaises, Go, Is
  <2>2. hold'[p] = hold[p] \/ hold'[p] = NoHold
    BY <1>2 DEF Fit, HoldTyped, outcome, cache, setting, Release, FitRaises, Go, Is
  <2> QED BY <1>1, <2>1, <2>2, NotStoring DEF Ready
<1>12. ASSUME NEW q \in Procs, q # p PROVE Ready(q)'
  <2>1. Apart(q)
    BY <1>2, <1>12, AdapterAssumption, SMTT(30) DEF Fit, Apart, ControlTyped,
       MemoryTyped, HoldTyped, OutcomeTyped, SharedTyped, outcome, cache, setting,
       Release, FitRaises, Go, Is
  <2> QED BY <2>1, ApartReady DEF IInv
<1> QED BY <1>6, <1>7, <1>8, <1>9, <1>10, <1>11, <1>12 DEF IInv, Ready

LEMMA LimitsKeeps ==
    ASSUME IInv, NEW p \in Procs, Limits(p)
    PROVE  IInv'
<1>1. AdaptersTypeOK /\ CertificatesHold /\ Ready(p) BY DEF IInv
<1>2. ControlTyped /\ MemoryTyped /\ HoldTyped /\ OutcomeTyped /\ SharedTyped
  BY <1>1, TypesAreParts
<1>3. ControlTyped'
  BY <1>2, AdapterAssumption, SMTT(30) DEF Limits, ControlTyped, outcome, cache, setting,
     Release, FitRaises, Go, Is, Steps, Fitting, Using, Storing, Ending
<1>4. MemoryTyped' /\ HoldTyped' /\ OutcomeTyped' /\ SharedTyped'
  BY <1>2 DEF Limits, MemoryTyped, HoldTyped, OutcomeTyped, SharedTyped, outcome, cache,
     setting, Release, FitRaises, Go, Is
<1>5. AdaptersTypeOK' BY <1>3, <1>4, TypesAreKept
<1>6. CertificatesHold'
  BY <1>1 DEF Limits, CertificatesHold, outcome, cache, setting
<1>7. Memory(p)'
  BY <1>1, <1>2, AdapterAssumption, SMTT(30) DEF Limits, Ready, Memory, Guard,
     ControlTyped, MemoryTyped, outcome, cache, setting, Release, FitRaises, Go, Is,
     Steps, Fitting, Using, Storing, Ending, Fitted, Watched, Released, Guarded
<1>8. Told(p)'
  BY <1>1, <1>2, SMTT(30) DEF Limits, Ready, Told, Passes, ControlTyped, OutcomeTyped,
     outcome, cache, setting, Release, FitRaises, Go, Is, Steps, Fitting, Using, Storing,
     Ending
<1>9. Guard(p)'
  BY <1>1, <1>2, AdapterAssumption, SMTT(30) DEF Limits, Ready, Guard, Memory, Told,
     ControlTyped, MemoryTyped, SharedTyped, outcome, cache, setting, Release, FitRaises,
     Go, Is, Steps, Fitting, Using, Storing, Ending, Fitted, Watched, Released, Guarded
<1>10. Store(p)'
  <2>1. pc'[p] \notin Storing
    BY <1>2 DEF Limits, ControlTyped, Storing, Release, FitRaises, Go, Is
  <2>2. hold'[p] = hold[p] \/ hold'[p] = NoHold
    BY <1>2 DEF Limits, HoldTyped, outcome, cache, setting, Release, FitRaises, Go, Is
  <2> QED BY <1>1, <2>1, <2>2, NotStoring DEF Ready
<1>11. ASSUME NEW q \in Procs, q # p PROVE Ready(q)'
  <2>1. Apart(q)
    BY <1>2, <1>11, AdapterAssumption, SMTT(30) DEF Limits, Apart, ControlTyped,
       MemoryTyped, HoldTyped, OutcomeTyped, SharedTyped, outcome, cache, setting,
       Release, FitRaises, Go, Is
  <2> QED BY <2>1, ApartReady DEF IInv
<1> QED BY <1>5, <1>6, <1>7, <1>8, <1>9, <1>10, <1>11 DEF IInv, Ready

LEMMA PredictKeeps ==
    ASSUME IInv, NEW p \in Procs, Predict(p)
    PROVE  IInv'
<1>1. AdaptersTypeOK /\ CertificatesHold /\ Ready(p) BY DEF IInv
<1>2. ControlTyped /\ MemoryTyped /\ HoldTyped /\ OutcomeTyped /\ SharedTyped
  BY <1>1, TypesAreParts
<1>3. ControlTyped'
  BY <1>2, AdapterAssumption, SMTT(30) DEF Predict, ControlTyped, outcome, cache,
     setting, Release, Fails, Go, Is, Program, Steps, Fitting, Using, Storing, Ending
<1>4. MemoryTyped' /\ HoldTyped' /\ OutcomeTyped' /\ SharedTyped'
  BY <1>2 DEF Predict, MemoryTyped, HoldTyped, OutcomeTyped, SharedTyped, outcome, cache,
     setting, Release, Fails, Go, Is, Program
<1>5. AdaptersTypeOK' BY <1>3, <1>4, TypesAreKept
<1>6. CertificatesHold'
  BY <1>1 DEF Predict, CertificatesHold, outcome, cache, setting
<1>7. Memory(p)'
  BY <1>1, <1>2, AdapterAssumption, SMTT(30) DEF Predict, Ready, Memory, Guard,
     ControlTyped, MemoryTyped, outcome, cache, setting, Release, Fails, Go, Is, Program,
     Steps, Fitting, Using, Storing, Ending, Fitted, Watched, Released, Guarded
<1>8. Told(p)'
  BY <1>1, <1>2, SMTT(30) DEF Predict, Ready, Told, Passes, ControlTyped, OutcomeTyped,
     outcome, cache, setting, Release, Fails, Go, Is, Program, Steps, Fitting, Using,
     Storing, Ending
<1>9. Guard(p)'
  BY <1>1, <1>2, AdapterAssumption, SMTT(30) DEF Predict, Ready, Guard, Memory, Told,
     ControlTyped, MemoryTyped, SharedTyped, outcome, cache, setting, Release, Fails, Go,
     Is, Program, Steps, Fitting, Using, Storing, Ending, Fitted, Watched, Released, Guarded
<1>10. Store(p)'
  <2>1. pc'[p] \notin Storing
    BY <1>2 DEF Predict, ControlTyped, Storing, Release, Fails, Go, Is, Program
  <2>2. hold'[p] = hold[p] \/ hold'[p] = NoHold
    BY <1>2 DEF Predict, HoldTyped, outcome, cache, setting, Release, Fails, Go, Is, Program
  <2> QED BY <1>1, <2>1, <2>2, NotStoring DEF Ready
<1>11. ASSUME NEW q \in Procs, q # p PROVE Ready(q)'
  <2>1. Apart(q)
    BY <1>2, <1>11, AdapterAssumption, SMTT(30) DEF Predict, Apart, ControlTyped,
       MemoryTyped, HoldTyped, OutcomeTyped, SharedTyped, outcome, cache, setting,
       Release, Fails, Go, Is, Program
  <2> QED BY <2>1, ApartReady DEF IInv
<1> QED BY <1>5, <1>6, <1>7, <1>8, <1>9, <1>10, <1>11 DEF IInv, Ready

LEMMA CompareKeeps ==
    ASSUME IInv, NEW p \in Procs, Compare(p)
    PROVE  IInv'
<1>1. AdaptersTypeOK /\ CertificatesHold /\ Ready(p) BY DEF IInv
<1>2. ControlTyped /\ MemoryTyped /\ HoldTyped /\ OutcomeTyped /\ SharedTyped
  BY <1>1, TypesAreParts
<1>3. ControlTyped'
  BY <1>2, AdapterAssumption, SMTT(30) DEF Compare, ControlTyped, outcome, cache,
     setting, Release, Fails, Go, Is, Steps, Fitting, Using, Storing, Ending
<1>4. MemoryTyped' /\ HoldTyped' /\ OutcomeTyped' /\ SharedTyped'
  BY <1>2 DEF Compare, MemoryTyped, HoldTyped, OutcomeTyped, SharedTyped, outcome, cache,
     setting, Release, Fails, Go, Is
<1>5. AdaptersTypeOK' BY <1>3, <1>4, TypesAreKept
<1>6. CertificatesHold'
  BY <1>1 DEF Compare, CertificatesHold, outcome, cache, setting
<1>7. Memory(p)'
  BY <1>1, <1>2, AdapterAssumption, SMTT(30) DEF Compare, Ready, Memory, Guard,
     ControlTyped, MemoryTyped, outcome, cache, setting, Release, Fails, Go, Is, Steps,
     Fitting, Using, Storing, Ending, Fitted, Watched, Released, Guarded
<1>8. Told(p)'
  BY <1>1, <1>2, SMTT(30) DEF Compare, Ready, Told, Passes, ControlTyped, OutcomeTyped,
     outcome, cache, setting, Release, Fails, Go, Is, Steps, Fitting, Using, Storing, Ending
<1>9. Guard(p)'
  BY <1>1, <1>2, AdapterAssumption, SMTT(30) DEF Compare, Ready, Guard, Memory, Told,
     ControlTyped, MemoryTyped, SharedTyped, outcome, cache, setting, Release, Fails, Go,
     Is, Steps, Fitting, Using, Storing, Ending, Fitted, Watched, Released, Guarded
<1>10. Store(p)'
  <2>1. pc'[p] \notin Storing
    BY <1>2 DEF Compare, ControlTyped, Storing, Release, Fails, Go, Is
  <2>2. hold'[p] = hold[p] \/ hold'[p] = NoHold
    BY <1>2 DEF Compare, HoldTyped, outcome, cache, setting, Release, Fails, Go, Is
  <2> QED BY <1>1, <2>1, <2>2, NotStoring DEF Ready
<1>11. ASSUME NEW q \in Procs, q # p PROVE Ready(q)'
  <2>1. Apart(q)
    BY <1>2, <1>11, AdapterAssumption, SMTT(30) DEF Compare, Apart, ControlTyped,
       MemoryTyped, HoldTyped, OutcomeTyped, SharedTyped, outcome, cache, setting,
       Release, Fails, Go, Is
  <2> QED BY <2>1, ApartReady DEF IInv
<1> QED BY <1>5, <1>6, <1>7, <1>8, <1>9, <1>10, <1>11 DEF IInv, Ready

LEMMA LoadKeeps ==
    ASSUME IInv, NEW p \in Procs, Load(p)
    PROVE  IInv'
<1>1. AdaptersTypeOK /\ CertificatesHold /\ Ready(p) BY DEF IInv
<1>2. ControlTyped /\ MemoryTyped /\ HoldTyped /\ OutcomeTyped /\ SharedTyped
  BY <1>1, TypesAreParts
<1>3. ControlTyped'
  BY <1>2, AdapterAssumption, SMTT(30) DEF Load, ControlTyped, outcome, cache, setting,
     Release, Fails, Go, Is, Steps, Fitting, Using, Storing, Ending
<1>4. MemoryTyped'
  <2>1. CASE UNCHANGED restored BY <1>2, <2>1 DEF Load, MemoryTyped
  <2>2. CASE Valid(entry[Kind(p)]) /\ restored' = [restored EXCEPT ![p] = entry[Kind(p)].payload]
    <3>1. entry[Kind(p)].payload \in Bytes BY <2>2 DEF Valid, Envelopes
    <3> QED BY <1>2, <2>2, <3>1 DEF Load, MemoryTyped
  <2> QED BY <2>1, <2>2 DEF Load
<1>5. HoldTyped' /\ OutcomeTyped' /\ SharedTyped'
  BY <1>2 DEF Load, HoldTyped, OutcomeTyped, SharedTyped, outcome, cache, setting,
     Release, Fails, Go, Is
<1>6. AdaptersTypeOK' BY <1>3, <1>4, <1>5, TypesAreKept
<1>7. CertificatesHold'
  BY <1>1 DEF Load, CertificatesHold, outcome, cache, setting
<1>8. Memory(p)'
  BY <1>1, <1>2, AdapterAssumption, SMTT(30) DEF Load, Ready, Memory, Guard,
     ControlTyped, MemoryTyped, outcome, cache, setting, Release, Fails, Go, Is, Steps,
     Fitting, Using, Storing, Ending, Fitted, Watched, Released, Guarded
<1>9. Told(p)'
  BY <1>1, <1>2, SMTT(30) DEF Load, Ready, Told, Passes, ControlTyped, OutcomeTyped,
     outcome, cache, setting, Release, Fails, Go, Is, Steps, Fitting, Using, Storing, Ending
<1>10. Guard(p)'
  BY <1>1, <1>2, AdapterAssumption, SMTT(30) DEF Load, Ready, Guard, Memory, Told,
     ControlTyped, MemoryTyped, SharedTyped, outcome, cache, setting, Release, Fails, Go,
     Is, Steps, Fitting, Using, Storing, Ending, Fitted, Watched, Released, Guarded
<1>11. Store(p)'
  <2>1. pc'[p] \notin Storing
    BY <1>2 DEF Load, ControlTyped, Storing, Release, Fails, Go, Is
  <2>2. hold'[p] = hold[p] \/ hold'[p] = NoHold
    BY <1>2 DEF Load, HoldTyped, outcome, cache, setting, Release, Fails, Go, Is
  <2> QED BY <1>1, <2>1, <2>2, NotStoring DEF Ready
<1>12. ASSUME NEW q \in Procs, q # p PROVE Ready(q)'
  <2>1. Apart(q)
    BY <1>2, <1>12, AdapterAssumption, SMTT(30) DEF Load, Apart, ControlTyped,
       MemoryTyped, HoldTyped, OutcomeTyped, SharedTyped, outcome, cache, setting,
       Release, Fails, Go, Is
  <2> QED BY <2>1, ApartReady DEF IInv
<1> QED BY <1>6, <1>7, <1>8, <1>9, <1>10, <1>11, <1>12 DEF IInv, Ready

LEMMA DropKeeps ==
    ASSUME IInv, NEW p \in Procs, Drop(p)
    PROVE  IInv'
<1>1. AdaptersTypeOK /\ CertificatesHold /\ Ready(p) BY DEF IInv
<1>2. ControlTyped /\ MemoryTyped /\ HoldTyped /\ OutcomeTyped /\ SharedTyped
  BY <1>1, TypesAreParts
<1>3. ControlTyped'
  BY <1>2, AdapterAssumption, SMTT(30) DEF Drop, ControlTyped, outcome, cache, setting,
     Go, Is, Steps, Fitting, Using, Storing, Ending
<1>4. MemoryTyped'
  BY <1>2, AdapterAssumption, SMTT(30) DEF Drop, MemoryTyped, outcome, cache, setting,
     Go, Is
<1>5. HoldTyped' /\ OutcomeTyped' /\ SharedTyped'
  BY <1>2 DEF Drop, HoldTyped, OutcomeTyped, SharedTyped, outcome, cache, setting, Go, Is
<1>6. AdaptersTypeOK' BY <1>3, <1>4, <1>5, TypesAreKept
<1>7. CertificatesHold'
  BY <1>1 DEF Drop, CertificatesHold, outcome, cache, setting
<1>8. Memory(p)'
  BY <1>1, <1>2, AdapterAssumption, SMTT(30) DEF Drop, Ready, Memory, Guard,
     ControlTyped, MemoryTyped, outcome, cache, setting, Go, Is, Steps, Fitting, Using,
     Storing, Ending, Fitted, Watched, Released, Guarded
<1>9. Told(p)'
  BY <1>1, <1>2, SMTT(30) DEF Drop, Ready, Told, Passes, ControlTyped, OutcomeTyped,
     outcome, cache, setting, Go, Is, Steps, Fitting, Using, Storing, Ending
<1>10. Guard(p)'
  BY <1>1, <1>2, AdapterAssumption, SMTT(30) DEF Drop, Ready, Guard, Memory, Told,
     ControlTyped, MemoryTyped, SharedTyped, outcome, cache, setting, Go, Is, Steps,
     Fitting, Using, Storing, Ending, Fitted, Watched, Released, Guarded
<1>11. Store(p)'
  <2>1. pc'[p] \notin Storing
    BY <1>2 DEF Drop, ControlTyped, Storing, Go, Is
  <2>2. hold'[p] = hold[p] \/ hold'[p] = NoHold
    BY <1>2 DEF Drop, HoldTyped, outcome, cache, setting, Go, Is
  <2> QED BY <1>1, <2>1, <2>2, NotStoring DEF Ready
<1>12. ASSUME NEW q \in Procs, q # p PROVE Ready(q)'
  <2>1. Apart(q)
    BY <1>2, <1>12, AdapterAssumption, SMTT(30) DEF Drop, Apart, ControlTyped,
       MemoryTyped, HoldTyped, OutcomeTyped, SharedTyped, outcome, cache, setting, Go, Is
  <2> QED BY <2>1, ApartReady DEF IInv
<1> QED BY <1>6, <1>7, <1>8, <1>9, <1>10, <1>11, <1>12 DEF IInv, Ready

LEMMA VerifyKeeps ==
    ASSUME IInv, NEW p \in Procs, Verify(p)
    PROVE  IInv'
<1>1. AdaptersTypeOK /\ CertificatesHold /\ Ready(p) BY DEF IInv
<1>2. ControlTyped /\ MemoryTyped /\ HoldTyped /\ OutcomeTyped /\ SharedTyped
  BY <1>1, TypesAreParts
<1>3. ControlTyped'
  BY <1>2, AdapterAssumption, SMTT(30) DEF Verify, ControlTyped, outcome, cache, setting,
     Go, Is, Steps, Fitting, Using, Storing, Ending
<1>4. MemoryTyped'
  <2>1. CASE UNCHANGED tracker BY <1>2, <2>1 DEF Verify, MemoryTyped
  <2>2. ASSUME NEW over \in {TRUE, tracker[p].over}, NEW clean \in {TRUE,
     ~job[p].foundation},
               tracker' = [tracker EXCEPT ![p] = [stage |-> "stopped", over |-> over,
               clean |-> clean]]
        PROVE  MemoryTyped'
    <3>1. over \in BOOLEAN BY <1>2, <2>2 DEF MemoryTyped
    <3>2. clean \in BOOLEAN OBVIOUS
    <3> QED BY <1>2, <2>2, <3>1, <3>2 DEF Verify, MemoryTyped
  <2> QED BY <2>1, <2>2 DEF Verify
<1>5. HoldTyped' /\ OutcomeTyped' /\ SharedTyped'
  BY <1>2 DEF Verify, HoldTyped, OutcomeTyped, SharedTyped, outcome, cache, setting, Go, Is
<1>6. AdaptersTypeOK' BY <1>3, <1>4, <1>5, TypesAreKept
<1>7. CertificatesHold'
  BY <1>1 DEF Verify, CertificatesHold, outcome, cache, setting
<1>8. Memory(p)'
  BY <1>1, <1>2, AdapterAssumption, SMTT(30) DEF Verify, Ready, Memory, Guard,
     ControlTyped, MemoryTyped, outcome, cache, setting, Go, Is, Steps, Fitting, Using,
     Storing, Ending, Fitted, Watched, Released, Guarded
<1>9. Told(p)'
  BY <1>1, <1>2, SMTT(30) DEF Verify, Ready, Told, Passes, ControlTyped, OutcomeTyped,
     outcome, cache, setting, Go, Is, Steps, Fitting, Using, Storing, Ending
<1>10. Guard(p)'
  BY <1>1, <1>2, AdapterAssumption, SMTT(30) DEF Verify, Ready, Guard, Memory, Told,
     ControlTyped, MemoryTyped, SharedTyped, outcome, cache, setting, Go, Is, Steps,
     Fitting, Using, Storing, Ending, Fitted, Watched, Released, Guarded
<1>11. Store(p)'
  <2>1. pc'[p] \notin Storing
    BY <1>2 DEF Verify, ControlTyped, Storing, Go, Is
  <2>2. hold'[p] = hold[p] \/ hold'[p] = NoHold
    BY <1>2 DEF Verify, HoldTyped, outcome, cache, setting, Go, Is
  <2> QED BY <1>1, <2>1, <2>2, NotStoring DEF Ready
<1>12. ASSUME NEW q \in Procs, q # p PROVE Ready(q)'
  <2>1. Apart(q)
    BY <1>2, <1>12, AdapterAssumption, SMTT(30) DEF Verify, Apart, ControlTyped,
       MemoryTyped, HoldTyped, OutcomeTyped, SharedTyped, outcome, cache, setting, Go, Is
  <2> QED BY <2>1, ApartReady DEF IInv
<1> QED BY <1>6, <1>7, <1>8, <1>9, <1>10, <1>11, <1>12 DEF IInv, Ready

LEMMA RecordKeeps ==
    ASSUME IInv, NEW p \in Procs, Record(p)
    PROVE  IInv'
<1>1. AdaptersTypeOK /\ CertificatesHold /\ Ready(p) BY DEF IInv
<1>2. ControlTyped /\ MemoryTyped /\ HoldTyped /\ OutcomeTyped /\ SharedTyped
  BY <1>1, TypesAreParts
<1>3. ControlTyped'
  BY <1>2, AdapterAssumption, SMTT(30) DEF Record, ControlTyped, outcome, cache, setting,
     Release, Fails, Go, Is, Samples, Steps, Fitting, Using, Storing, Ending
<1>4. MemoryTyped'
  <2>1. PICK over \in {TRUE, tracker[p].over} : Samples(p, over) BY DEF Record
  <2>2. over \in BOOLEAN BY <1>2 DEF MemoryTyped
  <2>3. [stage |-> tracker[p].stage, over |-> over, clean |-> tracker[p].clean]
            \in [stage : {"none", "running", "stopped"}, over : BOOLEAN, clean : BOOLEAN]
    BY <1>2, <2>2 DEF MemoryTyped
  <2> QED BY <1>2, <2>1, <2>3 DEF Record, Samples, MemoryTyped
<1>5. HoldTyped' /\ OutcomeTyped' /\ SharedTyped'
  BY <1>2 DEF Record, HoldTyped, OutcomeTyped, SharedTyped, outcome, cache, setting,
     Release, Fails, Go, Is, Samples
<1>6. AdaptersTypeOK' BY <1>3, <1>4, <1>5, TypesAreKept
<1>7. CertificatesHold'
  BY <1>1 DEF Record, CertificatesHold, outcome, cache, setting
<1>8. Memory(p)'
  BY <1>1, <1>2, AdapterAssumption, SMTT(30) DEF Record, Ready, Memory, Guard,
     ControlTyped, MemoryTyped, outcome, cache, setting, Release, Fails, Go, Is, Samples,
     Steps, Fitting, Using, Storing, Ending, Fitted, Watched, Released, Guarded
<1>9. Told(p)'
  BY <1>1, <1>2, SMTT(30) DEF Record, Ready, Told, Passes, ControlTyped, OutcomeTyped,
     outcome, cache, setting, Release, Fails, Go, Is, Samples, Steps, Fitting, Using,
     Storing, Ending
<1>10. Guard(p)'
  BY <1>1, <1>2, AdapterAssumption, SMTT(30) DEF Record, Ready, Guard, Memory, Told,
     ControlTyped, MemoryTyped, SharedTyped, outcome, cache, setting, Release, Fails, Go,
     Is, Samples, Steps, Fitting, Using, Storing, Ending, Fitted, Watched, Released, Guarded
<1>11. Store(p)'
  <2>1. pc'[p] \notin Storing
    BY <1>2 DEF Record, ControlTyped, Storing, Release, Fails, Go, Is, Samples
  <2>2. hold'[p] = hold[p] \/ hold'[p] = NoHold
    BY <1>2 DEF Record, HoldTyped, outcome, cache, setting, Release, Fails, Go, Is, Samples
  <2> QED BY <1>1, <2>1, <2>2, NotStoring DEF Ready
<1>12. ASSUME NEW q \in Procs, q # p PROVE Ready(q)'
  <2>1. Apart(q)
    BY <1>2, <1>12, AdapterAssumption, SMTT(30) DEF Record, Apart, ControlTyped,
       MemoryTyped, HoldTyped, OutcomeTyped, SharedTyped, outcome, cache, setting,
       Release, Fails, Go, Is, Samples
  <2> QED BY <2>1, ApartReady DEF IInv
<1> QED BY <1>6, <1>7, <1>8, <1>9, <1>10, <1>11, <1>12 DEF IInv, Ready

LEMMA ArchiveKeeps ==
    ASSUME IInv, NEW p \in Procs, Archive(p)
    PROVE  IInv'
<1>1. AdaptersTypeOK /\ CertificatesHold /\ Ready(p) BY DEF IInv
<1>2. ControlTyped /\ MemoryTyped /\ HoldTyped /\ OutcomeTyped /\ SharedTyped
  BY <1>1, TypesAreParts
<1>3. ControlTyped'
  BY <1>2, AdapterAssumption, SMTT(30) DEF Archive, ControlTyped, outcome, cache,
     setting, Release, Fails, Go, Is, Steps, Fitting, Using, Storing, Ending
<1>4. MemoryTyped' /\ HoldTyped' /\ OutcomeTyped' /\ SharedTyped'
  BY <1>2 DEF Archive, MemoryTyped, HoldTyped, OutcomeTyped, SharedTyped, outcome, cache,
     setting, Release, Fails, Go, Is
<1>5. AdaptersTypeOK' BY <1>3, <1>4, TypesAreKept
<1>6. CertificatesHold'
  BY <1>1 DEF Archive, CertificatesHold, outcome, cache, setting
<1>7. Memory(p)'
  BY <1>1, <1>2, AdapterAssumption, SMTT(30) DEF Archive, Ready, Memory, Guard,
     ControlTyped, MemoryTyped, outcome, cache, setting, Release, Fails, Go, Is, Steps,
     Fitting, Using, Storing, Ending, Fitted, Watched, Released, Guarded
<1>8. Told(p)'
  BY <1>1, <1>2, SMTT(30) DEF Archive, Ready, Told, Passes, ControlTyped, OutcomeTyped,
     outcome, cache, setting, Release, Fails, Go, Is, Steps, Fitting, Using, Storing, Ending
<1>9. Guard(p)'
  BY <1>1, <1>2, AdapterAssumption, SMTT(30) DEF Archive, Ready, Guard, Memory, Told,
     ControlTyped, MemoryTyped, SharedTyped, outcome, cache, setting, Release, Fails, Go,
     Is, Steps, Fitting, Using, Storing, Ending, Fitted, Watched, Released, Guarded
<1>10. Store(p)'
  <2>1. pc'[p] \notin Storing
    BY <1>2 DEF Archive, ControlTyped, Storing, Release, Fails, Go, Is
  <2>2. hold'[p] = hold[p] \/ hold'[p] = NoHold
    BY <1>2 DEF Archive, HoldTyped, outcome, cache, setting, Release, Fails, Go, Is
  <2> QED BY <1>1, <2>1, <2>2, NotStoring DEF Ready
<1>11. ASSUME NEW q \in Procs, q # p PROVE Ready(q)'
  <2>1. Apart(q)
    BY <1>2, <1>11, AdapterAssumption, SMTT(30) DEF Archive, Apart, ControlTyped,
       MemoryTyped, HoldTyped, OutcomeTyped, SharedTyped, outcome, cache, setting,
       Release, Fails, Go, Is
  <2> QED BY <2>1, ApartReady DEF IInv
<1> QED BY <1>5, <1>6, <1>7, <1>8, <1>9, <1>10, <1>11 DEF IInv, Ready

LEMMA UnlockKeeps ==
    ASSUME IInv, NEW p \in Procs, Unlock(p)
    PROVE  IInv'
<1>1. AdaptersTypeOK /\ CertificatesHold /\ Ready(p) BY DEF IInv
<1>2. ControlTyped /\ MemoryTyped /\ HoldTyped /\ OutcomeTyped /\ SharedTyped
  BY <1>1, TypesAreParts
<1>3. ControlTyped'
  BY <1>2, AdapterAssumption, SMTT(30) DEF Unlock, ControlTyped, cache, setting, Release,
     Go, Is, End, NewTracker, NoHold, Program, Steps, Fitting, Using, Storing, Ending
<1>4. MemoryTyped'
  <2>1. CASE UNCHANGED <<model, restored, tracker>> BY <1>2, <2>1 DEF MemoryTyped
  <2>2. CASE \E code \in {"zero", "nonzero"} : End(p, code)
    BY <1>2, <2>2, EndTyped
  <2> QED BY <2>1, <2>2 DEF Unlock
<1>5. HoldTyped'
  BY <1>2, AdapterAssumption, SMTT(30) DEF Unlock, HoldTyped, cache, setting, Release,
     Go, Is, End, NewTracker, NoHold, Program
<1>6. OutcomeTyped'
  BY <1>2, AdapterAssumption, SMTT(30) DEF Unlock, OutcomeTyped, cache, setting, Release,
     Go, Is, End, NewTracker, NoHold, Program
<1>7. SharedTyped'
  BY <1>2, AdapterAssumption, SMTT(30) DEF Unlock, SharedTyped, cache, setting, Release,
     Go, Is, End, NewTracker, NoHold, Program
<1>8. AdaptersTypeOK' BY <1>3, <1>4, <1>5, <1>6, <1>7, TypesAreKept
<1>9. CertificatesHold'
  BY <1>1 DEF Unlock, CertificatesHold, cache, setting
<1>10. Memory(p)'
  BY <1>1, <1>2, AdapterAssumption, SMTT(30) DEF Unlock, Ready, Memory, Guard,
     ControlTyped, MemoryTyped, cache, setting, Release, Go, Is, End, NewTracker, NoHold,
     Program, Steps, Fitting, Using, Storing, Ending, Fitted, Watched, Released, Guarded
<1>11. Told(p)'
  BY <1>1, <1>2, SMTT(30) DEF Unlock, Ready, Told, Passes, ControlTyped, OutcomeTyped,
     cache, setting, Release, Go, Is, End, NewTracker, NoHold, Program, Steps, Fitting,
     Using, Storing, Ending
<1>12. Guard(p)'
  BY <1>1, <1>2, AdapterAssumption, SMTT(30) DEF Unlock, Ready, Guard, Memory, Told,
     ControlTyped, MemoryTyped, SharedTyped, cache, setting, Release, Go, Is, End,
     NewTracker, NoHold, Program, Steps, Fitting, Using, Storing, Ending, Fitted,
     Watched, Released, Guarded
<1>13. Store(p)'
  <2>1. pc'[p] \notin Storing
    BY <1>2 DEF Unlock, ControlTyped, Storing, Release, Go, Is, End, NewTracker, NoHold,
       Program
  <2>2. hold'[p] = hold[p] \/ hold'[p] = NoHold
    BY <1>2 DEF Unlock, HoldTyped, cache, setting, Release, Go, Is, End, NewTracker,
       NoHold, Program
  <2> QED BY <1>1, <2>1, <2>2, NotStoring DEF Ready
<1>14. ASSUME NEW q \in Procs, q # p PROVE Ready(q)'
  <2>1. Apart(q)
    BY <1>2, <1>14, AdapterAssumption, SMTT(30) DEF Unlock, Apart, ControlTyped,
       MemoryTyped, HoldTyped, OutcomeTyped, SharedTyped, cache, setting, Release, Go,
       Is, End, NewTracker, NoHold, Program
  <2> QED BY <2>1, ApartReady DEF IInv
<1> QED BY <1>8, <1>9, <1>10, <1>11, <1>12, <1>13, <1>14 DEF IInv, Ready

LEMMA ReportKeeps ==
    ASSUME IInv, NEW p \in Procs, Report(p)
    PROVE  IInv'
<1>1. AdaptersTypeOK /\ CertificatesHold /\ Ready(p) BY DEF IInv
<1>2. ControlTyped /\ MemoryTyped /\ HoldTyped /\ OutcomeTyped /\ SharedTyped
  BY <1>1, TypesAreParts
<1>3. ControlTyped'
  BY <1>2, AdapterAssumption, SMTT(30) DEF Report, ControlTyped, outcome, cache, setting,
     Objects, Release, Fails, Go, Is, End, NewTracker, NoHold, Program, Steps, Fitting,
     Using, Storing, Ending
<1>4. MemoryTyped'
  <2>1. CASE UNCHANGED Objects BY <1>2, <2>1 DEF Objects, MemoryTyped
  <2>2. CASE End(p, "zero") BY <1>2, <2>2, EndTyped
  <2> QED BY <2>1, <2>2 DEF Report
<1>5. HoldTyped'
  BY <1>2, AdapterAssumption, SMTT(30) DEF Report, HoldTyped, outcome, cache, setting,
     Objects, Release, Fails, Go, Is, End, NewTracker, NoHold, Program
<1>6. OutcomeTyped'
  <2>1. result' \in [Procs -> {"none", "PASS", "FAIL"}]
    BY <1>2, SMTT(30) DEF Report, OutcomeTyped, outcome
  <2>2. wrote' = wrote \/ wrote' = [wrote EXCEPT ![p] = TRUE] BY DEF Report, outcome
  <2>3. wrote' \in [Procs -> BOOLEAN]
    <3>1. wrote \in [Procs -> BOOLEAN] BY <1>2 DEF OutcomeTyped
    <3>2. CASE wrote' = wrote BY <3>1, <3>2
    <3>3. CASE wrote' = [wrote EXCEPT ![p] = TRUE] BY <3>1, <3>3
    <3> QED BY <2>2, <3>2, <3>3
  <2>4. exit' = exit \/ exit' = [exit EXCEPT ![p] = "zero"]
    BY DEF Report, End, outcome
  <2>5. exit' \in [Procs -> {"none", "zero", "nonzero"}] BY <1>2, <2>4 DEF OutcomeTyped
  <2> QED BY <2>1, <2>3, <2>5 DEF OutcomeTyped
<1>7. SharedTyped'
  BY <1>2 DEF Report, SharedTyped, outcome, cache, setting, Objects, Release, Fails, Go,
     Is, End, NewTracker, NoHold, Program
<1>8. AdaptersTypeOK' BY <1>3, <1>4, <1>5, <1>6, <1>7, TypesAreKept
<1>9. CertificatesHold'
  BY <1>1 DEF Report, CertificatesHold, outcome, cache, setting, Objects
<1>10. Memory(p)'
  BY <1>1, <1>2, AdapterAssumption, SMTT(30) DEF Report, Ready, Memory, Guard,
     ControlTyped, MemoryTyped, outcome, cache, setting, Objects, Release, Fails, Go, Is,
     End, NewTracker, NoHold, Program, Steps, Fitting, Using, Storing, Ending, Fitted,
     Watched, Released, Guarded
<1>11. Told(p)'
  BY <1>1, <1>2, SMTT(30) DEF Report, Ready, Told, Passes, ControlTyped, OutcomeTyped,
     outcome, cache, setting, Objects, Release, Fails, Go, Is, End, NewTracker, NoHold,
     Program, Steps, Fitting, Using, Storing, Ending
<1>12. Guard(p)'
  BY <1>1, <1>2, AdapterAssumption, SMTT(30) DEF Report, Ready, Guard, Memory, Told,
     ControlTyped, MemoryTyped, SharedTyped, outcome, cache, setting, Objects, Release,
     Fails, Go, Is, End, NewTracker, NoHold, Program, Steps, Fitting, Using, Storing,
     Ending, Fitted, Watched, Released, Guarded
<1>13. Store(p)'
  <2>1. pc'[p] \notin Storing
    BY <1>2 DEF Report, ControlTyped, Storing, Release, Fails, Go, Is, End, NewTracker,
       NoHold, Program
  <2>2. hold'[p] = hold[p] \/ hold'[p] = NoHold
    BY <1>2 DEF Report, HoldTyped, outcome, cache, setting, Objects, Release, Fails, Go,
       Is, End, NewTracker, NoHold, Program
  <2> QED BY <1>1, <2>1, <2>2, NotStoring DEF Ready
<1>14. ASSUME NEW q \in Procs, q # p PROVE Ready(q)'
  <2>1. Apart(q)
    BY <1>2, <1>14, AdapterAssumption, SMTT(30) DEF Report, Apart, ControlTyped,
       MemoryTyped, HoldTyped, OutcomeTyped, SharedTyped, outcome, cache, setting,
       Objects, Release, Fails, Go, Is, End, NewTracker, NoHold, Program
  <2> QED BY <2>1, ApartReady DEF IInv
<1> QED BY <1>8, <1>9, <1>10, <1>11, <1>12, <1>13, <1>14 DEF IInv, Ready

LEMMA ReportFailKeeps ==
    ASSUME IInv, NEW p \in Procs, ReportFail(p)
    PROVE  IInv'
<1>1. AdaptersTypeOK /\ CertificatesHold /\ Ready(p) BY DEF IInv
<1>2. ControlTyped /\ MemoryTyped /\ HoldTyped /\ OutcomeTyped /\ SharedTyped
  BY <1>1, TypesAreParts
<1>3. ControlTyped'
  BY <1>2, AdapterAssumption, SMTT(30) DEF ReportFail, ControlTyped, cache, setting,
     Objects, Release, Go, Is, End, NewTracker, NoHold, Program, Steps, Fitting, Using,
     Storing, Ending
<1>4. MemoryTyped'
  <2>1. CASE UNCHANGED Objects BY <1>2, <2>1 DEF Objects, MemoryTyped
  <2>2. CASE \E code \in {"zero", "nonzero"} : End(p, code) BY <1>2, <2>2, EndTyped
  <2> QED BY <2>1, <2>2 DEF ReportFail
<1>5. HoldTyped'
  BY <1>2, AdapterAssumption, SMTT(30) DEF ReportFail, HoldTyped, cache, setting,
     Objects, Release, Go, Is, End, NewTracker, NoHold, Program
<1>6. OutcomeTyped'
  BY <1>2, AdapterAssumption, SMTT(30) DEF ReportFail, OutcomeTyped, cache, setting,
     Objects, Release, Go, Is, End, NewTracker, NoHold, Program
<1>7. SharedTyped'
  BY <1>2 DEF ReportFail, SharedTyped, cache, setting, Objects, Release, Go, Is, End,
     NewTracker, NoHold, Program
<1>8. AdaptersTypeOK' BY <1>3, <1>4, <1>5, <1>6, <1>7, TypesAreKept
<1>9. CertificatesHold'
  BY <1>1 DEF ReportFail, CertificatesHold, cache, setting, Objects
<1>10. Memory(p)'
  BY <1>1, <1>2, AdapterAssumption, SMTT(30) DEF ReportFail, Ready, Memory, Guard,
     ControlTyped, MemoryTyped, cache, setting, Objects, Release, Go, Is, End,
     NewTracker, NoHold, Program, Steps, Fitting, Using, Storing, Ending, Fitted,
     Watched, Released, Guarded
<1>11. Told(p)'
  BY <1>1, <1>2, SMTT(30) DEF ReportFail, Ready, Told, Passes, ControlTyped,
     OutcomeTyped, cache, setting, Objects, Release, Go, Is, End, NewTracker, NoHold,
     Program, Steps, Fitting, Using, Storing, Ending
<1>12. Guard(p)'
  BY <1>1, <1>2, AdapterAssumption, SMTT(30) DEF ReportFail, Ready, Guard, Memory, Told,
     ControlTyped, MemoryTyped, SharedTyped, cache, setting, Objects, Release, Go, Is,
     End, NewTracker, NoHold, Program, Steps, Fitting, Using, Storing, Ending, Fitted,
     Watched, Released, Guarded
<1>13. Store(p)'
  <2>1. pc'[p] \notin Storing
    BY <1>2 DEF ReportFail, ControlTyped, Storing, Release, Go, Is, End, NewTracker,
       NoHold, Program
  <2>2. hold'[p] = hold[p] \/ hold'[p] = NoHold
    BY <1>2 DEF ReportFail, HoldTyped, cache, setting, Objects, Release, Go, Is, End,
       NewTracker, NoHold, Program
  <2> QED BY <1>1, <2>1, <2>2, NotStoring DEF Ready
<1>14. ASSUME NEW q \in Procs, q # p PROVE Ready(q)'
  <2>1. Apart(q)
    BY <1>2, <1>14, AdapterAssumption, SMTT(30) DEF ReportFail, Apart, ControlTyped,
       MemoryTyped, HoldTyped, OutcomeTyped, SharedTyped, cache, setting, Objects,
       Release, Go, Is, End, NewTracker, NoHold, Program
  <2> QED BY <2>1, ApartReady DEF IInv
<1> QED BY <1>8, <1>9, <1>10, <1>11, <1>12, <1>13, <1>14 DEF IInv, Ready

LEMMA KilledKeeps ==
    ASSUME IInv, NEW p \in Procs, Killed(p)
    PROVE  IInv'
<1>1. AdaptersTypeOK /\ CertificatesHold /\ Ready(p) BY DEF IInv
<1>2. ControlTyped /\ MemoryTyped /\ HoldTyped /\ OutcomeTyped /\ SharedTyped
  BY <1>1, TypesAreParts
<1>3. ControlTyped'
  BY <1>2, AdapterAssumption, SMTT(30) DEF Killed, ControlTyped, setting, Go, Is, End,
     NewTracker, NoHold, Unheld, Kinds, Steps, Fitting, Using, Storing, Ending
<1>4. MemoryTyped'
  BY <1>2, AdapterAssumption, SMTT(30) DEF Killed, MemoryTyped, setting, Go, Is, End,
     NewTracker, NoHold, Unheld, Kinds
<1>5. HoldTyped'
  BY <1>2, AdapterAssumption, SMTT(30) DEF Killed, HoldTyped, setting, Go, Is, End,
     NewTracker, NoHold, Unheld, Kinds
<1>6. OutcomeTyped'
  BY <1>2, AdapterAssumption, SMTT(30) DEF Killed, OutcomeTyped, setting, Go, Is, End,
     NewTracker, NoHold, Unheld, Kinds
<1>7. SharedTyped'
  BY <1>2, AdapterAssumption, SMTT(30) DEF Killed, SharedTyped, setting, Go, Is, End,
     NewTracker, NoHold, Unheld, Kinds
<1>8. AdaptersTypeOK' BY <1>3, <1>4, <1>5, <1>6, <1>7, TypesAreKept
<1>9. CertificatesHold'
  BY <1>1 DEF Killed, CertificatesHold, setting
<1>10. Memory(p)'
  BY <1>1, <1>2, AdapterAssumption, SMTT(30) DEF Killed, Ready, Memory, Guard,
     ControlTyped, MemoryTyped, setting, Go, Is, End, NewTracker, NoHold, Program,
     Unheld, Kinds, Steps, Fitting, Using, Storing, Ending, Fitted, Watched, Released,
     Guarded
<1>11. Told(p)'
  BY <1>1, <1>2, SMTT(30) DEF Killed, Ready, Told, Passes, ControlTyped, OutcomeTyped,
     setting, Go, Is, End, NewTracker, NoHold, Program, Unheld, Kinds, Steps, Fitting,
     Using, Storing, Ending
<1>12. Guard(p)'
  BY <1>1, <1>2, AdapterAssumption, SMTT(30) DEF Killed, Ready, Guard, Memory, Told,
     ControlTyped, MemoryTyped, SharedTyped, setting, Go, Is, End, NewTracker, NoHold,
     Program, Unheld, Kinds, Steps, Fitting, Using, Storing, Ending, Fitted, Watched,
     Released, Guarded
<1>13. Store(p)'
  <2>1. pc'[p] \notin Storing
    BY <1>2 DEF Killed, ControlTyped, Storing, Go, Is, End, NewTracker, NoHold, Unheld,
       Kinds
  <2>2. hold'[p] = hold[p] \/ hold'[p] = NoHold
    BY <1>2 DEF Killed, HoldTyped, setting, Go, Is, End, NewTracker, NoHold, Unheld, Kinds
  <2> QED BY <1>1, <2>1, <2>2, NotStoring DEF Ready
<1>14. ASSUME NEW q \in Procs, q # p PROVE Ready(q)'
  <2>1. Apart(q)
    BY <1>2, <1>14, AdapterAssumption, SMTT(30) DEF Killed, Apart, ControlTyped,
       MemoryTyped, HoldTyped, OutcomeTyped, SharedTyped, setting, Go, Is, End,
       NewTracker, NoHold, Unheld, Kinds
  <2> QED BY <2>1, ApartReady DEF IInv
<1> QED BY <1>8, <1>9, <1>10, <1>11, <1>12, <1>13, <1>14 DEF IInv, Ready

LEMMA StoreAcquireKeeps ==
    ASSUME IInv, NEW p \in Procs, StoreAcquire(p)
    PROVE  IInv'
<1>1. AdaptersTypeOK /\ CertificatesHold /\ Ready(p) BY DEF IInv
<1>2. ControlTyped /\ MemoryTyped /\ HoldTyped /\ OutcomeTyped /\ SharedTyped
  BY <1>1, TypesAreParts
<1>3. ControlTyped'
  BY <1>2, AdapterAssumption, SMTT(30) DEF StoreAcquire, ControlTyped, adapter, outcome,
     setting, Go, Is, Steps, Fitting, Using, Storing, Ending
<1>4. SharedTyped'
  <2>1. storeLock' \in [Kinds -> Procs \cup {Free}]
    BY <1>2, KindIsKind DEF StoreAcquire, SharedTyped
  <2> QED BY <1>2, <2>1 DEF StoreAcquire, SharedTyped, setting
<1>5. MemoryTyped' /\ HoldTyped' /\ OutcomeTyped'
  BY <1>2 DEF StoreAcquire, MemoryTyped, HoldTyped, OutcomeTyped, adapter, outcome,
     setting, Go, Is
<1>6. AdaptersTypeOK' BY <1>3, <1>4, <1>5, TypesAreKept
<1>7. CertificatesHold'
  BY <1>1 DEF StoreAcquire, CertificatesHold, adapter, outcome, setting
<1>8. Memory(p)'
  BY <1>1, <1>2, AdapterAssumption, SMTT(30) DEF StoreAcquire, Ready, Memory, Guard,
     ControlTyped, MemoryTyped, adapter, outcome, setting, Go, Is, Steps, Fitting, Using,
     Storing, Ending, Fitted, Watched, Released, Guarded
<1>9. Told(p)'
  BY <1>1, <1>2, SMTT(30) DEF StoreAcquire, Ready, Told, Passes, ControlTyped,
     OutcomeTyped, adapter, outcome, setting, Go, Is, Steps, Fitting, Using, Storing, Ending
<1>10. Guard(p)'
  BY <1>1, <1>2, AdapterAssumption, SMTT(30) DEF StoreAcquire, Ready, Guard, Memory,
     Told, ControlTyped, MemoryTyped, SharedTyped, adapter, outcome, setting, Go, Is,
     Kinds, Steps, Fitting, Using, Storing, Ending, Fitted, Watched, Released, Guarded
<1>11. Store(p)'
  <2>1. Kind(p)' = Kind(p) BY DEF StoreAcquire, Kind, Program
  <2>2. pc'[p] = "examine" BY <1>2 DEF StoreAcquire, Go, ControlTyped
  <2>3. storeLock'[Kind(p)] = p BY <1>2, KindIsKind DEF StoreAcquire, SharedTyped
  <2> QED BY <1>1, <2>1, <2>2, <2>3 DEF StoreAcquire, Ready, Store
<1>12. ASSUME NEW q \in Procs, q # p PROVE Ready(q)'
  <2>1. Apart(q)
    BY <1>2, <1>12, AdapterAssumption, SMTT(30) DEF StoreAcquire, Apart, ControlTyped,
       MemoryTyped, HoldTyped, OutcomeTyped, SharedTyped, adapter, outcome, setting, Go,
       Is, Kinds
  <2> QED BY <2>1, ApartReady DEF IInv
<1> QED BY <1>6, <1>7, <1>8, <1>9, <1>10, <1>11, <1>12 DEF IInv, Ready

LEMMA StoreTimeoutKeeps ==
    ASSUME IInv, NEW p \in Procs, StoreTimeout(p)
    PROVE  IInv'
<1>1. AdaptersTypeOK /\ CertificatesHold /\ Ready(p) BY DEF IInv
<1>2. ControlTyped /\ MemoryTyped /\ HoldTyped /\ OutcomeTyped /\ SharedTyped
  BY <1>1, TypesAreParts
<1>3. ControlTyped'
  BY <1>2, AdapterAssumption, SMTT(30) DEF StoreTimeout, ControlTyped, outcome, cache,
     setting, Release, Fails, Go, Is, Lets, NoHold, Steps, Fitting, Using, Storing, Ending
<1>4. HoldTyped'
  BY <1>2, AdapterAssumption, SMTT(30) DEF StoreTimeout, HoldTyped, outcome, cache,
     setting, Release, Fails, Go, Is, Lets, NoHold
<1>5. MemoryTyped' /\ OutcomeTyped' /\ SharedTyped'
  BY <1>2 DEF StoreTimeout, MemoryTyped, OutcomeTyped, SharedTyped, outcome, cache,
     setting, Release, Fails, Go, Is, Lets, NoHold, Kinds
<1>6. AdaptersTypeOK' BY <1>3, <1>4, <1>5, TypesAreKept
<1>7. CertificatesHold'
  BY <1>1 DEF StoreTimeout, CertificatesHold, outcome, cache, setting
<1>8. Memory(p)'
  BY <1>1, <1>2, AdapterAssumption, SMTT(30) DEF StoreTimeout, Ready, Memory, Guard,
     ControlTyped, MemoryTyped, outcome, cache, setting, Release, Fails, Go, Is, Lets,
     NoHold, Steps, Fitting, Using, Storing, Ending, Fitted, Watched, Released, Guarded
<1>9. Told(p)'
  BY <1>1, <1>2, SMTT(30) DEF StoreTimeout, Ready, Told, Passes, ControlTyped,
     OutcomeTyped, outcome, cache, setting, Release, Fails, Go, Is, Lets, NoHold, Steps,
     Fitting, Using, Storing, Ending
<1>10. Guard(p)'
  BY <1>1, <1>2, AdapterAssumption, SMTT(30) DEF StoreTimeout, Ready, Guard, Memory,
     Told, ControlTyped, MemoryTyped, SharedTyped, outcome, cache, setting, Release,
     Fails, Go, Is, Lets, NoHold, Kinds, Steps, Fitting, Using, Storing, Ending, Fitted,
     Watched, Released, Guarded
<1>11. Store(p)'
  <2>1. pc'[p] \notin Storing
    BY <1>2 DEF StoreTimeout, ControlTyped, Storing, Release, Fails, Go, Is, Lets, NoHold
  <2>2. hold'[p] = hold[p] \/ hold'[p] = NoHold
    BY <1>2 DEF StoreTimeout, HoldTyped, outcome, cache, setting, Release, Fails, Go, Is,
       Lets, NoHold
  <2> QED BY <1>1, <2>1, <2>2, NotStoring DEF Ready
<1>12. ASSUME NEW q \in Procs, q # p PROVE Ready(q)'
  <2>1. Apart(q)
    BY <1>2, <1>12, AdapterAssumption, SMTT(30) DEF StoreTimeout, Apart, ControlTyped,
       MemoryTyped, HoldTyped, OutcomeTyped, SharedTyped, outcome, cache, setting,
       Release, Fails, Go, Is, Lets, NoHold, Kinds
  <2> QED BY <2>1, ApartReady DEF IInv
<1> QED BY <1>6, <1>7, <1>8, <1>9, <1>10, <1>11, <1>12 DEF IInv, Ready

LEMMA ExamineKeeps ==
    ASSUME IInv, NEW p \in Procs, Examine(p)
    PROVE  IInv'
<1>1. AdaptersTypeOK /\ CertificatesHold /\ Ready(p) BY DEF IInv
<1>2. ControlTyped /\ MemoryTyped /\ HoldTyped /\ OutcomeTyped /\ SharedTyped
  BY <1>1, TypesAreParts
<1>3. ControlTyped'
  BY <1>2, AdapterAssumption, SMTT(30) DEF Examine, ControlTyped, outcome, cache,
     setting, Release, Fails, Go, Is, Lets, NoHold, Locked, Unlocked, Unheld, Kinds,
     Steps, Fitting, Using, Storing, Ending
<1>4. HoldTyped'
  <2>1. CASE UNCHANGED hold BY <1>2, <2>1 DEF HoldTyped
  <2>2. CASE Lets(p) BY <1>2, <2>2 DEF HoldTyped, Lets, NoHold
  <2>3. CASE Valid(entry[Kind(p)])
             /\ hold' = [hold EXCEPT ![p] = [envelope |-> entry[Kind(p)],
             cert |-> hold[p].cert]]
    BY <1>2, <2>3 DEF HoldTyped, Valid
  <2> QED BY <2>1, <2>2, <2>3 DEF Examine, Unlocked
<1>5. SharedTyped'
  <2>1. storeLock' = storeLock \/ storeLock' = Unheld(p)
    BY DEF Examine, Locked, Unlocked, cache
  <2>2. storeLock' \in [Kinds -> Procs \cup {Free}] BY <1>2, <2>1 DEF SharedTyped, Unheld
  <2>3. UNCHANGED <<entry, gpuLock, setting>> BY DEF Examine, Locked, Unlocked, cache
  <2> QED BY <1>2, <2>2, <2>3 DEF SharedTyped, setting
<1>6. MemoryTyped' /\ OutcomeTyped'
  BY <1>2 DEF Examine, MemoryTyped, OutcomeTyped, outcome, cache, setting, Release,
     Fails, Go, Is, Lets, NoHold, Locked, Unlocked, Unheld, Kinds
<1>7. AdaptersTypeOK' BY <1>3, <1>4, <1>5, <1>6, TypesAreKept
<1>8. CertificatesHold'
  <2>1. entry' = entry BY DEF Examine, Locked, Unlocked, cache
  <2> QED BY <1>1, <2>1 DEF CertificatesHold
<1>9. Memory(p)'
  BY <1>1, <1>2, AdapterAssumption, SMTT(30) DEF Examine, Ready, Memory, Guard,
     ControlTyped, MemoryTyped, outcome, cache, setting, Release, Fails, Go, Is, Lets,
     NoHold, Locked, Unlocked, Unheld, Kinds, Steps, Fitting, Using, Storing, Ending,
     Fitted, Watched, Released, Guarded
<1>10. Told(p)'
  BY <1>1, <1>2, SMTT(30) DEF Examine, Ready, Told, Passes, ControlTyped, OutcomeTyped,
     outcome, cache, setting, Release, Fails, Go, Is, Lets, NoHold, Locked, Unlocked,
     Unheld, Kinds, Steps, Fitting, Using, Storing, Ending
<1>11. Guard(p)'
  BY <1>1, <1>2, AdapterAssumption, SMTT(30) DEF Examine, Ready, Guard, Memory, Told,
     ControlTyped, MemoryTyped, SharedTyped, outcome, cache, setting, Release, Fails, Go,
     Is, Lets, NoHold, Locked, Unlocked, Unheld, Kinds, Steps, Fitting, Using, Storing,
     Ending, Fitted, Watched, Released, Guarded
<1>12. Store(p)'
  <2>1. CASE pc'[p] \notin Storing
    <3>1. hold'[p] = hold[p] \/ hold'[p] = NoHold
      BY <1>2, <2>1, SMTT(30) DEF Examine, Unlocked, Lets, Locked, Go, ControlTyped,
         HoldTyped, Storing
    <3> QED BY <1>1, <2>1, <3>1, NotStoring DEF Ready
  <2>2. CASE pc'[p] \in Storing
    <3>1. UNCHANGED <<job, entry, storeLock>>
      BY <1>2, <2>2, SMTT(30) DEF Examine, Unlocked, Locked, Go, Fails, Release,
         ControlTyped, Storing, cache
    <3>2. Kind(p)' = Kind(p) BY <3>1 DEF Kind, Program
    <3>3. storeLock'[Kind(p)] = p BY <1>1, <3>1 DEF Ready, Store, Examine, Is, Storing
    <3>4. CASE pc'[p] = "write"
      <4>1. entry[Kind(p)] = Absent /\ hold' = hold
        BY <1>2, <3>4, SMTT(30) DEF Examine, Unlocked, Go, Fails, Release, ControlTyped
      <4> QED BY <1>1, <3>1, <3>2, <3>3, <3>4, <4>1 DEF Ready, Store
    <3>5. CASE pc'[p] = "attach"
      <4>1. Valid(entry[Kind(p)]) /\ hold[p].cert # None
            /\ Vouches(hold[p].cert, entry[Kind(p)].payload, {model[p]})
            /\ hold' = [hold EXCEPT ![p] = [envelope |-> entry[Kind(p)],
            cert |-> hold[p].cert]]
        BY <1>2, <3>5, SMTT(30) DEF Examine, Unlocked, Go, Fails, Release, ControlTyped
      <4>2. hold'[p] = [envelope |-> entry[Kind(p)], cert |-> hold[p].cert]
        BY <1>2, <4>1 DEF HoldTyped
      <4> QED BY <1>1, <3>1, <3>2, <3>3, <3>5, <4>1, <4>2 DEF Ready, Store, Vouches, Valid
    <3>6. CASE pc'[p] = "aside"
      <4>1. hold' = hold
        BY <1>2, <3>6, SMTT(30) DEF Examine, Unlocked, Go, Fails, Release, ControlTyped
      <4> QED BY <1>1, <3>1, <3>2, <3>3, <3>6, <4>1 DEF Ready, Store
    <3>7. pc'[p] # "examine"
      BY <1>2, SMTT(30) DEF Examine, Go, Fails, Release, ControlTyped
    <3> QED BY <2>2, <3>4, <3>5, <3>6, <3>7 DEF Storing
  <2> QED BY <2>1, <2>2
<1>13. ASSUME NEW q \in Procs, q # p PROVE Ready(q)'
  <2>1. Apart(q)
    BY <1>2, <1>13, AdapterAssumption, SMTT(30) DEF Examine, Apart, ControlTyped,
       MemoryTyped, HoldTyped, OutcomeTyped, SharedTyped, outcome, cache, setting,
       Release, Fails, Go, Is, Lets, NoHold, Locked, Unlocked, Unheld, Kinds
  <2> QED BY <2>1, ApartReady DEF IInv
<1> QED BY <1>7, <1>8, <1>9, <1>10, <1>11, <1>12, <1>13 DEF IInv, Ready

LEMMA WriteKeeps ==
    ASSUME IInv, NEW p \in Procs, Write(p)
    PROVE  IInv'
<1>1. AdaptersTypeOK /\ CertificatesHold /\ Ready(p) BY DEF IInv
<1>2. ControlTyped /\ MemoryTyped /\ HoldTyped /\ OutcomeTyped /\ SharedTyped
  BY <1>1, TypesAreParts
<1>3. ControlTyped'
  BY <1>2, AdapterAssumption, SMTT(30) DEF Write, ControlTyped, outcome, setting,
     Release, Fails, Go, Is, Lets, NoHold, Unheld, Kinds, Replace, Loads, Steps, Fitting,
     Using, Storing, Ending
<1>4. HoldTyped'
  BY <1>2, AdapterAssumption, SMTT(30) DEF Write, HoldTyped, outcome, setting, Release,
     Fails, Go, Is, Lets, NoHold, Unheld, Kinds, Replace, Loads
<1>5. SharedTyped'
  <2>1. [payload |-> model[p], cert |-> None] \in Envelopes \cup {Absent}
    <3>1. model[p] \in Bytes
      BY <1>1, <1>2 DEF Write, Is, Ready, Memory, MemoryTyped, Fitted, Using, Storing
    <3> QED BY <3>1 DEF Envelopes
  <2>2. entry' = entry \/ entry' = [entry EXCEPT ![Kind(p)] =
            [payload |-> model[p], cert |-> None]]
    BY DEF Write, Replace
  <2>3. storeLock' = Unheld(p) /\ UNCHANGED <<gpuLock, setting>> BY DEF Write, Replace
  <2> QED BY <1>2, <2>1, <2>2, <2>3, ReplaceTyped
<1>6. MemoryTyped' /\ OutcomeTyped'
  BY <1>2 DEF Write, MemoryTyped, OutcomeTyped, outcome, setting, Release, Fails, Go, Is,
     Lets, NoHold, Unheld, Kinds, Replace, Loads
<1>7. AdaptersTypeOK' BY <1>3, <1>4, <1>5, <1>6, TypesAreKept
<1>8. CertificatesHold'
  <2>1. entry' = entry \/ entry' = [entry EXCEPT ![Kind(p)] =
            [payload |-> model[p], cert |-> None]]
    BY DEF Write, Replace
  <2> QED BY <1>1, <1>2, <2>1 DEF CertificatesHold, SharedTyped
<1>9. Memory(p)'
  BY <1>1, <1>2, AdapterAssumption, SMTT(30) DEF Write, Ready, Memory, Guard,
     ControlTyped, MemoryTyped, outcome, setting, Release, Fails, Go, Is, Lets, NoHold,
     Unheld, Kinds, Replace, Loads, Steps, Fitting, Using, Storing, Ending, Fitted,
     Watched, Released, Guarded
<1>10. Told(p)'
  BY <1>1, <1>2, SMTT(30) DEF Write, Ready, Told, Passes, ControlTyped, OutcomeTyped,
     outcome, setting, Release, Fails, Go, Is, Lets, NoHold, Unheld, Kinds, Replace,
     Loads, Steps, Fitting, Using, Storing, Ending
<1>11. Guard(p)'
  BY <1>1, <1>2, AdapterAssumption, SMTT(30) DEF Write, Ready, Guard, Memory, Told,
     ControlTyped, MemoryTyped, SharedTyped, outcome, setting, Release, Fails, Go, Is,
     Lets, NoHold, Unheld, Kinds, Replace, Loads, Steps, Fitting, Using, Storing, Ending,
     Fitted, Watched, Released, Guarded
<1>12. Store(p)'
  <2>1. pc'[p] \notin Storing
    BY <1>2 DEF Write, ControlTyped, Storing, Release, Fails, Go, Is, Lets, NoHold,
       Unheld, Kinds, Replace, Loads
  <2>2. hold'[p] = hold[p] \/ hold'[p] = NoHold
    BY <1>2 DEF Write, HoldTyped, outcome, setting, Release, Fails, Go, Is, Lets, NoHold,
       Unheld, Kinds, Replace, Loads
  <2> QED BY <1>1, <2>1, <2>2, NotStoring DEF Ready
<1>13. ASSUME NEW q \in Procs, q # p PROVE Ready(q)'
  <2>1. storeLock[Kind(p)] = p BY <1>1 DEF Write, Is, Ready, Store, Storing
  <2>2. ASSUME NEW k \in Kinds,
     storeLock[k] = q PROVE storeLock'[k] = q /\ entry'[k] = entry[k]
    <3>1. k # Kind(p) BY <1>13, <2>1, <2>2
    <3>2. entry' = entry \/ entry' = [entry EXCEPT ![Kind(p)] =
            [payload |-> model[p], cert |-> None]]
    BY DEF Write, Replace
    <3>3. storeLock' = Unheld(p) BY DEF Write, Replace
    <3> QED BY <1>2, <1>13, <2>2, <3>1, <3>2, <3>3 DEF Unheld, SharedTyped
  <2>3. Apart(q)
    BY <1>2, <1>13, <2>2, SMTT(30) DEF Write, Apart, ControlTyped, HoldTyped, outcome,
       Release, Fails, Go, Is, Lets, NoHold, Unheld, Kinds, Replace, Loads
  <2> QED BY <2>3, ApartReady DEF IInv
<1> QED BY <1>7, <1>8, <1>9, <1>10, <1>11, <1>12, <1>13 DEF IInv, Ready

LEMMA AttachKeeps ==
    ASSUME IInv, NEW p \in Procs, Attach(p)
    PROVE  IInv'
<1>1. AdaptersTypeOK /\ CertificatesHold /\ Ready(p) BY DEF IInv
<1>2. ControlTyped /\ MemoryTyped /\ HoldTyped /\ OutcomeTyped /\ SharedTyped
  BY <1>1, TypesAreParts
<1>3. ControlTyped'
  BY <1>2, AdapterAssumption, SMTT(30) DEF Attach, ControlTyped, outcome, setting,
     Release, Fails, Go, Is, Lets, NoHold, Unheld, Kinds, Replace, Loads, Steps, Fitting,
     Using, Storing, Ending
<1>4. HoldTyped'
  BY <1>2, AdapterAssumption, SMTT(30) DEF Attach, HoldTyped, outcome, setting, Release,
     Fails, Go, Is, Lets, NoHold, Unheld, Kinds, Replace, Loads
<1>5. SharedTyped'
  <2>1. [payload |-> hold[p].envelope.payload,
     cert |-> hold[p].cert] \in Envelopes \cup {Absent}
    <3>1. Valid(hold[p].envelope) /\ hold[p].cert # None
      BY <1>1 DEF Attach, Is, Ready, Store
    <3>2. hold[p].cert \in Certificates BY <1>2, <3>1 DEF HoldTyped
    <3>3. hold[p].envelope.payload \in Bytes BY <3>1 DEF Valid, Envelopes
    <3> QED BY <3>2, <3>3 DEF Envelopes
  <2>2. entry' = entry \/ entry' = [entry EXCEPT ![Kind(p)] =
            [payload |-> hold[p].envelope.payload, cert |-> hold[p].cert]]
    BY DEF Attach, Replace
  <2>3. storeLock' = Unheld(p) /\ UNCHANGED <<gpuLock, setting>> BY DEF Attach, Replace
  <2> QED BY <1>2, <2>1, <2>2, <2>3, ReplaceTyped
<1>6. MemoryTyped' /\ OutcomeTyped'
  BY <1>2 DEF Attach, MemoryTyped, OutcomeTyped, outcome, setting, Release, Fails, Go,
     Is, Lets, NoHold, Unheld, Kinds, Replace, Loads
<1>7. AdaptersTypeOK' BY <1>3, <1>4, <1>5, <1>6, TypesAreKept
<1>8. CertificatesHold'
  <2>1. entry' = entry \/ entry' = [entry EXCEPT ![Kind(p)] =
            [payload |-> hold[p].envelope.payload, cert |-> hold[p].cert]]
    BY DEF Attach, Replace
  <2>2. /\ hold[p].cert.existing = hold[p].envelope.payload
        /\ <<hold[p].cert.existing, hold[p].cert.candidate>> \in Close
    BY <1>1 DEF Attach, Is, Ready, Store
  <2> QED BY <1>1, <1>2, <2>1, <2>2 DEF CertificatesHold, SharedTyped
<1>9. Memory(p)'
  BY <1>1, <1>2, AdapterAssumption, SMTT(30) DEF Attach, Ready, Memory, Guard,
     ControlTyped, MemoryTyped, outcome, setting, Release, Fails, Go, Is, Lets, NoHold,
     Unheld, Kinds, Replace, Loads, Steps, Fitting, Using, Storing, Ending, Fitted,
     Watched, Released, Guarded
<1>10. Told(p)'
  BY <1>1, <1>2, SMTT(30) DEF Attach, Ready, Told, Passes, ControlTyped, OutcomeTyped,
     outcome, setting, Release, Fails, Go, Is, Lets, NoHold, Unheld, Kinds, Replace,
     Loads, Steps, Fitting, Using, Storing, Ending
<1>11. Guard(p)'
  BY <1>1, <1>2, AdapterAssumption, SMTT(30) DEF Attach, Ready, Guard, Memory, Told,
     ControlTyped, MemoryTyped, SharedTyped, outcome, setting, Release, Fails, Go, Is,
     Lets, NoHold, Unheld, Kinds, Replace, Loads, Steps, Fitting, Using, Storing, Ending,
     Fitted, Watched, Released, Guarded
<1>12. Store(p)'
  <2>1. pc'[p] \notin Storing
    BY <1>2 DEF Attach, ControlTyped, Storing, Release, Fails, Go, Is, Lets, NoHold,
       Unheld, Kinds, Replace, Loads
  <2>2. hold'[p] = hold[p] \/ hold'[p] = NoHold
    BY <1>2 DEF Attach, HoldTyped, outcome, setting, Release, Fails, Go, Is, Lets,
       NoHold, Unheld, Kinds, Replace, Loads
  <2> QED BY <1>1, <2>1, <2>2, NotStoring DEF Ready
<1>13. ASSUME NEW q \in Procs, q # p PROVE Ready(q)'
  <2>1. storeLock[Kind(p)] = p BY <1>1 DEF Attach, Is, Ready, Store, Storing
  <2>2. ASSUME NEW k \in Kinds,
     storeLock[k] = q PROVE storeLock'[k] = q /\ entry'[k] = entry[k]
    <3>1. k # Kind(p) BY <1>13, <2>1, <2>2
    <3>2. entry' = entry \/ entry' = [entry EXCEPT ![Kind(p)] =
            [payload |-> hold[p].envelope.payload, cert |-> hold[p].cert]]
    BY DEF Attach, Replace
    <3>3. storeLock' = Unheld(p) BY DEF Attach, Replace
    <3> QED BY <1>2, <1>13, <2>2, <3>1, <3>2, <3>3 DEF Unheld, SharedTyped
  <2>3. Apart(q)
    BY <1>2, <1>13, <2>2, SMTT(30) DEF Attach, Apart, ControlTyped, HoldTyped, outcome,
       Release, Fails, Go, Is, Lets, NoHold, Unheld, Kinds, Replace, Loads
  <2> QED BY <2>3, ApartReady DEF IInv
<1> QED BY <1>7, <1>8, <1>9, <1>10, <1>11, <1>12, <1>13 DEF IInv, Ready

LEMMA AsideKeeps ==
    ASSUME IInv, NEW p \in Procs, Aside(p)
    PROVE  IInv'
<1>1. AdaptersTypeOK /\ CertificatesHold /\ Ready(p) BY DEF IInv
<1>2. ControlTyped /\ MemoryTyped /\ HoldTyped /\ OutcomeTyped /\ SharedTyped
  BY <1>1, TypesAreParts
<1>3. ControlTyped'
  BY <1>2, AdapterAssumption, SMTT(30) DEF Aside, ControlTyped, outcome, setting,
     Release, Fails, Go, Is, Lets, NoHold, Unheld, Kinds, Replace, Steps, Fitting, Using,
     Storing, Ending
<1>4. HoldTyped'
  BY <1>2, AdapterAssumption, SMTT(30) DEF Aside, HoldTyped, outcome, setting, Release,
     Fails, Go, Is, Lets, NoHold, Unheld, Kinds, Replace
<1>5. SharedTyped'
  <2>1. Absent \in Envelopes \cup {Absent}
    OBVIOUS
  <2>2. entry' = entry \/ entry' = [entry EXCEPT ![Kind(p)] =
            Absent]
    BY DEF Aside, Replace
  <2>3. storeLock' = Unheld(p) /\ UNCHANGED <<gpuLock, setting>> BY DEF Aside, Replace
  <2> QED BY <1>2, <2>1, <2>2, <2>3, ReplaceTyped
<1>6. MemoryTyped' /\ OutcomeTyped'
  BY <1>2 DEF Aside, MemoryTyped, OutcomeTyped, outcome, setting, Release, Fails, Go, Is,
     Lets, NoHold, Unheld, Kinds, Replace
<1>7. AdaptersTypeOK' BY <1>3, <1>4, <1>5, <1>6, TypesAreKept
<1>8. CertificatesHold'
  <2>1. entry' = entry \/ entry' = [entry EXCEPT ![Kind(p)] =
            Absent]
    BY DEF Aside, Replace
  <2> QED BY <1>1, <1>2, <2>1, AdapterAssumption DEF CertificatesHold, SharedTyped
<1>9. Memory(p)'
  BY <1>1, <1>2, AdapterAssumption, SMTT(30) DEF Aside, Ready, Memory, Guard,
     ControlTyped, MemoryTyped, outcome, setting, Release, Fails, Go, Is, Lets, NoHold,
     Unheld, Kinds, Replace, Steps, Fitting, Using, Storing, Ending, Fitted, Watched,
     Released, Guarded
<1>10. Told(p)'
  BY <1>1, <1>2, SMTT(30) DEF Aside, Ready, Told, Passes, ControlTyped, OutcomeTyped,
     outcome, setting, Release, Fails, Go, Is, Lets, NoHold, Unheld, Kinds, Replace,
     Steps, Fitting, Using, Storing, Ending
<1>11. Guard(p)'
  BY <1>1, <1>2, AdapterAssumption, SMTT(30) DEF Aside, Ready, Guard, Memory, Told,
     ControlTyped, MemoryTyped, SharedTyped, outcome, setting, Release, Fails, Go, Is,
     Lets, NoHold, Unheld, Kinds, Replace, Steps, Fitting, Using, Storing, Ending,
     Fitted, Watched, Released, Guarded
<1>12. Store(p)'
  <2>1. pc'[p] \notin Storing
    BY <1>2 DEF Aside, ControlTyped, Storing, Release, Fails, Go, Is, Lets, NoHold,
       Unheld, Kinds, Replace
  <2>2. hold'[p] = hold[p] \/ hold'[p] = NoHold
    BY <1>2 DEF Aside, HoldTyped, outcome, setting, Release, Fails, Go, Is, Lets, NoHold,
       Unheld, Kinds, Replace
  <2> QED BY <1>1, <2>1, <2>2, NotStoring DEF Ready
<1>13. ASSUME NEW q \in Procs, q # p PROVE Ready(q)'
  <2>1. storeLock[Kind(p)] = p BY <1>1 DEF Aside, Is, Ready, Store, Storing
  <2>2. ASSUME NEW k \in Kinds,
     storeLock[k] = q PROVE storeLock'[k] = q /\ entry'[k] = entry[k]
    <3>1. k # Kind(p) BY <1>13, <2>1, <2>2
    <3>2. entry' = entry \/ entry' = [entry EXCEPT ![Kind(p)] =
            Absent]
    BY DEF Aside, Replace
    <3>3. storeLock' = Unheld(p) BY DEF Aside, Replace
    <3> QED BY <1>2, <1>13, <2>2, <3>1, <3>2, <3>3 DEF Unheld, SharedTyped
  <2>3. Apart(q)
    BY <1>2, <1>13, <2>2, SMTT(30) DEF Aside, Apart, ControlTyped, HoldTyped, outcome,
       Release, Fails, Go, Is, Lets, NoHold, Unheld, Kinds, Replace
  <2> QED BY <2>3, ApartReady DEF IInv
<1> QED BY <1>7, <1>8, <1>9, <1>10, <1>11, <1>12, <1>13 DEF IInv, Ready

LEMMA CertifyKeeps ==
    ASSUME IInv, NEW p \in Procs, Certify(p)
    PROVE  IInv'
<1>1. AdaptersTypeOK /\ CertificatesHold /\ Ready(p) BY DEF IInv
<1>2. ControlTyped /\ MemoryTyped /\ HoldTyped /\ OutcomeTyped /\ SharedTyped
  BY <1>1, TypesAreParts
<1>3. ControlTyped'
  BY <1>2, AdapterAssumption, SMTT(30) DEF Certify, ControlTyped, outcome, cache,
     setting, Release, Fails, Go, Is, Steps, Fitting, Using, Storing, Ending
<1>4. HoldTyped'
  <2>1. CASE UNCHANGED hold BY <1>2, <2>1 DEF HoldTyped
  <2> DEFINE cert == [existing |-> entry[Kind(p)].payload, candidate |-> model[p]]
  <2>2. CASE /\ Valid(entry[Kind(p)]) /\ entry[Kind(p)].payload # model[p]
             /\ hold' = [hold EXCEPT ![p] = [envelope |-> None, cert |-> cert]]
    <3>1. model[p] \in Bytes
      BY <1>1, <1>2 DEF Certify, Is, Ready, Memory, MemoryTyped, Fitted, Using
    <3>2. entry[Kind(p)].payload \in Bytes BY <2>2 DEF Valid, Envelopes
    <3>3. cert \in Certificates BY <2>2, <3>1, <3>2 DEF Certificates
    <3> HIDE DEF cert
    <3> QED BY <1>2, <2>2, <3>3 DEF HoldTyped
  <2> QED BY <2>1, <2>2 DEF Certify
<1>5. MemoryTyped' /\ OutcomeTyped' /\ SharedTyped'
  BY <1>2 DEF Certify, MemoryTyped, OutcomeTyped, SharedTyped, outcome, cache, setting,
     Release, Fails, Go, Is, Kinds
<1>6. AdaptersTypeOK' BY <1>3, <1>4, <1>5, TypesAreKept
<1>7. CertificatesHold'
  BY <1>1 DEF Certify, CertificatesHold, outcome, cache, setting
<1>8. Memory(p)'
  BY <1>1, <1>2, AdapterAssumption, SMTT(30) DEF Certify, Ready, Memory, Guard,
     ControlTyped, MemoryTyped, outcome, cache, setting, Release, Fails, Go, Is, Steps,
     Fitting, Using, Storing, Ending, Fitted, Watched, Released, Guarded
<1>9. Told(p)'
  BY <1>1, <1>2, SMTT(30) DEF Certify, Ready, Told, Passes, ControlTyped, OutcomeTyped,
     outcome, cache, setting, Release, Fails, Go, Is, Steps, Fitting, Using, Storing, Ending
<1>10. Guard(p)'
  BY <1>1, <1>2, AdapterAssumption, SMTT(30) DEF Certify, Ready, Guard, Memory, Told,
     ControlTyped, MemoryTyped, SharedTyped, outcome, cache, setting, Release, Fails, Go,
     Is, Kinds, Steps, Fitting, Using, Storing, Ending, Fitted, Watched, Released, Guarded
<1>11. Store(p)'
  <2>1. pc'[p] \notin Storing
    BY <1>2 DEF Certify, ControlTyped, Storing, Release, Fails, Go
  <2>2. \/ hold'[p] = hold[p]
        \/ /\ hold'[p].cert = [existing |-> entry[Kind(p)].payload, candidate |-> model[p]]
           /\ <<entry[Kind(p)].payload, model[p]>> \in Close
    BY <1>2 DEF Certify, HoldTyped
  <2> QED BY <1>1, <2>1, <2>2 DEF Ready, Store, Storing
<1>12. ASSUME NEW q \in Procs, q # p PROVE Ready(q)'
  <2>1. Apart(q)
    BY <1>2, <1>12, AdapterAssumption, SMTT(30) DEF Certify, Apart, ControlTyped,
       MemoryTyped, HoldTyped, OutcomeTyped, SharedTyped, outcome, cache, setting,
       Release, Fails, Go, Is, Kinds
  <2> QED BY <2>1, ApartReady DEF IInv
<1> QED BY <1>6, <1>7, <1>8, <1>9, <1>10, <1>11, <1>12 DEF IInv, Ready

LEMMA DamagedKeeps ==
    ASSUME IInv, NEW k \in Kinds, Damaged(k)
    PROVE  IInv'
<1>1. AdaptersTypeOK /\ CertificatesHold BY DEF IInv
<1>2. ControlTyped /\ MemoryTyped /\ HoldTyped /\ OutcomeTyped /\ SharedTyped
  BY <1>1, TypesAreParts
<1>3. ControlTyped' /\ MemoryTyped' /\ HoldTyped' /\ OutcomeTyped'
  BY <1>2 DEF Damaged, adapter, outcome, ControlTyped, MemoryTyped, HoldTyped, OutcomeTyped
<1>4. SharedTyped' BY <1>2, AdapterAssumption DEF Damaged, SharedTyped
<1>5. AdaptersTypeOK' BY <1>3, <1>4, TypesAreKept
<1>6. CertificatesHold'
  BY <1>1, <1>2, AdapterAssumption DEF Damaged, CertificatesHold, SharedTyped
<1>7. ASSUME NEW q \in Procs PROVE Ready(q)'
  <2>1. Ready(q) BY DEF IInv
  <2>2. Memory(q)' BY <2>1 DEF Damaged, adapter, Ready, Memory
  <2>3. Told(q)' BY <2>1 DEF Damaged, adapter, outcome, Ready, Told, Passes
  <2>4. Guard(q)' BY <2>1 DEF Damaged, adapter, Ready, Guard
  <2>5. Store(q)'
    <3>1. Kind(q)' = Kind(q) BY DEF Damaged, Kind, Program
    <3>2. ~Valid(Absent) /\ ~Valid(Broken) BY AdapterAssumption DEF Valid
    <3>3. entry'[Kind(q)] = entry[Kind(q)] \/ (Valid(entry[Kind(q)]) /\ entry'[Kind(q)] = Broken)
      BY <1>2, KindIsKind DEF Damaged, SharedTyped
    <3> QED BY <2>1, <3>1, <3>2, <3>3 DEF Damaged, Ready, Store, Valid
  <2> QED BY <2>2, <2>3, <2>4, <2>5 DEF Ready
<1> QED BY <1>5, <1>6, <1>7 DEF IInv

LEMMA Start == Init => IInv
<1> SUFFICES ASSUME Init PROVE IInv OBVIOUS
<1>1. ControlTyped BY DEF Init, ControlTyped, Steps
<1>2. MemoryTyped BY DEF Init, MemoryTyped, NewTracker
<1>3. HoldTyped BY DEF Init, HoldTyped, NoHold
<1>4. OutcomeTyped BY DEF Init, OutcomeTyped
<1>5. SharedTyped BY AdapterAssumption DEF Init, SharedTyped
<1>6. CertificatesHold BY AdapterAssumption DEF Init, CertificatesHold
<1>7. ASSUME NEW p \in Procs PROVE Ready(p)
  <2>1. Memory(p) BY DEF Init, Memory, Fitted, Watched, Released, Using, Storing
  <2>2. Told(p) BY DEF Init, Told, Passes
  <2>3. Guard(p) BY DEF Init, Guard, Guarded, Released, Using, Storing, NoJob
  <2>4. Store(p) BY DEF Init, Store, Storing, NoHold
  <2> QED BY <2>1, <2>2, <2>3, <2>4 DEF Ready
<1> QED BY <1>1, <1>2, <1>3, <1>4, <1>5, <1>6, <1>7, TypesAreParts DEF IInv

LEMMA Step == IInv /\ [Next]_vars => IInv'
<1> SUFFICES ASSUME IInv, [Next]_vars PROVE IInv' OBVIOUS
<1>1. ASSUME NEW p \in Procs, Begin(p) PROVE IInv' BY <1>1, BeginKeeps
<1>2. ASSUME NEW p \in Procs, Prepare(p) PROVE IInv' BY <1>2, PrepareKeeps
<1>3. ASSUME NEW p \in Procs, AcquireGpu(p) PROVE IInv' BY <1>3, AcquireGpuKeeps
<1>4. ASSUME NEW p \in Procs, GpuLockTimeout(p) PROVE IInv' BY <1>4, GpuLockTimeoutKeeps
<1>5. ASSUME NEW p \in Procs, Build(p) PROVE IInv' BY <1>5, BuildKeeps
<1>6. ASSUME NEW p \in Procs, Overrun(p) PROVE IInv' BY <1>6, OverrunKeeps
<1>7. ASSUME NEW p \in Procs, Fit(p) PROVE IInv' BY <1>7, FitKeeps
<1>8. ASSUME NEW p \in Procs, Limits(p) PROVE IInv' BY <1>8, LimitsKeeps
<1>9. ASSUME NEW p \in Procs, Predict(p) PROVE IInv' BY <1>9, PredictKeeps
<1>10. ASSUME NEW p \in Procs, StoreAcquire(p) PROVE IInv' BY <1>10, StoreAcquireKeeps
<1>11. ASSUME NEW p \in Procs, StoreTimeout(p) PROVE IInv' BY <1>11, StoreTimeoutKeeps
<1>12. ASSUME NEW p \in Procs, Examine(p) PROVE IInv' BY <1>12, ExamineKeeps
<1>13. ASSUME NEW p \in Procs, Write(p) PROVE IInv' BY <1>13, WriteKeeps
<1>14. ASSUME NEW p \in Procs, Attach(p) PROVE IInv' BY <1>14, AttachKeeps
<1>15. ASSUME NEW p \in Procs, Aside(p) PROVE IInv' BY <1>15, AsideKeeps
<1>16. ASSUME NEW p \in Procs, Certify(p) PROVE IInv' BY <1>16, CertifyKeeps
<1>17. ASSUME NEW p \in Procs, Load(p) PROVE IInv' BY <1>17, LoadKeeps
<1>18. ASSUME NEW p \in Procs, Compare(p) PROVE IInv' BY <1>18, CompareKeeps
<1>19. ASSUME NEW p \in Procs, Drop(p) PROVE IInv' BY <1>19, DropKeeps
<1>20. ASSUME NEW p \in Procs, Verify(p) PROVE IInv' BY <1>20, VerifyKeeps
<1>21. ASSUME NEW p \in Procs, Unlock(p) PROVE IInv' BY <1>21, UnlockKeeps
<1>22. ASSUME NEW p \in Procs, Record(p) PROVE IInv' BY <1>22, RecordKeeps
<1>23. ASSUME NEW p \in Procs, Archive(p) PROVE IInv' BY <1>23, ArchiveKeeps
<1>24. ASSUME NEW p \in Procs, Report(p) PROVE IInv' BY <1>24, ReportKeeps
<1>25. ASSUME NEW p \in Procs, ReportFail(p) PROVE IInv' BY <1>25, ReportFailKeeps
<1>26. ASSUME NEW p \in Procs, Killed(p) PROVE IInv' BY <1>26, KilledKeeps
<1>27. ASSUME NEW k \in Kinds, Damaged(k) PROVE IInv' BY <1>27, DamagedKeeps
<1>28. CASE UNCHANGED vars
  <2>1. AdaptersTypeOK' /\ CertificatesHold'
    BY <1>28 DEF IInv, AdaptersTypeOK, CertificatesHold, vars, adapter, outcome, cache,
       setting
  <2>2. ASSUME NEW q \in Procs PROVE Ready(q)'
    <3>1. Apart(q) BY <1>28 DEF Apart, vars, adapter, outcome, cache, setting
    <3> QED BY <3>1, ApartReady DEF IInv
  <2> QED BY <2>1, <2>2 DEF IInv
<1> QED
  BY <1>1, <1>2, <1>3, <1>4, <1>5, <1>6, <1>7, <1>8, <1>9, <1>10, <1>11, <1>12, <1>13,
     <1>14, <1>15, <1>16, <1>17, <1>18, <1>19, <1>20, <1>21, <1>22, <1>23, <1>24, <1>25,
        <1>26, <1>27, <1>28
  DEF Next, Working, Acquiring, Timeouts

THEOREM Invariance == Spec => []IInv
BY Start, Step, PTL DEF Spec

\* Every variable keeps its type: the payloads, certificates and locks of the
\* cache, the objects and the outcome of each worker.
THEOREM TypeCorrect == Spec => []AdaptersTypeOK
<1>1. IInv => AdaptersTypeOK BY DEF IInv
<1> QED BY <1>1, Invariance, PTL

\* A fitted foundation model is in memory only under the GPU lock, through
\* failures of fit(), double releases and kills.
THEOREM UnderLock == Spec => []ModelUnderLock
<1>1. IInv => ModelUnderLock BY DEF IInv, Ready, Guard, ModelUnderLock
<1> QED BY <1>1, Invariance, PTL

\* A certificate in the cache vouches for the payload it comes with, for any
\* relation of agreement, transitive or not.
THEOREM CertificatesVouch == Spec => []CertificatesHold
<1>1. IInv => CertificatesHold BY DEF IInv
<1> QED BY <1>1, Invariance, PTL

\* The passing result of an earlier worker never counts for a later one.
THEOREM OwnPass == Spec => []PassIsOwn
<1>1. IInv => PassIsOwn BY DEF IInv, Ready, Told, PassIsOwn
<1> QED BY <1>1, Invariance, PTL

Kept == \A k \in Kinds : Valid(entry[k]) /\ Valid(entry'[k]) => entry'[k].payload = entry[k].payload

LEMMA StepKeepsPayload == IInv /\ [Next]_vars => Kept
<1> SUFFICES ASSUME IInv, [Next]_vars PROVE Kept OBVIOUS
<1>0. entry \in [Kinds -> Envelopes \cup {Absent, Broken}] BY DEF IInv, AdaptersTypeOK
<1>1. ASSUME NEW p \in Procs, Begin(p) PROVE entry' = entry
  BY <1>1 DEF Begin, cache
<1>2. ASSUME NEW p \in Procs, Prepare(p) PROVE entry' = entry
  BY <1>2 DEF Prepare, cache
<1>3. ASSUME NEW p \in Procs, AcquireGpu(p) PROVE entry' = entry
  BY <1>3 DEF AcquireGpu, cache
<1>4. ASSUME NEW p \in Procs, GpuLockTimeout(p) PROVE entry' = entry
  BY <1>4 DEF GpuLockTimeout, cache
<1>5. ASSUME NEW p \in Procs, Build(p) PROVE entry' = entry
  BY <1>5 DEF Build, cache
<1>6. ASSUME NEW p \in Procs, Overrun(p) PROVE entry' = entry
  BY <1>6 DEF Overrun, cache
<1>7. ASSUME NEW p \in Procs, Fit(p) PROVE entry' = entry
  BY <1>7 DEF Fit, cache
<1>8. ASSUME NEW p \in Procs, Limits(p) PROVE entry' = entry
  BY <1>8 DEF Limits, cache
<1>9. ASSUME NEW p \in Procs, Predict(p) PROVE entry' = entry
  BY <1>9 DEF Predict, cache
<1>10. ASSUME NEW p \in Procs, StoreAcquire(p) PROVE entry' = entry
  BY <1>10 DEF StoreAcquire, cache
<1>11. ASSUME NEW p \in Procs, StoreTimeout(p) PROVE entry' = entry
  BY <1>11 DEF StoreTimeout, cache
<1>12. ASSUME NEW p \in Procs, Examine(p) PROVE entry' = entry
  BY <1>12 DEF Examine, Unlocked, Locked, cache
<1>13. ASSUME NEW p \in Procs, Write(p) PROVE Kept
  <2>1. ~Valid(entry[Kind(p)])
    BY <1>13, AdapterAssumption DEF IInv, Ready, Store, Write, Is, Valid
  <2>2. entry' = entry \/ entry' = [entry EXCEPT ![Kind(p)] = [payload |-> model[p],
     cert |-> None]]
    BY <1>13 DEF Write, Replace
  <2> QED BY <2>1, <2>2, <1>0 DEF Kept
<1>14. ASSUME NEW p \in Procs, Attach(p) PROVE Kept
  <2>1. Valid(entry[Kind(p)]) => entry[Kind(p)] = hold[p].envelope
    BY <1>14 DEF IInv, Ready, Store, Attach, Is
  <2>2. \/ entry' = entry
        \/ entry' = [entry EXCEPT ![Kind(p)] =
                         [payload |-> hold[p].envelope.payload, cert |-> hold[p].cert]]
    BY <1>14 DEF Attach, Replace
  <2> QED BY <2>1, <2>2, <1>0 DEF Kept
<1>15. ASSUME NEW p \in Procs, Aside(p) PROVE Kept
  <2>1. ~Valid(Absent) BY AdapterAssumption DEF Valid
  <2>2. entry' = entry \/ entry' = [entry EXCEPT ![Kind(p)] = Absent]
    BY <1>15 DEF Aside, Replace
  <2> QED BY <2>1, <2>2, <1>0 DEF Kept
<1>16. ASSUME NEW p \in Procs, Certify(p) PROVE entry' = entry
  BY <1>16 DEF Certify, cache
<1>17. ASSUME NEW p \in Procs, Load(p) PROVE entry' = entry
  BY <1>17 DEF Load, cache
<1>18. ASSUME NEW p \in Procs, Compare(p) PROVE entry' = entry
  BY <1>18 DEF Compare, cache
<1>19. ASSUME NEW p \in Procs, Drop(p) PROVE entry' = entry
  BY <1>19 DEF Drop, cache
<1>20. ASSUME NEW p \in Procs, Verify(p) PROVE entry' = entry
  BY <1>20 DEF Verify, cache
<1>21. ASSUME NEW p \in Procs, Unlock(p) PROVE entry' = entry
  BY <1>21 DEF Unlock, cache
<1>22. ASSUME NEW p \in Procs, Record(p) PROVE entry' = entry
  BY <1>22 DEF Record, cache
<1>23. ASSUME NEW p \in Procs, Archive(p) PROVE entry' = entry
  BY <1>23 DEF Archive, cache
<1>24. ASSUME NEW p \in Procs, Report(p) PROVE entry' = entry
  BY <1>24 DEF Report, cache
<1>25. ASSUME NEW p \in Procs, ReportFail(p) PROVE entry' = entry
  BY <1>25 DEF ReportFail, cache
<1>26. ASSUME NEW p \in Procs, Killed(p) PROVE entry' = entry
  BY <1>26 DEF Killed, cache
<1>27. ASSUME NEW k \in Kinds, Damaged(k) PROVE Kept
  <2>1. ~Valid(Broken) BY AdapterAssumption DEF Valid
  <2> QED BY <1>0, <1>27, <2>1 DEF Damaged, Kept
<1>28. CASE UNCHANGED vars BY <1>28 DEF vars, cache, Kept
<1> QED BY <1>1, <1>2, <1>3, <1>4, <1>5, <1>6, <1>7, <1>8, <1>9, <1>10, <1>11, <1>12,
   <1>13, <1>14, <1>15, <1>16, <1>17, <1>18, <1>19, <1>20, <1>21, <1>22, <1>23, <1>24,
      <1>25, <1>26, <1>27, <1>28 DEF Kept, Next, Working, Acquiring, Timeouts

\* Whoever stores, certifies, quarantines, crashes or damages: a valid artifact
\* never becomes another valid artifact.
THEOREM PayloadKept == Spec => PayloadIsKept
<1>1. IInv /\ [Next]_vars => Kept BY StepKeepsPayload
<1> QED BY <1>1, Invariance, PTL DEF Spec, PayloadIsKept, Kept

Clean(p) ==
    /\ model[p] = None /\ restored[p] = None /\ gpuLock # p
    /\ tracker[p].stage = "stopped" /\ tracker[p].clean /\ ~tracker[p].over
CleanPass == \A p \in Procs : wrote'[p] /\ ~wrote[p] => Clean(p)

LEMMA StepPassesClean == IInv /\ [Next]_vars => CleanPass
<1> SUFFICES ASSUME IInv, [Next]_vars PROVE CleanPass OBVIOUS
<1>0. wrote \in [Procs -> BOOLEAN] BY DEF IInv, AdaptersTypeOK
<1>1. ASSUME NEW p \in Procs, Begin(p) PROVE CleanPass
  BY <1>0, <1>1 DEF Begin, CleanPass
<1>2. ASSUME NEW p \in Procs, Prepare(p) PROVE wrote' = wrote
  BY <1>2 DEF Prepare, outcome
<1>3. ASSUME NEW p \in Procs, AcquireGpu(p) PROVE wrote' = wrote
  BY <1>3 DEF AcquireGpu, outcome
<1>4. ASSUME NEW p \in Procs, GpuLockTimeout(p) PROVE wrote' = wrote
  BY <1>4 DEF GpuLockTimeout, outcome
<1>5. ASSUME NEW p \in Procs, Build(p) PROVE wrote' = wrote
  BY <1>5 DEF Build, outcome
<1>6. ASSUME NEW p \in Procs, Overrun(p) PROVE wrote' = wrote
  BY <1>6 DEF Overrun, outcome
<1>7. ASSUME NEW p \in Procs, Fit(p) PROVE wrote' = wrote
  BY <1>7 DEF Fit, outcome
<1>8. ASSUME NEW p \in Procs, Limits(p) PROVE wrote' = wrote
  BY <1>8 DEF Limits, outcome
<1>9. ASSUME NEW p \in Procs, Predict(p) PROVE wrote' = wrote
  BY <1>9 DEF Predict, outcome
<1>10. ASSUME NEW p \in Procs, StoreAcquire(p) PROVE wrote' = wrote
  BY <1>10 DEF StoreAcquire, outcome
<1>11. ASSUME NEW p \in Procs, StoreTimeout(p) PROVE wrote' = wrote
  BY <1>11 DEF StoreTimeout, outcome
<1>12. ASSUME NEW p \in Procs, Examine(p) PROVE wrote' = wrote
  BY <1>12 DEF Examine, Unlocked, Locked, outcome
<1>13. ASSUME NEW p \in Procs, Write(p) PROVE wrote' = wrote
  BY <1>13 DEF Write, Replace, outcome
<1>14. ASSUME NEW p \in Procs, Attach(p) PROVE wrote' = wrote
  BY <1>14 DEF Attach, Replace, outcome
<1>15. ASSUME NEW p \in Procs, Aside(p) PROVE wrote' = wrote
  BY <1>15 DEF Aside, Replace, outcome
<1>16. ASSUME NEW p \in Procs, Certify(p) PROVE wrote' = wrote
  BY <1>16 DEF Certify, outcome
<1>17. ASSUME NEW p \in Procs, Load(p) PROVE wrote' = wrote
  BY <1>17 DEF Load, outcome
<1>18. ASSUME NEW p \in Procs, Compare(p) PROVE wrote' = wrote
  BY <1>18 DEF Compare, outcome
<1>19. ASSUME NEW p \in Procs, Drop(p) PROVE wrote' = wrote
  BY <1>19 DEF Drop, outcome
<1>20. ASSUME NEW p \in Procs, Verify(p) PROVE wrote' = wrote
  BY <1>20 DEF Verify, outcome
<1>21. ASSUME NEW p \in Procs, Unlock(p) PROVE wrote' = wrote
  BY <1>21 DEF Unlock, outcome
<1>22. ASSUME NEW p \in Procs, Record(p) PROVE wrote' = wrote
  BY <1>22 DEF Record, outcome
<1>23. ASSUME NEW p \in Procs, Archive(p) PROVE wrote' = wrote
  BY <1>23 DEF Archive, outcome
<1>24. ASSUME NEW p \in Procs, Report(p) PROVE CleanPass
  <2>1. Clean(p)
    BY <1>24 DEF IInv, Ready, Memory, Guard, Clean, Released, Fitted, Using, Storing,
       Report, Is
  <2>2. wrote' = wrote \/ wrote' = [wrote EXCEPT ![p] = TRUE] BY <1>24 DEF Report, outcome
  <2> QED BY <1>0, <2>1, <2>2 DEF CleanPass
<1>25. ASSUME NEW p \in Procs, ReportFail(p) PROVE wrote' = wrote
  BY <1>25 DEF ReportFail, outcome
<1>26. ASSUME NEW p \in Procs, Killed(p) PROVE wrote' = wrote
  BY <1>26 DEF Killed, outcome
<1>27. ASSUME NEW k \in Kinds, Damaged(k) PROVE wrote' = wrote BY <1>27 DEF Damaged, outcome
<1>28. CASE UNCHANGED vars BY <1>28 DEF vars, outcome, CleanPass
<1> QED BY <1>1, <1>2, <1>3, <1>4, <1>5, <1>6, <1>7, <1>8, <1>9, <1>10, <1>11, <1>12,
   <1>13, <1>14, <1>15, <1>16, <1>17, <1>18, <1>19, <1>20, <1>21, <1>22, <1>23, <1>24,
      <1>25, <1>26, <1>27, <1>28 DEF CleanPass, Next, Working, Acquiring, Timeouts

\* A worker writes a passing result only after its model is gone, its locks are
\* given back and its resources were found within their limits.
THEOREM CleanBeforePass == Spec => PassAfterCleanup
<1>1. IInv /\ [Next]_vars => CleanPass BY StepPassesClean
<1> QED BY <1>1, Invariance, PTL DEF Spec, PassAfterCleanup, CleanPass, Clean

=============================================================================
