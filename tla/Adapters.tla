------------------------------ MODULE Adapters ------------------------------
(***************************************************************************)
(* Workers that fit a model through an adapter (models/adapters/base.py)   *)
(* and share the machine's GPU lock and one adapter cache                  *)
(* (models/adapters/cache.py).                                             *)
(*                                                                         *)
(* A worker runs one of three programs: "validate", a foundation model in  *)
(* a process of its own, and "classical", a model fitted in the parent     *)
(* (both of scripts/validate_model_adapters.py), and "smoke", a condition  *)
(* of the smoke experiment (experiments/execution.py).  The first two put  *)
(* their result through the cache and compare what comes back.  Workers of *)
(* one program have one identity: the models of a seed, or the predictions *)
(* of a fixture, which the cache is to hold once.                          *)
(*                                                                         *)
(* A worker is killed at any step, by a watchdog or otherwise; the thread  *)
(* that samples its memory runs beside it; entries are damaged on disk.    *)
(***************************************************************************)
EXTENDS Naturals

CONSTANTS
    Procs,      \* workers; each runs one program after another
    Mixes,      \* bound: the sets of jobs that run in one behaviour
    Bytes,      \* what fitting and predicting may yield, as serialized
    Close,      \* pairs whose predictions agree within the tolerance
    Free,       \* a lock nobody holds
    Absent,     \* a file that does not exist
    Broken,     \* a file that does not validate
    None,       \* no object
    MaxFaults   \* bound: entries damaged in one behaviour

\* A job is a program, and whether its model is a foundation model.
Jobs ==
    {[program |-> "validate", foundation |-> TRUE],
     [program |-> "classical", foundation |-> FALSE]}
        \cup [program : {"smoke"}, foundation : BOOLEAN]
NoJob == [program |-> "none", foundation |-> FALSE]

VARIABLES
    pc,         \* pc[p]: the step p is at
    job,        \* job[p]: its program, and whether its model is a foundation model
    model,      \* model[p]: the fitted model in memory
    restored,   \* restored[p]: the model or prediction read back from the cache
    tracker,    \* tracker[p]: the AdapterResourceTracker
    after,      \* after[p]: what a release of the adapter leads to
    hold,       \* hold[p]: the envelope read under the lock; the certificate made
    result,     \* result[p]: the result file, which an earlier worker may have left
    exit,       \* exit[p]: how the worker ended
    wrote,      \* history: this worker wrote a passing result
    entry,      \* entry[k]: the file of the cache's artifact of kind k
    storeLock,  \* storeLock[k]: who holds the lock of its key
    gpuLock,    \* who holds the GPU lock
    faults,     \* entries damaged so far
    mix         \* the jobs that run

adapter == <<model, restored, tracker, after>>
outcome == <<result, exit, wrote>>
cache == <<entry, storeLock>>
setting == <<faults, mix>>
vars == <<pc, job, adapter, hold, outcome, cache, gpuLock, setting>>
-------------------------------------------------------------------------------
Kinds == {"model", "prediction"}
Certificates == {c \in [existing : Bytes, candidate : Bytes] : c.existing # c.candidate}
Envelopes == [payload : Bytes, cert : Certificates \cup {None}]

\* A certificate vouches for two different payloads, and only for these.
FaultyVouches(cert, existing, candidates) == cert.candidate \in candidates
Vouches(cert, existing, candidates) ==
    cert.existing = existing /\ cert.candidate \in candidates

\* _load_validated(): a certificate must be about the payload it comes with.
Valid(e) == e \in Envelopes /\ (e.cert # None => Vouches(e.cert, e.payload, Bytes))

ASSUME AdapterAssumption ==
    /\ Mixes \subseteq SUBSET Jobs
    /\ Close \subseteq Bytes \X Bytes
    /\ Free \notin Procs
    /\ None \notin Bytes
    /\ {Absent, Broken} \cap Envelopes = {}
    /\ MaxFaults \in Nat

Fitting == {"prepare", "lock", "build", "fit", "limits"}
Storing == {"examine", "write", "aside", "attach"}
Using == {"predict", "store", "certify", "load", "compare"} \cup Storing
Ending == {"drop", "verify", "unlock", "record", "archive", "report", "reportFail"}
Steps == {"idle"} \cup Fitting \cup Using \cup Ending

NewTracker == [stage |-> "none", over |-> FALSE, clean |-> FALSE]
NoHold == [envelope |-> None, cert |-> None]

AdaptersTypeOK ==
    /\ pc \in [Procs -> Steps]
    /\ job \in [Procs -> Jobs \cup {NoJob}]
    /\ model \in [Procs -> Bytes \cup {None}]
    /\ restored \in [Procs -> Bytes \cup {None}]
    /\ tracker \in [Procs -> [stage : {"none", "running", "stopped"},
                              over : BOOLEAN, clean : BOOLEAN]]
    /\ after \in [Procs -> {"none", "raised", "failed", "passed", "zero", "nonzero"}]
    /\ hold \in [Procs -> [envelope : Envelopes \cup {None},
                           cert : Certificates \cup {None}]]
    /\ result \in [Procs -> {"none", "PASS", "FAIL"}]
    /\ exit \in [Procs -> {"none", "zero", "nonzero"}]
    /\ wrote \in [Procs -> BOOLEAN]
    /\ entry \in [Kinds -> Envelopes \cup {Absent, Broken}]
    /\ storeLock \in [Kinds -> Procs \cup {Free}]
    /\ gpuLock \in Procs \cup {Free}
    /\ faults \in 0 .. MaxFaults
    /\ mix \in Mixes

Init ==
    /\ pc = [p \in Procs |-> "idle"]
    /\ job = [p \in Procs |-> NoJob]
    /\ model = [p \in Procs |-> None]
    /\ restored = [p \in Procs |-> None]
    /\ tracker = [p \in Procs |-> NewTracker]
    /\ after = [p \in Procs |-> "none"]
    /\ hold = [p \in Procs |-> NoHold]
    /\ result = [p \in Procs |-> "none"]
    /\ exit = [p \in Procs |-> "none"]
    /\ wrote = [p \in Procs |-> FALSE]
    /\ entry = [k \in Kinds |-> Absent]
    /\ storeLock = [k \in Kinds |-> Free]
    /\ gpuLock = Free
    /\ faults = 0
    /\ mix \in Mixes
-------------------------------------------------------------------------------
Is(p, step) == pc[p] = step
Go(p, step) == pc' = [pc EXCEPT ![p] = step]
Program(p) == job[p].program
\* The key of the program's artifact: workers of one program make one identity
\* of the same data, rows, model and seed (_cache_identity).
Kind(p) == IF Program(p) = "classical" THEN "model" ELSE "prediction"
Unheld(p) == [k \in Kinds |-> IF storeLock[k] = p THEN Free ELSE storeLock[k]]

\* release() is called, and then what then says.
Release(p, then) ==
    /\ Go(p, "drop")
    /\ after' = [after EXCEPT ![p] = then]

\* An exception in fit() has fit() release the adapter before the handler of
\* the program does so again.
FaultyFitRaises(p) ==
    /\ Go(p, "unlock")
    /\ after' = [after EXCEPT ![p] = "raised"]
FitRaises(p) == Release(p, "raised")
Fails(p) == Release(p, "failed")

\* The worker ends, and its objects are gone.
End(p, code) ==
    /\ Go(p, "idle")
    /\ exit' = [exit EXCEPT ![p] = code]
    /\ job' = [job EXCEPT ![p] = NoJob]
    /\ model' = [model EXCEPT ![p] = None]
    /\ restored' = [restored EXCEPT ![p] = None]
    /\ tracker' = [tracker EXCEPT ![p] = NewTracker]
    /\ after' = [after EXCEPT ![p] = "none"]
    /\ hold' = [hold EXCEPT ![p] = NoHold]
-------------------------------------------------------------------------------
(* fit()                                                                   *)

\* A worker starts.  The result file of a validation has a fixed name, and what
\* is there stays until it is replaced; the others begin with an empty place.
\* Planning, the checks before the try of fit() and create_adapter() may fail.
Begin(p) ==
    /\ Is(p, "idle")
    /\ \E j \in mix :
          /\ job' = [job EXCEPT ![p] = j]
          /\ result' = [result EXCEPT ![p] =
                 IF j.program = "validate" THEN @ ELSE "none"]
    /\ Go(p, "prepare") \/ Go(p, "reportFail")
    /\ exit' = [exit EXCEPT ![p] = "none"]
    /\ wrote' = [wrote EXCEPT ![p] = FALSE]
    /\ UNCHANGED <<adapter, hold, cache, gpuLock, setting>>

\* _prepare_device(): a foundation model needs its checkpoint, registered and
\* read back, and the GPU lock, on the CPU as well.
Prepare(p) ==
    /\ Is(p, "prepare")
    /\ \/ Go(p, IF job[p].foundation THEN "lock" ELSE "build") /\ UNCHANGED after
       \/ job[p].foundation /\ FitRaises(p)
    /\ UNCHANGED <<job, model, restored, tracker, hold, outcome, cache, gpuLock, setting>>

AcquireGpu(p) ==
    /\ Is(p, "lock")
    /\ gpuLock = Free
    /\ gpuLock' = p
    /\ Go(p, "build")
    /\ UNCHANGED <<job, adapter, hold, outcome, cache, setting>>

GpuLockTimeout(p) ==
    /\ Is(p, "lock")
    /\ gpuLock # Free
    /\ FitRaises(p)
    /\ UNCHANGED <<job, model, restored, tracker, hold, outcome, cache, gpuLock, setting>>

\* The memory of machine and GPU suffices, and the tracker starts its thread.
Build(p) ==
    /\ Is(p, "build")
    /\ \/ /\ Go(p, "fit")
          /\ tracker' = [tracker EXCEPT ![p] =
                 [stage |-> "running", over |-> FALSE, clean |-> FALSE]]
          /\ UNCHANGED after
       \/ FitRaises(p) /\ UNCHANGED tracker
    /\ UNCHANGED <<job, model, restored, hold, outcome, cache, gpuLock, setting>>

Samples(p, over) ==
    tracker' = [tracker EXCEPT ![p] = [stage |-> @.stage, over |-> over, clean |-> @.clean]]

\* The thread of the tracker finds the hard limit exceeded.
Overrun(p) ==
    /\ tracker[p].stage = "running"
    /\ ~tracker[p].over
    /\ Samples(p, TRUE)
    /\ UNCHANGED <<pc, job, model, restored, after, hold, outcome, cache, gpuLock, setting>>

Fit(p) ==
    /\ Is(p, "fit")
    /\ \/ /\ \E b \in Bytes : model' = [model EXCEPT ![p] = b]
          /\ Go(p, "limits")
          /\ UNCHANGED after
       \/ FitRaises(p) /\ UNCHANGED model
    /\ UNCHANGED <<job, restored, tracker, hold, outcome, cache, gpuLock, setting>>

\* _enforce_resource_limits(); incomplete telemetry is refused as well.
Limits(p) ==
    /\ Is(p, "limits")
    /\ \/ ~tracker[p].over /\ Go(p, "predict") /\ UNCHANGED after
       \/ FitRaises(p)
    /\ UNCHANGED <<job, model, restored, tracker, hold, outcome, cache, gpuLock, setting>>
-------------------------------------------------------------------------------
(* predict_proba() and the way through the cache                           *)

\* All predictions of the program; each ends with the look at the limits.
Predict(p) ==
    /\ Is(p, "predict")
    /\ \/ /\ ~tracker[p].over
          /\ \/ Program(p) # "smoke" /\ Go(p, "store") /\ UNCHANGED after
             \/ Program(p) = "smoke" /\ Release(p, "passed")
       \/ Fails(p)
    /\ UNCHANGED <<job, model, restored, tracker, hold, outcome, cache, gpuLock, setting>>

\* What the call held is let go.
Lets(p) == hold' = [hold EXCEPT ![p] = NoHold]

\* save_fitted() or roundtrip_prediction() takes the lock of the key.
FaultyStoreAcquire(p) ==
    /\ Is(p, "store")
    /\ storeLock' = [storeLock EXCEPT ![Kind(p)] = p]
    /\ Go(p, "examine")
    /\ UNCHANGED <<job, adapter, hold, outcome, entry, gpuLock, setting>>
StoreAcquire(p) ==
    /\ Is(p, "store")
    /\ storeLock[Kind(p)] = Free
    /\ storeLock' = [storeLock EXCEPT ![Kind(p)] = p]
    /\ Go(p, "examine")
    /\ UNCHANGED <<job, adapter, hold, outcome, entry, gpuLock, setting>>

StoreTimeout(p) ==
    /\ Is(p, "store")
    /\ storeLock[Kind(p)] # Free
    /\ Fails(p)
    /\ Lets(p)
    /\ UNCHANGED <<job, model, restored, tracker, outcome, cache, gpuLock, setting>>

\* The call goes on, under the lock, or is over with the entry as it is.
Locked(p) == UNCHANGED <<job, model, restored, tracker, outcome, cache, gpuLock, setting>>
Unlocked(p) ==
    /\ storeLock' = Unheld(p)
    /\ Lets(p)
    /\ UNCHANGED <<job, model, restored, tracker, outcome, entry, gpuLock, setting>>

\* save_fitted(), of classical models only, stores what other bytes are in the
\* way of once more, with a certificate; roundtrip_prediction() does not.
SavesAgain(p) == Program(p) = "classical" /\ hold[p].cert = None

\* _store() with what is there: the same bytes, other bytes, which only a
\* certificate about them lets pass, or nothing.
Examine(p) ==
    LET e == entry[Kind(p)]
        cert == hold[p].cert
        same == Valid(e) /\ e.payload = model[p]
        other == Valid(e) /\ e.payload # model[p]
        vouched == cert # None /\ Vouches(cert, e.payload, {model[p]}) IN
    /\ Is(p, "examine")
    /\ \/ /\ same
          /\ Go(p, "load") /\ UNCHANGED after
          /\ Unlocked(p)
       \/ /\ other /\ vouched
          /\ Go(p, "attach") /\ UNCHANGED after
          /\ hold' = [hold EXCEPT ![p] = [envelope |-> e, cert |-> cert]]
          /\ Locked(p)
       \/ /\ other /\ ~vouched /\ SavesAgain(p)
          /\ Go(p, "certify") /\ UNCHANGED after
          /\ Unlocked(p)
       \/ /\ (other /\ ~vouched /\ ~SavesAgain(p)) \/ (e = Absent /\ cert # None)
          /\ Fails(p)
          /\ Unlocked(p)
       \/ /\ e = Absent /\ cert = None
          /\ Go(p, "write") /\ UNCHANGED <<after, hold>>
          /\ Locked(p)
       \/ /\ e # Absent /\ ~Valid(e)
          /\ Go(p, "aside") /\ UNCHANGED <<after, hold>>
          /\ Locked(p)

\* One atomic replace of the file, under the lock; it may raise before.
Replace(p, e, next) ==
    /\ storeLock' = Unheld(p)
    /\ \/ /\ entry' = [entry EXCEPT ![Kind(p)] = e]
          /\ next
       \/ UNCHANGED entry /\ Fails(p)
    /\ Lets(p)
    /\ UNCHANGED <<job, model, restored, tracker, outcome, gpuLock, setting>>

Loads(p) == Go(p, "load") /\ UNCHANGED after

Write(p) ==
    /\ Is(p, "write")
    /\ Replace(p, [payload |-> model[p], cert |-> None], Loads(p))

\* The envelope read before, with the certificate in place of its own.
Attach(p) ==
    /\ Is(p, "attach")
    /\ Replace(p, [payload |-> hold[p].envelope.payload, cert |-> hold[p].cert], Loads(p))

\* What did not validate is moved aside, and the call fails all the same.
Aside(p) ==
    /\ Is(p, "aside")
    /\ Replace(p, Absent, Fails(p))

\* _semantic_equivalence_certificate(): the model in the cache, loaded without
\* the lock, must predict what this one predicts; then it is stored again.
Certify(p) ==
    LET e == entry[Kind(p)] IN
    /\ Is(p, "certify")
    /\ \/ /\ Valid(e) /\ e.payload # model[p] /\ <<e.payload, model[p]>> \in Close
          /\ hold' = [hold EXCEPT ![p] =
                 [envelope |-> None,
                  cert |-> [existing |-> e.payload, candidate |-> model[p]]]]
          /\ Go(p, "store") /\ UNCHANGED after
       \/ Fails(p) /\ UNCHANGED hold
    /\ UNCHANGED <<job, model, restored, tracker, outcome, cache, gpuLock, setting>>

\* load_fitted() into another adapter, or load_json(), without the lock.
Load(p) ==
    LET e == entry[Kind(p)] IN
    /\ Is(p, "load")
    /\ \/ /\ Valid(e)
          /\ restored' = [restored EXCEPT ![p] = e.payload]
          /\ Go(p, "compare") /\ UNCHANGED after
       \/ Fails(p) /\ UNCHANGED restored
    /\ UNCHANGED <<job, model, tracker, hold, outcome, cache, gpuLock, setting>>

\* What came back predicts, or is, what was stored.
Compare(p) ==
    /\ Is(p, "compare")
    /\ \/ <<restored[p], model[p]>> \in Close /\ Release(p, "passed")
       \/ Fails(p)
    /\ UNCHANGED <<job, model, restored, tracker, hold, outcome, cache, gpuLock, setting>>
-------------------------------------------------------------------------------
(* release(): references first, then the look at what is left, the lock last. *)

Drop(p) ==
    /\ Is(p, "drop")
    /\ model' = [model EXCEPT ![p] = None]
    /\ restored' = [restored EXCEPT ![p] = None]
    /\ Go(p, "verify")
    /\ UNCHANGED <<job, tracker, after, hold, outcome, cache, gpuLock, setting>>

\* The thread of the tracker is stopped after a last sample.  Only a GPU can
\* have something left.
Verify(p) ==
    /\ Is(p, "verify")
    /\ \/ tracker[p].stage = "none" /\ UNCHANGED tracker
       \/ /\ tracker[p].stage # "none"
          /\ \E over \in {TRUE, tracker[p].over}, clean \in {TRUE, ~job[p].foundation} :
                tracker' = [tracker EXCEPT ![p] =
                    [stage |-> "stopped", over |-> over, clean |-> clean]]
    /\ Go(p, "unlock")
    /\ UNCHANGED <<job, model, restored, after, hold, outcome, cache, gpuLock, setting>>

\* A release by the handler goes on to the failing result; the parent of a
\* classical model has none to write.
Unlock(p) ==
    /\ Is(p, "unlock")
    /\ gpuLock' = IF gpuLock = p THEN Free ELSE gpuLock
    /\ \/ /\ \/ after[p] = "raised" /\ Release(p, "failed")
             \/ after[p] = "passed" /\ Go(p, "record") /\ UNCHANGED after
             \/ /\ after[p] = "failed" /\ Program(p) # "classical"
                /\ Go(p, "reportFail") /\ UNCHANGED after
          /\ UNCHANGED <<job, model, restored, tracker, hold, result, exit>>
       \/ after[p] \in {"zero", "nonzero"} /\ End(p, after[p]) /\ UNCHANGED result
       \/ /\ after[p] = "failed" /\ Program(p) = "classical"
          /\ result' = [result EXCEPT ![p] = "FAIL"]
          /\ End(p, "nonzero")
    /\ UNCHANGED <<wrote, cache, setting>>

\* resource_record(), after the release, must show limits kept and nothing left.
FaultyRecord(p) ==
    /\ Is(p, "record")
    /\ Go(p, IF Program(p) = "smoke" THEN "archive" ELSE "report")
    /\ UNCHANGED <<job, adapter, hold, outcome, cache, gpuLock, setting>>
Record(p) ==
    /\ Is(p, "record")
    /\ \E over \in {TRUE, tracker[p].over} :
          /\ Samples(p, over)
          /\ \/ /\ ~over /\ tracker[p].clean
                /\ Go(p, IF Program(p) = "smoke" THEN "archive" ELSE "report")
                /\ UNCHANGED after
             \/ Fails(p)
    /\ UNCHANGED <<job, model, restored, hold, outcome, cache, gpuLock, setting>>

\* The smoke worker packs its predictions and moves the archive into place.
Archive(p) ==
    /\ Is(p, "archive")
    /\ \/ Go(p, "report") /\ UNCHANGED after
       \/ Fails(p)
    /\ UNCHANGED <<job, model, restored, tracker, hold, outcome, cache, gpuLock, setting>>

\* The passing result is written, or returned.  A smoke worker ends with it; a
\* half-written one is in the way of the failing result that should follow.
Objects == <<job, model, restored, tracker, hold>>
Report(p) ==
    /\ Is(p, "report")
    /\ \/ /\ result' = [result EXCEPT ![p] = "PASS"]
          /\ wrote' = [wrote EXCEPT ![p] = TRUE]
          /\ \/ Program(p) = "smoke" /\ End(p, "zero")
             \/ Program(p) # "smoke" /\ Release(p, "zero") /\ UNCHANGED <<Objects, exit>>
       \/ /\ Fails(p) \/ (Program(p) = "smoke" /\ Release(p, "nonzero"))
          /\ UNCHANGED <<Objects, outcome>>
    /\ UNCHANGED <<cache, gpuLock, setting>>

\* The failing result is written, unless that fails too.
ReportFail(p) ==
    /\ Is(p, "reportFail")
    /\ \E written \in BOOLEAN :
          /\ result' = [result EXCEPT ![p] = IF written THEN "FAIL" ELSE @]
          /\ \/ Program(p) = "smoke" /\ End(p, IF written THEN "zero" ELSE "nonzero")
             \/ Program(p) # "smoke" /\ Release(p, "nonzero") /\ UNCHANGED <<Objects, exit>>
    /\ UNCHANGED <<wrote, cache, gpuLock, setting>>
-------------------------------------------------------------------------------
(* What happens outside of the worker.                                     *)

\* The parent takes a worker for passed: a failing exit code overrules what its
\* result file says.
FaultyPasses(p) == exit[p] # "none" /\ result[p] = "PASS"
Passes(p) == exit[p] = "zero" /\ result[p] = "PASS"

\* The process is killed; the system frees its memory and its locks.
Killed(p) ==
    /\ ~Is(p, "idle")
    /\ End(p, "nonzero")
    /\ storeLock' = Unheld(p)
    /\ gpuLock' = IF gpuLock = p THEN Free ELSE gpuLock
    /\ UNCHANGED <<result, wrote, entry, setting>>

Damaged(k) ==
    /\ faults < MaxFaults
    /\ faults' = faults + 1
    /\ Valid(entry[k])
    /\ entry' = [entry EXCEPT ![k] = Broken]
    /\ UNCHANGED <<pc, job, adapter, hold, outcome, storeLock, gpuLock, mix>>
-------------------------------------------------------------------------------
Working(p) ==
    \/ Prepare(p) \/ Build(p) \/ Fit(p) \/ Limits(p) \/ Predict(p)
    \/ Examine(p) \/ Write(p) \/ Attach(p) \/ Aside(p)
    \/ Certify(p) \/ Load(p) \/ Compare(p)
    \/ Drop(p) \/ Verify(p) \/ Unlock(p) \/ Record(p)
    \/ Archive(p) \/ Report(p) \/ ReportFail(p)
Acquiring(p) == AcquireGpu(p) \/ StoreAcquire(p)
Timeouts(p) == GpuLockTimeout(p) \/ StoreTimeout(p)

Next ==
    \/ \E p \in Procs :
          Begin(p) \/ Working(p) \/ Acquiring(p) \/ Timeouts(p) \/ Overrun(p) \/ Killed(p)
    \/ \E k \in Kinds : Damaged(k)

Spec == Init /\ [][Next]_vars
-------------------------------------------------------------------------------
(* Properties.                                                             *)

\* A fitted foundation model, on whichever device, is in memory only under the
\* GPU lock: from before it is loaded until after its references are dropped,
\* also when fitting fails half-way, the handler releases again, or the worker
\* is killed.
ModelUnderLock ==
    \A p \in Procs : job[p].foundation /\ model[p] # None => gpuLock = p

\* Whatever a worker writes over, a certificate in the cache is about the
\* payload it comes with, and was issued for a model that agrees with it,
\* though the model was compared with an entry read some steps earlier and
\* without the lock.
CertificatesHold ==
    \A k \in Kinds :
        entry[k] \in Envelopes /\ entry[k].cert # None =>
            /\ entry[k].cert.existing = entry[k].payload
            /\ <<entry[k].payload, entry[k].cert.candidate>> \in Close

\* A valid artifact keeps its payload: workers that computed other bytes for the
\* same identity, at the same time or later, never replace it.
PayloadIsKept ==
    [][\A k \in Kinds :
           Valid(entry[k]) /\ Valid(entry'[k]) => entry'[k].payload = entry[k].payload]_vars

\* A passing result counts only if the worker that wrote it ended well, and was
\* written by that worker: what an earlier one left under the same name never
\* makes a worker pass.
PassIsOwn == \A p \in Procs : Passes(p) => wrote[p]

\* A passing result is written only when the model is gone, the lock is given
\* back, the limits were kept and nothing was left on the GPU.
PassAfterCleanup ==
    [][\A p \in Procs :
           wrote'[p] /\ ~wrote[p] =>
               /\ model[p] = None /\ restored[p] = None /\ gpuLock # p
               /\ tracker[p].stage = "stopped" /\ tracker[p].clean /\ ~tracker[p].over]_vars
=============================================================================
