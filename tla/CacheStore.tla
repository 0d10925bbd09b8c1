------------------------------ MODULE CacheStore ------------------------------
(***************************************************************************)
(* The filesystem cache of cache/store.py, used by several processes.      *)
(*                                                                         *)
(* An entry is a directory of three files.  A publisher holds the lock of  *)
(* the identity, builds the directory aside (payload, then manifest, then  *)
(* completion marker) and renames it into place; an invalid entry is       *)
(* renamed into quarantine under the same lock.  read_validated takes no   *)
(* lock: it looks at the files one after the other while others rename the *)
(* directory away or into place under its path.                            *)
(***************************************************************************)
EXTENDS Naturals, FiniteSets

CONSTANTS
    Procs,         \* processes that share the cache directory
    Keys,          \* cache identities
    Payloads,      \* payload contents, identified by their SHA-256
    NoDir,         \* the entry's path does not exist
    Missing,       \* a file that is absent from the directory
    Bad,           \* a file with contents that do not parse or match anything
    Free,          \* an identity lock nobody holds
    MaxManifests   \* bound: manifests written in one behaviour

VARIABLES
    entry,       \* entry[k]: the directory at entry_path(k)
    quarantine,  \* quarantine[k]: the directories moved to .quarantine
    lock,        \* lock[k]: the holder of the identity lock of k
    pc,          \* pc[p]: the next step of p in the call it makes
    job,         \* job[p]: the call and its arguments
    txn,         \* txn[p]: the transaction directory p is filling
    view,        \* view[p]: what a lock-free read has taken from the files
    result,      \* result[p]: what the last call of p returned or raised
    written,     \* manifests written so far, to tell manifests apart
    seen         \* history: manifests valid at the path since the read began

vars == <<entry, quarantine, lock, pc, job, txn, view, result, written, seen>>
-------------------------------------------------------------------------------
\* A manifest names the payload's hash; its time stamp, here a serial number,
\* tells two publications of the same payload apart.
Manifests == [payload : Payloads, serial : 1 .. MaxManifests]

\* The completion marker names the manifest (by hash) it completes.
File(S) == S \cup {Missing, Bad}
Dirs == [payload : File(Payloads), manifest : File(Manifests),
         marker : File(Manifests)]
EmptyDir == [payload |-> Missing, manifest |-> Missing, marker |-> Missing]

\* The constants that stand for "nothing" and "garbage" are neither contents
\* nor each other.
ASSUME StoreAssumption ==
    /\ MaxManifests \in Nat
    /\ {Missing, Bad, NoDir} \cap (Payloads \cup Manifests) = {}
    /\ NoDir \notin Dirs
    /\ NoDir # Bad
    /\ Free \notin Procs

\* _validate_directory on files that do not move meanwhile.
Valid(d) ==
    /\ d # NoDir
    /\ d.manifest \in Manifests
    /\ d.marker = d.manifest
    /\ d.payload = d.manifest.payload

Jobs == [op : {"read", "quarantine"}, key : Keys, payload : {Missing}]
        \cup [op : {"publish", "compute"}, key : Keys, payload : Payloads]
NoJob == [op |-> "none"]

Reading == {"list", "manifest", "marker", "payload", "rehash"}
Writing == {"tx_payload", "tx_manifest", "tx_marker", "tx_replace"}
Holding == {"locked", "computing", "publishing", "published"} \cup Writing
Steps == {"idle", "exists", "waiting"} \cup Reading \cup Holding

Outcomes == [kind : {"none", "miss", "hit", "published", "reused", "moved",
                     "integrity", "refused", "oserror", "timeout", "failed"},
             manifest : File(Manifests), payload : File(Payloads)]
Outcome(kind) == [kind |-> kind, manifest |-> Missing, payload |-> Missing]

TypeOK ==
    /\ entry \in [Keys -> Dirs \cup {NoDir}]
    /\ quarantine \in [Keys -> SUBSET Dirs]
    /\ lock \in [Keys -> Procs \cup {Free}]
    /\ pc \in [Procs -> Steps]
    /\ job \in [Procs -> Jobs \cup {NoJob}]
    /\ txn \in [Procs -> Dirs]
    /\ view \in [Procs -> Dirs]
    /\ result \in [Procs -> Outcomes]
    /\ written \in 0 .. MaxManifests
    /\ seen \in [Procs -> SUBSET Manifests]

Init ==
    /\ entry = [k \in Keys |-> NoDir]
    /\ quarantine = [k \in Keys |-> {}]
    /\ lock = [k \in Keys |-> Free]
    /\ pc = [p \in Procs |-> "idle"]
    /\ job = [p \in Procs |-> NoJob]
    /\ txn = [p \in Procs |-> EmptyDir]
    /\ view = [p \in Procs |-> EmptyDir]
    /\ result = [p \in Procs |-> Outcome("none")]
    /\ written = 0
    /\ seen = [p \in Procs |-> {}]
-------------------------------------------------------------------------------
(* How a call ends: a result, and every resource of the call given back.   *)

Key(p) == job[p].key
Goto(p, step) == pc' = [pc EXCEPT ![p] = step]

Answer(p, outcome) ==
    /\ Goto(p, "idle")
    /\ result' = [result EXCEPT ![p] = outcome]
    /\ job' = [job EXCEPT ![p] = NoJob]
    /\ txn' = [txn EXCEPT ![p] = EmptyDir]
    /\ view' = [view EXCEPT ![p] = EmptyDir]

\* The with statement releases the lock whether the call returns or raises.
Return(p, outcome) ==
    /\ Answer(p, outcome)
    /\ lock' = [lock EXCEPT ![Key(p)] = Free]

(* Definitions named Faulty... are what a plausible mistake would make of    *)
(* the definition that follows them; no specification uses them.            *)

(* read_validated takes no lock; publish_*, quarantine_invalid and the     *)
(* scheduler's compute-once section do.                                    *)
Begin(p, call) ==
    /\ pc[p] = "idle"
    /\ job' = [job EXCEPT ![p] = call]
    /\ result' = [result EXCEPT ![p] = Outcome("none")]
    /\ Goto(p, IF call.op \in {"read", "quarantine"} THEN "exists" ELSE "waiting")
    /\ UNCHANGED <<entry, quarantine, lock, txn, view, written>>

\* directory.exists(): a miss returns; a read goes on to the files, and
\* quarantine_invalid to the lock.
Exists(p) ==
    /\ pc[p] = "exists"
    /\ IF entry[Key(p)] = NoDir
       THEN Answer(p, Outcome("miss"))
       ELSE /\ Goto(p, IF job[p].op = "read" THEN "list" ELSE "waiting")
            /\ UNCHANGED <<job, txn, view, result>>
    /\ UNCHANGED <<entry, quarantine, lock, written>>
-------------------------------------------------------------------------------
(* The lock-free validation, one file access per step.  Whatever happens   *)
(* to the directory, a step reads what is at the path then.                *)

At(p) == entry[Key(p)]
ReadNext(p, field, value, step) ==
    /\ view' = [view EXCEPT ![p] = [@ EXCEPT ![field] = value]]
    /\ Goto(p, step)
    /\ UNCHANGED <<job, txn, result>>

\* iterdir is outside the try block: a directory that has just been renamed
\* away raises FileNotFoundError, not CacheIntegrityError.
ListFiles(p) ==
    /\ pc[p] = "list"
    /\ \/ /\ At(p) = NoDir
          /\ Answer(p, Outcome("oserror"))
       \/ /\ At(p) # NoDir
          /\ Missing \in {At(p).payload, At(p).manifest, At(p).marker}
          /\ Answer(p, Outcome("integrity"))
       \/ /\ At(p) # NoDir
          /\ Missing \notin {At(p).payload, At(p).manifest, At(p).marker}
          /\ Goto(p, "manifest")
          /\ UNCHANGED <<job, txn, view, result>>
    /\ UNCHANGED <<entry, quarantine, lock, written>>

ReadManifest(p) ==
    /\ pc[p] = "manifest"
    /\ IF At(p) # NoDir /\ At(p).manifest \in Manifests
       THEN ReadNext(p, "manifest", At(p).manifest, "marker")
       ELSE Answer(p, Outcome("integrity"))
    /\ UNCHANGED <<entry, quarantine, lock, written>>

ReadMarker(p) ==
    /\ pc[p] = "marker"
    /\ IF At(p) # NoDir /\ At(p).marker \in Manifests
       THEN ReadNext(p, "marker", At(p).marker, "payload")
       ELSE Answer(p, Outcome("integrity"))
    /\ UNCHANGED <<entry, quarantine, lock, written>>

\* Faulty: trusts the hash in the manifest instead of hashing the payload.
FaultyHashPayload(p) ==
    /\ pc[p] = "payload"
    /\ ReadNext(p, "payload", view[p].manifest.payload, "rehash")
    /\ UNCHANGED <<entry, quarantine, lock, written>>

\* The payload's hash must be the one in the manifest read before.
HashPayload(p) ==
    /\ pc[p] = "payload"
    /\ IF At(p) # NoDir /\ At(p).payload = view[p].manifest.payload
       THEN ReadNext(p, "payload", At(p).payload, "rehash")
       ELSE Answer(p, Outcome("integrity"))
    /\ UNCHANGED <<entry, quarantine, lock, written>>

\* The marker read before must name the manifest now at the path, and the
\* payload hashed before; the artifact is made from the manifest read first.
RehashManifest(p) ==
    /\ pc[p] = "rehash"
    /\ IF /\ At(p) # NoDir
          /\ view[p].marker = At(p).manifest
          /\ view[p].marker.payload = view[p].payload
       THEN Answer(p, [kind |-> "hit", manifest |-> view[p].manifest,
                       payload |-> view[p].payload])
       ELSE Answer(p, Outcome("integrity"))
    /\ UNCHANGED <<entry, quarantine, lock, written>>
-------------------------------------------------------------------------------
(* Calls made under the identity lock.                                     *)

\* Faulty: goes on without the lock.
FaultyAcquire(p) ==
    /\ pc[p] = "waiting"
    /\ lock' = [lock EXCEPT ![Key(p)] = p]
    /\ Goto(p, IF job[p].op = "publish" THEN "publishing" ELSE "locked")
    /\ UNCHANGED <<entry, quarantine, job, txn, view, result, written>>

Acquire(p) ==
    /\ pc[p] = "waiting"
    /\ lock[Key(p)] = Free
    /\ lock' = [lock EXCEPT ![Key(p)] = p]
    /\ Goto(p, IF job[p].op = "publish" THEN "publishing" ELSE "locked")
    /\ UNCHANGED <<entry, quarantine, job, txn, view, result, written>>

\* Another process has kept the lock past the deadline: CacheLockTimeout.
LockTimeout(p) ==
    /\ pc[p] = "waiting"
    /\ lock[Key(p)] # Free
    /\ Answer(p, Outcome("timeout"))
    /\ UNCHANGED <<entry, quarantine, lock, written>>

MoveAside(k) ==
    /\ quarantine' = [quarantine EXCEPT ![k] = @ \cup {entry[k]}]
    /\ entry' = [entry EXCEPT ![k] = NoDir]

\* Faulty: acts on what the caller saw before it waited for the lock.
FaultyQuarantineLocked(p) ==
    /\ pc[p] = "locked"
    /\ job[p].op = "quarantine"
    /\ IF At(p) = NoDir
       THEN Return(p, Outcome("miss")) /\ UNCHANGED <<entry, quarantine>>
       ELSE MoveAside(Key(p)) /\ Return(p, Outcome("moved"))
    /\ UNCHANGED written

\* quarantine_invalid_locked: valid entries are refused, never moved.
QuarantineLocked(p) ==
    /\ pc[p] = "locked"
    /\ job[p].op = "quarantine"
    /\ \/ /\ At(p) = NoDir
          /\ Return(p, Outcome("miss"))
          /\ UNCHANGED <<entry, quarantine>>
       \/ /\ At(p) # NoDir /\ ~Valid(At(p))
          /\ MoveAside(Key(p))
          /\ Return(p, Outcome("moved"))
       \/ /\ Valid(At(p))
          /\ Return(p, Outcome("refused"))
          /\ UNCHANGED <<entry, quarantine>>
    /\ UNCHANGED written

\* The scheduler's section: look again under the lock, reuse what is valid,
\* move an invalid entry aside, and only then compute.
LookAgain(p) ==
    /\ pc[p] = "locked"
    /\ job[p].op = "compute"
    /\ \/ /\ Valid(At(p))
          /\ Return(p, [kind |-> "hit", manifest |-> Missing,
                        payload |-> At(p).payload])
          /\ UNCHANGED <<entry, quarantine>>
       \/ /\ At(p) # NoDir /\ ~Valid(At(p))
          /\ MoveAside(Key(p))
          /\ Goto(p, "computing")
          /\ UNCHANGED <<lock, job, txn, view, result>>
       \/ /\ At(p) = NoDir
          /\ Goto(p, "computing")
          /\ UNCHANGED <<entry, quarantine, lock, job, txn, view, result>>
    /\ UNCHANGED written

\* The worker passes and its file is published, or it fails.
Compute(p) ==
    /\ pc[p] = "computing"
    /\ \/ /\ Goto(p, "publishing")
          /\ UNCHANGED <<lock, job, txn, view, result>>
       \/ Return(p, Outcome("failed"))
    /\ UNCHANGED <<entry, quarantine, written>>
-------------------------------------------------------------------------------
(* _publish_stream, one durable effect per step.                           *)

CheckDestination(p) ==
    /\ pc[p] = "publishing"
    /\ \/ /\ At(p) = NoDir
          /\ Goto(p, "tx_payload")
          /\ UNCHANGED <<lock, job, txn, view, result>>
       \/ /\ Valid(At(p)) /\ At(p).payload = job[p].payload
          /\ Return(p, [kind |-> "reused", manifest |-> Missing,
                        payload |-> At(p).payload])
       \/ /\ At(p) # NoDir
          /\ ~(Valid(At(p)) /\ At(p).payload = job[p].payload)
          /\ Return(p, Outcome("integrity"))
    /\ UNCHANGED <<entry, quarantine, written>>

WriteFile(p, field, value, step) ==
    /\ txn' = [txn EXCEPT ![p] = [@ EXCEPT ![field] = value]]
    /\ Goto(p, step)
    /\ UNCHANGED <<entry, quarantine, lock, job, view, result>>

WritePayload(p) ==
    /\ pc[p] = "tx_payload"
    /\ WriteFile(p, "payload", job[p].payload, "tx_manifest")
    /\ UNCHANGED written

WriteManifest(p) ==
    /\ pc[p] = "tx_manifest"
    /\ written < MaxManifests
    /\ written' = written + 1
    /\ WriteFile(p, "manifest",
                 [payload |-> job[p].payload, serial |-> written + 1], "tx_marker")

\* "The completion marker is deliberately the last transaction file."
WriteMarker(p) ==
    /\ pc[p] = "tx_marker"
    /\ WriteFile(p, "marker", txn[p].manifest, "tx_replace")
    /\ UNCHANGED written

\* Faulty: exposes the entry before the completion marker is written.
FaultyReplace(p) ==
    /\ pc[p] \in {"tx_marker", "tx_replace"}
    /\ At(p) = NoDir
    /\ entry' = [entry EXCEPT ![Key(p)] = txn[p]]
    /\ Goto(p, "published")
    /\ UNCHANGED <<quarantine, lock, job, txn, view, result, written>>

\* The transaction is validated and renamed into place.  os.replace fails on
\* a directory that is already there, and the winner is then looked at.
Replace(p) ==
    /\ pc[p] = "tx_replace"
    /\ Valid(txn[p])
    /\ IF At(p) = NoDir
       THEN /\ entry' = [entry EXCEPT ![Key(p)] = txn[p]]
            /\ Goto(p, "published")
            /\ UNCHANGED <<lock, job, txn, view, result>>
       ELSE /\ IF Valid(At(p)) /\ At(p).payload = job[p].payload
               THEN Return(p, [kind |-> "reused", manifest |-> Missing,
                               payload |-> At(p).payload])
               ELSE Return(p, Outcome("integrity"))
            /\ UNCHANGED entry
    /\ UNCHANGED <<quarantine, written>>

\* The entry is validated once more at its final path.
ConfirmPublished(p) ==
    /\ pc[p] = "published"
    /\ IF Valid(At(p))
       THEN Return(p, [kind |-> "published", manifest |-> Missing,
                       payload |-> At(p).payload])
       ELSE Return(p, Outcome("integrity"))
    /\ UNCHANGED <<entry, quarantine, written>>

\* A write fails, the disk is full, or the source file changed while it was
\* copied: the transaction directory is removed and the error propagates
\* (its type is not told apart).
AbortTransaction(p) ==
    /\ pc[p] \in Writing
    /\ Return(p, Outcome("failed"))
    /\ UNCHANGED <<entry, quarantine, written>>
-------------------------------------------------------------------------------
(* The environment.                                                        *)

\* A process dies at any point: the OS drops its lock, its transaction
\* directory stays behind under a name no reader looks at.
Crash(p) ==
    /\ pc[p] # "idle"
    /\ Answer(p, Outcome("none"))
    /\ lock' = [k \in Keys |-> IF lock[k] = p THEN Free ELSE lock[k]]
    /\ UNCHANGED <<entry, quarantine, written>>

\* One file of a published entry is truncated, overwritten or removed.
DamageFile(k) ==
    /\ Valid(entry[k])
    /\ \E field \in {"payload", "manifest", "marker"}, bad \in {Missing, Bad} :
          entry' = [entry EXCEPT ![k] = [@ EXCEPT ![field] = bad]]
    /\ UNCHANGED <<quarantine, lock, pc, job, txn, view, result, written>>

CallStep(p) ==
    \/ Exists(p)
    \/ ListFiles(p) \/ ReadManifest(p) \/ ReadMarker(p)
    \/ HashPayload(p) \/ RehashManifest(p)
    \/ Acquire(p) \/ LockTimeout(p)
    \/ QuarantineLocked(p) \/ LookAgain(p) \/ Compute(p)
    \/ CheckDestination(p) \/ WritePayload(p) \/ WriteManifest(p)
    \/ WriteMarker(p) \/ Replace(p) \/ ConfirmPublished(p)
    \/ AbortTransaction(p)

\* History: the manifests of the valid entries a read in progress has lived
\* through, the one at its start included.
Observe ==
    seen' = [p \in Procs |->
        IF job'[p].op # "read" THEN {}
        ELSE (IF pc[p] = "idle" THEN {} ELSE seen[p])
             \cup (IF Valid(entry'[job'[p].key])
                   THEN {entry'[job'[p].key].manifest} ELSE {})]

Step ==
    \/ \E p \in Procs : CallStep(p) \/ Crash(p)
    \/ \E p \in Procs, call \in Jobs : Begin(p, call)
    \/ \E k \in Keys : DamageFile(k)

Next == Step /\ Observe

Spec == Init /\ [][Next]_vars
-------------------------------------------------------------------------------
(* Properties.                                                             *)

\* Compute once, publish once: from the moment a process finds no reusable
\* entry under the lock until its rename, the path stays empty, whoever else
\* computes, publishes or quarantines; the winner branch of os.replace
\* (store.py:203-211) is never needed.
WorkOnlyOnMiss ==
    \A p \in Procs :
        pc[p] \in {"computing"} \cup Writing => entry[Key(p)] = NoDir

\* Quarantine never costs a good artifact: however the decision to quarantine
\* raced with a publication, what was moved did not validate.
QuarantineOnlyInvalid ==
    \A k \in Keys : \A d \in quarantine[k] : ~Valid(d)

\* A lock-free read that reports a payload is linearizable although its file
\* accesses may straddle a quarantine and a republication: some entry with
\* that payload was valid at the path while the read was in progress.
ReadsAreGenuine ==
    [][\A p \in Procs :
          RehashManifest(p) /\ result'[p].kind = "hit" =>
              \E m \in seen[p] : m.payload = result'[p].payload]_vars

\* "completion marker does not identify this manifest" (store.py:311): the
\* check is meant to reject an artifact whose manifest the marker does not
\* name, so the artifact returned should be described by the manifest of some
\* valid entry.
ArtifactFromCertifiedManifest ==
    [][\A p \in Procs :
          RehashManifest(p) /\ result'[p].kind = "hit" =>
              result'[p].manifest \in seen[p]]_vars

\* The cache as its callers see it, entry by entry.
Cell(d) == IF d = NoDir THEN NoDir ELSE IF Valid(d) THEN d.payload ELSE Bad

Register == INSTANCE CacheRegister
    WITH Absent <- NoDir, Broken <- Bad, value <- [k \in Keys |-> Cell(entry[k])]

\* The store implements the write-once register: an entry appears complete,
\* in one step, where there was none; only damage changes it; only a broken
\* one is moved aside.  Crashes at every step of a publication included.
ImplementsRegister == Register!RegisterSpec
=============================================================================
