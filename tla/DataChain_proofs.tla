-------------------------- MODULE DataChain_proofs --------------------------
(***************************************************************************)
(* Proofs about DataChain, for any number of processes, faults, refreshes  *)
(* and download attempts: its types, that a directory is moved to a free   *)
(* place, that a source manifest comes with its descriptions, that no      *)
(* processed directory that fits is moved aside, and, with a second        *)
(* invariant, that a validation of the split passes no mixture of contents *)
(* and saw the source and the tables that the split names.                 *)
(***************************************************************************)
EXTENDS DataChain, TLAPS

(* The inductive invariant: types, what is true of the files, and what a    *)
(* process at a step may rely on.  The history variable is left to the end: *)
(* no step depends on it.                                                  *)

FilesOK ==
    /\ raw \in {Absent, Good} \cup {Bad(n) : n \in 1 .. MaxFaults}
    /\ described \in BOOLEAN
    /\ source \in SourceFiles \cup {Absent}
    /\ processed \in Tables \cup {Absent}
    /\ split \in Splits \cup {Absent, Broken}

ControlOK ==
    /\ lock \in [Layers -> Procs \cup {Free}]
    /\ pc \in [Procs -> Steps]
    /\ leftover \in BOOLEAN
    /\ hold \in [Procs -> Holds]
    /\ result \in [Procs -> Results]

BoundsOK ==
    /\ serials \in Nat
    /\ refreshed \in 0 .. MaxRefresh
    /\ faults \in 0 .. MaxFaults

\* Manifests name source manifests that exist or have existed, and tables are
\* never made torn, so that tables that do not fit never will.
Dated ==
    /\ source # Absent => described /\ source.serial <= serials
    /\ processed # Absent =>
          source # Absent /\ processed.made.kind # "Torn" /\ processed.source <= serials

Unfit == processed = Absent \/ ~TablesFit(processed)

RawSteps == {"offline", "fetch", "cached", "aside", "download", "promote", "describe",
             "manifest"}
DataSteps == {"examine", "dataAside", "parse", "write", "verify", "dataPromote"}
SplitSteps == {"lookSplit", "splitAside", "hashData", "assign", "splitReplace", "splitPromote"}

\* A process inside a layer holds its lock; only a reader validates without one.
Locked(p, step, h) ==
    /\ step \in RawSteps => lock["raw"] = p
    /\ step \in DataSteps => lock["data"] = p
    /\ step \in SplitSteps => lock["split"] = p
    /\ step \in Validating /\ h.pass # "reader" => lock["split"] = p
    /\ step \in {"readManifest"} \cup Judging =>
          h.pass \in {"reader", "first", "second", "temporary"}
    /\ step = "rejectTemporary" => h.pass = "reader"

\* What a process found or did at earlier steps is still so.
Prepared(step, h) ==
    /\ step = "manifest" => described
    /\ step \in {"dataLock"} \cup DataSteps => source # Absent
    /\ step = "dataAside" => Unfit
    /\ step \in {"parse", "write", "verify", "dataPromote"} => processed = Absent
    /\ step = "write" => h.content \in Contents /\ h.content.kind # "Torn"
    /\ step \in {"hashData", "assign"} => h.content \in Contents
    /\ step = "assign" => h.named \in DataManifests
    /\ step \in {"verify", "dataPromote"} =>
          h.table \in Tables /\ h.table.made.kind # "Torn" /\ h.table.source <= serials
    /\ step = "splitPromote" => split = Absent /\ h.folds \in Splits
    /\ step = "splitReplace" => h.folds \in Splits
    /\ step \in Validating /\ h.pass = "temporary" => h.folds \in Splits

Ready(p, step, h) == Locked(p, step, h) /\ Prepared(step, h)

Typed == FilesOK /\ ControlOK /\ BoundsOK
IInv == Typed /\ Dated /\ \A p \in Procs : Ready(p, pc[p], hold[p])

LEMMA Distinct ==
    /\ Absent # Broken /\ Absent \notin Contents
    /\ Absent \notin SourceFiles /\ Absent \notin Tables /\ Absent \notin Splits
    /\ Broken \notin SourceFiles /\ Broken \notin Tables /\ Broken \notin Splits
    /\ \A p \in Procs : p # Free
  BY ChainAssumption

LEMMA ContentsOK ==
    /\ \A n \in Nat : Torn(n) \in Contents /\ Torn(n).kind = "Torn"
    /\ FilesOK /\ raw # Absent => raw \in Contents /\ raw.kind # "Torn"
<1>1. Good \in Contents /\ Good.kind # "Torn"
  BY DEF Good, Contents
<1>2. ASSUME NEW n \in Nat
      PROVE  /\ Bad(n) \in Contents /\ Bad(n).kind # "Torn"
             /\ Torn(n) \in Contents /\ Torn(n).kind = "Torn"
  BY DEF Bad, Torn, Contents
<1>3. \A n \in 1 .. MaxFaults : n \in Nat
  BY ChainAssumption
<1>4. QED
  BY <1>1, <1>2, <1>3 DEF FilesOK

LEMMA EmptyHoldOK == EmptyHold \in Holds
  BY ChainAssumption DEF EmptyHold, Holds, Passes, Modes

LEMMA InitIInv == Init => IInv
<1> SUFFICES ASSUME Init PROVE IInv
  OBVIOUS
<1>1. FilesOK /\ Dated
  BY DEF Init, FilesOK, Dated
<1>a. BoundsOK
  BY ChainAssumption DEF Init, BoundsOK
<1>2. ControlOK
  BY EmptyHoldOK DEF Init, ControlOK, Layers, Steps, Results
<1>3. ASSUME NEW p \in Procs PROVE Ready(p, pc[p], hold[p])
  BY DEF Init, Ready, Locked, Prepared, RawSteps, DataSteps, SplitSteps, Validating, Reading, Judging
<1>4. QED
  BY <1>1, <1>a, <1>2, <1>3 DEF IInv, Typed
-------------------------------------------------------------------------------
(* How the control moves.                                                  *)

LEMMA KeepOK ==
    ASSUME ControlOK, NEW p \in Procs, NEW step \in Steps, NEW h \in Holds, Keep(p, step, h)
    PROVE  pc' \in [Procs -> Steps] /\ hold' \in [Procs -> Holds]
  BY DEF ControlOK, Keep, Goto

LEMMA ContinueOK ==
    ASSUME ControlOK, NEW p \in Procs, NEW step \in Steps, NEW h \in Holds,
           Continue(p, step, h)
    PROVE  ControlOK'
  BY KeepOK DEF ControlOK, Continue

LEMMA EndOK ==
    ASSUME ControlOK, NEW p \in Procs, NEW r \in Results, End(p, r)
    PROVE  ControlOK'
  BY EmptyHoldOK DEF ControlOK, End, Goto, Released, Steps, Layers

LEMMA TakeOK ==
    ASSUME ControlOK, NEW p \in Procs, NEW from \in Steps, NEW layer \in Layers,
           NEW to \in Steps, Take(p, from, layer, to)
    PROVE  ControlOK'
  BY DEF ControlOK, Take, Goto, locals

LEMMA HandOnOK == ASSUME ControlOK, NEW p \in Procs, HandOn(p) PROVE ControlOK'
<1>1. pc' \in [Procs -> Steps] /\ hold' \in [Procs -> Holds]
  BY EmptyHoldOK, KeepOK DEF HandOn, Steps
<1>2. lock' \in [Layers -> Procs \cup {Free}]
  BY DEF ControlOK, HandOn, Layers
<1>3. QED
  BY <1>1, <1>2 DEF ControlOK, HandOn

\* Another process stays ready if its locks stay its own and if, in a layer it
\* has locked, nobody else changes what it relies on.
LEMMA OthersReady ==
    ASSUME NEW q \in Procs, Typed, Typed', Ready(q, pc[q], hold[q]),
           pc'[q] = pc[q], hold'[q] = hold[q],
           \A l \in Layers : lock[l] = q => lock'[l] = q,
           described => described', source # Absent => source' # Absent,
           serials <= serials',
           lock["split"] = q /\ split = Absent => split' = Absent,
           lock["data"] = q /\ processed = Absent => processed' = Absent,
           lock["data"] = q /\ Unfit => Unfit'
    PROVE  Ready(q, pc[q], hold[q])'
<1> USE DEF Ready
<1>1. Locked(q, pc[q], hold[q])'
  BY DEF Locked, Layers
<1>2. ASSUME hold[q].table \in Tables, hold[q].table.source <= serials
      PROVE  hold[q].table.source <= serials'
  BY <1>2 DEF Typed, BoundsOK, Tables, Serials
<1>3. Prepared(pc[q], hold[q])'
  BY <1>2 DEF Prepared, Locked, DataSteps, SplitSteps
<1>4. QED
  BY <1>1, <1>3

\* A step that changes no file keeps the invariant if it goes to a step the
\* process is ready for.
Quiet == UNCHANGED files /\ serials' = serials /\ BoundsOK'

LEMMA ContinueKeeps ==
    ASSUME IInv, NEW p \in Procs, NEW step \in Steps, NEW h \in Holds,
           Continue(p, step, h), Ready(p, step, h), Quiet
    PROVE  IInv'
<1> USE DEF IInv, Quiet, files
<1>1. Typed' /\ Dated'
  BY ContinueOK DEF Typed, FilesOK, Dated
<1>2. Ready(p, pc[p], hold[p])'
  BY DEF Continue, Keep, Goto, Ready, Locked, Prepared, Typed, ControlOK, Unfit, TablesFit
<1>3. ASSUME NEW q \in Procs, q # p PROVE Ready(q, pc[q], hold[q])'
  BY <1>1, <1>3, OthersReady
  DEF Continue, Keep, Goto, Typed, ControlOK, BoundsOK, Unfit, TablesFit
<1>4. QED
  BY <1>1, <1>2, <1>3

LEMMA GoKeeps ==
    ASSUME IInv, NEW p \in Procs, NEW step \in Steps, Go(p, step), Ready(p, step, hold[p]),
           Quiet
    PROVE  IInv'
  BY ContinueKeeps DEF Go, IInv, Typed, ControlOK

LEMMA EndKeeps ==
    ASSUME IInv, NEW p \in Procs, NEW r \in Results, End(p, r), Quiet
    PROVE  IInv'
<1> USE DEF IInv, Quiet, files
<1>1. Typed' /\ Dated'
  BY EndOK DEF Typed, FilesOK, Dated
<1>2. Ready(p, pc[p], hold[p])'
  BY DEF End, Goto, Typed, ControlOK, Ready, Locked, Prepared, RawSteps, DataSteps,
      SplitSteps, Validating, Reading, Judging
<1>3. ASSUME NEW q \in Procs, q # p PROVE Ready(q, pc[q], hold[q])'
  BY <1>1, <1>3, OthersReady
  DEF End, Released, Goto, Typed, ControlOK, BoundsOK, Unfit, TablesFit
<1>4. QED
  BY <1>1, <1>2, <1>3

LEMMA RaiseKeeps == ASSUME IInv, NEW p \in Procs, Raise(p), Quiet PROVE IInv'
  BY EndKeeps DEF Raise, Results

LEMMA HandOnKeeps ==
    ASSUME IInv, NEW p \in Procs, HandOn(p),
           pc[p] \in RawSteps, source # Absent, Quiet
    PROVE  IInv'
<1> USE DEF IInv, Quiet, files
<1>1. Typed' /\ Dated'
  BY HandOnOK DEF Typed, FilesOK, Dated
<1>2. Ready(p, pc[p], hold[p])'
  BY DEF HandOn, Keep, Goto, Typed, ControlOK, Ready, Locked, Prepared, RawSteps, DataSteps,
      SplitSteps, Validating, Reading, Judging
<1>3. lock["raw"] = p
  BY DEF Ready, Locked
<1>4. ASSUME NEW q \in Procs, q # p PROVE Ready(q, pc[q], hold[q])'
  BY <1>1, <1>3, <1>4, OthersReady
  DEF HandOn, Keep, Goto, Typed, ControlOK, BoundsOK, Unfit, TablesFit
<1>5. QED
  BY <1>1, <1>2, <1>4

LEMMA TakeKeeps ==
    ASSUME IInv, NEW p \in Procs, NEW from \in Steps, NEW layer \in Layers, NEW to \in Steps,
           Take(p, from, layer, to), Ready(p, to, hold[p])'
    PROVE  IInv'
<1> USE DEF IInv, Take, files, locals, bounds
<1>1. Typed' /\ Dated'
  BY TakeOK DEF Typed, FilesOK, BoundsOK, Dated
<1>2. Ready(p, pc[p], hold[p])'
  BY DEF Goto, Typed, ControlOK
<1>3. ASSUME NEW q \in Procs, q # p PROVE Ready(q, pc[q], hold[q])'
  BY <1>1, <1>3, Distinct, OthersReady
  DEF Goto, Typed, ControlOK, BoundsOK, Unfit, TablesFit
<1>4. QED
  BY <1>1, <1>2, <1>3
-------------------------------------------------------------------------------
(* How calls begin and end, and the waits for the locks.                   *)

LEMMA BeginKeeps ==
    ASSUME IInv, NEW p \in Procs, NEW j \in Jobs, Begin(p, j) PROVE IInv'
<1> USE DEF IInv, files
<1> DEFINE h == IF j.op = "validate" THEN [EmptyHold EXCEPT !.pass = "reader"]
                ELSE [EmptyHold EXCEPT !.mode = j.mode]
           step == IF j.op = "prepare" THEN "rawLock"
                   ELSE IF j.op = "generate" THEN "splitLock"
                   ELSE IF j.mode = "all" THEN "rejectTemporary" ELSE "readManifest"
<1>1. j.op \in {"prepare", "generate", "validate"} /\ (j.op # "validate" => j.mode \in Modes)
  BY DEF Jobs, Modes
<1>2. step \in Steps /\ Keep(p, step, h)
  BY <1>1 DEF Begin, Steps, Validating
<1>3. h \in Holds
  BY <1>1, EmptyHoldOK DEF Holds, Passes
<1>4. BoundsOK' /\ serials' = serials
  BY ChainAssumption DEF Begin, Typed, BoundsOK
<1>5. ControlOK'
  BY <1>2, <1>3, KeepOK DEF Begin, Typed, ControlOK, Results
<1>6. Typed' /\ Dated'
  BY <1>4, <1>5 DEF Begin, Typed, FilesOK, Dated
<1>7. step \in {"rawLock", "splitLock"}
      \/ (step \in {"rejectTemporary", "readManifest"} /\ h.pass = "reader")
  <2>1. CASE j.op = "validate"
    <3>1. h = [EmptyHold EXCEPT !.pass = "reader"] /\ step \in {"rejectTemporary", "readManifest"}
      BY <2>1
    <3>2. h.pass = "reader"
      BY <2>1 DEF EmptyHold
    <3>3. QED
      BY <3>1, <3>2
  <2>2. CASE j.op \in {"prepare", "generate"}
    BY <2>2
  <2>3. QED
    BY <1>1, <2>1, <2>2
<1>8. Ready(p, step, h)'
  BY <1>7 DEF Ready, Locked, Prepared, RawSteps, DataSteps, SplitSteps, Validating, Reading, Judging
<1>9. Ready(p, pc[p], hold[p])'
  BY <1>2, <1>8 DEF Keep, Goto, Typed, ControlOK
<1>10. ASSUME NEW q \in Procs, q # p PROVE Ready(q, pc[q], hold[q])'
  BY <1>2, <1>4, <1>6, <1>10, OthersReady
  DEF Begin, Keep, Goto, Typed, ControlOK, BoundsOK, Unfit, TablesFit
<1>11. QED
  BY <1>6, <1>9, <1>10

LEMMA TakesKeep ==
    ASSUME IInv, NEW p \in Procs, TakeRawLock(p) \/ TakeDataLock(p) \/ TakeSplitLock(p)
    PROVE  IInv'
<1> USE DEF Ready, Locked, Prepared, RawSteps, DataSteps, SplitSteps, Validating, Reading, Judging,
        Steps, Layers
<1>1. CASE TakeRawLock(p)
  <2>1. PICK to \in {"offline", "fetch"} : Take(p, "rawLock", "raw", to)
    BY <1>1 DEF TakeRawLock
  <2>2. Ready(p, to, hold[p])'
    BY <2>1 DEF Take, IInv, Typed, ControlOK
  <2>3. QED
    BY <2>1, <2>2, TakeKeeps
<1>2. CASE TakeDataLock(p)
  <2>1. Take(p, "dataLock", "data", "examine")
    BY <1>2 DEF TakeDataLock
  <2>2. Ready(p, "examine", hold[p])'
    BY <2>1 DEF Take, Is, files, IInv, Typed, ControlOK
  <2>3. QED
    BY <2>1, <2>2, TakeKeeps
<1>3. CASE TakeSplitLock(p)
  <2>1. Take(p, "splitLock", "split", "lookSplit")
    BY <1>3 DEF TakeSplitLock
  <2>2. Ready(p, "lookSplit", hold[p])'
    BY <2>1 DEF Take, IInv, Typed, ControlOK
  <2>3. QED
    BY <2>1, <2>2, TakeKeeps
<1>4. QED
  BY <1>1, <1>2, <1>3

LEMMA LockTimeoutKeeps == ASSUME IInv, NEW p \in Procs, LockTimeout(p) PROVE IInv'
  BY RaiseKeeps DEF LockTimeout, Quiet, bounds, IInv, Typed, BoundsOK

LEMMA CrashKeeps == ASSUME IInv, NEW p \in Procs, Crash(p) PROVE IInv'
  BY ChainAssumption, EndKeeps DEF Crash, Fault, Quiet, Results, IInv, Typed, BoundsOK
-------------------------------------------------------------------------------
(* acquire_raw.                                                            *)

LEMMA OfflineKeeps == ASSUME IInv, NEW p \in Procs, Offline(p) PROVE IInv'
<1>1. Quiet
  BY DEF Offline, Quiet, bounds, IInv, Typed, BoundsOK
<1>2. CASE RawFits /\ described
  <2>1. source # Absent /\ source.serial \in Serials
    BY <1>2 DEF RawFits, IInv, Typed, FilesOK, SourceFiles
  <2>2. pc[p] \in RawSteps /\ HandOn(p)
    BY <1>2 DEF Offline, Is, RawSteps
  <2>3. QED
    BY <1>1, <2>1, <2>2, HandOnKeeps
<1>3. CASE ~(RawFits /\ described)
  BY <1>1, <1>3, RaiseKeeps DEF Offline
<1>4. QED
  BY <1>2, <1>3

LEMMA FetchKeeps == ASSUME IInv, NEW p \in Procs, Fetch(p) PROVE IInv'
<1>1. Quiet
  BY DEF Fetch, Quiet, NetworkFails, IInv, Typed, BoundsOK
<1>2. CASE Go(p, "cached")
  <2>1. Ready(p, "cached", hold[p])
    BY DEF Fetch, Is, IInv, Ready, Locked, Prepared, RawSteps, DataSteps, SplitSteps, Validating, Reading, Judging
  <2>2. QED
    BY <1>1, <1>2, <2>1, GoKeeps DEF Steps
<1>3. CASE Raise(p)
  BY <1>1, <1>3, RaiseKeeps
<1>4. QED
  BY <1>2, <1>3 DEF Fetch

LEMMA CachedKeeps == ASSUME IInv, NEW p \in Procs, Cached(p) PROVE IInv'
<1>1. Quiet
  BY DEF Cached, Quiet, bounds, IInv, Typed, BoundsOK
<1>2. ASSUME NEW step \in {"download", "aside"}, NEW h \in Holds, Continue(p, step, h) PROVE IInv'
  <2>1. Ready(p, step, h)
    BY DEF Cached, Is, IInv, Ready, Locked, Prepared, RawSteps, DataSteps, SplitSteps, Validating,
        Reading, Judging
  <2>2. QED
    BY <1>1, <1>2, <2>1, ContinueKeeps DEF Steps
<1>3. ASSUME RawFits, HandOn(p) PROVE IInv'
  <2>1. source # Absent /\ pc[p] \in RawSteps
    BY <1>3 DEF RawFits, Cached, Is, RawSteps
  <2>2. QED
    BY <1>1, <1>3, <2>1, HandOnKeeps
<1>4. hold[p] \in Holds /\ EmptyHold \in Holds
  BY EmptyHoldOK DEF IInv, Typed, ControlOK
<1>5. QED
  BY <1>1, <1>2, <1>3, <1>4, RaiseKeeps DEF Cached, Go

LEMMA DownloadKeeps == ASSUME IInv, NEW p \in Procs, Download(p) PROVE IInv'
<1>1. Quiet
  BY DEF Download, Quiet, NetworkFails, IInv, Typed, BoundsOK
<1>2. ASSUME NEW step \in {"promote", "download"}, NEW h \in Holds, Continue(p, step, h)
      PROVE  IInv'
  <2>1. Ready(p, step, h)
    BY DEF Download, Is, IInv, Ready, Locked, Prepared, RawSteps, DataSteps, SplitSteps,
        Validating, Reading, Judging
  <2>2. QED
    BY <1>1, <1>2, <2>1, ContinueKeeps DEF Steps
<1>3. CASE Continue(p, "promote", EmptyHold)
  BY <1>2, <1>3, EmptyHoldOK
<1>4. CASE hold[p].tries < Attempts /\ Continue(p, "download", [hold[p] EXCEPT !.tries = @ + 1])
  <2>1. [hold[p] EXCEPT !.tries = @ + 1] \in Holds
    BY <1>4, ChainAssumption DEF IInv, Typed, ControlOK, Holds
  <2>2. QED
    BY <1>2, <1>4, <2>1
<1>5. QED
  BY <1>1, <1>3, <1>4, RaiseKeeps DEF Download

\* A step of acquire_raw that changes files: what other processes rely on is
\* kept, since it holds the lock of the source and touches no other layer.
LEMMA RawFilesKeep ==
    ASSUME IInv, NEW p \in Procs, NEW step \in Steps, NEW h \in Holds, Continue(p, step, h),
           FilesOK', BoundsOK', Dated', Ready(p, step, h)', UNCHANGED <<processed, split>>,
           described => described', source # Absent => source' # Absent,
           serials <= serials', Unfit => Unfit'
    PROVE  IInv'
<1> USE DEF IInv
<1>1. Typed'
  BY ContinueOK DEF Typed
<1>2. Ready(p, pc[p], hold[p])'
  BY DEF Continue, Keep, Goto, Typed, ControlOK
<1>3. ASSUME NEW q \in Procs, q # p PROVE Ready(q, pc[q], hold[q])'
  BY <1>1, <1>3, OthersReady DEF Continue, Keep, Goto, Typed, ControlOK
<1>4. QED
  BY <1>1, <1>2, <1>3

LEMMA RawStepsKeep ==
    ASSUME IInv, NEW p \in Procs, RawAside(p) \/ Promote(p) \/ Describe(p) PROVE IInv'
<1> USE DEF IInv, Typed, bounds, Is
<1>1. PICK step \in {"download", "describe", "manifest"}, h \in Holds :
          Continue(p, step, h) /\ (step = "manifest" => Describe(p))
  BY EmptyHoldOK DEF RawAside, Promote, Describe, Go, ControlOK
<1>2. FilesOK' /\ BoundsOK' /\ Dated'
  BY DEF RawAside, Promote, Describe, FilesOK, BoundsOK, Dated
<1>3. UNCHANGED <<source, processed, split, serials>> /\ (described => described')
      /\ (step = "manifest" => described')
  BY <1>1 DEF RawAside, Promote, Describe
<1>4. lock["raw"] = p /\ lock' = lock
  BY <1>1 DEF RawAside, Promote, Describe, Go, Continue, Ready, Locked, RawSteps
<1>5. Unfit => Unfit'
  BY <1>3 DEF Unfit, TablesFit
<1>6. Ready(p, step, h)'
  BY <1>1, <1>3, <1>4 DEF Ready, Locked, Prepared, RawSteps, DataSteps, SplitSteps, Validating, Reading, Judging
<1>7. serials <= serials'
  BY <1>3 DEF BoundsOK
<1>8. QED
  BY <1>1, <1>2, <1>3, <1>5, <1>6, <1>7, RawFilesKeep DEF Steps

\* A new source manifest: no table that was unfit fits it.
LEMMA NewSerial ==
    ASSUME IInv, UNCHANGED processed, source' # Absent, source'.serial = serials + 1
    PROVE  Unfit'
<1>1. CASE processed = Absent
  BY <1>1 DEF Unfit
<1>2. CASE processed # Absent
  <2>1. processed \in Tables /\ processed.source <= serials /\ serials \in Nat
    BY <1>2 DEF IInv, Typed, FilesOK, BoundsOK, Dated
  <2>2. processed.source # serials + 1
    BY <2>1 DEF Tables, Serials
  <2>3. QED
    BY <2>2 DEF Unfit, TablesFit
<1>3. QED
  BY <1>1, <1>2

LEMMA NewSource ==
    ASSUME IInv, UNCHANGED <<raw, described, processed, split>>, described,
           NEW state \in {"fine", "altered", "garbled"}, serials' = serials + 1,
           source' = [serial |-> serials + 1, state |-> state]
    PROVE  FilesOK' /\ Dated' /\ Unfit' /\ source' # Absent /\ serials <= serials'
<1>1. serials \in Nat
  BY DEF IInv, Typed, BoundsOK
<1>2. source' \in SourceFiles /\ source' # Absent /\ source'.serial = serials'
  BY <1>1, Distinct DEF SourceFiles, Serials
<1>3. processed # Absent => processed.source <= serials'
  BY <1>1 DEF IInv, Typed, FilesOK, Dated, Tables, Serials
<1>4. Dated'
  BY <1>1, <1>2, <1>3 DEF IInv, Dated
<1>5. Unfit'
  BY <1>2, NewSerial
<1>6. QED
  BY <1>1, <1>2, <1>4, <1>5 DEF IInv, Typed, FilesOK

LEMMA WriteManifestKeeps == ASSUME IInv, NEW p \in Procs, WriteManifest(p) PROVE IInv'
<1> USE DEF IInv, WriteManifest, Is
<1>1. described /\ lock["raw"] = p
  BY DEF Ready, Locked, Prepared, RawSteps
<1>2. FilesOK' /\ Dated' /\ Unfit' /\ source' # Absent /\ serials <= serials'
  BY <1>1, NewSource
<1>3. serials + 1 \in Nat
  BY DEF Typed, BoundsOK
<1>4. Typed'
  BY <1>2, <1>3, HandOnOK DEF Typed, BoundsOK
<1>5. Ready(p, pc[p], hold[p])'
  BY <1>2 DEF HandOn, Keep, Goto, Typed, ControlOK, Ready, Locked, Prepared, RawSteps, DataSteps,
      SplitSteps, Validating, Reading, Judging
<1>6. ASSUME NEW q \in Procs, q # p PROVE Ready(q, pc[q], hold[q])'
  BY <1>1, <1>2, <1>4, <1>6, OthersReady DEF HandOn, Keep, Goto, Typed, ControlOK
<1>7. QED
  BY <1>2, <1>4, <1>5, <1>6
-------------------------------------------------------------------------------
(* process_dataset.                                                        *)

LEMMA ExamineKeeps == ASSUME IInv, NEW p \in Procs, Examine(p) PROVE IInv'
<1> USE DEF IInv, Examine, Is
<1>1. Quiet /\ lock["data"] = p /\ source # Absent
  BY DEF Quiet, bounds, Typed, BoundsOK, Ready, Locked, Prepared, DataSteps
<1>2. CASE Go(p, "parse") /\ processed = Absent
  <2>1. Ready(p, "parse", hold[p])
    BY <1>1, <1>2 DEF Ready, Locked, Prepared, RawSteps, SplitSteps, Validating, Reading,
      Judging
  <2>2. QED
    BY <1>1, <1>2, <2>1, GoKeeps DEF Steps
<1>3. CASE Go(p, "dataAside") /\ ~TablesFit(processed)
  <2>1. Ready(p, "dataAside", hold[p])
    BY <1>1, <1>3 DEF Ready, Locked, Prepared, RawSteps, SplitSteps, Validating, Reading, Judging, Unfit
  <2>2. QED
    BY <1>1, <1>3, <2>1, GoKeeps DEF Steps
<1>4. QED
  BY <1>1, <1>2, <1>3, RaiseKeeps, EndKeeps DEF Results

LEMMA DataAsideKeeps == ASSUME IInv, NEW p \in Procs, DataAside(p) PROVE IInv'
<1> USE DEF IInv, DataAside, Is, bounds
<1>1. lock["data"] = p /\ source # Absent
  BY DEF Ready, Locked, Prepared, DataSteps
<1>2. Typed' /\ Dated' /\ Unfit'
  BY ContinueOK DEF Go, Steps, Typed, FilesOK, ControlOK, BoundsOK, Dated, Unfit
<1>3. Ready(p, pc[p], hold[p])'
  BY <1>1 DEF Go, Continue, Keep, Goto, Typed, ControlOK, Ready, Locked, Prepared, RawSteps,
      DataSteps, SplitSteps, Validating, Reading,
      Judging
<1>4. ASSUME NEW q \in Procs, q # p PROVE Ready(q, pc[q], hold[q])'
  BY <1>1, <1>2, <1>4, OthersReady
  DEF Go, Continue, Keep, Goto, Typed, ControlOK, BoundsOK
<1>5. QED
  BY <1>2, <1>3, <1>4

LEMMA ParseKeeps == ASSUME IInv, NEW p \in Procs, Parse(p) PROVE IInv'
<1> USE DEF IInv, Parse, Is
<1>1. Quiet /\ lock["data"] = p /\ source # Absent /\ processed = Absent
  BY DEF Quiet, bounds, Typed, BoundsOK, Ready, Locked, Prepared, DataSteps
<1> DEFINE h == [hold[p] EXCEPT !.content = raw]
<1>2. CASE raw # Absent /\ Continue(p, "write", h)
  <2>1. raw \in Contents /\ raw.kind # "Torn"
    BY <1>2, ContentsOK DEF Typed
  <2>2. h \in Holds /\ h.content = raw
    BY <2>1 DEF Typed, ControlOK, Holds
  <2> HIDE DEF h
  <2>3. Ready(p, "write", h)
    BY <1>1, <2>1, <2>2 DEF Ready, Locked, Prepared, RawSteps, SplitSteps, Validating, Reading,
      Judging
  <2>4. QED
    BY <1>1, <1>2, <2>2, <2>3, ContinueKeeps DEF Steps
<1>3. QED
  BY <1>1, <1>2, RaiseKeeps

LEMMA WriteKeeps == ASSUME IInv, NEW p \in Procs, Write(p) PROVE IInv'
<1> USE DEF IInv, Write, Is
<1>1. Quiet /\ lock["data"] = p /\ processed = Absent
  BY DEF Quiet, bounds, Typed, BoundsOK, Ready, Locked, Prepared, DataSteps
<1>2. source # Absent /\ hold[p].content \in Contents /\ hold[p].content.kind # "Torn"
  BY DEF Ready, Prepared, DataSteps
<1> DEFINE c == hold[p].content
           t == [source |-> source.serial, made |-> c, content |-> c, readable |-> TRUE]
           h == [hold[p] EXCEPT !.table = t]
<1>3. Continue(p, "verify", h)
  OBVIOUS
<1>4. t \in Tables /\ t.made.kind # "Torn" /\ t.source <= serials
  BY <1>2 DEF Typed, FilesOK, SourceFiles, Tables, Dated
<1> HIDE DEF t
<1>5. h \in Holds /\ h.table = t
  BY <1>4 DEF Typed, ControlOK, Holds
<1> HIDE DEF h
<1>6. Ready(p, "verify", h)
  BY <1>1, <1>2, <1>4, <1>5 DEF Ready, Locked, Prepared, RawSteps, DataSteps, SplitSteps, Validating, Reading, Judging
<1>7. QED
  BY <1>1, <1>3, <1>5, <1>6, ContinueKeeps DEF Steps

LEMMA VerifyKeeps == ASSUME IInv, NEW p \in Procs, Verify(p) PROVE IInv'
<1> USE DEF IInv, Verify, Is
<1>1. Quiet
  BY DEF Quiet, bounds, Typed, BoundsOK
<1>2. Ready(p, "dataPromote", hold[p])
  BY DEF Ready, Locked, Prepared, RawSteps, DataSteps, SplitSteps, Validating, Reading, Judging
<1>3. QED
  BY <1>1, <1>2, GoKeeps, RaiseKeeps DEF Steps

LEMMA DataPromoteKeeps == ASSUME IInv, NEW p \in Procs, DataPromote(p) PROVE IInv'
<1> USE DEF IInv, DataPromote, Is, bounds
<1>1. lock["data"] = p /\ source # Absent
  BY DEF Ready, Locked, Prepared, DataSteps
<1>2. hold[p].table \in Tables /\ hold[p].table.made.kind # "Torn" /\ hold[p].table.source <= serials
  BY DEF Ready, Prepared
<1>3. ControlOK'
  BY EndOK DEF Typed, Results
<1>4. Typed' /\ Dated'
  BY <1>1, <1>2, <1>3 DEF Typed, FilesOK, BoundsOK, Dated
<1>5. Ready(p, pc[p], hold[p])'
  BY DEF End, Goto, Typed, ControlOK, Ready, Locked, Prepared, RawSteps, DataSteps,
      SplitSteps, Validating, Reading, Judging
<1>6. ASSUME NEW q \in Procs, q # p PROVE Ready(q, pc[q], hold[q])'
  BY <1>1, <1>4, <1>6, OthersReady
  DEF End, Released, Goto, Typed, ControlOK, BoundsOK
<1>7. QED
  BY <1>4, <1>5, <1>6
-------------------------------------------------------------------------------
(* The reads, validate_split_directory and generate_split.                  *)

\* A read or a validation goes on, moves the split aside or raises.
LEMMA RefusedKeeps ==
    ASSUME IInv, NEW p \in Procs, pc[p] \in Validating, Refused(p), Quiet PROVE IInv'
<1>1. CASE Pass(p) = "first"
  <2>1. Ready(p, "splitAside", hold[p])
    BY <1>1 DEF IInv, Pass, Ready, Locked, Prepared, RawSteps, DataSteps, Validating, Reading,
        Judging
  <2>2. QED
    BY <1>1, <2>1, GoKeeps DEF Refused, Steps
<1>2. QED
  BY <1>1, RaiseKeeps DEF Refused

LEMMA ValidatingKeeps ==
    ASSUME IInv, NEW p \in Procs, pc[p] \in Validating, NEW step \in Reading \cup Judging,
           NEW h \in Holds, Continue(p, step, h), Quiet, h.pass = hold[p].pass,
           h.folds = hold[p].folds,
           step \in Judging => pc[p] \in Judging \/ h.pass # "none"
    PROVE  IInv'
<1>1. Ready(p, step, h)
  BY DEF IInv, Ready, Locked, Prepared, RawSteps, DataSteps, SplitSteps, Validating, Reading, Judging, Holds, Passes
<1>2. QED
  BY <1>1, ContinueKeeps DEF Steps, Validating

LEMMA GoingOnKeeps ==
    ASSUME IInv, NEW p \in Procs, pc[p] \in Validating, NEW step \in Reading \cup Judging,
           Go(p, step), Quiet, step \in Judging => pc[p] \in Judging
    PROVE  IInv'
  BY ValidatingKeeps DEF Go, IInv, Typed, ControlOK

LEMMA ReadingKeeps == ASSUME IInv, NEW p \in Procs, ReadingInputs(p) PROVE IInv'
<1> USE DEF Is
<1>1. Quiet /\ pc[p] \in Reading
  BY DEF ReadingInputs, ReadSource, HashRaw, ReadData, HashSource, HashTables, ReadTables, Quiet,
      bounds, Reading, IInv, Typed, BoundsOK
<1>2. pc[p] \in Validating /\ hold[p] \in Holds
  BY <1>1 DEF Validating, IInv, Typed, ControlOK
<1>3. CASE Refused(p)
  BY <1>1, <1>2, <1>3, RefusedKeeps
<1>4. CASE ReadSource(p) \/ HashRaw(p) \/ HashSource(p) \/ HashTables(p)
  <2>1. Refused(p) \/ \E step \in Reading : Go(p, step)
    BY <1>4 DEF ReadSource, HashRaw, HashSource, HashTables, Reading
  <2>2. QED
    BY <1>1, <1>2, <1>3, <2>1, GoingOnKeeps DEF Reading, Judging
<1>5. CASE ReadData(p) /\ ~Refused(p)
  <2> DEFINE h == [hold[p] EXCEPT !.named = DataManifest(processed)]
  <2>1. processed \in Tables /\ Continue(p, "hashSource", h)
    BY <1>5 DEF ReadData, IInv, Typed, FilesOK
  <2>2. h \in Holds /\ h.pass = hold[p].pass /\ h.folds = hold[p].folds
    BY <1>2, <2>1 DEF Holds, DataManifest, DataManifests, Tables
  <2> HIDE DEF h
  <2>3. QED
    BY <1>1, <1>2, <2>1, <2>2, ValidatingKeeps DEF Reading, Judging
<1>6. CASE ReadTables(p) /\ ~Refused(p)
  <2> DEFINE h == [hold[p] EXCEPT !.content = processed.content, !.named = Absent]
  <2>1. processed \in Tables
        /\ Continue(p, IF Pass(p) = "none" THEN "hashData" ELSE "checkAssignments", h)
    BY <1>6 DEF ReadTables, IInv, Typed, FilesOK
  <2>2. h \in Holds /\ h.pass = hold[p].pass /\ h.folds = hold[p].folds /\ h.content \in Contents
    BY <1>2, <2>1 DEF Holds, Tables
  <2> HIDE DEF h
  <2>3. CASE Pass(p) = "none"
    <3>1. Ready(p, "hashData", h)
      BY <1>1, <2>2, <2>3 DEF IInv, Pass, Ready, Locked, Prepared, RawSteps, DataSteps,
          SplitSteps, Validating, Reading, Judging
    <3>2. QED
      BY <1>1, <2>1, <2>2, <2>3, <3>1, ContinueKeeps DEF Steps
  <2>4. CASE Pass(p) # "none"
    BY <1>1, <1>2, <2>1, <2>2, <2>4, ValidatingKeeps DEF Pass, Judging
  <2>5. QED
    BY <2>3, <2>4
<1>7. QED
  BY <1>3, <1>4, <1>5, <1>6 DEF ReadingInputs

LEMMA RejectTemporaryKeeps == ASSUME IInv, NEW p \in Procs, RejectTemporary(p) PROVE IInv'
<1>1. Quiet /\ pc[p] = "rejectTemporary"
  BY DEF RejectTemporary, Is, Quiet, bounds, IInv, Typed, BoundsOK
<1>2. Ready(p, "readManifest", hold[p])
  BY <1>1 DEF IInv, Ready, Locked, Prepared, RawSteps, DataSteps, SplitSteps, Validating, Reading, Judging
<1>3. QED
  BY <1>1, <1>2, GoKeeps, RaiseKeeps DEF RejectTemporary, Steps, Validating

LEMMA ReadManifestKeeps == ASSUME IInv, NEW p \in Procs, ReadManifest(p) PROVE IInv'
<1> USE DEF ReadManifest, Is
<1>1. Quiet /\ pc[p] \in Validating
  BY DEF Quiet, bounds, Validating, IInv, Typed, BoundsOK
<1> DEFINE h == [hold[p] EXCEPT !.checked = Examined(p)]
<1>2. CASE Examined(p) \in Splits /\ Continue(p, "readSource", h)
  <2>1. h \in Holds /\ h.pass = hold[p].pass /\ h.folds = hold[p].folds
    BY <1>2 DEF IInv, Typed, ControlOK, Holds
  <2> HIDE DEF h
  <2>2. QED
    BY <1>1, <1>2, <2>1, ValidatingKeeps DEF Reading, Judging
<1>3. QED
  BY <1>1, <1>2, RefusedKeeps

LEMMA ComparingKeeps ==
    ASSUME IInv, NEW p \in Procs, CheckAssignments(p) \/ HashAssignments(p) \/ CheckFeatures(p)
    PROVE  IInv'
<1> USE DEF CheckAssignments, HashAssignments, CheckFeatures, Is
<1>1. Quiet /\ pc[p] \in Judging
  BY DEF Quiet, bounds, Judging, IInv, Typed, BoundsOK
<1>2. Refused(p) \/ \E step \in Judging : Go(p, step)
  BY DEF Judging
<1>3. QED
  BY <1>1, <1>2, GoingOnKeeps, RefusedKeeps DEF Validating

\* What follows a validation that passes.
LEMMA PassedIs ==
    ASSUME IInv, NEW p \in Procs, pc[p] \in Judging, Passed(p)
    PROVE  \/ hold[p].pass \in {"reader", "second"} /\ End(p, "done")
           \/ hold[p].pass = "first"
              /\ Continue(p, "readManifest", [EmptyHold EXCEPT !.pass = "second"])
           \/ hold[p].pass = "temporary" /\ Continue(p, "splitReplace", hold[p])
<1>1. hold[p].pass \in {"reader", "first", "second", "temporary"}
  BY DEF IInv, Ready, Locked
<1>2. QED
  BY <1>1 DEF Passed, Pass, Go

LEMMA CheckDataKeeps == ASSUME IInv, NEW p \in Procs, CheckData(p) PROVE IInv'
<1> USE DEF CheckData, Is
<1>1. Quiet /\ pc[p] \in Judging /\ pc[p] \in Validating /\ hold[p] \in Holds
  BY DEF Quiet, bounds, Judging, Validating, IInv, Typed, ControlOK, BoundsOK
<1>2. (hold[p].pass # "reader" => lock["split"] = p)
      /\ (hold[p].pass = "temporary" => hold[p].folds \in Splits)
  BY <1>1 DEF IInv, Ready, Locked, Prepared
<1>3. CASE Refused(p)
  BY <1>1, <1>3, RefusedKeeps
<1>4. CASE End(p, "done")
  BY <1>1, <1>4, EndKeeps DEF Results
<1> DEFINE h == [EmptyHold EXCEPT !.pass = "second"]
<1>5. CASE hold[p].pass = "first" /\ Continue(p, "readManifest", h)
  <2>1. h \in Holds /\ h.pass = "second"
    BY EmptyHoldOK DEF Holds, Passes
  <2> HIDE DEF h
  <2>2. Ready(p, "readManifest", h)
    BY <1>2, <1>5, <2>1 DEF Ready, Locked, Prepared, RawSteps, DataSteps, SplitSteps, Validating,
        Reading, Judging
  <2>3. QED
    BY <1>1, <1>5, <2>1, <2>2, ContinueKeeps DEF Steps, Validating
<1>6. CASE hold[p].pass = "temporary" /\ Continue(p, "splitReplace", hold[p])
  <2>1. Ready(p, "splitReplace", hold[p])
    BY <1>2, <1>6 DEF Ready, Locked, Prepared, RawSteps, DataSteps, SplitSteps, Validating,
        Reading, Judging
  <2>2. QED
    BY <1>1, <1>6, <2>1, ContinueKeeps DEF Steps
<1>7. QED
  BY <1>1, <1>3, <1>4, <1>5, <1>6, PassedIs

LEMMA LookSplitKeeps == ASSUME IInv, NEW p \in Procs, LookSplit(p) PROVE IInv'
<1> USE DEF LookSplit, Is
<1>1. Quiet /\ lock["split"] = p
  BY DEF Quiet, bounds, IInv, Typed, BoundsOK, Ready, Locked, SplitSteps
<1> DEFINE h == [EmptyHold EXCEPT !.pass = "first"]
<1>2. CASE Continue(p, "readManifest", h)
  <2>1. h \in Holds /\ h.pass = "first"
    BY EmptyHoldOK DEF Holds, Passes
  <2> HIDE DEF h
  <2>2. Ready(p, "readManifest", h)
    BY <1>1, <2>1 DEF Ready, Locked, Prepared, RawSteps, DataSteps, SplitSteps, Validating,
        Reading, Judging
  <2>3. QED
    BY <1>1, <1>2, <2>1, <2>2, ContinueKeeps DEF Steps, Validating
<1>3. CASE Continue(p, "readSource", EmptyHold)
  <2>1. Ready(p, "readSource", EmptyHold)
    BY <1>1 DEF EmptyHold, Ready, Locked, Prepared, RawSteps, DataSteps, SplitSteps, Validating,
        Reading, Judging
  <2>2. QED
    BY <1>1, <1>3, <2>1, EmptyHoldOK, ContinueKeeps DEF Steps, Validating, Reading
<1>4. QED
  BY <1>2, <1>3

LEMMA HashDataKeeps == ASSUME IInv, NEW p \in Procs, HashData(p) PROVE IInv'
<1> USE DEF HashData, Is
<1>1. Quiet /\ lock["split"] = p /\ hold[p].content \in Contents
  BY DEF Quiet, bounds, IInv, Typed, BoundsOK, Ready, Locked, Prepared, SplitSteps
<1> DEFINE h == [hold[p] EXCEPT !.named = DataManifest(processed)]
<1>2. CASE processed # Absent /\ Continue(p, "assign", h)
  <2>1. DataManifest(processed) \in DataManifests
    BY <1>2 DEF IInv, Typed, FilesOK, Tables, DataManifest, DataManifests
  <2>2. h \in Holds /\ h.content = hold[p].content /\ h.named \in DataManifests
    BY <2>1 DEF IInv, Typed, ControlOK, Holds
  <2> HIDE DEF h
  <2>3. Ready(p, "assign", h)
    BY <1>1, <2>2 DEF Ready, Locked, Prepared, RawSteps, DataSteps, SplitSteps, Validating,
        Reading, Judging
  <2>4. QED
    BY <1>1, <1>2, <2>2, <2>3, ContinueKeeps DEF Steps
<1>3. QED
  BY <1>1, <1>2, RaiseKeeps

\* What generate_split writes: a split of the tables read.
LEMMA AssignKeeps == ASSUME IInv, NEW p \in Procs, Assign(p) PROVE IInv'
<1> USE DEF Assign, Is
<1>1. Quiet /\ lock["split"] = p /\ hold[p].content \in Contents /\ hold[p].named \in DataManifests
  BY DEF Quiet, bounds, IInv, Typed, BoundsOK, Ready, Locked, Prepared, SplitSteps
<1> DEFINE h == [EmptyHold EXCEPT !.pass = "temporary", !.folds = Folds(p)]
<1>2. CASE processed # Absent /\ Continue(p, "readManifest", h)
  <2>1. Folds(p) \in Splits
    BY <1>1, <1>2 DEF IInv, Typed, FilesOK, Tables, Folds, Splits
  <2>2. h \in Holds /\ h.pass = "temporary" /\ h.folds = Folds(p)
    BY <2>1, EmptyHoldOK DEF Holds, Passes
  <2> HIDE DEF h
  <2>3. Ready(p, "readManifest", h)
    BY <1>1, <2>1, <2>2 DEF Ready, Locked, Prepared, RawSteps, DataSteps, SplitSteps, Validating,
        Reading, Judging
  <2>4. QED
    BY <1>1, <1>2, <2>2, <2>3, ContinueKeeps DEF Steps, Validating
<1>3. QED
  BY <1>1, <1>2, RaiseKeeps

\* A step of generate_split that moves the split away or into place.
LEMMA SplitFilesKeep ==
    ASSUME IInv, NEW p \in Procs, lock["split"] = p,
           UNCHANGED <<raw, described, source, processed, bounds>>,
           split' \in Splits \cup {Absent}, ControlOK', Ready(p, pc[p], hold[p])',
           \A q \in Procs : q # p =>
               /\ pc'[q] = pc[q] /\ hold'[q] = hold[q]
               /\ \A l \in Layers : lock[l] = q => lock'[l] = q
    PROVE  IInv'
<1> USE DEF IInv, bounds
<1>1. Typed' /\ Dated'
  BY DEF Typed, FilesOK, BoundsOK, Dated
<1>2. Unfit => Unfit'
  BY DEF Unfit, TablesFit
<1>3. ASSUME NEW q \in Procs, q # p PROVE Ready(q, pc[q], hold[q])'
  BY <1>1, <1>2, <1>3, OthersReady DEF Typed, BoundsOK
<1>4. QED
  BY <1>1, <1>3

LEMMA SplitStepsKeep ==
    ASSUME IInv, NEW p \in Procs, SplitAside(p) \/ SplitReplace(p) \/ SplitPromote(p)
    PROVE  IInv'
<1> USE DEF Is
<1>1. lock["split"] = p
  BY DEF SplitAside, SplitReplace, SplitPromote, IInv, Ready, Locked, SplitSteps
<1>2. CASE SplitAside(p)
  <2> USE <1>2 DEF SplitAside
  <2>1. ControlOK'
    BY EmptyHoldOK, ContinueOK DEF IInv, Typed, Steps, Validating, Reading
  <2>2. Ready(p, pc[p], hold[p])'
    BY <1>1 DEF Continue, Keep, Goto, IInv, Typed, ControlOK, Ready, Locked, Prepared,
        EmptyHold, RawSteps, DataSteps, SplitSteps, Validating, Reading, Judging
  <2>3. QED
    BY <1>1, <2>1, <2>2, SplitFilesKeep DEF Continue, Keep, Goto, IInv, Typed, ControlOK
<1>3. CASE SplitReplace(p)
  <2> USE <1>3 DEF SplitReplace
  <2>1. ControlOK'
    BY ContinueOK DEF Go, IInv, Typed, ControlOK, Steps
  <2>2. Ready(p, pc[p], hold[p])'
    BY <1>1 DEF Go, Continue, Keep, Goto, IInv, Typed, ControlOK, Ready, Locked, Prepared,
        RawSteps, DataSteps, SplitSteps, Validating, Reading, Judging
  <2>3. QED
    BY <1>1, <2>1, <2>2, SplitFilesKeep DEF Go, Continue, Keep, Goto, IInv, Typed, ControlOK
<1>4. CASE SplitPromote(p)
  <2> USE <1>4 DEF SplitPromote
  <2>1. ControlOK'
    BY EndOK DEF IInv, Typed, Results
  <2>2. Ready(p, pc[p], hold[p])'
    BY DEF End, Goto, IInv, Typed, ControlOK, Ready, Locked, Prepared, RawSteps, DataSteps,
        SplitSteps, Validating, Reading,
      Judging
  <2>3. split' \in Splits
    BY DEF IInv, Ready, Prepared
  <2>4. QED
    BY <1>1, <2>1, <2>2, <2>3, SplitFilesKeep DEF End, Released, Goto, IInv, Typed, ControlOK
<1>5. QED
  BY <1>2, <1>3, <1>4
-------------------------------------------------------------------------------
(* Damage touches no process, and makes no table fit that did not.          *)

LEMMA DamageKeeps ==
    ASSUME IInv, UNCHANGED <<leftover, lock, pc, locals>>, FilesOK', BoundsOK', Dated',
           UNCHANGED described, source # Absent => source' # Absent, serials <= serials',
           split = Absent => split' = Absent, processed = Absent => processed' = Absent,
           Unfit => Unfit'
    PROVE  IInv'
<1>1. Typed'
  BY DEF locals, IInv, Typed, ControlOK
<1>2. ASSUME NEW q \in Procs PROVE Ready(q, pc[q], hold[q])'
  BY <1>1, OthersReady DEF locals, IInv
<1>3. QED
  BY <1>1, <1>2 DEF IInv

LEMMA RawDamagedKeeps == ASSUME IInv, RawDamaged PROVE IInv'
<1> USE DEF RawDamaged, Untouched, Fault
<1>1. FilesOK' /\ BoundsOK' /\ Dated'
  BY ChainAssumption DEF IInv, Typed, FilesOK, BoundsOK, Dated
<1>2. (Unfit => Unfit') /\ serials <= serials'
  BY DEF Unfit, TablesFit, IInv, Typed, BoundsOK
<1>3. QED
  BY <1>1, <1>2, DamageKeeps

LEMMA SourceDamagedKeeps == ASSUME IInv, SourceDamaged PROVE IInv'
<1> USE DEF SourceDamaged, Untouched
<1>1. PICK state \in {"altered", "garbled"} :
          Fault(state) /\ source' = [serial |-> serials + 1, state |-> state]
  OBVIOUS
<1>2. described
  BY DEF IInv, Dated
<1>3. FilesOK' /\ Dated' /\ Unfit' /\ source' # Absent /\ serials <= serials'
  BY <1>1, <1>2, NewSource
<1>4. BoundsOK'
  BY <1>1, ChainAssumption DEF Fault, IInv, Typed, BoundsOK
<1>5. QED
  BY <1>3, <1>4, DamageKeeps

LEMMA TablesDamagedKeeps == ASSUME IInv, TablesDamaged PROVE IInv'
<1> USE DEF TablesDamaged, Untouched, Fault
<1>1. processed \in Tables /\ processed.made.kind # "Torn"
  BY DEF IInv, Typed, FilesOK, Dated
<1>2. processed' \in Tables /\ processed'.made = processed.made
      /\ processed'.source = processed.source
      /\ (processed'.readable => processed.readable)
      /\ processed'.content \in {Torn(faults'), processed.content}
  <2>1. Torn(faults') \in Contents
    BY ContentsOK DEF IInv, Typed, BoundsOK
  <2>2. QED
    BY <1>1, <2>1 DEF Tables
<1>3. Unfit => Unfit'
  BY <1>1, <1>2, ContentsOK DEF Unfit, TablesFit, IInv, Typed, BoundsOK
<1>4. FilesOK' /\ BoundsOK' /\ Dated'
  BY <1>1, <1>2, ChainAssumption DEF IInv, Typed, FilesOK, BoundsOK, Dated
<1>5. QED
  BY <1>3, <1>4, DamageKeeps DEF IInv, Typed, BoundsOK

LEMMA SplitDamagedKeeps == ASSUME IInv, SplitDamaged PROVE IInv'
<1> USE DEF SplitDamaged, Untouched, Fault
<1>a. split' \in Splits \cup {Broken}
  <2>1. Torn(faults') \in Contents
    BY ContentsOK DEF IInv, Typed, BoundsOK
  <2>2. QED
    BY <2>1 DEF Splits
<1>1. FilesOK' /\ BoundsOK' /\ Dated'
  BY <1>a, ChainAssumption DEF IInv, Typed, FilesOK, BoundsOK, Dated
<1>2. (Unfit => Unfit') /\ serials <= serials' /\ split # Absent
  BY Distinct DEF Unfit, TablesFit, IInv, Typed, BoundsOK
<1>3. QED
  BY <1>1, <1>2, DamageKeeps
-------------------------------------------------------------------------------
LEMMA WorkingKeeps == ASSUME IInv, NEW p \in Procs, Working(p) PROVE IInv'
<1>1. CASE Acquiring(p)
  BY <1>1, TakesKeep, OfflineKeeps, FetchKeeps, CachedKeeps, RawStepsKeep, DownloadKeeps,
     WriteManifestKeeps
  DEF Acquiring
<1>2. CASE Processing(p)
  BY <1>2, TakesKeep, ExamineKeeps, DataAsideKeeps, ParseKeeps, WriteKeeps, VerifyKeeps,
     DataPromoteKeeps
  DEF Processing
<1>3. CASE Generating(p)
  BY <1>3, TakesKeep, LookSplitKeeps, SplitStepsKeep, HashDataKeeps, AssignKeeps
  DEF Generating
<1>4. CASE ValidatingSplit(p)
  BY <1>4, RejectTemporaryKeeps, ReadManifestKeeps, ComparingKeeps, CheckDataKeeps
  DEF ValidatingSplit
<1>5. QED
  BY <1>1, <1>2, <1>3, <1>4, ReadingKeeps DEF Working

LEMMA NextKeeps == IInv /\ [Next]_vars => IInv'
<1> SUFFICES ASSUME IInv, [Next]_vars PROVE IInv'
  OBVIOUS
<1>1. CASE UNCHANGED vars
  BY <1>1
  DEF vars, files, locals, bounds, IInv, Typed, FilesOK, ControlOK, BoundsOK, Dated, Ready,
      Locked, Prepared, Unfit, TablesFit
<1>2. ASSUME NEW p \in Procs, NEW j \in Jobs, Begin(p, j) PROVE IInv'
  BY <1>2, BeginKeeps
<1>3. ASSUME NEW p \in Procs, Working(p) \/ LockTimeout(p) \/ Crash(p) PROVE IInv'
  BY <1>3, WorkingKeeps, LockTimeoutKeeps, CrashKeeps
<1>4. CASE RawDamaged \/ SourceDamaged \/ TablesDamaged \/ SplitDamaged
  BY <1>4, RawDamagedKeeps, SourceDamagedKeeps, TablesDamagedKeeps, SplitDamagedKeeps
<1>5. QED
  BY <1>1, <1>2, <1>3, <1>4 DEF Next

\* Every reachable state satisfies the invariant.
THEOREM ChainInvariant == Spec => []IInv
  BY InitIInv, NextKeeps, PTL DEF Spec

\* Directories are moved only to where nothing is.
THEOREM PromotionHasRoom == Spec => []RoomForPromotion
<1>1. IInv => RoomForPromotion
  BY DEF IInv, Ready, Prepared, RoomForPromotion, Is
<1>2. QED
  BY <1>1, ChainInvariant, PTL

\* A source manifest comes with the descriptions of the provider.
THEOREM ManifestComesLast == Spec => []SourceIsDescribed
<1>1. IInv => SourceIsDescribed
  BY DEF IInv, Dated, SourceIsDescribed
<1>2. QED
  BY <1>1, ChainInvariant, PTL

LEMMA OnlyAside ==
    ASSUME IInv, Next, processed # Absent, processed' = Absent
    PROVE  \E p \in Procs : DataAside(p)
<1> USE DEF files, bounds
<1>1. ASSUME NEW p \in Procs, NEW j \in Jobs, Begin(p, j) PROVE FALSE
  BY <1>1 DEF Begin
<1>2. ASSUME NEW p \in Procs, Acquiring(p) PROVE FALSE
  BY <1>2 DEF Acquiring, TakeRawLock, Take, Offline, Fetch, Cached, RawAside, Download,
      Promote, Describe, WriteManifest
<1>3. ASSUME NEW p \in Procs, Processing(p), ~DataAside(p) PROVE FALSE
  <2>1. CASE DataPromote(p)
    BY <2>1 DEF DataPromote, Is, IInv, Ready, Prepared
  <2>2. QED
    BY <1>3, <2>1 DEF Processing, TakeDataLock, Take, Examine, Parse, Write, Verify
<1>4. ASSUME NEW p \in Procs, Generating(p) PROVE FALSE
  BY <1>4 DEF Generating, TakeSplitLock, Take, LookSplit, SplitAside, HashData, Assign,
      SplitReplace, SplitPromote
<1>5. ASSUME NEW p \in Procs, ReadingInputs(p) \/ ValidatingSplit(p) PROVE FALSE
  BY <1>5 DEF ReadingInputs, ReadSource, HashRaw, ReadData, HashSource, HashTables, ReadTables,
      ValidatingSplit, RejectTemporary, ReadManifest, CheckAssignments, HashAssignments,
      CheckFeatures, CheckData
<1>6. ASSUME NEW p \in Procs, LockTimeout(p) \/ Crash(p) PROVE FALSE
  BY <1>6 DEF LockTimeout, Crash
<1>7. CASE RawDamaged \/ SourceDamaged \/ SplitDamaged
  BY <1>7 DEF RawDamaged, SourceDamaged, SplitDamaged
<1>8. CASE TablesDamaged
  <2>1. processed \in Tables
    BY DEF IInv, Typed, FilesOK
  <2>2. processed' \in Tables
    <3>1. faults' \in Nat
      BY <1>8 DEF TablesDamaged, Fault, IInv, Typed, BoundsOK
    <3>2. QED
      BY <1>8, <2>1, <3>1, ContentsOK DEF TablesDamaged, Tables
  <2>3. QED
    BY <2>2, Distinct
<1>9. QED
  BY <1>1, <1>2, <1>3, <1>4, <1>5, <1>6, <1>7, <1>8 DEF Next, Working

\* Only unfit tables are moved aside, though they were validated some steps
\* before and the source and the raw file may have changed since.
THEOREM FittingKept == Spec => FittingTablesAreKept
<1>1. IInv /\ [Next]_vars =>
          [processed # Absent /\ processed' = Absent => ~TablesFit(processed)]_vars
  <2> SUFFICES ASSUME IInv, Next, processed # Absent, processed' = Absent
               PROVE  ~TablesFit(processed)
    OBVIOUS
  <2>1. PICK p \in Procs : DataAside(p)
    BY OnlyAside
  <2>2. QED
    BY <2>1 DEF DataAside, Is, IInv, Ready, Prepared, Unfit
<1>2. QED
  BY <1>1, ChainInvariant, PTL DEF Spec, FittingTablesAreKept

LEMMA SeenKeeps ==
    IInv' /\ [Next]_vars /\ seen \in [Procs -> Moments] => seen' \in [Procs -> Moments]
<1> SUFFICES ASSUME IInv', [Next]_vars, seen \in [Procs -> Moments]
             PROVE  seen' \in [Procs -> Moments]
  OBVIOUS
<1>1. CASE UNCHANGED vars
  BY <1>1 DEF vars
<1>2. CASE Next
  <2>1. SourcesNow' \subseteq Serials /\ TablesNow' \subseteq DataManifests
    BY DEF SourcesNow, TablesNow, DataManifest, DataManifests, IInv, Typed, FilesOK, Tables,
        SourceFiles
  <2>2. NoMoment \in Moments
    BY DEF NoMoment, Moments
  <2>3. \A p \in Procs : SeenBefore(p) \in Moments
    BY <2>2 DEF SeenBefore
  <2>4. QED
    BY <1>2, <2>1, <2>2, <2>3 DEF Next, Observe, Moments
<1>3. QED
  BY <1>1, <1>2

\* Every variable keeps its type.
THEOREM TypeCorrect == Spec => []ChainTypeOK
<1> DEFINE SeenOK == seen \in [Procs -> Moments]
<1>1. Init => SeenOK
  BY DEF Init, NoMoment, Moments
<1>2. IInv' /\ [Next]_vars /\ SeenOK => SeenOK'
  BY SeenKeeps
<1>3. IInv /\ SeenOK => ChainTypeOK
  BY DEF IInv, Typed, FilesOK, ControlOK, BoundsOK, ChainTypeOK, Serials
<1>4. QED
  BY <1>1, <1>2, <1>3, ChainInvariant, PTL DEF Spec
-------------------------------------------------------------------------------
(* What a pass has seen.  The files it reads are replaced while it reads, and *)
(* it has no lock; but what is gone from the disk does not come back.  Of the *)
(* contents only the good one can be made twice: a damaged raw file is not    *)
(* damaged into the same bytes again, nor torn tables torn into the same; and *)
(* a data manifest that names an old source is not written anew.              *)

Raws == {Good} \cup {Bad(n) : n \in 1 .. faults}
Torns == {Torn(n) : n \in 1 .. faults}

\* A process at work on new tables, and what they are made of.
Building == {"write", "verify", "dataPromote"}
Built == {"verify", "dataPromote"}
Made(step, h) == IF step = "write" THEN h.content ELSE h.table.made

\* Tables of content c can no longer be made, and there are none.
Gone(c) ==
    /\ raw # c
    /\ \A q \in Procs : pc[q] \in Building => Made(pc[q], hold[q]) # c
    /\ processed # Absent => processed.made # c

\* There were tables of content c: as long as the raw file has it there are no
\* others, nor will be.
Latest(c) ==
    raw = c =>
        /\ \A q \in Procs : pc[q] \in Building => Made(pc[q], hold[q]) = c
        /\ processed # Absent => processed.made = c

\* No data manifest names a source before s, nor will one again.
AtLeast(s) ==
    /\ s <= serials
    /\ \A q \in Procs : pc[q] \in Built => hold[q].table.source >= s
    /\ processed # Absent => processed.source >= s

\* There are no tables with the bytes c.
Mended(c) == processed # Absent => processed.content # c

Origins ==
    /\ source # Absent => source.serial = serials
    /\ serials # 0 => source # Absent
    /\ raw \in Raws \cup {Absent}
    /\ processed # Absent =>
          processed.made \in Raws /\ processed.content \in {processed.made} \cup Torns

\* A split names tables that were there.  Its features file and its assignments
\* may be of others; of tables before, made of a damaged raw file, nothing is left.
SplitOrigin(s) ==
    /\ s.data.made \in Raws /\ s.data.source <= serials
    /\ s.features \in Raws \cup Torns
    /\ s.content \in Raws \cup Torns
    /\ s.content.kind = "Bad" /\ s.content # s.data.made => Gone(s.content)

\* A reader's validation, or one of a split to reuse, and how far it has come.
Looking(h) == h.pass \in {"reader", "first", "second"}
Watching(step, h) == step \in Validating /\ Looking(h)
AfterTables == Judging
AfterHashes == {"readTables"} \cup AfterTables
AfterSource == {"hashTables"} \cup AfterHashes
AfterRaw == {"readData", "hashSource"} \cup AfterSource

\* It has hashed the good raw file: the split m is of this source or of one
\* before, and not of a damaged raw file that is there or will be.
RawSeen(m, moments) ==
    /\ m.data.source < serials \/ m.data.source \in moments.sources
    /\ \A c \in {m.data.made, m.features} : c.kind = "Bad" => raw # c

\* The data manifest it read names the source that was there later: if m names
\* another, the tables m names are gone for good.
SourceSeen(m, moments) ==
    /\ AtLeast(m.data.source)
    /\ m.data.source \in moments.sources \/ AtLeast(m.data.source + 1)

\* The tables were those of that data manifest: no torn ones are left.
HashesSeen(m) ==
    \A c \in {m.features, m.content} : c.kind = "Torn" => Mended(c)

\* It has read tables of content c.
TablesSeen(m, c, moments) ==
    /\ c \in Raws \cup Torns
    /\ m.content.kind = "Torn" => c # m.content
    /\ m.content.kind = "Bad" /\ m.content # m.data.made => c # m.content
    /\ c.kind # "Torn" =>
          /\ \A b \in {m.data.made, m.features} : b.kind = "Bad" /\ b # c => Gone(b)
          /\ \/ [source |-> m.data.source, made |-> c] \in moments.tables
             \/ AtLeast(m.data.source + 1)

\* It has compared the features file with the tables, once these were not torn.
FeaturesSeen(m) ==
    /\ m.features.kind # "Torn"
    /\ m.features.kind = "Bad" => m.features = m.content
    /\ m.features.kind = "Good" /\ m.data.made.kind = "Bad" => Gone(m.data.made)

Watches(step, h, moments) ==
    LET m == h.checked IN
    /\ step \in Reading \cup Judging => m \in Splits
    /\ step \in AfterRaw => RawSeen(m, moments)
    /\ step = "hashSource" => AtLeast(h.named.source)
    /\ step \in AfterSource => SourceSeen(m, moments)
    /\ step \in AfterHashes => HashesSeen(m)
    /\ step \in AfterTables => TablesSeen(m, h.content, moments)
    /\ step \in Judging \ {"checkAssignments"} => h.content = m.content
    /\ step = "checkData" => FeaturesSeen(m)

NamedOrigin(d) == d \in DataManifests /\ d.made \in Raws /\ d.source <= serials

Follows(step, h, moments) ==
    /\ h.folds \in Splits => SplitOrigin(h.folds)
    /\ h.checked \in Splits => SplitOrigin(h.checked)
    /\ step = "write" => h.content \in Raws
    /\ step \in Built => h.table.made \in Raws /\ h.table.content = h.table.made
    /\ step \in {"hashSource", "hashTables", "assign"} => NamedOrigin(h.named)
    /\ step \in {"hashData", "assign"} => h.content \in Raws \cup Torns
    /\ step = "hashData" /\ h.content.kind = "Bad" => Latest(h.content)
    /\ step = "assign" /\ h.content.kind = "Bad" /\ h.content # h.named.made =>
          Gone(h.content)
    /\ Looking(h) => Watches(step, h, moments)

MomentInv ==
    /\ Origins
    /\ split \in Splits => SplitOrigin(split)
    /\ \A p \in Procs : Follows(pc[p], hold[p], seen[p])

\* The steps of a validation that come after which read.
LEMMA StagesAre ==
    /\ AfterTables = {"checkAssignments", "hashAssignments", "checkFeatures", "checkData"}
    /\ AfterHashes = {"readTables", "checkAssignments", "hashAssignments", "checkFeatures",
                      "checkData"}
    /\ AfterSource = {"hashTables", "readTables", "checkAssignments", "hashAssignments",
                      "checkFeatures", "checkData"}
    /\ AfterRaw = {"readData", "hashSource", "hashTables", "readTables", "checkAssignments",
                   "hashAssignments", "checkFeatures", "checkData"}
    /\ AfterRaw \subseteq Reading \cup Judging
    /\ Reading \cup Judging \subseteq Validating
  BY DEF AfterTables, AfterHashes, AfterSource, AfterRaw, Judging, Reading, Validating

\* What a step does to the files that tables are made of and to the tables.
Moves ==
    /\ serials <= serials' /\ faults <= faults'
    /\ \/ source' = source /\ serials' = serials
       \/ source' # Absent /\ source'.serial = serials'
    /\ \/ raw' \in {raw, Absent, Good}
       \/ faults' = faults + 1 /\ raw' = Bad(faults')
    /\ \/ split' \in {split, Absent, Broken} \/ \E q \in Procs : split' = hold[q].folds
       \/ split \in Splits /\ split'.data = split.data
          /\ split'.features = split.features /\ split'.content = split.content
    /\ \/ processed' = Absent
       \/ /\ processed # Absent /\ processed' # Absent
          /\ processed'.made = processed.made /\ processed'.source = processed.source
          /\ \/ processed'.content = processed.content
             \/ faults' = faults + 1 /\ processed'.content = Torn(faults')
       \/ \E q \in Procs : pc[q] = "dataPromote" /\ processed' = hold[q].table

\* What it does to the tables under way: those of q.
Parses(q) == raw # Absent /\ pc'[q] = "write" /\ hold'[q].content = raw
Writes(q) ==
    /\ pc[q] = "write" /\ pc'[q] = "verify" /\ source # Absent
    /\ hold'[q].table.source = source.serial
    /\ hold'[q].table.made = hold[q].content /\ hold'[q].table.content = hold[q].content
Carries(q) == pc[q] \in Built /\ pc'[q] \in Built /\ hold'[q].table = hold[q].table
Stands(q) == pc'[q] = pc[q] /\ hold'[q] = hold[q]
Builds(q) == pc'[q] \notin Building \/ Parses(q) \/ Writes(q) \/ Carries(q) \/ Stands(q)

Flow == Moves /\ \A q \in Procs : Builds(q)

LEMMA AwayFlows ==
    ASSUME Moves, NEW p \in Procs, Builds(p), \A q \in Procs \ {p} : Stands(q)
    PROVE  Flow
  BY DEF Flow, Builds

LEMMA EndMoves ==
    ASSUME IInv, NEW p \in Procs, NEW r, End(p, r)
    PROVE  Builds(p) /\ \A q \in Procs \ {p} : Stands(q)
  BY DEF End, Goto, IInv, Typed, ControlOK, Builds, Stands, Building

LEMMA KeepMoves ==
    ASSUME IInv, NEW p \in Procs, NEW step, NEW h, Keep(p, step, h)
    PROVE  /\ \A q \in Procs \ {p} : Stands(q)
           /\ pc'[p] = step /\ hold'[p] = h
           /\ step \notin Building => Builds(p)
  BY DEF Keep, Goto, IInv, Typed, ControlOK, Builds, Stands

\* A step that changes no file, or only the count of faults.
Still == UNCHANGED files /\ serials' = serials /\ faults <= faults'

LEMMA StillMoves == ASSUME IInv, Still PROVE Moves
<1>1. serials \in Nat
  BY DEF IInv, Typed, BoundsOK
<1>2. QED
  BY <1>1 DEF Still, files, Moves

LEMMA EndFlows == ASSUME IInv, NEW p \in Procs, NEW r, End(p, r), Still PROVE Flow
  BY EndMoves, StillMoves, AwayFlows

LEMMA KeepFlows ==
    ASSUME IInv, NEW p \in Procs, NEW step, NEW h, Keep(p, step, h), step \notin Building,
           Still
    PROVE  Flow
  BY KeepMoves, StillMoves, AwayFlows

LEMMA FaultsCount == IInv => faults \in Nat /\ serials \in Nat
  BY ChainAssumption DEF IInv, Typed, BoundsOK

LEMMA ReadsFlow ==
    ASSUME IInv, NEW p \in Procs, ReadingInputs(p) \/ ValidatingSplit(p) PROVE Flow
<1>1. Still
  BY FaultsCount DEF ReadingInputs, ReadSource, HashRaw, ReadData, HashSource, HashTables,
      ReadTables, ValidatingSplit, RejectTemporary, ReadManifest, CheckAssignments,
      HashAssignments, CheckFeatures, CheckData, Still, bounds
<1>2. ASSUME NEW r, End(p, r) PROVE Flow
  BY <1>1, <1>2, EndFlows
<1>3. ASSUME NEW step, NEW h, Continue(p, step, h), step \notin Building PROVE Flow
  BY <1>1, <1>3, KeepFlows DEF Continue
<1>4. ASSUME Refused(p) PROVE Flow
  BY <1>2, <1>3, <1>4 DEF Refused, Go, Raise, Building
<1>5. CASE ReadSource(p) \/ HashRaw(p) \/ HashSource(p) \/ HashTables(p)
  BY <1>3, <1>4, <1>5 DEF ReadSource, HashRaw, HashSource, HashTables, Go, Building
<1>6. CASE ReadData(p)
  BY <1>3, <1>4, <1>6 DEF ReadData, Building
<1>7. CASE ReadTables(p)
  BY <1>3, <1>4, <1>7 DEF ReadTables, Building
<1>8. CASE RejectTemporary(p) \/ ReadManifest(p)
  BY <1>2, <1>3, <1>4, <1>8 DEF RejectTemporary, ReadManifest, Go, Raise, Building
<1>9. CASE CheckAssignments(p) \/ HashAssignments(p) \/ CheckFeatures(p)
  BY <1>3, <1>4, <1>9 DEF CheckAssignments, HashAssignments, CheckFeatures, Go, Building
<1>10. CASE CheckData(p)
  <2> DEFINE second == [EmptyHold EXCEPT !.pass = "second"]
  <2>1. \/ Refused(p) \/ End(p, "done")
        \/ Continue(p, "readManifest", second) \/ Continue(p, "splitReplace", hold[p])
    BY <1>10, PassedIs DEF CheckData, Is, Judging
  <2> HIDE DEF second
  <2>2. QED
    BY <1>2, <1>3, <1>4, <2>1 DEF Building
<1>11. QED
  BY <1>5, <1>6, <1>7, <1>8, <1>9, <1>10 DEF ReadingInputs, ValidatingSplit

LEMMA AcquiringFlows == ASSUME IInv, NEW p \in Procs, Acquiring(p) PROVE Flow
<1> USE FaultsCount DEF bounds, files
<1>1. CASE TakeRawLock(p)
  BY <1>1, AwayFlows
  DEF TakeRawLock, Take, Is, Goto, locals, IInv, Typed, ControlOK, Moves, Builds, Stands, Building
<1>2. ASSUME NEW r, End(p, r), Still PROVE Flow
  BY <1>2, EndFlows
<1>3. ASSUME NEW step, NEW h, Keep(p, step, h), step \notin Building, Moves PROVE Flow
  BY <1>3, KeepMoves, AwayFlows
<1>4. Still => Moves
  BY StillMoves
<1>5. CASE Offline(p)
  BY <1>2, <1>3, <1>4, <1>5 DEF Offline, HandOn, Raise, Still, Building
<1>6. CASE Fetch(p)
  BY <1>2, <1>3, <1>4, <1>6 DEF Fetch, NetworkFails, Go, Continue, Raise, Still, Building
<1>7. CASE Cached(p)
  BY <1>2, <1>3, <1>4, <1>7 DEF Cached, Go, Continue, HandOn, Raise, Still, Building
<1>8. CASE RawAside(p)
  BY <1>3, <1>8 DEF RawAside, Continue, Moves, Building
<1>9. CASE Download(p)
  BY <1>2, <1>3, <1>4, <1>9 DEF Download, NetworkFails, Go, Continue, Raise, Still, Building
<1>10. CASE Promote(p)
  BY <1>3, <1>10 DEF Promote, Go, Continue, Moves, Building
<1>11. CASE Describe(p)
  BY <1>3, <1>11 DEF Describe, Go, Continue, Moves, Building
<1>12. CASE WriteManifest(p)
  <2>1. source' # Absent /\ source'.serial = serials'
    BY <1>12, NewSource DEF WriteManifest, Is, IInv, Ready, Prepared
  <2>2. QED
    BY <1>3, <1>12, <2>1 DEF WriteManifest, HandOn, Moves, Building
<1>13. QED
  BY <1>1, <1>5, <1>6, <1>7, <1>8, <1>9, <1>10, <1>11, <1>12 DEF Acquiring

LEMMA ProcessingFlows == ASSUME IInv, NEW p \in Procs, Processing(p) PROVE Flow
<1> USE FaultsCount DEF bounds, files
<1>1. CASE TakeDataLock(p)
  BY <1>1, AwayFlows
  DEF TakeDataLock, Take, Is, Goto, locals, IInv, Typed, ControlOK, Moves, Builds, Stands, Building
<1>2. ASSUME NEW r, End(p, r), Still PROVE Flow
  BY <1>2, EndFlows
<1>3. ASSUME NEW step, NEW h, Keep(p, step, h), step \notin Building, Moves PROVE Flow
  BY <1>3, KeepMoves, AwayFlows
<1>4. Still => Moves
  BY StillMoves
<1>5. CASE Examine(p)
  BY <1>2, <1>3, <1>4, <1>5 DEF Examine, Go, Continue, Raise, Still, Building
<1>6. CASE DataAside(p)
  BY <1>3, <1>6 DEF DataAside, Go, Continue, Moves, Building
<1>7. CASE Parse(p)
  <2>1. Still
    BY <1>7 DEF Parse, Still
  <2>2. CASE Raise(p)
    BY <1>2, <2>1, <2>2 DEF Raise
  <2> DEFINE h == [hold[p] EXCEPT !.content = raw]
  <2>3. CASE raw # Absent /\ Keep(p, "write", h)
    <3>1. h.content = raw
      BY DEF IInv, Typed, ControlOK, Holds
    <3>2. Builds(p) /\ \A q \in Procs \ {p} : Stands(q)
      BY <2>3, <3>1, KeepMoves DEF Builds, Parses
    <3>3. QED
      BY <1>4, <2>1, <3>2, AwayFlows
  <2>4. QED
    BY <1>7, <2>2, <2>3 DEF Parse, Continue
<1>8. CASE Write(p)
  <2>1. Still
    BY <1>8 DEF Write, Still
  <2> DEFINE c == hold[p].content
             t == [source |-> source.serial, made |-> c, content |-> c, readable |-> TRUE]
             h == [hold[p] EXCEPT !.table = t]
  <2>2. Keep(p, "verify", h) /\ pc[p] = "write" /\ source # Absent
    BY <1>8 DEF Write, Is, Continue, IInv, Ready, Prepared, DataSteps
  <2>3. h.table = t /\ t.source = source.serial /\ t.made = c /\ t.content = c
    BY DEF IInv, Typed, ControlOK, Holds
  <2> HIDE DEF h, t
  <2>4. Builds(p) /\ \A q \in Procs \ {p} : Stands(q)
    BY <2>2, <2>3, KeepMoves DEF Builds, Writes
  <2>5. QED
    BY <1>4, <2>1, <2>4, AwayFlows
<1>9. CASE Verify(p)
  <2>1. Still
    BY <1>9 DEF Verify, Still
  <2>2. CASE Keep(p, "dataPromote", hold[p])
    <3>1. Builds(p) /\ \A q \in Procs \ {p} : Stands(q)
      BY <1>9, <2>2, KeepMoves DEF Verify, Is, Builds, Carries, Built
    <3>2. QED
      BY <1>4, <2>1, <3>1, AwayFlows
  <2>3. QED
    BY <1>2, <1>9, <2>1, <2>2 DEF Verify, Go, Continue, Raise
<1>10. CASE DataPromote(p)
  BY <1>10, EndMoves, AwayFlows DEF DataPromote, Is, Moves
<1>11. QED
  BY <1>1, <1>5, <1>6, <1>7, <1>8, <1>9, <1>10 DEF Processing

LEMMA GeneratingFlows == ASSUME IInv, NEW p \in Procs, Generating(p) PROVE Flow
<1> USE FaultsCount DEF bounds, files
<1>1. CASE TakeSplitLock(p)
  BY <1>1, AwayFlows
  DEF TakeSplitLock, Take, Is, Goto, locals, IInv, Typed, ControlOK, Moves, Builds, Stands, Building
<1>2. ASSUME NEW r, End(p, r), Moves PROVE Flow
  BY <1>2, EndMoves, AwayFlows
<1>3. ASSUME NEW step, NEW h, Keep(p, step, h), step \notin Building, Moves PROVE Flow
  BY <1>3, KeepMoves, AwayFlows
<1>4. Still => Moves
  BY StillMoves
<1>5. CASE LookSplit(p)
  BY <1>3, <1>4, <1>5 DEF LookSplit, Continue, Still, Building
<1>6. CASE SplitAside(p)
  BY <1>3, <1>6 DEF SplitAside, Continue, Moves, Building
<1>7. CASE HashData(p)
  BY <1>2, <1>3, <1>4, <1>7 DEF HashData, Continue, Raise, Still, Building
<1>8. CASE Assign(p)
  BY <1>2, <1>3, <1>4, <1>8 DEF Assign, Continue, Raise, Still, Building
<1>9. CASE SplitReplace(p)
  BY <1>3, <1>9 DEF SplitReplace, Go, Continue, Moves, Building
<1>10. CASE SplitPromote(p)
  BY <1>2, <1>10 DEF SplitPromote, Moves
<1>11. QED
  BY <1>1, <1>5, <1>6, <1>7, <1>8, <1>9, <1>10 DEF Generating

LEMMA NextFlows == ASSUME IInv, Next PROVE Flow
<1> USE FaultsCount DEF bounds, files
<1>1. ASSUME NEW p \in Procs, NEW j \in Jobs, Begin(p, j) PROVE Flow
  <2>1. Still
    BY <1>1 DEF Begin, Still
  <2>2. PICK step, h :
            Keep(p, step, h)
            /\ step \in {"rawLock", "splitLock", "rejectTemporary", "readManifest"}
    BY <1>1 DEF Begin, Jobs
  <2>3. QED
    BY <2>1, <2>2, KeepFlows DEF Building
<1>2. ASSUME NEW p \in Procs, LockTimeout(p) \/ Crash(p) PROVE Flow
  BY <1>2, EndFlows DEF LockTimeout, Crash, Raise, Fault, Still
<1>3. ASSUME NEW p \in Procs, Working(p) PROVE Flow
  BY <1>3, AcquiringFlows, ProcessingFlows, GeneratingFlows, ReadsFlow DEF Working
<1>4. CASE RawDamaged
  BY <1>4 DEF RawDamaged, Untouched, Fault, locals, Flow, Moves, Builds, Stands
<1>5. CASE SourceDamaged
  <2>1. source' # Absent /\ source'.serial = serials'
    BY <1>5, NewSource DEF SourceDamaged, IInv, Dated
  <2>2. QED
    BY <1>5, <2>1 DEF SourceDamaged, Untouched, Fault, locals, Flow, Moves, Builds, Stands
<1>6. CASE TablesDamaged
  <2>1. processed \in Tables
    BY <1>6 DEF TablesDamaged, IInv, Typed, FilesOK
  <2>2. processed' # Absent /\ processed'.made = processed.made
        /\ processed'.source = processed.source
        /\ processed'.content \in {processed.content, Torn(faults')}
        /\ faults' = faults + 1
    <3>1. faults' \in Nat /\ faults' = faults + 1
      BY <1>6 DEF TablesDamaged, Fault
    <3>2. processed' \in Tables
      BY <1>6, <2>1, <3>1, ContentsOK DEF TablesDamaged, Tables
    <3>3. QED
      BY <1>6, <2>1, <3>1, <3>2, Distinct DEF TablesDamaged, Tables
  <2>3. QED
    BY <1>6, <2>2 DEF TablesDamaged, Untouched, locals, Flow, Moves, Builds, Stands
<1>7. CASE SplitDamaged
  <2>1. split \in Splits /\ (split' = Broken \/ split' = [split EXCEPT !.file = Torn(faults')])
    BY <1>7 DEF SplitDamaged
  <2>2. split' = Broken
        \/ (split'.data = split.data /\ split'.features = split.features
            /\ split'.content = split.content)
    BY <2>1 DEF Splits
  <2>3. QED
    BY <1>7, <2>1, <2>2 DEF SplitDamaged, Untouched, Fault, locals, Flow, Moves, Builds, Stands
<1>8. QED
  BY <1>1, <1>2, <1>3, <1>4, <1>5, <1>6, <1>7 DEF Next

\* The damages there have been, and the next one, are different contents.
LEMMA DamagesDiffer ==
    ASSUME IInv
    PROVE  /\ faults \in Nat
           /\ Good \in Raws /\ Good.kind = "Good"
           /\ \A c \in Raws : c \in Contents /\ c.kind \in {"Good", "Bad"}
           /\ \A c \in Raws : c.kind = "Good" => c = Good
           /\ \A c \in Torns : c \in Contents /\ c.kind = "Torn"
           /\ \A c \in Raws : c # Bad(faults + 1)
           /\ \A c \in Torns : c # Torn(faults + 1)
<1>1. faults \in Nat
  BY FaultsCount
<1>2. \A n \in 1 .. faults : n \in Nat /\ n # faults + 1
  BY <1>1
<1>3. \A n, m \in Nat : n # m => Bad(n) # Bad(m) /\ Torn(n) # Torn(m)
  <2>1. ASSUME NEW n \in Nat, NEW m \in Nat, n # m PROVE Bad(n) # Bad(m) /\ Torn(n) # Torn(m)
    <3>1. Bad(n).fault = n /\ Bad(m).fault = m /\ Torn(n).fault = n /\ Torn(m).fault = m
      BY DEF Bad, Torn
    <3>2. QED
      BY <2>1, <3>1
  <2>2. QED
    BY <2>1
<1>4. \A n \in Nat : /\ Bad(n) \in Contents /\ Bad(n).kind = "Bad"
                     /\ Torn(n) \in Contents /\ Torn(n).kind = "Torn"
  BY DEF Bad, Torn, Contents
<1>5. Good \in Contents /\ Good.kind = "Good"
  BY DEF Good, Contents
<1>6. \A n \in Nat : Good # Bad(n)
  BY <1>4, <1>5
<1>7. Good # Bad(faults + 1) /\ faults + 1 \in Nat
  BY <1>1, <1>6
<1>8. QED
  BY <1>1, <1>2, <1>3, <1>4, <1>5, <1>7 DEF Raws, Torns

\* What is past stays past.
Stays ==
    /\ \A c \in Raws : c.kind = "Bad" =>
          /\ raw # c => raw' # c
          /\ Gone(c) => Gone(c)'
          /\ Latest(c) => Latest(c)'
    /\ \A s \in Nat : AtLeast(s) => AtLeast(s)'
    /\ \A c \in Torns : Mended(c) => Mended(c)'
    /\ Raws \subseteq Raws' /\ Torns \subseteq Torns'
    /\ serials <= serials'

LEMMA NoMoreOf ==
    ASSUME IInv, MomentInv, Flow, NEW c \in Raws, c.kind = "Bad"
    PROVE  /\ raw # c => raw' # c
           /\ Gone(c) => Gone(c)'
           /\ Latest(c) => Latest(c)'
<1>1. raw' = c => raw = c
  <2>1. c # Good /\ c # Bad(faults + 1) /\ c # Absent
    BY DamagesDiffer, Distinct
  <2>2. QED
    BY <2>1 DEF Flow, Moves
\* Who makes tables of c made them before, or finds c in the raw file.
<1>2. ASSUME NEW q \in Procs, pc'[q] \in Building, Made(pc'[q], hold'[q]) = c
      PROVE  raw = c \/ (pc[q] \in Building /\ Made(pc[q], hold[q]) = c)
  BY <1>2 DEF Flow, Builds, Parses, Writes, Carries, Stands, Made, Built, Building
<1>3. ASSUME processed' # Absent
      PROVE  \/ processed # Absent /\ processed'.made = processed.made
             \/ \E q \in Procs : pc[q] \in Building /\ processed'.made = Made(pc[q], hold[q])
  BY <1>3 DEF Flow, Moves, Made, Building
<1>4. Gone(c) => Gone(c)'
  BY <1>1, <1>2, <1>3 DEF Gone
<1>5. ASSUME Latest(c), raw' = c PROVE Latest(c)'
  <2>1. \A q \in Procs : pc[q] \in Building => Made(pc[q], hold[q]) = c
    BY <1>1, <1>5 DEF Latest
  <2>2. ASSUME NEW q \in Procs, pc'[q] \in Building PROVE Made(pc'[q], hold'[q]) = c
    BY <1>1, <1>5, <2>1, <2>2
    DEF Flow, Builds, Parses, Writes, Carries, Stands, Made, Built, Building
  <2>3. processed' # Absent => processed'.made = c
    BY <1>1, <1>3, <1>5, <2>1 DEF Latest
  <2>4. QED
    BY <2>2, <2>3 DEF Latest
<1>6. QED
  BY <1>1, <1>4, <1>5 DEF Latest

LEMMA NoMoreFrom ==
    ASSUME IInv, IInv', MomentInv, Flow, NEW s \in Nat, AtLeast(s) PROVE AtLeast(s)'
<1>1. serials \in Nat /\ s <= serials /\ serials <= serials' /\ serials' \in Nat
  BY FaultsCount DEF AtLeast, Flow, Moves, IInv, Typed, BoundsOK
<1>2. source # Absent => source.serial >= s
  BY <1>1 DEF MomentInv, Origins
<1>3. ASSUME NEW q \in Procs, pc'[q] \in Built PROVE hold'[q].table.source >= s
  BY <1>2, <1>3 DEF AtLeast, Flow, Builds, Parses, Writes, Carries, Stands, Built, Building
<1>4. processed' # Absent => processed'.source >= s
  BY DEF AtLeast, Flow, Moves, Built
<1>5. QED
  BY <1>1, <1>3, <1>4 DEF AtLeast

LEMMA NoMoreTorn ==
    ASSUME IInv, MomentInv, Flow, NEW c \in Torns, Mended(c) PROVE Mended(c)'
<1>1. c # Torn(faults + 1) /\ c.kind = "Torn"
  BY DamagesDiffer
<1>2. \A q \in Procs : pc[q] = "dataPromote" => hold[q].table.content \in Raws
  BY DEF MomentInv, Follows, Built
<1>3. QED
  BY <1>1, <1>2, DamagesDiffer DEF Mended, Flow, Moves

LEMMA FlowStays == ASSUME IInv, MomentInv, Flow, IInv' PROVE Stays
<1>1. faults <= faults' /\ faults \in Nat /\ faults' \in Nat /\ serials <= serials'
  BY FaultsCount DEF Flow, Moves, IInv, Typed, BoundsOK
<1>2. Raws \subseteq Raws' /\ Torns \subseteq Torns'
  BY <1>1 DEF Raws, Torns
<1>3. QED
  BY <1>1, <1>2, NoMoreOf, NoMoreFrom, NoMoreTorn DEF Stays

LEMMA OriginsStay == ASSUME IInv, IInv', MomentInv, Flow, Stays PROVE Origins'
<1> USE DEF MomentInv, Origins
<1>1. (source' # Absent => source'.serial = serials') /\ (serials' # 0 => source' # Absent)
  BY DEF Flow, Moves
<1>2. raw' \in Raws' \cup {Absent}
  <2>1. faults + 1 \in 1 .. (faults + 1)
    BY FaultsCount
  <2>2. Good \in Raws
    BY DamagesDiffer
  <2>3. CASE faults' = faults + 1 /\ raw' = Bad(faults')
    BY <2>1, <2>3 DEF Raws
  <2>4. QED
    BY <2>2, <2>3 DEF Flow, Moves, Stays
<1>3. \A q \in Procs : pc[q] = "dataPromote" =>
          hold[q].table.made \in Raws /\ hold[q].table.content = hold[q].table.made
  BY DEF Follows, Built
<1>4. ASSUME processed' # Absent
      PROVE  processed'.made \in Raws' /\ processed'.content \in {processed'.made} \cup Torns'
  <2>1. faults + 1 \in 1 .. (faults + 1)
    BY FaultsCount
  <2>2. faults' = faults + 1 => Torn(faults') \in Torns'
    BY <2>1 DEF Torns
  <2>3. QED
    BY <1>3, <1>4, <2>2 DEF Flow, Moves, Stays
<1>5. QED
  BY <1>1, <1>2, <1>4

LEMMA OriginStays ==
    ASSUME IInv, Stays, serials' \in Nat, NEW s \in Splits, SplitOrigin(s) PROVE SplitOrigin(s)'
<1>1. s.data.made \in Raws' /\ s.data.source <= serials'
  BY FaultsCount DEF SplitOrigin, Stays, Splits, DataManifests, Serials
<1>2. s.features \in Raws' \cup Torns' /\ s.content \in Raws' \cup Torns'
  BY DEF SplitOrigin, Stays
<1>3. s.content.kind = "Bad" /\ s.content # s.data.made => Gone(s.content)'
  BY DamagesDiffer DEF SplitOrigin, Stays
<1>4. QED
  BY <1>1, <1>2, <1>3 DEF SplitOrigin

LEMMA SplitStays ==
    ASSUME IInv, IInv', MomentInv, Flow, Stays, split' \in Splits PROVE SplitOrigin(split)'
<1>1. split' # Absent /\ split' # Broken /\ serials' \in Nat
  BY Distinct DEF IInv, Typed, BoundsOK
<1>2. \/ split' = split \/ \E q \in Procs : split' = hold[q].folds
      \/ split \in Splits /\ split'.data = split.data
         /\ split'.features = split.features /\ split'.content = split.content
  BY <1>1 DEF Flow, Moves
<1>3. PICK s \in Splits :
          /\ SplitOrigin(s)
          /\ split'.data = s.data /\ split'.features = s.features /\ split'.content = s.content
  BY <1>2 DEF MomentInv, Follows
<1>4. SplitOrigin(s)'
  BY <1>1, <1>3, OriginStays
<1>5. QED
  BY <1>3, <1>4 DEF SplitOrigin, Gone
-------------------------------------------------------------------------------
(* What a process may rely on it may rely on later.                        *)

\* More has been seen.
Within(before, after) ==
    before.sources \subseteq after.sources /\ before.tables \subseteq after.tables

LEMMA RawSeenStays ==
    ASSUME IInv, IInv', Stays, NEW m \in Splits, SplitOrigin(m), NEW before, NEW after,
           Within(before, after), RawSeen(m, before)
    PROVE  RawSeen(m, after)'
<1>1. m.data.source < serials' \/ m.data.source \in after.sources
  BY FaultsCount
  DEF RawSeen, Within, Stays, Splits, DataManifests, Serials, IInv, Typed, BoundsOK
<1>2. \A c \in {m.data.made, m.features} : c.kind = "Bad" => raw' # c
  BY DamagesDiffer DEF RawSeen, Stays, SplitOrigin
<1>3. QED
  BY <1>1, <1>2 DEF RawSeen

LEMMA SourceSeenStays ==
    ASSUME Stays, NEW m \in Splits, NEW before, NEW after, Within(before, after),
           SourceSeen(m, before)
    PROVE  SourceSeen(m, after)'
<1>1. m.data.source \in Nat /\ m.data.source + 1 \in Nat
  BY DEF Splits, DataManifests, Serials
<1>2. AtLeast(m.data.source)'
  BY <1>1 DEF SourceSeen, Stays
<1>3. m.data.source \in after.sources \/ AtLeast(m.data.source + 1)'
  BY <1>1 DEF SourceSeen, Stays, Within
<1>4. QED
  BY <1>2, <1>3 DEF SourceSeen, AtLeast

LEMMA HashesSeenStays ==
    ASSUME IInv, Stays, NEW m \in Splits, SplitOrigin(m), HashesSeen(m) PROVE HashesSeen(m)'
<1>1. \A c \in {m.features, m.content} : c.kind = "Torn" => Mended(c)'
  BY DamagesDiffer DEF HashesSeen, Stays, SplitOrigin
<1>2. QED
  BY <1>1 DEF HashesSeen, Mended

LEMMA TablesSeenStays ==
    ASSUME IInv, Stays, NEW m \in Splits, SplitOrigin(m), NEW c, NEW before, NEW after,
           Within(before, after), TablesSeen(m, c, before)
    PROVE  TablesSeen(m, c, after)'
<1>1. m.data.source + 1 \in Nat
  BY DEF Splits, DataManifests, Serials
<1>2. c \in Raws' \cup Torns'
  BY DEF TablesSeen, Stays
<1>3. ASSUME c.kind # "Torn", NEW b \in {m.data.made, m.features}, b.kind = "Bad", b # c
      PROVE  Gone(b)'
  BY <1>3, DamagesDiffer DEF TablesSeen, Stays, SplitOrigin
<1>4. c.kind # "Torn" =>
          \/ [source |-> m.data.source, made |-> c] \in after.tables
          \/ AtLeast(m.data.source + 1)'
  BY <1>1 DEF TablesSeen, Stays, Within
<1>5. c.kind # "Torn" =>
          \A b \in {m.data.made, m.features} : b.kind = "Bad" /\ b # c => Gone(b)'
  BY <1>3
<1>6. QED
  BY <1>2, <1>4, <1>5 DEF TablesSeen, Gone, AtLeast

LEMMA FeaturesSeenStays ==
    ASSUME Stays, NEW m \in Splits, SplitOrigin(m), FeaturesSeen(m) PROVE FeaturesSeen(m)'
<1>1. m.features.kind = "Good" /\ m.data.made.kind = "Bad" => Gone(m.data.made)'
  BY DEF FeaturesSeen, Stays, SplitOrigin
<1>2. QED
  BY <1>1 DEF FeaturesSeen, Gone

LEMMA WatchesStay ==
    ASSUME IInv, IInv', Stays, NEW step, NEW h, h.checked \in Splits => SplitOrigin(h.checked),
           step = "hashSource" => NamedOrigin(h.named),
           NEW before, NEW after, step \in Validating => Within(before, after),
           Watches(step, h, before)
    PROVE  Watches(step, h, after)'
<1>1. PICK m : m = h.checked
  OBVIOUS
<1>2. step \in Reading \cup Judging =>
          m \in Splits /\ SplitOrigin(m) /\ Within(before, after)
  BY <1>1, StagesAre DEF Watches
<1>3. step \in AfterRaw => RawSeen(m, after)'
  BY <1>1, <1>2, StagesAre, RawSeenStays DEF Watches
<1>4. step = "hashSource" => AtLeast(h.named.source)'
  BY DEF Watches, NamedOrigin, DataManifests, Serials, Stays
<1>5. step \in AfterSource => SourceSeen(m, after)'
  BY <1>1, <1>2, StagesAre, SourceSeenStays DEF Watches
<1>6. step \in AfterHashes => HashesSeen(m)'
  BY <1>1, <1>2, StagesAre, HashesSeenStays DEF Watches
<1>7. step \in AfterTables => TablesSeen(m, h.content, after)'
  BY <1>1, <1>2, StagesAre, TablesSeenStays DEF Watches
<1>8. step = "checkData" => FeaturesSeen(m)'
  BY <1>1, <1>2, StagesAre, FeaturesSeenStays DEF Watches
<1>9. QED
  BY <1>1, <1>2, <1>3, <1>4, <1>5, <1>6, <1>7, <1>8
  DEF Watches, RawSeen, SourceSeen, HashesSeen, Mended, TablesSeen, FeaturesSeen, Gone, AtLeast

LEMMA FollowsOn ==
    ASSUME IInv, IInv', Stays, NEW step, NEW h, NEW moments, NEW later,
           Follows(step, h, moments), Watching(step, h) => Within(moments, later)
    PROVE  Follows(step, h, later)'
<1>1. serials' \in Nat /\ serials \in Nat
  BY DEF IInv, Typed, BoundsOK
<1>2. (h.folds \in Splits => SplitOrigin(h.folds)')
      /\ (h.checked \in Splits => SplitOrigin(h.checked)')
  BY <1>1, OriginStays DEF Follows
<1>3. ASSUME NamedOrigin(h.named) PROVE NamedOrigin(h.named)'
  BY <1>1, <1>3 DEF NamedOrigin, DataManifests, Serials, Stays
<1>4. step = "hashData" /\ h.content.kind = "Bad" => Latest(h.content)'
  BY DamagesDiffer DEF Follows, Stays
<1>5. step = "assign" /\ h.content.kind = "Bad" /\ h.content # h.named.made => Gone(h.content)'
  BY DamagesDiffer DEF Follows, Stays
<1>6. Looking(h) => Watches(step, h, later)'
  BY WatchesStay DEF Follows, Watching
<1>7. (step = "write" => h.content \in Raws') /\ (step \in Built => h.table.made \in Raws')
      /\ (step \in {"hashData", "assign"} => h.content \in Raws' \cup Torns')
  BY DEF Follows, Stays
<1>8. step \in {"hashSource", "hashTables", "assign"} => NamedOrigin(h.named)'
  BY <1>3 DEF Follows
<1>9. QED
  BY <1>2, <1>4, <1>5, <1>6, <1>7, <1>8 DEF Follows, Latest, Gone

\* A process goes where it would find everything as it must be.
LEMMA Arrives ==
    ASSUME IInv, IInv', Stays, NEW p \in Procs, NEW step, NEW h, NEW moments,
           pc'[p] = step, hold'[p] = h, Follows(step, h, moments),
           Watching(step, h) => Within(moments, seen'[p])
    PROVE  Follows(pc[p], hold[p], seen[p])'
<1>1. PICK later : later = seen'[p]
  OBVIOUS
<1>2. Follows(step, h, later)'
  BY <1>1, FollowsOn
<1>3. QED
  BY <1>1, <1>2

\* What is seen of a validation grows, and holds what is there after each step.
LEMMA SeenGrows ==
    ASSUME Next, NEW p \in Procs, Watching(pc'[p], hold'[p])
    PROVE  /\ Watching(pc[p], hold[p]) => Within(seen[p], seen'[p])
           /\ SourcesNow' \subseteq seen'[p].sources /\ TablesNow' \subseteq seen'[p].tables
  BY DEF Next, Observe, Watched, Pass, Watching, Looking, SeenBefore, Within

LEMMA OthersFollow ==
    ASSUME IInv, IInv', Stays, Next, NEW q \in Procs, Stands(q),
           Follows(pc[q], hold[q], seen[q])
    PROVE  Follows(pc[q], hold[q], seen[q])'
<1>1. PICK step, h, moments : step = pc[q] /\ h = hold[q] /\ moments = seen[q]
  OBVIOUS
<1>2. Watching(step, h) => Within(moments, seen'[q])
  BY <1>1, SeenGrows DEF Stands
<1>3. QED
  BY <1>1, <1>2, Arrives DEF Stands

\* Steps before which nothing of the sort has to be known; nor has it before the
\* first read of generate_split.
Plain == {"idle", "rawLock", "offline", "fetch", "cached", "aside", "download", "promote",
          "describe", "manifest", "dataLock", "examine", "dataAside", "parse", "splitLock",
          "lookSplit", "splitAside", "splitReplace", "splitPromote", "rejectTemporary",
          "readManifest"}

LEMMA PlainFollows ==
    ASSUME IInv, IInv', Stays, NEW p \in Procs, NEW before, Follows(pc[p], hold[p], before),
           pc'[p] \in Plain \/ (pc'[p] = "readSource" /\ ~Looking(hold'[p])),
           hold'[p].folds \in {hold[p].folds, Absent},
           hold'[p].checked \in {hold[p].checked, Absent}
    PROVE  Follows(pc[p], hold[p], seen[p])'
<1>1. Absent \notin Splits
  BY Distinct
<1>2. PICK step, h, later : step = pc'[p] /\ h = hold'[p] /\ later = seen'[p]
  OBVIOUS
<1>3. Looking(h) => Watches(step, h, later)
  BY <1>2, StagesAre DEF Plain, Reading, Judging, Watches
<1>4. Follows(step, h, later)
  BY <1>1, <1>2, <1>3 DEF Follows, Plain, Built
<1>5. QED
  BY <1>2, <1>4, Arrives DEF Within

\* No tables are under way while there are tables.
LEMMA NobodyBuilds ==
    ASSUME IInv, processed # Absent, NEW q \in Procs PROVE pc[q] \notin Building
  BY DEF IInv, Ready, Prepared, Building

\* Nothing is watched before the first step of a validation.
LEMMA Unwatched ==
    ASSUME NEW step, NEW h, NEW moments, step \in Building \cup {"hashData", "assign"}
    PROVE  Watches(step, h, moments)
  BY StagesAre DEF Watches, Building, Reading, Judging

LEMMA ParseFollows ==
    ASSUME IInv, MomentInv, NEW p \in Procs, raw # Absent
    PROVE  Follows("write", [hold[p] EXCEPT !.content = raw], NoMoment)
<1> DEFINE h == [hold[p] EXCEPT !.content = raw]
<1>1. h.content = raw /\ h.folds = hold[p].folds /\ h.checked = hold[p].checked
  BY DEF IInv, Typed, ControlOK, Holds
<1> HIDE DEF h
<1>2. Watches("write", h, NoMoment)
  BY Unwatched DEF Building
<1>3. Follows("write", h, NoMoment)
  BY <1>1, <1>2 DEF Follows, MomentInv, Origins, Built
<1>4. QED
  BY <1>3 DEF h

LEMMA WriteFollows ==
    ASSUME IInv, MomentInv, NEW p \in Procs, pc[p] = "write", NEW t,
           t.made = hold[p].content, t.content = t.made
    PROVE  Follows("verify", [hold[p] EXCEPT !.table = t], NoMoment)
<1> DEFINE h == [hold[p] EXCEPT !.table = t]
<1>1. h.table = t /\ h.folds = hold[p].folds /\ h.checked = hold[p].checked
  BY DEF IInv, Typed, ControlOK, Holds
<1> HIDE DEF h
<1>2. Watches("verify", h, NoMoment)
  BY Unwatched DEF Building
<1>3. Follows("verify", h, NoMoment)
  BY <1>1, <1>2 DEF Follows, MomentInv, Built
<1>4. QED
  BY <1>3 DEF h

LEMMA VerifyFollows ==
    ASSUME IInv, MomentInv, NEW p \in Procs, pc[p] = "verify"
    PROVE  Follows("dataPromote", hold[p], NoMoment)
<1>1. Watches("dataPromote", hold[p], NoMoment)
  BY Unwatched DEF Building
<1>2. QED
  BY <1>1 DEF MomentInv, Follows, Built

\* If the tables are others by now than those the assignments are of, and these
\* were of a damaged raw file, then that file is gone.
LEMMA HashDataFollows ==
    ASSUME IInv, MomentInv, NEW p \in Procs, pc[p] = "hashData", processed # Absent
    PROVE  Follows("assign", [hold[p] EXCEPT !.named = DataManifest(processed)], NoMoment)
<1> DEFINE d == DataManifest(processed)
           h == [hold[p] EXCEPT !.named = d]
           c == hold[p].content
<1>1. /\ h.named = d /\ h.content = c
      /\ h.folds = hold[p].folds /\ h.checked = hold[p].checked
  BY DEF IInv, Typed, ControlOK, Holds
<1>2. d.made = processed.made /\ d.source = processed.source /\ d \in DataManifests
  BY DEF DataManifest, DataManifests, Tables, IInv, Typed, FilesOK
<1>3. NamedOrigin(d)
  BY <1>2 DEF NamedOrigin, MomentInv, Origins, IInv, Dated
<1>4. c \in Raws \cup Torns /\ (c.kind = "Bad" => Latest(c))
  BY DEF MomentInv, Follows
<1>5. ASSUME c.kind = "Bad", c # d.made PROVE Gone(c)
  BY <1>2, <1>4, <1>5, NobodyBuilds DEF Latest, Gone
<1> HIDE DEF h, d
<1>6. Watches("assign", h, NoMoment)
  BY Unwatched
<1>7. Follows("assign", h, NoMoment)
  BY <1>1, <1>3, <1>4, <1>5, <1>6 DEF Follows, MomentInv, Built
<1>8. QED
  BY <1>7 DEF h, d

LEMMA AssignFollows ==
    ASSUME IInv, MomentInv, NEW p \in Procs, pc[p] = "assign", processed # Absent
    PROVE  Follows("readManifest",
                   [EmptyHold EXCEPT !.pass = "temporary", !.folds = Folds(p)], NoMoment)
<1> DEFINE s == Folds(p)
           h == [EmptyHold EXCEPT !.pass = "temporary", !.folds = s]
<1>1. s.data = hold[p].named /\ s.features = processed.content /\ s.content = hold[p].content
  BY DEF Folds
<1>2. processed.content \in Raws \cup Torns
  BY DEF MomentInv, Origins
<1>3. SplitOrigin(s)
  BY <1>1, <1>2 DEF MomentInv, Follows, SplitOrigin, NamedOrigin
<1> HIDE DEF s
<1>4. h.folds = s /\ h.checked = Absent /\ ~Looking(h)
  BY DEF EmptyHold, Looking
<1> HIDE DEF h
<1>5. Follows("readManifest", h, NoMoment)
  BY <1>3, <1>4, Distinct DEF Follows, Built
<1>6. QED
  BY <1>5 DEF h, s

LEMMA ReadManifestFollows ==
    ASSUME IInv, MomentInv, NEW p \in Procs, Examined(p) \in Splits
    PROVE  Follows("readSource", [hold[p] EXCEPT !.checked = Examined(p)], NoMoment)
<1> DEFINE s == Examined(p)
           h == [hold[p] EXCEPT !.checked = s]
<1>1. s \in Splits /\ SplitOrigin(s)
  BY DEF Examined, MomentInv, Follows
<1> HIDE DEF s
<1>2. h.checked = s /\ h.folds = hold[p].folds
  BY DEF IInv, Typed, ControlOK, Holds
<1> HIDE DEF h
<1>3. Watches("readSource", h, NoMoment)
  BY <1>1, <1>2, StagesAre DEF Watches, Judging
<1>4. Follows("readSource", h, NoMoment)
  BY <1>1, <1>2, <1>3 DEF Follows, MomentInv, Built
<1>5. QED
  BY <1>4 DEF h, s

\* What a process that goes on reading or comparing carries with it.
LEMMA GoingOn ==
    ASSUME MomentInv, NEW p \in Procs, NEW step \in Reading \cup Judging, NEW h,
           h.folds = hold[p].folds, h.checked = hold[p].checked, h.pass = hold[p].pass,
           NEW moments, step \in {"hashSource", "hashTables"} => NamedOrigin(h.named),
           Looking(h) => Watches(step, h, moments)
    PROVE  Follows(step, h, moments)
  BY DEF Follows, MomentInv, Built, Reading, Judging, Looking

\* The split a validation has read.
LEMMA CheckedIs ==
    ASSUME IInv, MomentInv, NEW p \in Procs, pc[p] \in Reading \cup Judging, Looking(hold[p])
    PROVE  LET m == hold[p].checked IN
           /\ m \in Splits /\ SplitOrigin(m) /\ Watches(pc[p], hold[p], seen[p])
           /\ m.data.source \in Serials /\ m.data.source <= serials
           /\ m.data.source \in Nat /\ serials \in Nat
           /\ m.data.made \in Raws
  BY FaultsCount DEF MomentInv, Follows, Watches, SplitOrigin, Splits, DataManifests, Serials

LEMMA ReadSourceFollows ==
    ASSUME IInv, MomentInv, NEW p \in Procs, pc[p] = "readSource"
    PROVE  Follows("hashRaw", hold[p], seen[p])
<1>1. "readSource" \in Reading /\ "hashRaw" \in Reading
  BY DEF Reading
<1>2. Looking(hold[p]) => Watches("hashRaw", hold[p], seen[p])
  BY <1>1, CheckedIs, StagesAre DEF Watches, Judging
<1>3. QED
  BY <1>1, <1>2, GoingOn

\* The good raw file is there: with the source the split names, unless that is
\* an old one.
LEMMA HashRawFollows ==
    ASSUME IInv, MomentInv, NEW p \in Procs, pc[p] = "hashRaw", raw = Good, NEW moments,
           Looking(hold[p]) => SourcesNow \subseteq moments.sources
    PROVE  Follows("readData", hold[p], moments)
<1>1. "hashRaw" \in Reading /\ "readData" \in Reading
  BY DEF Reading
<1>2. ASSUME Looking(hold[p]) PROVE Watches("readData", hold[p], moments)
  <2>1. PICK m : m = hold[p].checked
    OBVIOUS
  <2>2. /\ m \in Splits /\ m.data.source \in Serials /\ m.data.source <= serials
        /\ m.data.source \in Nat /\ serials \in Nat
    BY <1>1, <1>2, <2>1, CheckedIs
  <2>3. ASSUME m.data.source = serials PROVE m.data.source \in moments.sources
    <3>1. source # Absent /\ source.serial = serials
      BY <2>2, <2>3 DEF Serials, MomentInv, Origins
    <3>2. QED
      BY <1>2, <2>3, <3>1 DEF SourcesNow
  <2>4. m.data.source < serials \/ m.data.source \in moments.sources
    BY <2>2, <2>3
  <2>5. \A c \in {m.data.made, m.features} : c.kind = "Bad" => raw # c
    BY DamagesDiffer
  <2>6. RawSeen(m, moments)
    BY <2>4, <2>5 DEF RawSeen
  <2>7. QED
    BY <2>1, <2>2, <2>6, StagesAre DEF Watches, Judging
<1>3. QED
  BY <1>1, <1>2, GoingOn

LEMMA ReadDataFollows ==
    ASSUME IInv, MomentInv, NEW p \in Procs, pc[p] = "readData", processed # Absent
    PROVE  Follows("hashSource", [hold[p] EXCEPT !.named = DataManifest(processed)], seen[p])
<1> DEFINE d == DataManifest(processed)
           h == [hold[p] EXCEPT !.named = d]
<1>1. "readData" \in Reading /\ "hashSource" \in Reading
  BY DEF Reading
<1>2. /\ h.named = d /\ h.pass = hold[p].pass
      /\ h.folds = hold[p].folds /\ h.checked = hold[p].checked
  BY DEF IInv, Typed, ControlOK, Holds
<1>3. d.made = processed.made /\ d.source = processed.source /\ d \in DataManifests
  BY DEF DataManifest, DataManifests, Tables, IInv, Typed, FilesOK
<1>4. NamedOrigin(d)
  BY <1>3 DEF NamedOrigin, MomentInv, Origins, IInv, Dated
<1>5. AtLeast(d.source)
  BY <1>3, <1>4, NobodyBuilds DEF AtLeast, NamedOrigin, DataManifests, Serials, Built, Building
<1> HIDE DEF h, d
<1>6. ASSUME Looking(h) PROVE Watches("hashSource", h, seen[p])
  <2>1. hold[p].checked \in Splits /\ RawSeen(hold[p].checked, seen[p])
    BY <1>1, <1>2, <1>6, CheckedIs, StagesAre DEF Looking, Watches
  <2>2. QED
    BY <1>2, <1>5, <2>1, StagesAre DEF Watches, Judging
<1>7. Follows("hashSource", h, seen[p])
  BY <1>1, <1>2, <1>4, <1>6, GoingOn
<1>8. QED
  BY <1>7 DEF h, d

LEMMA HashSourceFollows ==
    ASSUME IInv, MomentInv, NEW p \in Procs, pc[p] = "hashSource", source # Absent,
           source.serial = hold[p].named.source
    PROVE  Follows("hashTables", hold[p], seen[p])
<1>1. "hashSource" \in Reading /\ "hashTables" \in Reading
  BY DEF Reading
<1>2. NamedOrigin(hold[p].named)
  BY DEF MomentInv, Follows
<1>3. ASSUME Looking(hold[p]) PROVE Watches("hashTables", hold[p], seen[p])
  <2>1. PICK m : m = hold[p].checked
    OBVIOUS
  <2>2. /\ m \in Splits /\ m.data.source <= serials
        /\ m.data.source \in Nat /\ serials \in Nat
        /\ RawSeen(m, seen[p]) /\ AtLeast(hold[p].named.source)
    BY <1>1, <1>3, <2>1, CheckedIs, StagesAre DEF Watches
  <2>3. AtLeast(serials)
    BY <2>2 DEF MomentInv, Origins
\* Whoever names at least the source of now names at least an older one.
  <2>4. ASSUME NEW k \in Nat, k <= serials PROVE AtLeast(k)
    <3>1. \A q \in Procs : pc[q] \in Built => hold[q].table.source \in Nat
      BY DEF IInv, Ready, Prepared, Built, Tables, Serials
    <3>2. processed # Absent => processed.source \in Nat
      BY DEF IInv, Typed, FilesOK, Tables, Serials
    <3>3. QED
      BY <2>2, <2>3, <2>4, <3>1, <3>2 DEF AtLeast
  <2>5. SourceSeen(m, seen[p])
    BY <2>2, <2>4 DEF SourceSeen, RawSeen
  <2>6. QED
    BY <2>1, <2>2, <2>5, StagesAre DEF Watches, Judging
<1>4. QED
  BY <1>1, <1>2, <1>3, GoingOn

LEMMA HashTablesFollows ==
    ASSUME IInv, MomentInv, NEW p \in Procs, pc[p] = "hashTables",
           processed.content = hold[p].named.made
    PROVE  Follows("readTables", hold[p], seen[p])
<1>1. "hashTables" \in Reading /\ "readTables" \in Reading
  BY DEF Reading
<1>2. processed.content.kind # "Torn"
  BY DamagesDiffer DEF MomentInv, Follows, NamedOrigin
<1>3. ASSUME Looking(hold[p]) PROVE Watches("readTables", hold[p], seen[p])
  <2>1. PICK m : m = hold[p].checked
    OBVIOUS
  <2>2. m \in Splits /\ RawSeen(m, seen[p]) /\ SourceSeen(m, seen[p])
    BY <1>1, <1>3, <2>1, CheckedIs, StagesAre DEF Watches
  <2>3. HashesSeen(m)
    BY <1>2 DEF HashesSeen, Mended
  <2>4. QED
    BY <2>1, <2>2, <2>3, StagesAre DEF Watches, Judging
<1>4. QED
  BY <1>1, <1>3, GoingOn

\* Tables that are not torn are those the split names, or it names an old source.
LEMMA TablesAreSeen ==
    ASSUME IInv, MomentInv, NEW p \in Procs, pc[p] = "readTables", Looking(hold[p]),
           processed # Absent, NEW moments, Within(seen[p], moments),
           TablesNow \subseteq moments.tables
    PROVE  LET m == hold[p].checked IN
           /\ m \in Splits /\ RawSeen(m, moments) /\ SourceSeen(m, moments) /\ HashesSeen(m)
           /\ TablesSeen(m, processed.content, moments)
<1>1. PICK m, c : m = hold[p].checked /\ c = processed.content
  OBVIOUS
<1>2. /\ m \in Splits /\ SplitOrigin(m) /\ m.data.made \in Raws
      /\ m.data.source \in Nat /\ serials \in Nat
      /\ RawSeen(m, seen[p]) /\ SourceSeen(m, seen[p]) /\ HashesSeen(m)
  BY <1>1, CheckedIs, StagesAre DEF Watches, Reading
<1>3. RawSeen(m, moments) /\ SourceSeen(m, moments)
  BY <1>2 DEF RawSeen, SourceSeen, Within
<1>4. processed.made \in Raws /\ c \in {processed.made} \cup Torns
  BY <1>1 DEF MomentInv, Origins
<1>5. m.content.kind = "Torn" => c # m.content
  BY <1>1, <1>2 DEF HashesSeen, Mended
<1>6. m.content.kind = "Bad" /\ m.content # m.data.made => c # m.content
  BY <1>2, <1>4, DamagesDiffer DEF SplitOrigin, Gone
<1>7. ASSUME c.kind # "Torn" PROVE c = processed.made
  BY <1>4, <1>7, DamagesDiffer
<1>8. ASSUME c.kind # "Torn", NEW b \in {m.data.made, m.features}, b.kind = "Bad", b # c
      PROVE  Gone(b)
  BY <1>2, <1>7, <1>8, NobodyBuilds DEF Gone, RawSeen
<1>9. ASSUME c.kind # "Torn"
      PROVE  \/ [source |-> m.data.source, made |-> c] \in moments.tables
             \/ AtLeast(m.data.source + 1)
  <2>1. /\ processed.source \in Nat /\ processed.source <= serials
        /\ m.data.source <= processed.source
    BY <1>2 DEF SourceSeen, AtLeast, IInv, Typed, FilesOK, Dated, Tables, Serials
  <2>2. CASE processed.source = m.data.source
    <3>1. DataManifest(processed) \in moments.tables
      BY <1>1, <1>7, <1>9 DEF TablesNow
    <3>2. QED
      BY <1>7, <1>9, <2>2, <3>1 DEF DataManifest
  <2>3. CASE processed.source # m.data.source
    BY <1>2, <2>1, <2>3, NobodyBuilds DEF AtLeast, Built, Building
  <2>4. QED
    BY <2>2, <2>3
<1>10. TablesSeen(m, c, moments)
  BY <1>4, <1>5, <1>6, <1>8, <1>9 DEF TablesSeen
<1>11. QED
  BY <1>1, <1>2, <1>3, <1>10

LEMMA ReadTablesFollows ==
    ASSUME IInv, MomentInv, NEW p \in Procs, pc[p] = "readTables", processed # Absent,
           NEW moments,
           Looking(hold[p]) => Within(seen[p], moments) /\ TablesNow \subseteq moments.tables
    PROVE  Follows("checkAssignments",
                   [hold[p] EXCEPT !.content = processed.content, !.named = Absent], moments)
<1> DEFINE c == processed.content
           h == [hold[p] EXCEPT !.content = c, !.named = Absent]
<1>1. /\ h.content = c /\ h.pass = hold[p].pass
      /\ h.folds = hold[p].folds /\ h.checked = hold[p].checked
  BY DEF IInv, Typed, ControlOK, Holds
<1>2. ASSUME Looking(h) PROVE Watches("checkAssignments", h, moments)
  <2>1. PICK m : m = hold[p].checked
    OBVIOUS
  <2>2. /\ m \in Splits /\ RawSeen(m, moments) /\ SourceSeen(m, moments) /\ HashesSeen(m)
        /\ TablesSeen(m, c, moments)
    BY <1>1, <1>2, <2>1, TablesAreSeen DEF Looking
  <2> HIDE DEF h, c
  <2>3. QED
    BY <1>1, <2>1, <2>2 DEF Watches
<1>3. "checkAssignments" \in Judging
  BY DEF Judging
<1> HIDE DEF h, c
<1>4. Follows("checkAssignments", h, moments)
  BY <1>1, <1>2, <1>3, GoingOn
<1>5. QED
  BY <1>4 DEF h, c

\* What generate_split has read is the last of its content.
LEMMA TablesFollow ==
    ASSUME IInv, MomentInv, NEW p \in Procs, processed # Absent
    PROVE  Follows("hashData",
                   [hold[p] EXCEPT !.content = processed.content, !.named = Absent], NoMoment)
<1> DEFINE c == processed.content
           h == [hold[p] EXCEPT !.content = c, !.named = Absent]
<1>1. h.content = c /\ h.folds = hold[p].folds /\ h.checked = hold[p].checked
  BY DEF IInv, Typed, ControlOK, Holds
<1>2. c \in Raws \cup Torns
  BY DEF MomentInv, Origins
<1>3. c.kind = "Bad" => c = processed.made
  BY DamagesDiffer DEF MomentInv, Origins
<1>4. c.kind = "Bad" => Latest(c)
  BY <1>3, NobodyBuilds DEF Latest
<1> HIDE DEF h, c
<1>5. Watches("hashData", h, NoMoment)
  BY Unwatched
<1>6. Follows("hashData", h, NoMoment)
  BY <1>1, <1>2, <1>4, <1>5 DEF Follows, MomentInv, Built
<1>7. QED
  BY <1>6 DEF h, c

LEMMA CheckAssignmentsFollow ==
    ASSUME IInv, MomentInv, NEW p \in Procs, pc[p] = "checkAssignments",
           hold[p].content = hold[p].checked.content
    PROVE  Follows("hashAssignments", hold[p], seen[p])
<1>1. "checkAssignments" \in Judging /\ "hashAssignments" \in Judging
  BY DEF Judging
<1>2. Looking(hold[p]) => Watches("hashAssignments", hold[p], seen[p])
  BY <1>1, CheckedIs, StagesAre DEF Watches
<1>3. QED
  BY <1>1, <1>2, GoingOn DEF Reading

LEMMA HashAssignmentsFollow ==
    ASSUME IInv, MomentInv, NEW p \in Procs, pc[p] = "hashAssignments"
    PROVE  Follows("checkFeatures", hold[p], seen[p])
<1>1. "hashAssignments" \in Judging /\ "checkFeatures" \in Judging
  BY DEF Judging
<1>2. Looking(hold[p]) => Watches("checkFeatures", hold[p], seen[p])
  BY <1>1, CheckedIs, StagesAre DEF Watches
<1>3. QED
  BY <1>1, <1>2, GoingOn DEF Reading

LEMMA CheckFeaturesFollow ==
    ASSUME IInv, MomentInv, NEW p \in Procs, pc[p] = "checkFeatures", processed # Absent,
           hold[p].checked.features = processed.content
    PROVE  Follows("checkData", hold[p], seen[p])
<1>1. "checkFeatures" \in Judging /\ "checkData" \in Judging
  BY DEF Judging
<1>2. ASSUME Looking(hold[p]) PROVE Watches("checkData", hold[p], seen[p])
  <2>1. PICK m : m = hold[p].checked
    OBVIOUS
  <2>2. /\ m \in Splits /\ SplitOrigin(m) /\ m.data.made \in Raws
        /\ Watches("checkFeatures", hold[p], seen[p])
    BY <1>1, <1>2, <2>1, CheckedIs
  <2>3. /\ RawSeen(m, seen[p]) /\ HashesSeen(m) /\ hold[p].content = m.content
        /\ TablesSeen(m, m.content, seen[p])
    BY <2>1, <2>2, StagesAre DEF Watches, Judging
  <2>4. processed.made \in Raws /\ m.features \in {processed.made} \cup Torns
    BY <2>1 DEF MomentInv, Origins
  <2>5. m.features.kind # "Torn" /\ m.features = processed.made
    BY <2>1, <2>3, <2>4, DamagesDiffer DEF HashesSeen, Mended
  <2>6. ASSUME m.features.kind = "Bad" PROVE m.features = m.content
    BY <2>3, <2>5, <2>6 DEF TablesSeen, Gone
  <2>7. ASSUME m.features.kind = "Good", m.data.made.kind = "Bad" PROVE Gone(m.data.made)
    BY <2>3, <2>5, <2>7, NobodyBuilds DEF RawSeen, Gone
  <2>8. FeaturesSeen(m)
    BY <2>5, <2>6, <2>7 DEF FeaturesSeen
  <2>9. QED
    BY <1>1, <2>1, <2>2, <2>8, StagesAre DEF Watches
<1>3. QED
  BY <1>1, <1>2, GoingOn DEF Reading
-------------------------------------------------------------------------------
(* What a process has learned once it has taken its step.                  *)

Ends(p) == \E r \in Results : End(p, r)
Carry(h, k) == h.folds \in {k.folds, Absent} /\ h.checked \in {k.checked, Absent}

LEMMA EndArrives ==
    ASSUME IInv, IInv', MomentInv, Stays, NEW p \in Procs, Ends(p)
    PROVE  Follows(pc[p], hold[p], seen[p])'
<1>1. pc'[p] = "idle" /\ hold'[p] = EmptyHold
  BY DEF Ends, End, Goto, IInv, Typed, ControlOK
<1>2. EmptyHold.folds = Absent /\ EmptyHold.checked = Absent
  BY DEF EmptyHold
<1>3. QED
  BY <1>1, <1>2, PlainFollows DEF Plain, MomentInv

LEMMA PlainArrives ==
    ASSUME IInv, IInv', MomentInv, Stays, NEW p \in Procs, NEW step \in Plain, NEW h,
           Keep(p, step, h), Carry(h, hold[p])
    PROVE  Follows(pc[p], hold[p], seen[p])'
<1>1. pc'[p] = step /\ hold'[p] = h
  BY KeepMoves
<1>2. QED
  BY <1>1, PlainFollows DEF Carry, MomentInv

\* generate_split starts to read with nothing in its hands.
LEMMA StartArrives ==
    ASSUME IInv, IInv', MomentInv, Stays, NEW p \in Procs, Keep(p, "readSource", EmptyHold)
    PROVE  Follows(pc[p], hold[p], seen[p])'
<1>1. pc'[p] = "readSource" /\ hold'[p] = EmptyHold
  BY KeepMoves
<1>2. EmptyHold.folds = Absent /\ EmptyHold.checked = Absent /\ ~Looking(EmptyHold)
  BY DEF EmptyHold, Looking
<1>3. QED
  BY <1>1, <1>2, PlainFollows DEF MomentInv

LEMMA EmptyCarries ==
    /\ \A k : Carry(EmptyHold, k) /\ Carry(k, k)
    /\ \A k, x : Carry([EmptyHold EXCEPT !.pass = x], k)
  BY DEF Carry, EmptyHold

LEMMA TakeArrives ==
    ASSUME IInv, IInv', MomentInv, Stays, NEW p \in Procs,
           TakeRawLock(p) \/ TakeDataLock(p) \/ TakeSplitLock(p)
    PROVE  Follows(pc[p], hold[p], seen[p])'
<1>1. pc'[p] \in Plain /\ hold'[p] = hold[p]
  BY DEF TakeRawLock, TakeDataLock, TakeSplitLock, Take, Goto, locals, Plain, IInv, Typed, ControlOK
<1>2. QED
  BY <1>1, PlainFollows DEF MomentInv

LEMMA AcquiringArrives ==
    ASSUME IInv, IInv', MomentInv, Stays, NEW p \in Procs, Acquiring(p)
    PROVE  Follows(pc[p], hold[p], seen[p])'
<1>1. ASSUME HandOn(p) PROVE Follows(pc[p], hold[p], seen[p])'
  BY <1>1, EmptyCarries, PlainArrives DEF HandOn, Plain
<1>2. ASSUME NEW step \in Plain, NEW h, Continue(p, step, h), Carry(h, hold[p])
      PROVE  Follows(pc[p], hold[p], seen[p])'
  BY <1>2, PlainArrives DEF Continue
<1>3. ASSUME Raise(p) PROVE Follows(pc[p], hold[p], seen[p])'
  BY <1>3, EndArrives DEF Raise, Ends, Results
<1>4. CASE TakeRawLock(p)
  BY <1>4, TakeArrives
<1>5. CASE Offline(p) \/ Fetch(p) \/ Cached(p)
  BY <1>1, <1>2, <1>3, <1>5, EmptyCarries DEF Offline, Fetch, Cached, Go, Plain
<1>6. CASE Download(p)
  <2> DEFINE h == [hold[p] EXCEPT !.tries = @ + 1]
  <2>1. Carry(h, hold[p])
    BY DEF Carry, IInv, Typed, ControlOK, Holds
  <2>2. Continue(p, "promote", EmptyHold) \/ Continue(p, "download", h) \/ Raise(p)
    BY <1>6 DEF Download
  <2> HIDE DEF h
  <2>3. QED
    BY <1>2, <1>3, <2>1, <2>2, EmptyCarries DEF Plain
<1>7. CASE RawAside(p) \/ Promote(p) \/ Describe(p) \/ WriteManifest(p)
  BY <1>1, <1>2, <1>7, EmptyCarries DEF RawAside, Promote, Describe, WriteManifest, Go, Plain
<1>8. QED
  BY <1>4, <1>5, <1>6, <1>7 DEF Acquiring

LEMMA ProcessingArrives ==
    ASSUME IInv, IInv', MomentInv, Stays, NEW p \in Procs, Processing(p)
    PROVE  Follows(pc[p], hold[p], seen[p])'
<1>1. ASSUME NEW r \in Results, End(p, r) PROVE Follows(pc[p], hold[p], seen[p])'
  BY <1>1, EndArrives DEF Ends
<1>2. ASSUME NEW step \in Plain, Go(p, step) PROVE Follows(pc[p], hold[p], seen[p])'
  BY <1>2, EmptyCarries, PlainArrives DEF Go, Continue
<1>3. ASSUME NEW step \in Building, NEW h, Keep(p, step, h), Follows(step, h, NoMoment)
      PROVE  Follows(pc[p], hold[p], seen[p])'
  <2>1. ~Watching(step, h)
    BY DEF Building, Watching, Validating, Reading, Judging
  <2>2. QED
    BY <1>3, <2>1, KeepMoves, Arrives
<1>4. CASE TakeDataLock(p)
  BY <1>4, TakeArrives
<1>5. CASE Examine(p) \/ DataAside(p) \/ DataPromote(p)
  BY <1>1, <1>2, <1>5 DEF Examine, DataAside, DataPromote, Raise, Results, Plain
<1>6. CASE Parse(p)
  <2> DEFINE h == [hold[p] EXCEPT !.content = raw]
  <2>1. raw # Absent => Follows("write", h, NoMoment)
    BY ParseFollows
  <2> HIDE DEF h
  <2>2. (raw # Absent /\ Keep(p, "write", h)) \/ Raise(p)
    BY <1>6 DEF Parse, Continue, h
  <2>3. QED
    BY <1>1, <1>3, <2>1, <2>2 DEF Raise, Results, Building
<1>7. CASE Write(p)
  <2> DEFINE c == hold[p].content
             t == [source |-> source.serial, made |-> c, content |-> c, readable |-> TRUE]
             h == [hold[p] EXCEPT !.table = t]
  <2>1. t.made = c /\ t.content = c
    OBVIOUS
  <2>2. pc[p] = "write" /\ Keep(p, "verify", h)
    BY <1>7 DEF Write, Is, Continue
  <2> HIDE DEF t
  <2>3. Follows("verify", h, NoMoment)
    BY <2>1, <2>2, WriteFollows
  <2> HIDE DEF h
  <2>4. QED
    BY <1>3, <2>2, <2>3 DEF Building
<1>8. CASE Verify(p)
  <2>1. pc[p] = "verify" /\ (Keep(p, "dataPromote", hold[p]) \/ Raise(p))
    BY <1>8 DEF Verify, Is, Go, Continue
  <2>2. QED
    BY <1>1, <1>3, <2>1, VerifyFollows DEF Raise, Results, Building
<1>9. QED
  BY <1>4, <1>5, <1>6, <1>7, <1>8 DEF Processing

LEMMA GeneratingArrives ==
    ASSUME IInv, IInv', MomentInv, Stays, NEW p \in Procs, Generating(p)
    PROVE  Follows(pc[p], hold[p], seen[p])'
<1>1. ASSUME NEW r \in Results, End(p, r) PROVE Follows(pc[p], hold[p], seen[p])'
  BY <1>1, EndArrives DEF Ends
<1>2. ASSUME NEW step \in Plain, NEW h, Keep(p, step, h), Carry(h, hold[p])
      PROVE  Follows(pc[p], hold[p], seen[p])'
  BY <1>2, PlainArrives
<1>3. ASSUME NEW step, NEW h, Keep(p, step, h), Follows(step, h, NoMoment),
             ~Watching(step, h)
      PROVE  Follows(pc[p], hold[p], seen[p])'
  BY <1>3, KeepMoves, Arrives
<1>4. CASE TakeSplitLock(p)
  BY <1>4, TakeArrives
<1>5. CASE LookSplit(p) \/ SplitAside(p) \/ SplitReplace(p) \/ SplitPromote(p)
  BY <1>1, <1>2, <1>5, EmptyCarries, StartArrives
  DEF LookSplit, SplitAside, SplitReplace, SplitPromote, Go, Continue, Results, Plain
<1>6. CASE HashData(p)
  <2> DEFINE h == [hold[p] EXCEPT !.named = DataManifest(processed)]
  <2>1. pc[p] = "hashData" /\ processed # Absent => Follows("assign", h, NoMoment)
    BY HashDataFollows
  <2> HIDE DEF h
  <2>2. pc[p] = "hashData" /\ ((processed # Absent /\ Keep(p, "assign", h)) \/ Raise(p))
    BY <1>6 DEF HashData, Is, Continue, h
  <2>3. ~Watching("assign", h)
    BY DEF Watching, Validating, Reading, Judging
  <2>4. QED
    BY <1>1, <1>3, <2>1, <2>2, <2>3 DEF Raise, Results
<1>7. CASE Assign(p)
  <2> DEFINE h == [EmptyHold EXCEPT !.pass = "temporary", !.folds = Folds(p)]
  <2>1. pc[p] = "assign" /\ processed # Absent => Follows("readManifest", h, NoMoment)
    BY AssignFollows
  <2>2. ~Watching("readManifest", h)
    BY DEF Watching, Looking, EmptyHold
  <2> HIDE DEF h
  <2>3. pc[p] = "assign" /\ ((processed # Absent /\ Keep(p, "readManifest", h)) \/ Raise(p))
    BY <1>7 DEF Assign, Is, Continue, h
  <2>4. QED
    BY <1>1, <1>3, <2>1, <2>2, <2>3 DEF Raise, Results
<1>8. QED
  BY <1>4, <1>5, <1>6, <1>7 DEF Generating

\* A validation that goes on has seen what it saw before.
LEMMA GoesOn ==
    ASSUME IInv, IInv', MomentInv, Stays, Next, NEW p \in Procs, pc[p] \in Validating,
           NEW step, NEW h, Keep(p, step, h), h.pass = hold[p].pass,
           Follows(step, h, seen[p])
    PROVE  Follows(pc[p], hold[p], seen[p])'
<1>1. pc'[p] = step /\ hold'[p] = h
  BY KeepMoves
<1>2. PICK moments : moments = seen[p]
  OBVIOUS
<1>3. Watching(step, h) => Within(moments, seen'[p])
  BY <1>1, <1>2, SeenGrows DEF Watching, Looking
<1>4. QED
  BY <1>1, <1>2, <1>3, Arrives

LEMMA RefusedArrives ==
    ASSUME IInv, IInv', MomentInv, Stays, NEW p \in Procs, Refused(p)
    PROVE  Follows(pc[p], hold[p], seen[p])'
  BY EmptyCarries, EndArrives, PlainArrives
  DEF Refused, Go, Continue, Raise, Ends, Results, Plain

LEMMA ReadingArrives ==
    ASSUME IInv, IInv', MomentInv, Stays, Next, NEW p \in Procs, ReadingInputs(p)
    PROVE  Follows(pc[p], hold[p], seen[p])'
<1>1. pc[p] \in Reading /\ pc[p] \in Validating /\ UNCHANGED files
  BY DEF ReadingInputs, ReadSource, HashRaw, ReadData, HashSource, HashTables, ReadTables, Is,
      Reading, Validating
<1>2. CASE Refused(p)
  BY <1>2, RefusedArrives
<1>3. CASE ReadSource(p)
  BY <1>1, <1>2, <1>3, ReadSourceFollows, GoesOn DEF ReadSource, Is, Go, Continue
<1>4. CASE HashRaw(p) /\ ~Refused(p)
  <2>1. pc[p] = "hashRaw" /\ raw = Good /\ Keep(p, "readData", hold[p])
    BY <1>4 DEF HashRaw, Is, Go, Continue
  <2>2. pc'[p] = "readData" /\ hold'[p] = hold[p]
    BY <2>1, KeepMoves
  <2>3. PICK moments : moments = seen'[p]
    OBVIOUS
  <2>4. Looking(hold[p]) => SourcesNow \subseteq moments.sources
    BY <1>1, <2>2, <2>3, SeenGrows DEF Watching, Validating, Reading, SourcesNow, files
  <2>5. Follows("readData", hold[p], moments)
    BY <2>1, <2>4, HashRawFollows
  <2>6. PICK h : h = hold[p]
    OBVIOUS
  <2>7. QED
    BY <2>2, <2>3, <2>5, <2>6, Arrives DEF Within
<1>5. CASE ReadData(p) /\ ~Refused(p)
  <2> DEFINE h == [hold[p] EXCEPT !.named = DataManifest(processed)]
  <2>1. pc[p] = "readData" /\ processed # Absent /\ Keep(p, "hashSource", h)
    BY <1>5 DEF ReadData, Is, Continue
  <2>2. h.pass = hold[p].pass /\ Follows("hashSource", h, seen[p])
    BY <2>1, ReadDataFollows DEF IInv, Typed, ControlOK, Holds
  <2> HIDE DEF h
  <2>3. QED
    BY <1>1, <2>1, <2>2, GoesOn
<1>6. CASE HashSource(p)
  BY <1>1, <1>2, <1>6, HashSourceFollows, GoesOn DEF HashSource, Is, Go, Continue
<1>7. CASE HashTables(p)
  BY <1>1, <1>2, <1>7, HashTablesFollows, GoesOn DEF HashTables, Is, Go, Continue
<1>8. CASE ReadTables(p) /\ ~Refused(p)
  <2> DEFINE h == [hold[p] EXCEPT !.content = processed.content, !.named = Absent]
             step == IF Pass(p) = "none" THEN "hashData" ELSE "checkAssignments"
  <2>1. pc[p] = "readTables" /\ processed # Absent /\ Keep(p, step, h)
    BY <1>8 DEF ReadTables, Is, Continue
  <2>2. pc'[p] = step /\ hold'[p] = h
    BY <2>1, KeepMoves
  <2>3. h.pass = hold[p].pass
    BY DEF IInv, Typed, ControlOK, Holds
  <2>4. PICK moments : moments = seen'[p]
    OBVIOUS
  <2>5. CASE Pass(p) = "none"
    <3>1. Follows("hashData", h, NoMoment)
      BY <2>1, TablesFollow
    <3>2. ~Watching("hashData", h)
      BY DEF Watching, Validating, Reading, Judging
    <3> HIDE DEF h
    <3>3. QED
      BY <2>2, <2>5, <3>1, <3>2, Arrives
  <2>6. CASE Pass(p) # "none"
    <3>1. Looking(hold[p]) => Within(seen[p], moments) /\ TablesNow \subseteq moments.tables
      BY <1>1, <2>2, <2>3, <2>4, <2>6, SeenGrows
      DEF Watching, Looking, Validating, Judging, TablesNow, DataManifest, files
    <3>2. Follows("checkAssignments", h, moments)
      BY <2>1, <3>1, ReadTablesFollows
    <3> HIDE DEF h
    <3>3. QED
      BY <2>2, <2>4, <2>6, <3>2, Arrives DEF Within
  <2>7. QED
    BY <2>5, <2>6
<1>9. QED
  BY <1>2, <1>3, <1>4, <1>5, <1>6, <1>7, <1>8 DEF ReadingInputs

LEMMA ValidatingArrives ==
    ASSUME IInv, IInv', MomentInv, Stays, Next, NEW p \in Procs, ValidatingSplit(p)
    PROVE  Follows(pc[p], hold[p], seen[p])'
<1>1. ASSUME NEW r \in Results, End(p, r) PROVE Follows(pc[p], hold[p], seen[p])'
  BY <1>1, EndArrives DEF Ends
<1>2. ASSUME NEW step \in Plain, NEW h, Keep(p, step, h), Carry(h, hold[p])
      PROVE  Follows(pc[p], hold[p], seen[p])'
  BY <1>2, PlainArrives
<1>3. CASE Refused(p)
  BY <1>3, RefusedArrives
<1>4. CASE RejectTemporary(p)
  BY <1>1, <1>2, <1>4, EmptyCarries DEF RejectTemporary, Raise, Go, Continue, Results, Plain
<1>5. CASE ReadManifest(p) /\ ~Refused(p)
  <2> DEFINE h == [hold[p] EXCEPT !.checked = Examined(p)]
  <2>1. Examined(p) \in Splits /\ Keep(p, "readSource", h) /\ pc[p] \in Validating
    BY <1>5 DEF ReadManifest, Is, Continue, Validating
  <2>2. h.pass = hold[p].pass /\ Follows("readSource", h, NoMoment)
    BY <2>1, ReadManifestFollows DEF IInv, Typed, ControlOK, Holds
  <2> HIDE DEF h
  <2>3. QED
    BY <2>1, <2>2, KeepMoves, Arrives DEF Within, NoMoment
<1>6. ASSUME NEW step, Keep(p, step, hold[p]), pc[p] \in Validating,
             Follows(step, hold[p], seen[p])
      PROVE  Follows(pc[p], hold[p], seen[p])'
  BY <1>6, GoesOn
<1>7. CASE CheckAssignments(p)
  BY <1>3, <1>6, <1>7, CheckAssignmentsFollow
  DEF CheckAssignments, Is, Go, Continue, Validating, Judging
<1>8. CASE HashAssignments(p)
  BY <1>3, <1>6, <1>8, HashAssignmentsFollow
  DEF HashAssignments, Is, Go, Continue, Validating, Judging
<1>9. CASE CheckFeatures(p)
  BY <1>3, <1>6, <1>9, CheckFeaturesFollow
  DEF CheckFeatures, Is, Go, Continue, Validating, Judging
<1>10. CASE CheckData(p)
  <2> DEFINE second == [EmptyHold EXCEPT !.pass = "second"]
  <2>1. \/ Refused(p) \/ End(p, "done")
        \/ Keep(p, "readManifest", second) \/ Keep(p, "splitReplace", hold[p])
    BY <1>10, PassedIs DEF CheckData, Is, Continue, Judging
  <2>2. Carry(second, hold[p]) /\ Carry(hold[p], hold[p])
    BY EmptyCarries
  <2> HIDE DEF second
  <2>3. QED
    BY <1>1, <1>2, <1>3, <2>1, <2>2 DEF Results, Plain
<1>11. QED
  BY <1>3, <1>4, <1>5, <1>7, <1>8, <1>9, <1>10 DEF ValidatingSplit

LEMMA OthersStand ==
    ASSUME IInv, NEW p \in Procs, Working(p) PROVE \A q \in Procs \ {p} : Stands(q)
<1>1. ASSUME NEW step, NEW h, Keep(p, step, h) PROVE \A q \in Procs \ {p} : Stands(q)
  BY <1>1, KeepMoves
<1>2. ASSUME NEW r, End(p, r) PROVE \A q \in Procs \ {p} : Stands(q)
  BY <1>2, EndMoves
<1>3. ASSUME NEW from, NEW layer, NEW to, Take(p, from, layer, to)
      PROVE  \A q \in Procs \ {p} : Stands(q)
  BY <1>3 DEF Take, Goto, locals, Stands, IInv, Typed, ControlOK
<1>4. CASE Acquiring(p)
  BY <1>1, <1>2, <1>3, <1>4
  DEF Acquiring, TakeRawLock, Offline, Fetch, Cached, RawAside, Download, Promote, Describe,
      WriteManifest, HandOn, Go, Continue, Raise
<1>5. CASE Processing(p)
  BY <1>1, <1>2, <1>3, <1>5
  DEF Processing, TakeDataLock, Examine, DataAside, Parse, Write, Verify, DataPromote, Go,
      Continue, Raise
<1>6. CASE Generating(p)
  BY <1>1, <1>2, <1>3, <1>6
  DEF Generating, TakeSplitLock, LookSplit, SplitAside, HashData, Assign, SplitReplace,
      SplitPromote, Go, Continue, Raise
<1>7. CASE ReadingInputs(p)
  BY <1>1, <1>2, <1>7
  DEF ReadingInputs, ReadSource, HashRaw, ReadData, HashSource, HashTables, ReadTables,
      Refused, Go, Continue, Raise
<1>8. CASE CheckData(p)
  <2> DEFINE second == [EmptyHold EXCEPT !.pass = "second"]
  <2>1. \/ Refused(p) \/ End(p, "done")
        \/ Keep(p, "readManifest", second) \/ Keep(p, "splitReplace", hold[p])
    BY <1>8, PassedIs DEF CheckData, Is, Continue, Judging
  <2> HIDE DEF second
  <2>2. QED
    BY <1>1, <1>2, <2>1 DEF Refused, Go, Continue, Raise
<1>9. CASE ValidatingSplit(p) /\ ~CheckData(p)
  BY <1>1, <1>2, <1>9
  DEF ValidatingSplit, RejectTemporary, ReadManifest, CheckAssignments, HashAssignments,
      CheckFeatures, Refused, Go, Continue, Raise
<1>10. QED
  BY <1>4, <1>5, <1>6, <1>7, <1>8, <1>9 DEF Working

\* Whoever takes a step finds afterwards what it needs, and so does everybody
\* else.
LEMMA StepArrives ==
    ASSUME IInv, IInv', MomentInv, Stays, Next, NEW p \in Procs,
           (\E j \in Jobs : Begin(p, j)) \/ Working(p) \/ LockTimeout(p) \/ Crash(p)
    PROVE  /\ Follows(pc[p], hold[p], seen[p])'
           /\ \A q \in Procs \ {p} : Stands(q)
<1>1. ASSUME NEW j \in Jobs, Begin(p, j)
      PROVE  /\ Follows(pc[p], hold[p], seen[p])'
             /\ \A q \in Procs \ {p} : Stands(q)
  <2>1. PICK step, h :
            /\ Keep(p, step, h) /\ step \in Plain
            /\ \/ h = [EmptyHold EXCEPT !.mode = j.mode]
               \/ h = [EmptyHold EXCEPT !.pass = "reader"]
    BY <1>1 DEF Begin, Jobs, Plain
  <2>2. Carry(h, hold[p])
    BY <2>1 DEF Carry, EmptyHold
  <2>3. QED
    BY <2>1, <2>2, KeepMoves, PlainArrives
<1>2. ASSUME LockTimeout(p) \/ Crash(p)
      PROVE  /\ Follows(pc[p], hold[p], seen[p])'
             /\ \A q \in Procs \ {p} : Stands(q)
  BY <1>2, EndArrives, EndMoves DEF LockTimeout, Crash, Raise, Ends, Results
<1>3. ASSUME Working(p) PROVE Follows(pc[p], hold[p], seen[p])'
  BY <1>3, AcquiringArrives, ProcessingArrives, GeneratingArrives, ReadingArrives,
     ValidatingArrives
  DEF Working
<1>4. ASSUME Working(p) PROVE \A q \in Procs \ {p} : Stands(q)
  BY <1>4, OthersStand
<1>5. QED
  BY <1>1, <1>2, <1>3, <1>4

LEMMA MomentNext == IInv /\ IInv' /\ MomentInv /\ [Next]_vars => MomentInv'
<1> SUFFICES ASSUME IInv, IInv', MomentInv, [Next]_vars PROVE MomentInv'
  OBVIOUS
<1>1. CASE UNCHANGED vars
  BY <1>1
  DEF vars, files, locals, bounds, MomentInv, Origins, Raws, Torns, SplitOrigin, Follows,
      Watches, RawSeen, SourceSeen, HashesSeen, TablesSeen, FeaturesSeen, NamedOrigin, AtLeast,
      Mended, Latest, Gone
<1>2. CASE Next
  <2>1. Flow /\ Stays
    BY <1>2, NextFlows, FlowStays
  <2>2. Origins' /\ (split' \in Splits => SplitOrigin(split)')
    BY <2>1, OriginsStay, SplitStays
  <2>3. ASSUME NEW q \in Procs, Stands(q) PROVE Follows(pc[q], hold[q], seen[q])'
    BY <1>2, <2>1, <2>3, OthersFollow DEF MomentInv
  <2>4. ASSUME NEW p \in Procs,
               (\E j \in Jobs : Begin(p, j)) \/ Working(p) \/ LockTimeout(p) \/ Crash(p),
               NEW q \in Procs
        PROVE  Follows(pc[q], hold[q], seen[q])'
    <3>1. CASE q = p
      BY <1>2, <2>1, <2>4, <3>1, StepArrives
    <3>2. CASE q # p
      BY <1>2, <2>1, <2>3, <2>4, <3>2, StepArrives
    <3>3. QED
      BY <3>1, <3>2
  <2>5. ASSUME RawDamaged \/ SourceDamaged \/ TablesDamaged \/ SplitDamaged, NEW q \in Procs
        PROVE  Follows(pc[q], hold[q], seen[q])'
    <3>1. Stands(q)
      BY <2>5 DEF RawDamaged, SourceDamaged, TablesDamaged, SplitDamaged, Untouched, locals, Stands
    <3>2. QED
      BY <2>3, <3>1
  <2>6. QED
    BY <1>2, <2>2, <2>4, <2>5 DEF Next, MomentInv
<1>3. QED
  BY <1>1, <1>2

LEMMA MomentInit == Init => MomentInv
<1> SUFFICES ASSUME Init PROVE MomentInv
  OBVIOUS
<1>1. Absent \notin Splits
  BY Distinct
<1>2. Origins /\ split \notin Splits
  BY <1>1 DEF Init, Origins
<1>3. ASSUME NEW p \in Procs PROVE Follows(pc[p], hold[p], seen[p])
  BY <1>1 DEF Init, EmptyHold, Follows, Looking, Built
<1>4. QED
  BY <1>2, <1>3 DEF MomentInv

\* A call that goes on has no result; only its own steps give it one.
Unanswered == \A p \in Procs : pc[p] # "idle" => result[p] = "none"

LEMMA WorkingAnswers ==
    ASSUME IInv, NEW p \in Procs, Working(p)
    PROVE  pc[p] # "idle" /\ (result' = result \/ Ends(p))
<1> DEFINE Goal == result' = result \/ Ends(p)
<1>1. ASSUME NEW step, NEW h, Continue(p, step, h) PROVE Goal
  BY <1>1 DEF Continue
<1>2. ASSUME NEW r \in Results, End(p, r) PROVE Goal
  BY <1>2 DEF Ends
<1>3. ASSUME NEW from, NEW layer, NEW to, Take(p, from, layer, to) PROVE Goal
  BY <1>3 DEF Take, locals
<1>4. ASSUME HandOn(p) PROVE Goal
  BY <1>4 DEF HandOn
<1> HIDE DEF Goal
<1> USE DEF Is, Take
<1>5. CASE Acquiring(p)
  BY <1>1, <1>2, <1>3, <1>4, <1>5
  DEF Acquiring, TakeRawLock, Offline, Fetch, Cached, RawAside, Download, Promote, Describe,
      WriteManifest, Go, Raise, Results, Goal
<1>6. CASE Processing(p)
  BY <1>1, <1>2, <1>3, <1>6
  DEF Processing, TakeDataLock, Examine, DataAside, Parse, Write, Verify, DataPromote, Go,
      Raise, Results, Goal
<1>7. CASE Generating(p)
  BY <1>1, <1>2, <1>3, <1>7
  DEF Generating, TakeSplitLock, LookSplit, SplitAside, HashData, Assign, SplitReplace,
      SplitPromote, Raise, Go, Results, Goal
<1>8. CASE ReadingInputs(p)
  BY <1>1, <1>2, <1>8
  DEF ReadingInputs, ReadSource, HashRaw, ReadData, HashSource, HashTables, ReadTables,
      Refused, Go, Raise, Results, Goal
<1>9. CASE CheckData(p)
  <2> DEFINE second == [EmptyHold EXCEPT !.pass = "second"]
  <2>1. \/ Refused(p) \/ End(p, "done")
        \/ Continue(p, "readManifest", second) \/ Continue(p, "splitReplace", hold[p])
    BY <1>9, PassedIs DEF CheckData, Judging
  <2> HIDE DEF second
  <2>2. QED
    BY <1>1, <1>2, <1>9, <2>1 DEF CheckData, Refused, Go, Raise, Results, Goal
<1>10. CASE ValidatingSplit(p) /\ ~CheckData(p)
  BY <1>1, <1>2, <1>10
  DEF ValidatingSplit, RejectTemporary, ReadManifest, CheckAssignments, HashAssignments,
      CheckFeatures, Refused, Go, Raise, Results, Goal
<1>11. QED
  BY <1>5, <1>6, <1>7, <1>8, <1>9, <1>10 DEF Working, Goal

LEMMA NextAnswers == IInv /\ Unanswered /\ [Next]_vars => Unanswered'
<1> SUFFICES ASSUME IInv, Unanswered, [Next]_vars PROVE Unanswered'
  OBVIOUS
<1>1. CASE UNCHANGED vars
  BY <1>1 DEF vars, locals, Unanswered
<1>2. ASSUME NEW p \in Procs, NEW j \in Jobs, Begin(p, j) PROVE Unanswered'
  <2>1. result' = [result EXCEPT ![p] = "none"] /\ \E step : Goto(p, step)
    BY <1>2 DEF Begin, Keep, Jobs
  <2>2. QED
    BY <2>1 DEF Goto, Unanswered, IInv, Typed, ControlOK
<1>3. ASSUME NEW p \in Procs, Ends(p) PROVE Unanswered'
  BY <1>3 DEF Ends, End, Goto, Unanswered, IInv, Typed, ControlOK
<1>4. ASSUME NEW p \in Procs, Working(p) PROVE Unanswered'
  BY <1>3, <1>4, WorkingAnswers, OthersStand DEF Unanswered, Stands
<1>5. ASSUME NEW p \in Procs, LockTimeout(p) \/ Crash(p) PROVE Unanswered'
  BY <1>3, <1>5 DEF LockTimeout, Crash, Raise, Ends, Results
<1>6. CASE RawDamaged \/ SourceDamaged \/ TablesDamaged \/ SplitDamaged
  BY <1>6 DEF RawDamaged, SourceDamaged, TablesDamaged, SplitDamaged, Untouched, locals, Unanswered
<1>7. QED
  BY <1>1, <1>2, <1>4, <1>5, <1>6 DEF Next

\* What the last step of a validation that passes compares.
LEMMA PassComparesData ==
    ASSUME IInv, Unanswered, Next, NEW p \in Procs, pc[p] = "checkData", result'[p] = "done"
    PROVE  /\ processed # Absent /\ hold[p].checked.data = DataManifest(processed)
           /\ Looking(hold[p])
<1>1. result'[p] # result[p]
  BY DEF Unanswered
<1>2. ASSUME NEW q \in Procs, Ends(q) PROVE q = p
  BY <1>1, <1>2 DEF Ends, End, IInv, Typed, ControlOK
<1>3. ASSUME NEW q \in Procs, NEW j \in Jobs, Begin(q, j) PROVE FALSE
  BY <1>1, <1>3 DEF Begin, Is, IInv, Typed, ControlOK
<1>4. ASSUME NEW q \in Procs, LockTimeout(q) \/ Crash(q) PROVE FALSE
  <2>1. q = p
    BY <1>2, <1>4 DEF LockTimeout, Crash, Raise, Ends, Results
  <2>2. End(p, "raised") \/ End(p, "died")
    BY <1>4, <2>1 DEF LockTimeout, Crash, Raise
  <2>3. QED
    BY <2>2 DEF End, IInv, Typed, ControlOK
<1>5. ~(RawDamaged \/ SourceDamaged \/ TablesDamaged \/ SplitDamaged)
  BY <1>1 DEF RawDamaged, SourceDamaged, TablesDamaged, SplitDamaged, Untouched, locals
<1>6. PICK q \in Procs : Working(q)
  BY <1>3, <1>4, <1>5 DEF Next
<1>7. q = p
  BY <1>1, <1>2, <1>6, WorkingAnswers
<1>8. CheckData(p)
  BY <1>6, <1>7
  DEF Working, Acquiring, Processing, Generating, ReadingInputs, ValidatingSplit, TakeRawLock,
      TakeDataLock, TakeSplitLock, Take, Offline, Fetch, Cached, RawAside, Download, Promote,
      Describe, WriteManifest, Examine, DataAside, Parse, Write, Verify, DataPromote, LookSplit,
      SplitAside, HashData, Assign, SplitReplace, SplitPromote, ReadSource, HashRaw, ReadData,
      HashSource, HashTables, ReadTables, RejectTemporary, ReadManifest, CheckAssignments,
      HashAssignments, CheckFeatures, Is
<1>9. ~Refused(p)
  BY <1>1 DEF Refused, Go, Continue, Raise, End, IInv, Typed, ControlOK
<1>10. ASSUME Passed(p) PROVE Looking(hold[p])
  <2>1. ASSUME Continue(p, "splitReplace", hold[p]) PROVE FALSE
    BY <1>1, <2>1 DEF Continue
  <2>2. QED
    BY <1>10, <2>1, PassedIs DEF Looking, Judging
<1>11. QED
  BY <1>8, <1>9, <1>10 DEF CheckData

\* The tables a validation has read, the assignments and the features file it
\* compared are of one content, and the layers they name were there meanwhile.
LEMMA PassHasSeen ==
    ASSUME IInv, MomentInv, Unanswered, Next, NEW p \in Procs, pc[p] = "checkData",
           result'[p] = "done"
    PROVE  LET m == hold[p].checked IN
           /\ m.features = m.data.made /\ m.content = m.data.made
           /\ m.data.source \in seen[p].sources
           /\ m.data \in seen[p].tables
<1>1. PICK m : m = hold[p].checked
  OBVIOUS
<1>2. processed # Absent /\ m.data = DataManifest(processed) /\ Looking(hold[p])
  BY <1>1, PassComparesData
<1>3. "checkData" \in Judging
  BY DEF Judging
<1>4. /\ m \in Splits /\ SplitOrigin(m) /\ Watches("checkData", hold[p], seen[p])
      /\ m.data.source \in Nat
  BY <1>1, <1>2, <1>3, CheckedIs
<1>5. /\ SourceSeen(m, seen[p]) /\ FeaturesSeen(m) /\ TablesSeen(m, m.content, seen[p])
  BY <1>1, <1>3, <1>4, StagesAre DEF Watches
<1>6. m.data.made = processed.made /\ m.data.source = processed.source /\ processed.made \in Raws
  BY <1>2 DEF DataManifest, MomentInv, Origins
<1>7. m.content \in Raws
  BY <1>5, DamagesDiffer DEF TablesSeen
<1>8. m.content = m.data.made
  <2>1. CASE m.content.kind = "Bad"
    BY <1>5, <2>1 DEF TablesSeen
  <2>2. CASE m.data.made.kind = "Bad" /\ m.data.made # m.content
    BY <1>2, <1>5, <1>6, <1>7, <2>2, DamagesDiffer DEF TablesSeen, Gone
  <2>3. QED
    BY <1>6, <1>7, <2>1, <2>2, DamagesDiffer
<1>9. m.features = m.data.made
  <2>1. m.features \in Raws
    BY <1>4, <1>5, DamagesDiffer DEF SplitOrigin, FeaturesSeen
  <2>2. CASE m.features.kind = "Bad"
    BY <1>5, <1>8, <2>2 DEF FeaturesSeen
  <2>3. CASE m.features.kind = "Good" /\ m.data.made.kind = "Bad"
    BY <1>2, <1>5, <1>6, <2>3 DEF FeaturesSeen, Gone
  <2>4. QED
    BY <1>6, <2>1, <2>2, <2>3, DamagesDiffer
<1>10. ~AtLeast(m.data.source + 1)
  BY <1>2, <1>4, <1>6 DEF AtLeast
<1>11. m.data.source \in seen[p].sources
  BY <1>5, <1>10 DEF SourceSeen
<1>12. m.data \in seen[p].tables
  <2>1. [source |-> m.data.source, made |-> m.content] \in seen[p].tables
    BY <1>5, <1>7, <1>10, DamagesDiffer DEF TablesSeen
  <2>2. m.data = [source |-> m.data.source, made |-> m.data.made]
    BY <1>4 DEF Splits, DataManifests
  <2>3. QED
    BY <1>8, <2>1, <2>2
<1>13. QED
  BY <1>1, <1>8, <1>9, <1>11, <1>12

\* A validation that passes saw tables, features and assignments of one content,
\* and the source and the tables that the split names were there whole while it
\* read, however the layers were rebuilt and whatever was damaged meanwhile.
THEOREM PassSeesItsChain == Spec => PassSawItsChain
<1>1. Init => MomentInv /\ Unanswered
  BY MomentInit DEF Init, Unanswered
<1>2. IInv /\ IInv' /\ MomentInv /\ Unanswered /\ [Next]_vars => MomentInv' /\ Unanswered'
  BY MomentNext, NextAnswers
<1> DEFINE Step ==
        \A p \in Procs :
            pc[p] = "checkData" /\ result'[p] = "done" =>
                LET m == hold[p].checked IN
                /\ m.features = m.data.made /\ m.content = m.data.made
                /\ m.data.source \in seen[p].sources
                /\ m.data \in seen[p].tables
<1>3. IInv /\ MomentInv /\ Unanswered /\ [Next]_vars => [Step]_vars
  BY PassHasSeen DEF Unanswered, vars, locals
<1>4. QED
  BY <1>1, <1>2, <1>3, ChainInvariant, PTL DEF Spec, PassSawItsChain
=============================================================================
