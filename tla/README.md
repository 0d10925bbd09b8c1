# A verification project for SchemaGuard

SchemaGuard runs machine-learning experiments on tabular data: it acquires raw
data, freezes splits and schema transformations of it, executes planned tasks in
worker processes whose results are kept in a content-addressed cache, and leaves
reports and frozen plans that other scripts judge. Several processes may do all
this at the same time in the same directories, may be killed at any moment, and
must neither repeat nor lose nor mix up work.

This directory holds TLA+ modules of that machinery, the TLC configurations
that check them on small instances, and TLAPS proofs for every value of the
constants. `PROJECT.json` maps each definition to the source lines it models
(paths begin at the directory above this one; `src/src/schemaguard` is the
package), lists the hazards one by one with the line where each bites, and says
of each component what is modelled of it.

## 1. The system

| component | code | state it keeps | operations |
|---|---|---|---|
| cache store | `cache/store.py`, `cache/locks.py` | one directory per identity (payload, manifest, completion marker), a quarantine, a lock per identity | `read_validated`, `publish_file(_locked)`, `quarantine_invalid(_locked)`, `load_payload` |
| cache index | `cache/index.py` | SQLite rows naming entries | `add`, `rebuild`, `lookup` |
| task state | `runner/state.py` | one JSON file: status, attempts, transitions per task | `initialize`, `transition`, `heartbeat`, `set_worker_pid`, `recover_abandoned` |
| scheduler | `runner/scheduler.py` | queues and counters of one run; the GPU lock | `run`, `_execute_cpu_task`, `_execute_gpu_task` |
| worker and monitor | `runner/worker.py`, `runner/resources.py` | the worker process, its result files, the resource record | `execute_isolated_worker`, the worker's entry point |
| registry data | `data/schemaorbit.py` | raw file, source manifest, processed tables of each dataset, a lock per layer | `acquire_raw`, `process_dataset` |
| split store | `splits/generation.py`, `splits/validation.py`, `splits/caching.py`, `splits/locking.py` | a directory per split, a quarantine, a lock per dataset | `generate_split`, `validate_split` |
| smoke data | `data/download.py`, `pipeline.py`, `process.py`, `splits.py`, `validate.py`; `scripts/prepare_smoke_data.py`, `audit_data_foundation.py` | raw file, manifests, tables, frozen assignment, stage records | download, process, assign, rerun offline, audit |
| model adapters and their cache | `models/adapters/`, `scripts/validate_model_adapters.py` | a fitted model, the GPU lock, an artifact file per key with its certificate | `fit`, `predict_proba`, `save_fitted`, `load_fitted`, `release` |
| smoke experiment | `experiments/planning.py`, `execution.py`, `evaluation.py`, `evidence.py`, `contracts.py`; `scripts/run_smoke_experiment.py`, `validate_smoke_experiment.py` | plan, predictions, metrics, records, two reports per plan | plan, cold pass, collect, evaluate, second pass, validate |
| pilot planning | `experiments/pilot_planning.py`, `pilot_contracts.py`; `scripts/freeze_pilot_protocol.py`, `validate_pilot_protocol.py` | protocol, condition inventory, staged schedule, validation report | select, build, freeze, validate |
| transformations and their cache | `transformations/` | fitted plans; features, certificate and manifest per view | `fit`, `apply`, `inverse`, `publish`, `read_validated` |
| registry and probes | `models/registry.py`, `compatibility/` | probe records, checkpoints | probe, register |

How they interact. The scheduler reads the plan, asks the task state who may
work on a task, and the cache whether its result exists. A thread of its pool
takes the lock of the task's cache identity, looks at the cache a second time,
starts a worker process, watches it, publishes its file in the cache, adds a row
to the index, and completes the task. GPU tasks are executed by the main thread
under one lock for the machine. The smoke experiment is a driver of the
scheduler whose workers train through the adapters; it reads the smoke data,
which a second set of scripts prepares and audits. The pilot planner reads what
all of them left (data, splits, views, timings, probes) and freezes it into three
documents. The task state, the index, and each report or manifest are files: an
atomic replace is one step, and everything else is a sequence of steps that
others can interleave with and a crash can cut short.

What is hard here: readers that take no lock beside publishers that rename
directories; decisions taken under a lock on the strength of a read before it;
files that name each other by checksum and are replaced one after another;
scripts that nothing keeps from running twice; crashes between any two writes;
workers that outlive their scheduler; error handlers that act on a state they
read a step earlier; locks that nest across threads of a pool; evidence that is
gathered in one moment and vouched for in another.

What makes each part correct, in one line each: the cache is a write-once
register although its files are not; a task record explains itself and no move
is lost; a task is computed by one executor, and complete only when its result
is cached; a worker passes only with whole work and never outlives its monitor
unreported; each layer of data vouches for the layer below and no valid file is
thrown away; what is frozen stays, and a recorded pass means one chain of files;
a model lives only under the GPU lock and an artifact keeps its payload; a cold
report is cold and a final one rests on what it names; a validated pilot plan is
one plan, of one moment, whose data are still in place.

## 2. Modules

    CacheRegister <--- (implemented by) --- CacheStore
         |
         +--> Scheduler <--- TaskState         WorkerMonitor   DataChain   Adapters
                  :
             (passes of)                       FoldSelection <--- DataFoundation
                  :
           SmokeExperiment                     PilotPlan <--- PilotProtocol

An arrow is EXTENDS, towards the module that uses. SmokeExperiment does not
extend Scheduler: a pass of the scheduler over all conditions is a part of each
of its runners, with the scheduler's promises (one executor per identity,
complete only when cached, a second look under the lock) in its actions. A module
`X_proofs` extends `X` with its theorems; `MCX` instantiates `X` for TLC.
Definitions called `Faulty...` are what a plausible mistake would make of the
definition after them; they show that the properties would notice, and no
specification uses them.

**CacheRegister** is the abstract cache: one cell per identity that is absent,
holds a payload, or is broken. Only an absent cell is written, only a broken one
is cleared, only the environment breaks one.

**CacheStore** is `cache/store.py` at the granularity of file accesses. `entry`
is the directory at the path of an identity (three files), `quarantine` what was
moved aside, `lock` the identity locks, `pc`/`job`/`txn`/`view` the locals of the
process in `read_validated`, `publish_file`, `quarantine_invalid` or a
compute-once call. Renaming a directory is one step, reading each file another.
A process may die, or wait for a lock too long, at any of them; files are damaged
at any time. `seen` is a history variable: which valid entries a lock-free read
has lived through. Manifests carry a serial number in place of their time stamp,
because the code can tell two manifests of equal payload apart.

**TaskState** is `runner/state.py`. Each method takes the file lock, reads,
validates, and replaces the file atomically, so each is one action: a crash leaves
the old or the new file. The methods are operators on a record (`Moved`,
`Beaten`, `WithWorker`, `Recovered`), which Scheduler uses; `TaskStateSpec` is the
store under any calls that the methods accept, with processes that end, ids that
are reused, and leases that run out (`fresh` abstracts the age of a heartbeat).
No run of its own: its properties are proved for `TaskStateSpec`, and `scheduler`
runs the one that matters most on the records schedulers write.

**Scheduler** is `runner/scheduler.py` for several scheduler processes over one
state file, one cache and one index. `run[s]` is the main thread of scheduler s
(its place in the scan of the plan, queues and counters), `thread[th]` a pool
thread (slot 1 also stands for the main thread while it executes the GPU queue,
as the pool is gone by then). Each access to shared state is one action, so that a
scan, a second look, a handler that reads and then writes, and a crash interleave
as the processes do. Error paths are modelled as the code nests them: a raising
step drops the identity lock and reaches the inner handler, which reads the state
and closes the task if it still runs; what it raises in turn reaches the GPU
handler or the pool. The cache is CacheRegister, which CacheStore is proved to
implement; the task records are TaskState's. A worker is a member of `alive`.

**WorkerMonitor** is one worker process beside `execute_isolated_worker`: start,
record, sampling, GPU preflight and sampling, limits, timeout, terminate, kill,
join, judging the result file, the resource record and its validator, and the
scheduler's check of the payload. The worker takes its steps on its own; a signal
takes effect some time after it was sent.

**DataChain** is one registry dataset: raw file and source manifest
(`data/schemaorbit.py`), processed tables (`process_dataset`) and a split of them
(`splits/generation.py`, `splits/validation.py`), with their three locks. A layer
names the one below by the hash of its manifest and reads it without its lock:
source manifest, raw file, data manifest, source manifest again, hashes of the
tables, tables, then assignments, their hash, features and data manifest are steps
of their own, of `generate_split` and of each validation. Downloads retry,
`refresh` downloads again, `force` computes again, offline calls only use what is
there. Crashes, failing networks and damage to any file are faults of given kinds;
every damage makes bytes of its own, so that two damaged files are never taken
for one another. `leftover` says whether a process was killed in the transaction
of `generate_split`, whose directory `.seed_*` then stays and makes `validate_all`
raise. `seen[p]` records, while p validates, which source manifests there were
beside the good raw file and which data manifests beside whole tables.

**Adapters** is the life cycle of a fitted model (`models/adapters/base.py`) as the
workers of `validate_model_adapters.py` and of the smoke experiment run it: the GPU
lock, fit, predict, save, certify, round trip, release, the resource tracker
and its thread, and the artifact cache (`models/adapters/cache.py`) with its
agreement certificates. A worker is killed at any step.

**SmokeExperiment** is `scripts/run_smoke_experiment.py` for several runners on one
project, over `experiments/*.py`. `run[r]` is a runner's place and locals (its
plan, the hits it found before the pass, what it executed, the condition records
it collected, the metrics, the status of the cold report), `cache` and `task` the
two stores a pass of the scheduler uses, `predictions`, `metrics`, `reports` and
`records` the output files. Plans that differ only in what the cache identity
leaves out share cache entries and every output path but the reports'. The
contracts a report must satisfy are `ReportAccepted`, `ResumeHolds` and their
parts; `Verdict(p)` is what `scripts/validate_smoke_experiment.py` would say of the
files as they are. What a worker publishes names the plan, the runner and the
pass it was trained in, whether the labels were the planned ones and whether a
connection was attempted. `Verdict` and `RecordEvidence` are what
`scripts/validate_smoke_experiment.py` makes of a report: the gates, and the
inventory whose contract might refuse it although the gates were judged.

**FoldSelection** is `data/splits.py`: predictor groups, class counts, the choice of
the calibration and test folds by deviation in sizes, then in class
proportions, then by rank, and what is demanded of any assignment.

**DataFoundation** is the smoke dataset from download to audit. `disk` has one field
per file, `run[p]` what a program knows: the source manifest it validated, the
tables and data manifest it loaded or wrote, the split manifest it is going to
write. Only the acquisition is locked; tables, schema, manifest, assignment, split
manifest, quality report, summary and stage result are written one after the
other by as many programs as there are. The first run of a program that may use
the network is repeated offline and compared. The audit reads, judges the gates
that depend on these files, and writes the stage result back; the registry's
check of the same dataset (`data/schemaorbit.py`) reads beside it.

**PilotPlan** is what the planner computes, without steps: candidates from real
metadata, coverage tags, the cohort (`SelectCandidateIds`: of all subsets of the
right size with the anchor the one whose score beats the others'), model matrix,
condition inventory, estimate, stages, and the contracts `pilot_contracts.py`
imposes on the three documents.

**PilotProtocol** is `scripts/freeze_pilot_protocol.py` and
`scripts/validate_pilot_protocol.py` over files that other scripts replace. A
process reads its inputs in the code's order, some of them more than once; a
freezer writes three documents one after the other; a validator reads the three,
plans again, takes two snapshots, evaluates its gates and writes the report.

## 3. Runs

Distinct states in brackets. Each run takes between a second and two and a half
minutes with two workers.

| run | instance | shows |
|---|---|---|
| `cache_store` [173k] | 2 processes, 1 identity, 2 payloads, 2 manifests | `WorkOnlyOnMiss`, `QuarantineOnlyInvalid`, `ReadsAreGenuine`, and that CacheStore implements CacheRegister |
| `torn_read` (violated) | the same with 1 payload | a lock-free read can return the manifest of an entry that was quarantined meanwhile |
| `scheduler` [962k] | 2 schedulers of 2 threads, 2 tasks of one identity, both on the CPU or both on the GPU, raising accesses, 2 runs | completion is backed by the cache, each result computed once, one owner per task, no task left open by a run that returns, GPU work exclusive, no rework, orphans keep their task, attempts agree with the status |
| `scheduler_live` [276k] | 2 schedulers, two CPU tasks or one CPU and one GPU task of one identity, 1 damaged entry, fairness | every run returns, raises or dies: no cycle of waits |
| `orphan_gpu` (violated) | 2 schedulers, 2 GPU tasks | after a crash two GPU workers compute at once |
| `worker_monitor` [24k] | a GPU task, 3 looks before the timeout is certain | only whole work passes, the record is accepted, the monitor returns, the worker goes |
| `data_chain` [302k] | 2 processes, 2 download attempts, 1 refresh or 1 fault of any kind, fairness | sources described, fitting tables kept, a validation that passes is of no mixture and saw its source and its tables, and the scripts run again make the chain whole, such that `validate_all` accepts it unless a kill left a transaction directory |
| `adapters` [1.2M] | 2 workers, 3 payloads with a non-transitive agreement, 2 faults | models under the lock, certificates, payloads kept, own and late passes |
| `smoke_experiment` [574k] | 2 runners, 2 plans, 2 conditions, 1 event of any kind | cold reports are cold, final ones sound, an undisturbed runner reports, the validator agrees, labels are opened last |
| `pilot_protocol` [1.1M] | 2 freezers, 1 validator, 5 registry datasets with their real metadata, 2 replacements | contracts never refuse what the planner made, a green validation is of one moment, one triple, of data in place; staging loses nothing |
| `excluded_evidence` (violated) | 1 freezer, 1 validator | the record of an excluded dataset describes another |
| `data_foundation` [3.8M] | 2 programs, 3 starts, 3 versions, 2 events | a manifest describes the raw file beside it, a recorded pass means one chain, deaths heal, what is frozen stays |

Why the bounds are enough. Each hazard needs two parties and one object: a reader
and a publisher, two executors of one identity, a validator and a rebuilder. A
second identity only adds independent behaviour (locks and cells are per
identity), except for the GPU lock, where `orphan_gpu` uses two. Two payloads are
what it takes to notice a replaced or mixed result, two manifests what it takes to
tell two publications apart. Two runs per behaviour give a first run that
leaves something behind and a second that meets it, and also two runs at once.
Three starts in `data_foundation` let a third program meet what two concurrent ones
left. Two attempts reach the boundary between retrying and giving up. Three
payloads with a non-transitive `Close` are the least that distinguish "agrees with
the cached payload" from "agrees with something that agrees". Three looks reach the
timeout after a look that found everything in order. Two conditions, one per view,
are the least with which one can fail and the other pass. Five datasets are the
least that cover what the protocol requires and leave one out. Three versions are
two sound ones, which differ in one feature and in the fold it leads to, and one
that fails its validation. The theorems of section 5 have no bounds except those
the modules name, which may be any number.

The bounds by name: `MaxManifests`, `MaxAttempts`, `MaxRuns`, `MaxDamage`,
`MaxLooks`, `MaxRefresh`, `MaxFaults`, `Mixes`, `MaxTrouble`, `MaxEvents`,
`MaxStarts`, and the sets `Units`, `Disagreements` and `Applicabilities` of what a
replaced file may say. With `MaxAttempts = 0` in the Scheduler runs the attempts are
bounded by `MaxRuns` instead: that constant only guards TaskState's own next-state
relation. `data_chain` bounds refreshes and faults together (one event), since
both start the same kind of recovery.

Deadlock is checked in `cache_store`, `torn_read`, `data_chain` and `adapters`. The
others may stop: a plan is finished after the last allowed run, a worker and its
monitor end, runners, freezers and validators end, and programs are started only
so often.

## 4. Fairness

- `Scheduler!FairSpec`: weak fairness of each main thread's scan and dispatch, and
  of each pool thread's steps. The operating system schedules threads; a worker is
  stopped at its timeout by the monitor (`worker_monitor` shows it); a lock that
  stays free is obtained, because its waiters poll. Crashes, damage, heartbeats and
  lock timeouts are never owed: the runs end although no lock timeout ever fires.
- `WorkerMonitor!FairSpec`: weak fairness of the monitor, and of the death of a
  worker that was sent SIGKILL. The worker itself owes nothing: it may hang.
- `DataChain!FairSpec`: a call in progress goes on (weak); a call that polls a lock
  gets it if it is free again and again (strong); and somebody who needs the
  split runs the two scripts again and again (strong). Network
  errors and unreadable manifests are excluded there: the first may recur for
  ever, the second the code refuses to repair by itself.

SmokeExperiment, PilotProtocol and DataFoundation are specified without fairness:
their scripts are finite sequences of steps whose only waits are those of the
scheduler and of one lock with a timeout.

## 5. Proofs

TLAPS proves the following for every value of the constants that satisfies the
assumptions declared with them (`StoreAssumption`, `RegisterAssumption`,
`TaskStateAssumption`, `SchedulerAssumption`, `MonitorAssumption`,
`ChainAssumption`, `AdapterAssumption`, `DataFoundationAssumption`,
`FilesAssumption`, `RecordedAssumption`, `SmokeAssumption`, `NothingAssumption`,
`PlanAssumption`, `MetaAssumption`, `ProtocolAssumption`: special values are
distinct from data, bounds are numbers, the plan names every task, the recorded
version can be split; an absent file, a damaged entry and a foreign prediction file
are not records that a runner writes; the stages of a pilot divide its cohort, the
column counts of a candidate add up (`pilot_planning.py:528`), its training part is
neither empty nor everything (`data/splits.py:215`, `splits/selection.py:77`), and the
identity view applies to every dataset (`transformations/applicability.py:23`)).

- **CacheStore_proofs**: types, `WorkOnlyOnMiss`, `QuarantineOnlyInvalid`,
  `Spec => ImplementsRegister` and `ReadsAreGenuine`. The invariant adds `LockInv`
  (who works under a lock holds it): without it another process could rename a
  directory into the place that a publisher found empty. For the lock-free reads a
  second invariant, `GenuineInv`, follows the manifest m that a reader's marker
  names: an entry with m was valid during the read, or it is gone from the path and,
  as no manifest is written twice, never returns (`Gone`), or it stands there with a
  damaged file the reader has yet to look at (`Spoilt`); in the last two cases the
  rest of the read fails. TLC checked it on the instance of `cache_store` first.
- **Scheduler_proofs**: first TaskState alone (types, `TrailIsPath`, `AttemptsAgree`,
  `HistoryIsKept`; `RecordInv` is inductive record by record, and `RecordStep` reduces
  every method to a `Moved` or a `Touched` record, which Scheduler's proofs use); then
  Scheduler: types, `CompleteIsCached`, `ComputesOnce`,
  `GpuIsExclusive`, `NoRework`, `WorkIsOwned`, `RunSettlesItsTasks`,
  `OrphanKeepsTask`, and TaskState's three promises again for the
  records that schedulers write. The invariant `IInv` says what each thread may count on
  at its step (`Ready`: it holds the lock of its identity from the second look to
  the end; the cell is empty from "launch" to "publish"; what it is to complete
  is vouched for; a GPU thread holds the GPU lock) and what the scan has seen
  (`Main`). `Vouched(k, p)` - in the cache, or harmed since - is stable under every
  step, which is why a scan may complete a task from a read it took a step before.
  A step changes one thread's record, takes no lock from another and writes only
  the cell it has locked (`Mild`): `OthersKept` then preserves everyone else.
  Ownership needs a second invariant on top, `OInv`. `WorkIsOwned` alone is not
  inductive: a task that stood twice in a queue, or in a queue and with a thread,
  would be closed by the first and leave the second without an attempt. `Single`
  says that a scheduler has one item of a task (a place in a queue, a scan about to
  complete it, a thread), `Held` that the open attempt is then its own or the task
  complete, both as long as no entry was damaged. `Serving` (who has work is alive; a
  returned run has empty queues) and `Settling` (what a run marked RUNNING and still
  holds is in one of its queues or with a thread) give `RunSettlesItsTasks`, and
  `OrphanKeepsTask` follows because every step that ends an attempt is one of its
  living holder, or a recovery. `None \notin Tasks` is assumed for this: an idle
  thread has no task. TLC checked `OInv` on three instances before it was proved.
- **WorkerMonitor_proofs**: types, `PassedIsSound`, `RecordIsAccepted`,
  `NoWorkerLeftUnreported`. The invariant relates flags, category and place of the
  monitor to the signals sent and to how the worker ended.
- **DataChain_proofs**: types, `RoomForPromotion`, `SourceIsDescribed`,
  `FittingTablesAreKept`, `PassSawItsChain`. The invariant adds what a process knows
  from its own reads at each step (`Ready`) and that serials are dated (`Dated`): a
  manifest made later is never equal to one read before. `PassSawItsChain` needs a
  second invariant, `MomentInv`, because a validation makes eleven reads at eleven
  moments and nothing keeps the files still between them. It says what can no
  longer come back: torn bytes once they are replaced (`Mended`), tables of a damaged
  raw file once that file is gone and nobody is building from it (`Gone`), data
  manifests of a source once there are only newer ones (`AtLeast`). `RawSeen`,
  `SourceSeen`, `HashesSeen`, `TablesSeen` and `FeaturesSeen` then say, read by read,
  what the split's manifest may still name if the validation is to pass: a read that
  found something else has ruled it out for good. Only the good content can be made
  twice, and this is why the property speaks of a moment for the source and of a
  moment for the tables, and not of one moment for both. With two faults there need
  not be one: the tables are torn, a validation hashes the good raw file, the raw
  file is damaged, a rebuild that had parsed it before puts the same tables with
  the same data manifest in place, and the validation reads those and passes. What
  it passed is right even so: every read agrees with the split's manifest, and the
  contents are one. TLC finds that behaviour in 63 states when one moment is asked
  for, and checks `MomentInv` and the property as stated with two faults of any kind
  (4.3 million states), where a run of `data_chain` has one.
- **Adapters_proofs**: types, `ModelUnderLock`, `CertificatesHold`, `PassIsOwn`,
  `PayloadIsKept`, `PassAfterCleanup`. Here `Ready` states, per step, what is in
  memory, what the tracker says, which lock is held, and what of the envelope read
  under the store lock still holds.
- **DataFoundation_proofs**: `SourceIsTrue`, `FrozenIsKept`, `PassIsOneChain`,
  `DeathsHeal`. The invariant has four parts. `Knows`: what a program has read or
  written by its step and what of it is still so. `DiskOK`: tables that claim the
  present source are made of it. `Serial` and `Distinct`: no two manifests carry one
  number, so that one made later never equals one read before. `Locked`: only the
  holder of the download lock is between fetching a file and describing it. A step
  is `Tame` (it leaves raw file and source manifest alone and writes only what
  follows from them) or one of four that are treated singly: promote, describe, a
  program's start, the operator. What is said of recorded statements needs a second
  invariant, `Quiet`, for as long as nobody has changed a file or published a
  version; `Untroubled` adds that then all files are of the recorded version, and so
  none of the programs' comparisons of contents can fail.
- **SmokeExperiment_proofs**: types, `ColdPassIsCold`, `FinalPassIsSound`,
  `UndisturbedRunReports`, `ValidatorAgrees`, `NoTrainingAfterLabels`. The invariant
  `IInv` says what is on disk (`Training`, `Files`: nobody trains what is cached or
  what another one trains; an entry trained on other labels is there only if the
  labels on disk changed) and, in `Own(r)`, what runner `r` knows at its step:
  whatever happens (`Knows`, `Watched`, `Verified`, `Told`), while no file was
  harmed (`Cached`: what it collected is what the cache still holds), while it
  is the only runner (`AloneCached`: an entry that validates and was not trained in
  the second pass is the one of the first), and while both hold (`Solo`: the task
  file, the cache and the second pass's hits agree condition by condition, which
  is what its own contracts compare). `Solo` is needed because `ReportAccepted` and
  `VerificationAccepted` count conditions: they cannot fail only if every condition
  is in one of their classes. A step of one runner leaves what the others know
  alone (`Evolves`, `OthersKeep`, `FinalKeeps`), so that each action has to keep
  only its own runner's part (`StepKeeps`). TLC checked `IInv` on the instance of
  `smoke_experiment` before it was proved.

- **PilotProtocol_proofs**, the verdict: `FrozenDataInPlace`, `GreenIsOneTriple`,
  `GreenIsOneMoment`. A replaced file gets a version it never had, so what a process
  read earlier is what is in place or older (`Dated`, `Known`). The gates compare
  versions, and the version a freezer took first and the one a validator takes last
  enclose what was read between: if they are equal, so is everything between. `IInv`
  says that of the inputs (`Versioned`, `Within`), of the documents (`Stored`), of
  what a planner has read (`Planned`), of the three documents a validator holds
  (`Agreed`), of the plan it builds again (`Selecting`, `Collecting`, `Hashing`) and of
  its verdict so far (`Judging`). TLC checked it on the instance of
  `pilot_protocol` before it was proved.
- **PilotProtocol_proofs**, the documents: `SelectionIsCohort`, `ContractsAgree`,
  `StagingLosesNothing`. Scores and the tie-break order all cohorts strictly
  (`BeatsOrders`), so that of finitely many one beats all others (`WinnerExists`) and
  the CHOOSE of the model finds it. A second invariant, `CInv`, says that what a
  planner has selected and collected by its step is a cohort and views as the
  contracts want them; `ProtocolAgrees`, `InventoryAgrees` and `ScheduleAgrees` then
  show, counting tuples and cutting the ranks of the cohort into stages, that the
  contracts accept whatever is made from them, and `StagesTakeNoLess` that the stages
  together take no less time than the whole. The sums are folds of the community
  modules. The induction they need takes the numbers that satisfy a claim as a
  set (`NumberInduction`, from the smallest element of a finite set), because no
  installed prover can use the library's induction theorems.

Proved and no longer run: `TrailIsPath`, `HistoryIsKept`, `RoomForPromotion` and
`NoWorkerLeftUnreported`, which the theorems settle for every instance.

Only model-checked: liveness under fairness (`RunTerminates`, `MonitorReturns`,
`WorkerGoes`, `Heals`), which is out of the prover's reach. Every invariant and every
action property that a run checks without expecting a violation is also a theorem.

## 6. Findings

Three runs show a disagreement between the code and what the repository says.

- `torn_read`: `_validate_directory` compares the marker with a second read of the
  manifest and returns the first. The payload is genuine (`ReadsAreGenuine`), its
  provenance may be that of a quarantined entry.
- `orphan_gpu`: the GPU lock belongs to the scheduler and is released at its death;
  its worker goes on. The master plan wants GPU jobs to be sequential.
- `excluded_evidence`: in `build_pilot_plan` the loop over the excluded datasets
  takes name and evidence checksum from the variable of the loop before it; the
  review of the frozen protocol lists six times the blood transfusion dataset.

Observed while modelling, without a run of its own:

Cache, scheduler and splits

- A worker that was started but not yet recorded when its scheduler dies is
  invisible to recovery, and its task is executed again beside it (which is why
  `OrphanKeepsTask` speaks of recorded workers).
- Tasks are marked RUNNING when they are queued; a run that raises first leaves
  them so, and a later run of the same process does not recover them.
- A task the pool completes from the cache whose index row cannot be written is
  counted as failed and then as not failed; the report counts it nowhere.
- A split that fails one validation while another process replaces its source is
  quarantined and computed again.
- A kill in `generate_split` leaves `.seed_*` (`generation.py:304`), which only an
  exception moves away; `validate_all` raises on it (`validation.py:320`) until it is
  removed by hand, and also on the directory of a `generate_split` still at work.
  Tables made from a raw file damaged after its lock was given back
  (`schemaorbit.py:871`) carry the good hash and are believed from then on.

Smoke experiment

- That no earlier run exists is checked once and nothing is locked
  (`run_smoke_experiment.py:286`): two runners started together both go on. The
  cold report of either is refused if the other executed a condition for it;
  what `ColdPassIsCold` shows is that the contracts catch it.
- A second runner that finds a damaged entry while the first is in its cold pass
  executes the condition again; and a runner that dies in its cold pass leaves a
  state file that blocks every later cold run of that plan.
- The worker hashes the protected files and reads the training labels again later
  (`execution.py:242`), unhashed; the unprotected inputs (view, certificate,
  registry, checkpoint) are checked at other moments still.
- The validator compares the metrics with their own checksums, not with those of
  the predictions they were computed from (`evidence.py:388`), and a failed
  integrity check of an input is reported as a failed model, so that a report may
  be a partial pass.

Smoke data

- Both classes must occur in every split, says an error message
  (`data/splits.py:291`), but a class that does not occur is counted as zero, and
  what is compared is the number of counts (also 221, and gate A31 of the audit).
- A processed cache is accepted by the hashes of raw file and source manifest; its
  own recorded hashes are not compared (`data/pipeline.py:128`), although the
  handoff speaks of a content-addressed validation. The registry's reader does
  compare them.
- A rerun that differs is recorded but the program ends with success
  (`prepare_smoke_data.py:85`), and the first run's summary replaces the second's.
- A download after the source manifest was lost makes a manifest with a new time,
  which the processed cache then refuses until it is rebuilt by force. A raw file
  that was replaced beside its manifest stops every later run until it is removed by hand.
- A death inside an atomic write leaves a temporary file, which gate A34 refuses
  until somebody removes it; the audit's own split directories are never removed,
  so that a legitimate change of the raw file makes every later audit fail.
- The audit does not hash the raw file but takes the manifest's word (A13), computes
  `assignment_sha256_matches` and `data_manifest_hash_matches` without judging them
  (217, 236), and writes the stage result back with the status it read before (818).
- Metadata already on disk are kept when newer ones were used (`download.py:169`).

Pilot

- `source_feature_sha256` of a view record (`pilot_planning.py:926`) is compared
  with nothing; a view certified on features that were rebuilt since is frozen.
- Any registry dataset whose files disagree blocks the plan, whether or not it
  would be selected. `_schema_family` says "mixed" where the coverage tags say
  "mixed_numeric_categorical"; nothing compares the two.

## 7. Abstractions

- Data: identities, payloads, versions and digests are model values; hashing is
  injective. Formatting, logging, telemetry values and failure texts are left out.
- Scheduler: all schedulers share one plan; process ids are not reused there (they
  are in TaskState); the worker is gone when its monitor has judged it (the
  exception, a worker that survives SIGKILL, is in WorkerMonitor). Placement on
  CPU or GPU is a variable chosen at the start. The index is what it is in the
  code: never the basis of a decision.
- WorkerMonitor: a signal to a child of one's own does not raise; the preflight
  sample passes or fails; a worker that has ended answers no more samples, although
  one not yet joined may, which no verdict depends on.
- DataChain: one dataset and one seed; the selection of folds succeeds. Features
  and targets are one content, read and hashed at one moment; the read inside
  `_validate_processed_directory` (`schemaorbit.py:761`), those of
  `generation.py:107` and the second parse of the data manifest are one step, and
  the two description files are written in one. `Examine`, `Verify` and `Cached`
  compare all their files at one moment, under the lock of the layer they are of;
  the source manifest they compare with may change before the next step. A data
  manifest that does not parse stops `generate_split` when it is hashed, in the code
  a little later, at its validation. `validate_all` scans the split tree in one step
  and finds the directories of the modelled split. `.processed-*` directories,
  which a kill in `process_dataset` leaves, are looked at by nobody.
- Adapters: the sampling thread ends within the two seconds `stop()` waits; a
  trace that cannot be written is a result that cannot be written; a result file
  may have been left by any earlier worker (more than the code allows); classical
  models run on the CPU. That workers end is not stated as a property: every wait
  has a deadline, so it holds by the shape of the code.
- SmokeExperiment: the calibration and the test predictions of a condition are one
  file; the scan of the plan, the collection of the split evidence and a validation
  are one step each; of the protected artifacts features, targets and assignment
  stand for all; a file that was changed is never changed back; lock timeouts are
  left to Scheduler; the runtime estimate and the file of the plan are not
  modelled; training that fails, a connection, a death and a change of a file are
  events of one budget, `MaxTrouble`. With a budget of two the run passes too (15
  million states), in more time than a run should take.
- PilotPlan and PilotProtocol: a checksum is what it was computed from; a stored
  document is what its author had read; the three seeds of a dataset travel
  together; configuration and program are fixed by the commit both scripts insist
  on; a replaced file never comes back; times are worker-seconds. The gates that
  state a static policy (metrics, leakage, retries, decisions) are not modelled, those
  that run tools (tests, linters, git) answer anything.
- DataFoundation: a version stands for the bytes of the raw file and every table
  made from them, a file's contents for its checksum; schema and label mapping are
  one file; the retries of a download are one step; the legacy call of `acquire_raw` does not
  hash the raw file again; the operator acts only while no
  program runs; the inventory of the summary leaves out the quality report and the
  split manifest, which may be another program's by then; logs of other commands and the
  hash snapshots are one free answer in the audit's verdict. FoldSelection compares
  deviations as fractions where the code adds floating-point numbers.

## 8. Not modelled

- Split selection of the registry datasets (`splits/selection.py`, `grouping.py`): a
  search over frequency tables like FoldSelection's; `generate_split` is taken to find
  an assignment.
- Transformations and their cache: computation on floating-point frames. The cache is
  used by one script; an entry's reader hashes features and certificate against the
  manifest it read first.
- The models and metrics: library code and floating-point arithmetic.
- Compatibility probes and the model registry, except that their records are
  replaced while a plan is made: they call libraries and inspect the machine.
- The SQLite file of the index and its repair; hashing, serialisation, parsing of
  tables and configuration; argument handling of scripts; the fault-injection
  harness, whose faults are actions of the modules above; scripts that only read
  evidence and print a verdict.
