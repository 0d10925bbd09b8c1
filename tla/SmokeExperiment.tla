--------------------------- MODULE SmokeExperiment ---------------------------
(* The ten-condition smoke experiment as scripts/run_smoke_experiment.py      *)
(* drives it: the plan is frozen over protected data, a cold pass of the      *)
(* scheduler executes every condition in a worker, its predictions are        *)
(* copied out of the cache, the labels are opened for the metrics, a second   *)
(* pass must reuse everything, and each pass leaves a report that             *)
(* scripts/validate_smoke_experiment.py judges afterwards.                    *)
(*                                                                            *)
(* Several runners may be started on one project, nothing locks the           *)
(* experiment as a whole; a runner may die at any step, a training may fail   *)
(* or try to connect, and files may be changed, though never back: MaxTrouble *)
(* such events in all.  Plans differ only in what the cache identity leaves   *)
(* out, the commit for one: they share their cache entries and every output   *)
(* path but the reports'.  A condition's two partitions are one file here.    *)
EXTENDS Naturals, FiniteSets

CONSTANTS
  Runners,     \* processes of run_smoke_experiment.py
  Plans,       \* plans they may build from the project
  Conditions,  \* the ten conditions of every plan
  ViewOf,      \* the view each condition trains on
  MaxTrouble,  \* bound: file changes, deaths, failing trainings and connections
  None,        \* no file, record or value
  Damaged,     \* a cache entry that does not validate
  Foreign      \* a prediction file that no runner wrote

ASSUME SmokeAssumption ==
  /\ IsFiniteSet(Conditions) /\ Conditions # {}
  /\ ViewOf \in [Conditions -> {"V00", "V01"}]
  /\ Runners # {} /\ Plans # {}
  /\ MaxTrouble \in Nat
  /\ Damaged # None /\ Foreign # None
  /\ None \notin Runners /\ None \notin Plans

VARIABLES
  run,          \* what each runner knows and where it is
  intact,       \* the input files that are as they were when the project froze
  cache,        \* the payload of each condition's cache entry
  task,         \* the scheduler's state file of each plan
  predictions,  \* results/smoke/predictions, with the time of the last write
  metrics,      \* results/smoke/metrics, likewise
  reports,      \* results/smoke/runs: the cold and the resume report of a plan
  records,      \* results/smoke/runtime: records under names all plans share
  trouble       \* what has happened: changes of files, and anything else

vars == <<run, intact, cache, task, predictions, metrics, reports, records, trouble>>

-----------------------------------------------------------------------------
(* Files and records.                                                         *)

\* Not protected: the transformed view, its certificates with manifest and
\* inventory, the registries, the checkpoints with the installed packages.
Protected == {"features", "targets", "assignment"}
Sources == Protected \cup {"view", "certificate", "registry", "checkpoint"}

Modes == {"cold", "resume"}

\* What a worker publishes names its plan and carries its timings, so no two
\* executions publish the same bytes; sound tells whether the training labels
\* were the planned ones, net whether a connection was attempted.
Payloads == [plan : Plans, by : Runners, mode : Modes, sound : BOOLEAN, net : BOOLEAN]

Valid(c) == cache[c] \in Payloads

Categories == {"capability", "other", "blocked"}
Waiting == [state |-> "PENDING", owner |-> None, category |-> "none"]
Complete == [state |-> "COMPLETE", owner |-> None, category |-> "none"]
Running(r) == [state |-> "RUNNING", owner |-> r, category |-> "none"]
Failed(g) == [state |-> "FAILED", owner |-> None, category |-> g]
Tasks == {Waiting, Complete} \cup {Running(r) : r \in Runners} \cup {Failed(g) : g \in Categories}

\* A ConditionRun: what a pass found of a condition.
Passed(p, hit) == [status |-> "PASS", payload |-> p, hit |-> hit, category |-> "none"]
Unpassed(g) == [status |-> IF g = "blocked" THEN "BLOCKED" ELSE "FAIL",
                payload |-> None, hit |-> FALSE, category |-> g]
ConditionRuns == {Passed(p, h) : p \in Payloads, h \in BOOLEAN} \cup {Unpassed(g) : g \in Categories}

Statuses == {"PASS_PENDING_REVIEW", "PARTIAL_VALID", "REPAIR_REQUIRED", "BLOCKED"}
SplitStatuses == {"NOT_RUN", "PASS", "FAIL"}

\* A file whose content is replaced, with the time of the last write.
Stamped(S) == [content : S, stamp : Nat]
Contents == Payloads \cup {None, Foreign}
Tables == [Conditions -> Contents]
Snapshots == [files : [Conditions -> Stamped(Contents)], tables : Stamped(Tables \cup {None})]

\* The records of a pass, of its comparison and of what was verified.
Comparisons == [plan : Plans, unchanged : BOOLEAN]
Verifications ==
  [by : Runners, plan : Plans, before : Snapshots, after : Snapshots, passed : BOOLEAN]
Counts == 0 .. Cardinality(Conditions)
Reports ==
  [by : Runners, plan : Plans, mode : Modes, status : Statuses, runs : [Conditions -> ConditionRuns],
   executed : Counts, hits : Counts, metrics : Tables \cup {None}, unchanged : BOOLEAN,
   split : SplitStatuses, net : BOOLEAN, verification : Verifications \cup {None}]

\* None, a damaged entry and a foreign file are nothing that anybody wrote.
ASSUME NothingAssumption ==
  /\ {None, Damaged, Foreign} \cap Payloads = {}
  /\ None \notin ConditionRuns /\ None \notin Tables /\ None \notin [Conditions -> Tasks]
  /\ None \notin Verifications /\ None \notin Reports

Ended == {"raised", "dead", "done"}
Steps == {"start", "planned", "frozen", "scan", "execute", "collect", "split", "evaluate",
          "compare", "report", "snapshot", "preread", "verify", "recompare", "final"} \cup Ended

\* What a runner holds in memory.
RunRecords ==
  [pc : Steps, plan : Plans \cup {None}, mode : Modes, existing : SUBSET Conditions,
   hits : SUBSET Conditions, executed : SUBSET Conditions, queue : SUBSET Conditions,
   training : SUBSET Conditions, net : BOOLEAN, seen : [Conditions -> Tasks] \cup {None},
   left : SUBSET Conditions, runs : [Conditions -> ConditionRuns \cup {None}],
   split : SplitStatuses, metrics : Tables \cup {None}, unchanged : BOOLEAN,
   coldStatus : Statuses \cup {"NONE"}, coldRuns : [Conditions -> ConditionRuns \cup {None}],
   before : Snapshots, verification : Verifications \cup {None}]

NoOutputs == [files |-> [c \in Conditions |-> [content |-> None, stamp |-> 0]],
              tables |-> [content |-> None, stamp |-> 0]]

Idle == [pc |-> "start", plan |-> None, mode |-> "cold", existing |-> {}, hits |-> {}, executed |-> {},
         queue |-> {}, training |-> {}, net |-> FALSE, seen |-> None, left |-> {},
         runs |-> [c \in Conditions |-> None], split |-> "NOT_RUN", metrics |-> None, unchanged |-> TRUE,
         coldStatus |-> "NONE", coldRuns |-> [c \in Conditions |-> None], before |-> NoOutputs,
         verification |-> None]

Alive(r) == run[r].pc \notin Ended
Me(r) == run[r].plan
At(r, pc) == run[r].pc = pc
Does(r, f) == run' = [run EXCEPT ![r] = f]
Goes(r, pc) == Does(r, [run[r] EXCEPT !.pc = pc])

\* Named events are counted, up to the bound.
Trouble(kind) ==
  IF kind = "nothing" THEN UNCHANGED trouble
  ELSE /\ trouble.files + trouble.other < MaxTrouble
       /\ trouble' = [trouble EXCEPT ![kind] = @ + 1]

\* A process that ends keeps nothing of what it knew.
Ends(r, how) == Does(r, [Idle EXCEPT !.pc = how, !.plan = Me(r)])
Raises(r) ==
  /\ Ends(r, "raised")
  /\ UNCHANGED <<intact, cache, task, predictions, metrics, reports, records, trouble>>

Outputs == [files |-> [c \in Conditions |-> predictions[c]], tables |-> metrics]
\* An output that is replaced gets a later modification time.
Rewritten(old, content) == [content |-> content, stamp |-> old.stamp + 1]

-----------------------------------------------------------------------------
(* Preflight, plan and protected baseline.                                    *)

\* What build_smoke_plan compares.  The assignment is only counted, the labels
\* and the checkpoints are not opened before the plan is on disk.
ViewFilesHold == intact["view"] /\ intact["certificate"]
ViewRecordsHold == intact["features"] /\ ViewFilesHold
RegistryHolds == intact["registry"]
PlanHolds == ViewRecordsHold /\ RegistryHolds

\* verify_runtime_sources_after_plan: target bytes, packages, checkpoint digests.
CheckpointVerified == intact["checkpoint"]
RuntimeSourcesHold == intact["targets"] /\ CheckpointVerified

\* Checkout, interpreter, baseline without the target bytes, and plan.
Preflight(r) ==
  /\ At(r, "start")
  /\ \E p \in Plans :
       IF (\A s \in Protected \ {"targets"} : intact[s]) /\ PlanHolds
       THEN /\ Does(r, [run[r] EXCEPT !.pc = "planned", !.plan = p])
            /\ UNCHANGED <<intact, cache, task, predictions, metrics, reports, records, trouble>>
       ELSE Raises(r)

\* Everything protected must be what the baseline says.
FoundationUnchanged == \A s \in Protected : intact[s]

Freeze(r) ==
  /\ At(r, "planned")
  /\ IF RuntimeSourcesHold /\ FoundationUnchanged
     THEN /\ Goes(r, "frozen")
          /\ UNCHANGED <<intact, cache, task, predictions, metrics, reports, records, trouble>>
     ELSE Raises(r)

Fresh(p) ==
  /\ task[p] = None
  /\ \A c \in Conditions : predictions[c].content = None /\ cache[c] = None
  /\ metrics.content = None

\* A repeated run must not be mislabelled as cold.
EnsureNewColdRun(r) ==
  /\ At(r, "frozen")
  /\ IF Fresh(Me(r))
     THEN /\ Goes(r, "scan")
          /\ UNCHANGED <<intact, cache, task, predictions, metrics, reports, records, trouble>>
     ELSE Raises(r)

-----------------------------------------------------------------------------
(* One pass of the scheduler over the plan, cold or resumed.                  *)

\* A resumed pass first asks which entries are valid already.
ReadExisting(r) ==
  /\ At(r, "preread")
  /\ Does(r, [run[r] EXCEPT !.pc = "scan", !.mode = "resume", !.existing = {c \in Conditions : Valid(c)},
                            !.hits = {}, !.executed = {}, !.net = FALSE])
  /\ UNCHANGED <<intact, cache, task, predictions, metrics, reports, records, trouble>>

\* Scheduler.run up to the pool: abandoned tasks are pending again when their
\* lease is over (lapsed), failed ones stay, a task with a valid entry is
\* complete, and the rest is queued after what is invalid was moved aside.
Scan(r) ==
  /\ At(r, "scan")
  /\ \E lapsed \in BOOLEAN :
       LET p == Me(r)
           known == IF task[p] = None THEN [c \in Conditions |-> Waiting] ELSE task[p]
           abandoned(c) == /\ known[c].state = "RUNNING"
                           /\ lapsed /\ ~Alive(known[c].owner)
           open == {c \in Conditions : known[c].state \in {"PENDING", "COMPLETE"} \/ abandoned(c)}
           found == {c \in open : Valid(c)}
       IN /\ task' = [task EXCEPT ![p] = [c \in Conditions |->
                        IF c \in found THEN Complete
                        ELSE IF c \in open THEN Running(r) ELSE known[c]]]
          /\ cache' = [c \in Conditions |-> IF c \in open \ found THEN None ELSE cache[c]]
          /\ Does(r, [run[r] EXCEPT !.pc = "execute", !.hits = found, !.queue = open \ found])
  /\ UNCHANGED <<intact, predictions, metrics, reports, records, trouble>>

\* Under the identity lock: somebody else may have published meanwhile.
FindPublished(r, c) ==
  /\ At(r, "execute") /\ c \in run[r].queue /\ Valid(c)
  /\ task' = [task EXCEPT ![Me(r)][c] = Complete]
  /\ Does(r, [run[r] EXCEPT !.queue = @ \ {c}, !.hits = @ \cup {c}])
  /\ UNCHANGED <<intact, cache, predictions, metrics, reports, records, trouble>>

\* A worker hashes the assignment, the files of its own view and the target
\* bytes (_partition_frames); its adapter compares parameters and checkpoint.
WorkerInputsHold(c) ==
  /\ intact["assignment"] /\ intact["targets"]
  /\ IF ViewOf[c] = "V00" THEN intact["features"] ELSE ViewFilesHold
  /\ RegistryHolds /\ CheckpointVerified

FaultyLaunch(r, c) ==  \* the entry is not looked for again under the lock
  /\ At(r, "execute") /\ c \in run[r].queue
  /\ \A q \in Runners : c \notin run[q].training \/ ~Alive(q)
  /\ IF WorkerInputsHold(c)
     THEN /\ Does(r, [run[r] EXCEPT !.queue = @ \ {c}, !.training = @ \cup {c}])
          /\ UNCHANGED <<cache, task>>
     ELSE /\ task' = [task EXCEPT ![Me(r)][c] = Failed("capability")]
          /\ Does(r, [run[r] EXCEPT !.queue = @ \ {c}])
          /\ UNCHANGED cache
  /\ UNCHANGED <<intact, predictions, metrics, reports, records, trouble>>

\* What those checks raise has no category of its own: a model failure.
Launch(r, c) ==
  /\ At(r, "execute") /\ c \in run[r].queue /\ ~Valid(c)
  /\ \A q \in Runners : c \notin run[q].training \/ ~Alive(q)
  /\ IF WorkerInputsHold(c)
     THEN /\ Does(r, [run[r] EXCEPT !.queue = @ \ {c}, !.training = @ \cup {c}])
          /\ UNCHANGED <<cache, task>>
     ELSE /\ task' = [task EXCEPT ![Me(r)][c] = Failed("capability")]
          /\ Does(r, [run[r] EXCEPT !.queue = @ \ {c}])
          /\ UNCHANGED cache
  /\ UNCHANGED <<intact, predictions, metrics, reports, records, trouble>>

\* The labels of the training rows are read again after the check, without
\* another hash: they are the planned ones if the file is.
TrainingTargets == intact["targets"]

\* The rows of a prediction file carry the identity of the plan and timings.
PredictionFrame(r, net) ==
  [plan |-> Me(r), by |-> r, mode |-> run[r].mode, sound |-> TrainingTargets, net |-> net]

\* The archive is published with the number of attempted connections.
TrainPasses(r, c) ==
  /\ At(r, "execute") /\ c \in run[r].training
  /\ \E net \in BOOLEAN :
       /\ Trouble(IF net THEN "other" ELSE "nothing")
       /\ cache' = [cache EXCEPT ![c] = PredictionFrame(r, net)]
  /\ task' = [task EXCEPT ![Me(r)][c] = Complete]
  /\ Does(r, [run[r] EXCEPT !.training = @ \ {c}, !.executed = @ \cup {c}])
  /\ UNCHANGED <<intact, predictions, metrics, reports, records>>

\* A failure keeps the category its text begins with, BLOCKED_ or FAIL_.
TrainFails(r, c) ==
  /\ At(r, "execute") /\ c \in run[r].training
  /\ Trouble("other")
  /\ \E g \in Categories, net \in BOOLEAN :
       /\ task' = [task EXCEPT ![Me(r)][c] = Failed(g)]
       /\ Does(r, [run[r] EXCEPT !.training = @ \ {c}, !.net = @ \/ net])
  /\ UNCHANGED <<intact, cache, predictions, metrics, reports, records>>

\* The state file is read once; a pass that counts fewer hits than there were
\* valid entries before it is refused.
Gather(r) ==
  /\ At(r, "execute") /\ run[r].queue = {} /\ run[r].training = {}
  /\ IF run[r].mode = "resume" /\ Cardinality(run[r].existing) > Cardinality(run[r].hits)
     THEN Raises(r)
     ELSE /\ Does(r, [run[r] EXCEPT !.pc = "collect", !.seen = task[Me(r)], !.left = Conditions])
          /\ UNCHANGED <<intact, cache, task, predictions, metrics, reports, records, trouble>>

Collected(r, c, x) ==
  [run[r] EXCEPT !.runs[c] = x, !.left = @ \ {c},
                 !.net = @ \/ (x.status = "PASS" /\ x.payload.net),
                 !.pc = IF run[r].left # {c} THEN "collect"
                        ELSE IF run[r].mode = "cold" THEN "split" ELSE "verify"]

\* A task that is not complete is a failure of its category, or of the model.
CollectFailure(r, c) ==
  /\ At(r, "collect") /\ c \in run[r].left /\ run[r].seen[c].state # "COMPLETE"
  /\ LET g == run[r].seen[c].category
     IN Does(r, Collected(r, c, Unpassed(IF g = "none" THEN "capability" ELSE g)))
  /\ UNCHANGED <<intact, cache, task, predictions, metrics, reports, records, trouble>>

FaultyCollectPredictions(r, c) ==  \* a file that exists is left as it is
  /\ At(r, "collect") /\ c \in run[r].left /\ run[r].seen[c].state = "COMPLETE"
  /\ Valid(c) /\ cache[c].plan = Me(r)
  /\ predictions' = IF predictions[c].content # None THEN predictions
                    ELSE [predictions EXCEPT ![c] = Rewritten(@, cache[c])]
  /\ Does(r, Collected(r, c, Passed(cache[c], c \in run[r].existing)))
  /\ UNCHANGED <<intact, cache, task, metrics, reports, records, trouble>>

\* A complete one needs a valid entry of this very plan; its predictions are
\* written unless the file has them already.
CollectPredictions(r, c) ==
  /\ At(r, "collect") /\ c \in run[r].left /\ run[r].seen[c].state = "COMPLETE"
  /\ Valid(c) /\ cache[c].plan = Me(r)
  /\ predictions' = IF predictions[c].content = cache[c] THEN predictions
                    ELSE [predictions EXCEPT ![c] = Rewritten(@, cache[c])]
  /\ Does(r, Collected(r, c, Passed(cache[c], c \in run[r].existing)))
  /\ UNCHANGED <<intact, cache, task, metrics, reports, records, trouble>>

CollectRaises(r, c) ==
  /\ At(r, "collect") /\ c \in run[r].left /\ run[r].seen[c].state = "COMPLETE"
  /\ Valid(c) => cache[c].plan # Me(r)
  /\ Raises(r)

-----------------------------------------------------------------------------
(* After the cold pass: split, labels, protected files, report.               *)

AllPass(runs) == \A c \in Conditions : runs[c].status = "PASS"
Count(runs, status) == Cardinality({c \in Conditions : runs[c].status = status})

\* The grouped split is validated only when every condition passed.  A changed
\* assignment is found out by its hash, changed tables perhaps by the counts.
ValidateSplit(r) ==
  /\ At(r, "split")
  /\ \E status \in {"PASS", "FAIL", "NOT_RUN"} :
       /\ (status = "NOT_RUN") = ~AllPass(run[r].runs)
       /\ status = "PASS" => intact["assignment"]
       /\ status = "FAIL" => ~FoundationUnchanged
       /\ records' = [records EXCEPT !.split = status]
       /\ Does(r, [run[r] EXCEPT !.pc = "evaluate", !.split = status])
  /\ UNCHANGED <<intact, cache, task, predictions, metrics, reports, trouble>>

\* The label boundary: every prediction file is the one recorded, the views
\* still fit their certificates, and the target bytes are the planned ones.
MayOpenLabels(r) ==
  /\ \A c \in Conditions : predictions[c].content = run[r].runs[c].payload
  /\ ViewFilesHold /\ intact["targets"]

Evaluate(r) ==
  /\ At(r, "evaluate")
  /\ IF ~AllPass(run[r].runs) \/ run[r].split # "PASS"
     THEN /\ Goes(r, "compare") /\ UNCHANGED metrics
     ELSE IF MayOpenLabels(r)
     THEN LET table == [c \in Conditions |-> predictions[c].content]
          IN /\ metrics' = Rewritten(metrics, table)
             /\ Does(r, [run[r] EXCEPT !.pc = "compare", !.metrics = table])
     ELSE /\ Ends(r, "raised") /\ UNCHANGED metrics
  /\ UNCHANGED <<intact, cache, task, predictions, reports, records, trouble>>

\* Protected files against the baseline; the record is named after the mode.
Compare(r) ==
  /\ run[r].pc \in {"compare", "recompare"}
  /\ LET record == [plan |-> Me(r), unchanged |-> FoundationUnchanged]
     IN /\ records' = [records EXCEPT ![run[r].mode] = record]
        /\ Does(r, [run[r] EXCEPT !.unchanged = record.unchanged,
                                  !.pc = IF @ = "compare" THEN "report" ELSE "final"])
  /\ UNCHANGED <<intact, cache, task, predictions, metrics, reports, trouble>>

FaultyConditionStatus(runs, unchanged, split, net) ==  \* attempted connections are not counted
  IF ~unchanged \/ split = "FAIL" THEN "REPAIR_REQUIRED"
  ELSE IF \E c \in Conditions : runs[c].status = "FAIL" /\ runs[c].category # "capability"
  THEN "REPAIR_REQUIRED"
  ELSE IF Count(runs, "BLOCKED") > 0 THEN "BLOCKED"
  ELSE IF Count(runs, "FAIL") > 0 THEN "PARTIAL_VALID"
  ELSE IF split # "PASS" THEN "REPAIR_REQUIRED" ELSE "PASS_PENDING_REVIEW"

\* A failure that is no failure of the model's capability asks for repair.
ConditionStatus(runs, unchanged, split, net) ==
  IF ~unchanged \/ split = "FAIL" \/ net THEN "REPAIR_REQUIRED"
  ELSE IF \E c \in Conditions : runs[c].status = "FAIL" /\ runs[c].category # "capability"
  THEN "REPAIR_REQUIRED"
  ELSE IF Count(runs, "BLOCKED") > 0 THEN "BLOCKED"
  ELSE IF Count(runs, "FAIL") > 0 THEN "PARTIAL_VALID"
  ELSE IF split # "PASS" THEN "REPAIR_REQUIRED" ELSE "PASS_PENDING_REVIEW"

Report(r, status) ==
  [by |-> r, plan |-> Me(r), mode |-> run[r].mode, status |-> status, runs |-> run[r].runs,
   executed |-> Cardinality(run[r].executed), hits |-> Cardinality(run[r].hits),
   metrics |-> run[r].metrics, unchanged |-> run[r].unchanged, split |-> run[r].split,
   net |-> run[r].net, verification |-> run[r].verification]

FaultyReportAccepted(x) ==  \* the counts of executions and hits are not compared
  /\ x.status = "PASS_PENDING_REVIEW" =>
       /\ AllPass(x.runs) /\ x.metrics # None
       /\ x.unchanged /\ ~x.net
  /\ x.status = "PARTIAL_VALID" => ~AllPass(x.runs)

\* SmokeRunReport.validate_report.
ReportAccepted(x) ==
  /\ x.status = "PASS_PENDING_REVIEW" =>
       /\ AllPass(x.runs) /\ x.metrics # None
       /\ x.unchanged /\ ~x.net
       /\ x.mode = "cold" => x.executed = Cardinality(Conditions) /\ x.hits = 0
       /\ x.mode = "resume" => /\ x.executed = 0 /\ x.hits = Cardinality(Conditions)
                               /\ x.verification # None /\ x.verification.before = x.verification.after
       /\ \A c \in Conditions : x.runs[c].hit = (x.mode = "resume")
  /\ x.status = "PARTIAL_VALID" => ~AllPass(x.runs)

ReportCold(r) ==
  /\ At(r, "report")
  /\ LET status == ConditionStatus(run[r].runs, run[r].unchanged, run[r].split, run[r].net)
         x == Report(r, status)
     IN IF ReportAccepted(x)
        THEN /\ reports' = [reports EXCEPT ![Me(r)].cold = x]
             /\ Does(r, [run[r] EXCEPT !.pc = "snapshot", !.coldStatus = status, !.coldRuns = run[r].runs])
        ELSE Ends(r, "raised") /\ UNCHANGED reports
  /\ UNCHANGED <<intact, cache, task, predictions, metrics, records, trouble>>

-----------------------------------------------------------------------------
(* The second pass must find everything and change nothing.                   *)

Snapshot(r) ==
  /\ At(r, "snapshot")
  /\ Does(r, [run[r] EXCEPT !.pc = "preread", !.before = Outputs])
  /\ UNCHANGED <<intact, cache, task, predictions, metrics, reports, records, trouble>>

Paths(o) == <<{c \in Conditions : o.files[c].content # None}, o.tables.content # None>>

\* ResumeVerification refuses other paths and tasks that are not accounted for.
VerificationAccepted(r, after) ==
  /\ Paths(run[r].before) = Paths(after)
  /\ Cardinality(run[r].executed) + Cardinality(run[r].hits)
       + Count(run[r].runs, "FAIL") + Count(run[r].runs, "BLOCKED") = Cardinality(Conditions)

VerificationPasses(r, after) ==
  /\ run[r].executed = {} /\ run[r].hits = Conditions
  /\ AllPass(run[r].runs) /\ ~run[r].net
  /\ run[r].before = after

Verify(r) ==
  /\ At(r, "verify")
  /\ IF VerificationAccepted(r, Outputs)
     THEN LET v == [by |-> r, plan |-> Me(r), before |-> run[r].before, after |-> Outputs,
                    passed |-> VerificationPasses(r, Outputs)]
          IN /\ records' = [records EXCEPT !.verification = v]
             /\ Does(r, [run[r] EXCEPT !.pc = "recompare", !.verification = v])
     ELSE Ends(r, "raised") /\ UNCHANGED records
  /\ UNCHANGED <<intact, cache, task, predictions, metrics, reports, trouble>>

FinalStatus(r) ==
  IF \/ \E c \in Conditions : run[r].coldRuns[c].status # run[r].runs[c].status
     \/ ~run[r].unchanged \/ run[r].split = "FAIL"
  THEN "REPAIR_REQUIRED"
  ELSE IF run[r].coldStatus # "PASS_PENDING_REVIEW" THEN run[r].coldStatus
  ELSE IF ~run[r].verification.passed THEN "REPAIR_REQUIRED" ELSE "PASS_PENDING_REVIEW"

ReportFinal(r) ==
  /\ At(r, "final")
  /\ LET x == Report(r, FinalStatus(r))
     IN IF ReportAccepted(x)
        THEN reports' = [reports EXCEPT ![Me(r)].resume = x] /\ Ends(r, "done")
        ELSE Ends(r, "raised") /\ UNCHANGED reports
  /\ UNCHANGED <<intact, cache, task, predictions, metrics, records, trouble>>

-----------------------------------------------------------------------------
(* scripts/validate_smoke_experiment.py on the resume report of plan p.       *)

\* Every prediction file named by the report is there, with its hash and plan.
PredictionsHold(x) ==
  \A c \in Conditions : x.runs[c].status = "PASS" =>
    predictions[c].content = x.runs[c].payload /\ x.runs[c].payload.plan = x.plan

MetricsHold(x) == x.metrics # None => metrics.content = x.metrics /\ AllPass(x.runs)

\* The records beside the report are the ones it hashed.
RecordsHold(x) ==
  /\ records.resume = [plan |-> x.plan, unchanged |-> x.unchanged]
  /\ records.split = x.split

FaultyResumeHolds(x) ==  \* the cold report is not the one that was verified
  records.verification = x.verification /\ x.verification.plan = x.plan

\* The verification, and the cold report it starts from.
ResumeHolds(x) ==
  /\ records.verification = x.verification /\ x.verification.plan = x.plan
  /\ reports[x.plan].cold # None /\ reports[x.plan].cold.by = x.verification.by
  /\ \A c \in Conditions : reports[x.plan].cold.runs[c].status = x.runs[c].status

Gates(x) ==
  /\ x.unchanged /\ x.split = "PASS" /\ ~x.net
  /\ x.verification.passed /\ x.status = "PASS_PENDING_REVIEW"

\* The plan is built again and must have the same hash.
SourcesHold == PlanHolds /\ intact["assignment"] /\ RuntimeSourcesHold

Verdict(p) ==
  LET x == reports[p].resume
  IN IF \/ x = None \/ ~SourcesHold
        \/ ~PredictionsHold(x) \/ ~MetricsHold(x) \/ ~RecordsHold(x) \/ ~ResumeHolds(x)
     THEN "raised" ELSE IF Gates(x) THEN "PASS" ELSE "FAIL"

\* With --record-evidence the report just judged is counted for the handoff,
\* together with the gates.
MakeInventory(x) ==
  [status |-> x.status, gates |-> Gates(x),
   passed |-> Count(x.runs, "PASS"), failed |-> Count(x.runs, "FAIL"),
   blocked |-> Count(x.runs, "BLOCKED"),
   files |-> Cardinality({c \in Conditions : x.runs[c].payload # None}),
   unchanged |-> x.unchanged, net |-> x.net]

\* SmokeEvidenceInventory.validate_counts.
InventoryAccepted(i) ==
  /\ i.passed + i.failed + i.blocked = Cardinality(Conditions)
  /\ i.status = "PASS_PENDING_REVIEW" =>
       /\ i.gates
       /\ i.passed = Cardinality(Conditions) /\ i.files = Cardinality(Conditions)
       /\ i.unchanged /\ ~i.net

\* An inventory that is refused leaves a verdict and no evidence of it.
RecordEvidence(p) ==
  IF Verdict(p) = "raised" THEN "raised"
  ELSE IF InventoryAccepted(MakeInventory(reports[p].resume)) THEN "recorded" ELSE "refused"

-----------------------------------------------------------------------------
(* The environment.                                                           *)

Die(r) ==
  /\ run[r].pc \notin Ended \cup {"start"}
  /\ Trouble("other") /\ Ends(r, "dead")
  /\ UNCHANGED <<intact, cache, task, predictions, metrics, reports, records>>

Harm ==
  Trouble("files") /\ UNCHANGED <<run, task, reports, records>>

ChangeInput(s) ==
  /\ Harm /\ intact[s] /\ intact' = [intact EXCEPT ![s] = FALSE]
  /\ UNCHANGED <<cache, predictions, metrics>>

DamageEntry(c) ==
  /\ Harm /\ Valid(c) /\ cache' = [cache EXCEPT ![c] = Damaged]
  /\ UNCHANGED <<intact, predictions, metrics>>

ChangePredictions(c) ==
  /\ Harm /\ predictions[c].content \in Payloads
  /\ \E content \in {None, Foreign} : predictions' = [predictions EXCEPT ![c] = Rewritten(@, content)]
  /\ UNCHANGED <<intact, cache, metrics>>

-----------------------------------------------------------------------------

Init ==
  /\ run = [r \in Runners |-> Idle]
  /\ intact = [s \in Sources |-> TRUE]
  /\ cache = [c \in Conditions |-> None]
  /\ task = [p \in Plans |-> None]
  /\ predictions = NoOutputs.files /\ metrics = NoOutputs.tables
  /\ reports = [p \in Plans |-> [cold |-> None, resume |-> None]]
  /\ records = [cold |-> None, resume |-> None, split |-> None, verification |-> None]
  /\ trouble = [files |-> 0, other |-> 0]

Step(r) ==
  \/ Preflight(r) \/ Freeze(r) \/ EnsureNewColdRun(r)
  \/ ReadExisting(r) \/ Scan(r)
  \/ \E c \in Conditions : \/ FindPublished(r, c) \/ Launch(r, c) \/ TrainPasses(r, c) \/ TrainFails(r, c)
  \/ Gather(r)
  \/ \E c \in Conditions : \/ CollectFailure(r, c) \/ CollectPredictions(r, c) \/ CollectRaises(r, c)
  \/ ValidateSplit(r) \/ Evaluate(r) \/ Compare(r) \/ ReportCold(r)
  \/ Snapshot(r) \/ Verify(r) \/ ReportFinal(r)

Environment ==
  \/ \E r \in Runners : Die(r)
  \/ \E s \in Sources : ChangeInput(s)
  \/ \E c \in Conditions : DamageEntry(c) \/ ChangePredictions(c)

Next == (\E r \in Runners : Step(r)) \/ Environment

Spec == Init /\ [][Next]_vars

-----------------------------------------------------------------------------
(* Properties.                                                                *)

\* No other runner has been started.
Alone(r) == \A q \in Runners \ {r} : At(q, "start")

\* Every variable is one of its records (run_smoke_experiment.py).
SmokeTypeOK ==
  /\ run \in [Runners -> RunRecords]
  /\ intact \in [Sources -> BOOLEAN]
  /\ cache \in [Conditions -> Payloads \cup {None, Damaged}]
  /\ task \in [Plans -> [Conditions -> Tasks] \cup {None}]
  /\ predictions \in [Conditions -> Stamped(Contents)] /\ metrics \in Stamped(Tables \cup {None})
  /\ reports \in [Plans -> [cold : Reports \cup {None}, resume : Reports \cup {None}]]
  /\ records \in [cold : Comparisons \cup {None}, resume : Comparisons \cup {None},
                   split : SplitStatuses \cup {None}, verification : Verifications \cup {None}]
  /\ trouble \in [files : 0 .. MaxTrouble, other : 0 .. MaxTrouble]

\* Of a passing cold report every condition was executed for that plan, and
\* unless files were damaged by the reporting runner itself in its cold pass: no
\* reuse is mislabelled as a cold execution, whatever other runners do to the
\* shared cache and output files (run_smoke_experiment.py:287, contracts.py:655).
ColdPassIsCold ==
  \A p \in Plans :
    LET x == reports[p].cold
    IN (x # None /\ x.status = "PASS_PENDING_REVIEW") =>
         \A c \in Conditions :
           LET it == x.runs[c].payload
           IN it.plan = p /\ (trouble.files = 0 => it.by = x.by /\ it.mode = "cold")

\* A final pass rests on models that were trained offline on the planned labels,
\* the prediction files it verified are those of the entries it names and, unless
\* another runner repaired a damaged entry between the evaluation and the second
\* pass, on metrics of exactly the predictions it names (evaluation.py:175;
\* evidence.py:388 compares no prediction hash).
FinalPassIsSound ==
  \A p \in Plans :
    LET x == reports[p].resume
    IN (x # None /\ x.status = "PASS_PENDING_REVIEW") =>
         /\ \A c \in Conditions : x.runs[c].payload.sound /\ ~x.runs[c].payload.net
         /\ \A c \in Conditions : x.verification.after.files[c].content = x.runs[c].payload
         /\ trouble.files = 0 \/ Alone(x.by) => x.metrics = [c \in Conditions |-> x.runs[c].payload]

\* Once labels were opened nothing is trained any more, unless files were
\* changed: no model can have seen an evaluation.
NoTrainingAfterLabels ==
  [][\A r \in Runners : metrics.content # None /\ trouble.files = 0 =>
       run'[r].training \subseteq run[r].training]_vars

\* The runner never loses a finished pass to its own contracts: alone and
\* undisturbed it writes both reports, however many conditions fail.
UndisturbedRunReports ==
  \A r \in Runners :
    At(r, "raised") /\ trouble.files = 0 => ~Alone(r)

\* What the validator accepts is a passing report, still backed by the cold
\* report of the runner that wrote it; it accepts each passing report as
\* long as nobody else has run and nothing was changed; and whatever its verdict
\* is, the inventory of the evidence does not refuse it: no report passes with
\* a gate that fails (evidence.py:495, contracts.py:794).
ValidatorAgrees ==
  \A p \in Plans :
    LET x == reports[p].resume
    IN /\ Verdict(p) = "PASS" => /\ reports[p].cold.status = "PASS_PENDING_REVIEW"
                                 /\ reports[p].cold.by = x.by
       /\ (/\ x # None /\ x.status = "PASS_PENDING_REVIEW"
           /\ trouble.files = 0 /\ Alone(x.by)) => Verdict(p) = "PASS"
       /\ RecordEvidence(p) # "refused"
=============================================================================
