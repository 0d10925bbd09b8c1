----------------------------- MODULE PilotPlan -----------------------------
(* What the pilot planner computes, without its steps: which datasets of the  *)
(* registry are candidates, the cohort it selects from their metadata, the    *)
(* documents of a frozen plan (protocol, condition inventory, staged          *)
(* schedule), and what the contracts demand of those documents.               *)
(*                                                                            *)
(* A checksum stands for what it was computed from: a document holds the      *)
(* versions of the files it names and, where it names another document, that  *)
(* document.  The three seeds of a dataset always travel together and are one *)
(* seed here.  Times are in worker-seconds, multiplied by Workers, to stay in *)
(* the integers.                                                              *)
EXTENDS Integers, Sequences, FiniteSets, FiniteSetsExt

CONSTANTS
  Registry,        \* the registered datasets, by number
  Anchor,          \* the protected one
  CohortSize,      \* how many are selected
  StageSize,       \* how many of them one stage holds
  Meta,            \* the accepted metadata of each
  Policy,          \* thresholds, limits and required coverage of the protocol
  Views, Identity, \* the view registry and its V00
  Models, OnGpu,   \* the model matrix, and the part that runs on the device
  Seconds,         \* what one condition of a model takes on the anchor
  Weight,          \* how much longer a dataset takes than the anchor
  Bytes,           \* what the predictions of one view of a dataset take
  Workers, Safety, Coordination,
  FrozenPasses     \* how many views the accepted inventory calls applicable

\* What SelectionPolicy and ResourcePolicy refuse.
PolicyHolds ==
  Policy.smallRows < Policy.maxRows /\ Policy.preferredWall <= Policy.hardWall

ASSUME PlanAssumption ==
  /\ PolicyHolds
  /\ IsFiniteSet(Registry) /\ Registry \subseteq Nat /\ Anchor \in Registry
  /\ CohortSize \in 1 .. Cardinality(Registry) /\ StageSize \in Nat \ {0}
  /\ CohortSize % StageSize = 0
  /\ IsFiniteSet(Views) /\ Identity \in Views
  /\ IsFiniteSet(Models) /\ Models # {} /\ OnGpu \subseteq Models
  /\ Seconds \in [Models -> Nat] /\ Weight \in [Registry -> Nat] /\ Bytes \in [Registry -> Nat]
  /\ Workers \in Nat \ {0} /\ Safety \in Nat \ {0} /\ Coordination \in Nat

-----------------------------------------------------------------------------
(* Metadata.                                                                  *)

SchemaFamily(m) ==
  IF m.categorical = 0 THEN "numeric_only"
  ELSE IF m.numeric = 0 THEN "categorical_only" ELSE "mixed_numeric_categorical"

TaskType(m) == IF m.classes = 2 THEN "binary" ELSE "multiclass"

DuplicateProfile(m) ==
  [task_type |-> TaskType(m),
   schema_family |-> SchemaFamily(m),
   size_band |-> IF m.rows <= Policy.smallRows THEN "small" ELSE "medium",
   balance_band |-> IF 100 * m.largestClass <= Policy.balancedPercent * m.rows
                    THEN "balanced" ELSE "imbalanced"]

CoverageTags(m) ==
  LET p == DuplicateProfile(m)
      substantial == 100 * m.categorical >= Policy.substantialPercent * m.features
  IN {p.task_type, p.schema_family, p.size_band, p.balance_band}
       \cup (IF substantial THEN {"substantial_categorical"} ELSE {})
       \cup (IF m.features >= 50 THEN {"high_dimensional"} ELSE {})
       \cup (IF m.features >= 50 /\ substantial THEN {"high_cardinality_categorical"} ELSE {})
       \cup (IF m.missing > 0 THEN {"missing_values"} ELSE {})

Profile == [d \in Registry |-> DuplicateProfile(Meta[d])]
Tags == [d \in Registry |-> CoverageTags(Meta[d])]

Covered(S) == UNION {Tags[d] : d \in S}

-----------------------------------------------------------------------------
(* Candidates.  wrong names what disagrees in the files of a dataset, if      *)
(* anything does.                                                             *)

\* Raw and processed manifest, schema and quality report match the accepted
\* report and the registry.
ManifestsMatch(f) == f.wrong # "manifest"

\* Every artifact has the checksum its manifest gives.
ArtifactsMatch(f) == f.wrong # "artifact"

\* Five grouped assignments pass, match the split inventory and cross no group.
SplitsMatch(f) == f.wrong # "split"

WithinLimits(m) ==
  /\ m.rows <= Policy.maxRows /\ m.features <= Policy.maxFeatures
  /\ m.classes <= Policy.maxClasses /\ m.train <= Policy.maxTrain

\* A dataset that fails any of this is left out without a word.
Candidates(data) ==
  {d \in Registry : /\ ManifestsMatch(data[d]) /\ ArtifactsMatch(data[d])
                    /\ SplitsMatch(data[d]) /\ WithinLimits(Meta[d])}

\* The accepted adapter inventory and device report prove every model on every
\* candidate.
ModelsProven(probes) == probes.pass

\* The matrix of models takes its evidence from the adapter inventory, and all
\* else from the configuration.
BuildModelMatrix(probes) == probes.at

-----------------------------------------------------------------------------
(* Selection.                                                                 *)

Score(S) ==
  <<Cardinality(Covered(S) \cap Policy.required),
    Cardinality({<<SchemaFamily(Meta[d]), TaskType(Meta[d])>> : d \in S}),
    Cardinality({Profile[d] : d \in S}) - Cardinality(S),
    Cardinality({<<Meta[d].features, Meta[d].classes, Meta[d].missing > 0, Meta[d].duplicates>>
                 : d \in S})>>

Scores == [S \in {T \in SUBSET Registry : Cardinality(T) = CohortSize} |-> Score(S)]

Above(s, t) == \E i \in DOMAIN s : s[i] > t[i] /\ \A j \in 1 .. i - 1 : s[j] = t[j]

\* Equal scores go to the smaller tuple of ascending numbers.
Beats(S, T) ==
  \/ Above(Scores[S], Scores[T])
  \/ Scores[S] = Scores[T] /\ Min(SymDiff(S, T)) \in S

\* forgets that every subset starts with the anchor
FaultyCohorts(C) == {S \in DOMAIN Scores : S \subseteq C}

Cohorts(C) == {S \in DOMAIN Scores : S \subseteq C /\ Anchor \in S}

\* The cohort, for each set of candidates that holds one.
SelectCandidateIds ==
  [C \in {D \in SUBSET Registry : Cohorts(D) # {}} |->
     CHOOSE S \in Cohorts(C) : \A T \in Cohorts(C) \ {S} : Beats(S, T)]

\* The selected dataset whose metadata profile is nearest.
Competitor(e, S) ==
  LET Differ(d) == Cardinality({k \in DOMAIN Profile[e] : Profile[d][k] # Profile[e][k]})
  IN Min({d \in S : \A c \in S : Differ(d) <= Differ(c)})

-----------------------------------------------------------------------------
(* The parts of the protocol.                                                 *)

\* A selected dataset is frozen with the checksums of its files.
SelectedDatasets(S, data) == {[dataset |-> d, at |-> data[d].at] : d \in S}

\* The loop over the excluded ones takes name and evidence from the variable
\* of the loop before it, which still holds the last selected dataset.
ExcludedDatasets(S) ==
  {[dataset |-> e, describes |-> Max(S), competitor |-> Competitor(e, S)]
   : e \in Registry \ S}

\* The counts of the accepted inventory are part of the frozen evidence.
InventoryAccepted(views) ==
  SumFunction([d \in Registry |-> Cardinality(views.applicable[d])]) = FrozenPasses

\* The records of the selected datasets, with the features they were
\* certified on; nothing compares those with the features frozen above.
CollectViewApplicability(S, views) ==
  [d \in S |-> [applicable |-> views.applicable[d], features |-> views.features[d]]]

\* The files the plan was made from, and the checksums they have now.
SourceHashes(inputs, S) ==
  [data |-> [d \in S |-> inputs.data[d].at], views |-> inputs.views.at,
   smoke |-> inputs.smoke.at, runtime |-> inputs.runtime.at, probes |-> inputs.probes.at]

MaxOf(a, b) == IF a >= b THEN a ELSE b

\* One condition takes the longest of what the smoke runs and the probes took.
BaseSeconds(m, runtime, probes) == Seconds[m] * MaxOf(runtime.unit, probes.unit)

\* The work of a dataset on a set of models.
Work(d, views, ms, runtime, probes) ==
  Cardinality(views[d].applicable) * Weight[d]
    * MapThenSumSet(LAMBDA m : BaseSeconds(m, runtime, probes), ms)

Wall(cpu, gpu) == MaxOf(cpu, Workers * gpu) * Safety + Workers * Coordination

RuntimeEstimate(S, views, runtime, probes) ==
  LET cpu == [d \in S |-> Work(d, views, Models \ OnGpu, runtime, probes)]
      gpu == [d \in S |-> Work(d, views, OnGpu, runtime, probes)]
      bytes == [d \in S |-> Cardinality(views[d].applicable) * Bytes[d] * Cardinality(Models)]
      wall == Wall(SumFunction(cpu), SumFunction(gpu))
      storage == 2 * SumFunction(bytes)
  IN [measured |-> [runtime |-> runtime.at, probes |-> probes.at],
      cpu |-> cpu, gpu |-> gpu, bytes |-> bytes, wall |-> wall, cache |-> storage,
      preferred |-> wall <= Workers * Policy.preferredWall /\ storage <= Policy.preferredBytes]

-----------------------------------------------------------------------------
(* The three documents.  reads is what the planner took from the files.       *)

Protocol(reads) ==
  [selected |-> SelectedDatasets(reads.cohort, reads.data),
   excluded |-> ExcludedDatasets(reads.cohort),
   views |-> reads.views,
   models |-> reads.matrix,
   sources |-> reads.sources,
   estimate |-> RuntimeEstimate(reads.cohort, reads.views, reads.runtime, reads.probes)]

Ids(records) == {r.dataset : r \in records}

\* A condition is identified by everything its prediction depends on; within
\* one protocol, whose checksum is part of it, these three tell them apart.
PlannedCondition(d, v, m) == <<d, v, m>>

Inventory(protocol) ==
  LET S == Ids(protocol.selected)
  IN [protocol |-> protocol,
      records |-> UNION {{PlannedCondition(d, v, m) : v \in protocol.views[d].applicable, m \in Models}
                           : d \in S},
      notApplicable |-> UNION {{<<d, v>> : v \in Views \ protocol.views[d].applicable} : d \in S}]

\* Groups of StageSize by ascending number.
StageGroups(S) ==
  LET Rank(d) == Cardinality({c \in S : c < d})
  IN {{d \in S : Rank(d) \div StageSize = i} : i \in 0 .. (Cardinality(S) \div StageSize) - 1}

\* leaves the work on the device out of the wall time of a stage
FaultyStage(group, protocol, inventory) ==
  [datasets |-> group,
   conditions |-> {c \in inventory.records : c[1] \in group},
   wall |-> Wall(SumFunctionOnSet(protocol.estimate.cpu, group), 0),
   bytes |-> SumFunctionOnSet(protocol.estimate.bytes, group)]

Stage(group, protocol, inventory) ==
  LET e == protocol.estimate
  IN [datasets |-> group,
      conditions |-> {c \in inventory.records : c[1] \in group},
      wall |-> Wall(SumFunctionOnSet(e.cpu, group), SumFunctionOnSet(e.gpu, group)),
      bytes |-> SumFunctionOnSet(e.bytes, group)]

TotalWall(stages) == MapThenSumSet(LAMBDA s : s.wall, stages)

BuildStagedSchedule(protocol, inventory) ==
  LET stages == {Stage(g, protocol, inventory) : g \in StageGroups(Ids(protocol.selected))}
  IN [protocol |-> protocol, inventory |-> inventory, stages |-> stages,
      wall |-> TotalWall(stages),
      withinHard |-> \A s \in stages : s.wall <= Workers * Policy.hardWall]

-----------------------------------------------------------------------------
(* What the contracts demand when a document is made or read.                 *)

\* Parts and partitions of a dataset add up.
SelectionHolds(m) == m.numeric + m.categorical = m.features /\ m.train \in 1 .. m.rows - 1

\* The planner admits no dataset whose column counts do not add up, and a split
\* is written only with all its partitions filled.
ASSUME MetaAssumption == \A d \in Registry : SelectionHolds(Meta[d])

EstimateHolds(e) == DOMAIN e.cpu = DOMAIN e.bytes /\ e.cache = 2 * SumFunction(e.bytes)

ProtocolHolds(p) ==
  LET S == Ids(p.selected) IN
  LET X == Ids(p.excluded) IN
  /\ Cardinality(p.selected) = CohortSize /\ Cardinality(S) = CohortSize /\ Anchor \in S
  /\ S \cap X = {} /\ S \cup X = Registry
  /\ \A d \in S : SelectionHolds(Meta[d])
  /\ Policy.required \subseteq Covered(S)
  /\ DOMAIN p.estimate.cpu = S /\ EstimateHolds(p.estimate)

ViewsHold(p) == \A d \in DOMAIN p.views : Identity \in p.views[d].applicable

InventoryHolds(p, i) ==
  LET S == Ids(p.selected) IN
  LET tuples == {<<c[1], c[2]>> : c \in i.records} IN
  /\ S \X {Identity} \X Models \subseteq i.records
  /\ tuples \cap i.notApplicable = {}
  /\ \A t \in tuples : {c[3] : c \in {r \in i.records : <<r[1], r[2]>> = t}} = Models
  /\ Cardinality(tuples) + Cardinality(i.notApplicable) = Cardinality(S) * Cardinality(Views)

\* Gates PF06 and PF08 of the validator judge the frozen cohort again.
CohortGates(p) ==
  /\ Policy.required \subseteq Covered(Ids(p.selected))
  /\ Cardinality(p.selected) = CohortSize
  /\ Cardinality(p.excluded) = Cardinality(Registry) - CohortSize

\* Gates PF10, PF13 and PF14: every tuple is applicable or not, and each
\* applicable one is there once for every model.
TupleGates(p, i) ==
  LET applicable == {<<r[1], r[2]>> : r \in i.records}
      tuples == Cardinality(Ids(p.selected)) * Cardinality(Views)
  IN /\ Cardinality(applicable) + Cardinality(i.notApplicable) = tuples
     /\ Cardinality(i.records) = Cardinality(applicable) * Cardinality(Models)
     /\ \A t \in i.notApplicable : t[2] # Identity

\* Gate PF24: the storage verdict is the one the estimate implies.
StorageGate(e) ==
  /\ e.cache >= SumFunction(e.bytes)
  /\ e.preferred => e.cache <= Policy.preferredBytes

ScheduleHolds(s) ==
  /\ \A a \in s.stages : Cardinality(a.datasets) = StageSize
  /\ \A a, b \in s.stages : a # b =>
        /\ a.datasets \cap b.datasets = {} /\ a.conditions \cap b.conditions = {}
        /\ Max(a.datasets) < Min(b.datasets) \/ Max(b.datasets) < Min(a.datasets)
  /\ UNION {a.conditions : a \in s.stages} = s.inventory.records
  /\ s.wall = TotalWall(s.stages)
=============================================================================
