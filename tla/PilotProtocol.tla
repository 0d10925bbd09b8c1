---------------------------- MODULE PilotProtocol ----------------------------
(* Freezing and validating the pilot protocol.  scripts/                      *)
(* freeze_pilot_protocol.py builds the plan from files that other scripts of  *)
(* the project replace, reading some of them more than once, and writes three *)
(* documents one after the other; scripts/validate_pilot_protocol.py reads    *)
(* the three, builds the plan again, evaluates its gates between two          *)
(* snapshots of the protected data and writes a report.  Nothing locks the    *)
(* directory: freezers and validators may overlap, and one that dies between  *)
(* two of its steps is one that takes no further step.                        *)
(*                                                                            *)
(* Replaced files are new ones, an old version does not come back; MaxEvents  *)
(* bounds how often any is replaced.  The configuration and the program are   *)
(* those of the commit both scripts insist on.                                *)
(*                                                                            *)
(* A stored document is represented by what its author had read: Protocol,    *)
(* Inventory and Schedule give its content, and contents are compared.        *)
EXTENDS PilotPlan

CONSTANTS
  Freezers, Validators,  \* processes of the two scripts
  Changing,              \* the datasets whose files are rebuilt
  Disagreements,         \* what may be wrong with them afterwards, "nothing" meaning nothing
  Applicabilities,       \* what a new transformation inventory may say of each dataset
  Units,                 \* how long the smoke experiment or a probe may take
  MaxEvents,             \* bound: replacements of files
  Absent                 \* a document that is not there, a value not read yet

Planners == Freezers \cup Validators

ASSUME ProtocolAssumption ==
  /\ Freezers \cap Validators = {} /\ Changing \subseteq Registry
  /\ Disagreements \subseteq {"nothing", "manifest", "artifact", "split"}
  /\ Applicabilities \subseteq [Registry -> SUBSET Views] /\ Applicabilities # {}
  /\ \A a \in Applicabilities, d \in Registry : Identity \in a[d]
  /\ Units \subseteq Nat
  /\ MaxEvents \in Nat

VARIABLES
  inputs,  \* the files a plan is made from, each with its version
  events,  \* how many were replaced
  disk,    \* the frozen documents, by what their authors had read, and the report's status
  step,    \* where each process is
  reads,   \* what its planner has read
  held     \* what a validator holds besides

vars == <<inputs, events, disk, step, reads, held>>

Unread == [cohort |-> {}, data |-> Absent, matrix |-> Absent, views |-> Absent,
           sources |-> Absent, runtime |-> Absent, probes |-> Absent]

Nothing == [protocol |-> Absent, inventory |-> Absent, schedule |-> Absent,
            before |-> Absent, moment |-> Absent, good |-> TRUE]

Init ==
  /\ \E a \in Applicabilities :
       inputs = [data |-> [d \in Registry |-> [at |-> 0, wrong |-> "nothing"]],
                 smoke |-> [at |-> 0, accepted |-> TRUE],
                 views |-> [at |-> 0, applicable |-> a, features |-> [d \in Registry |-> 0]],
                 runtime |-> [at |-> 0, unit |-> 1],
                 probes |-> [at |-> 0, unit |-> 1, pass |-> TRUE]]
  /\ InventoryAccepted(inputs.views)
  /\ events = 0
  /\ disk = [protocol |-> Absent, inventory |-> Absent, schedule |-> Absent, report |-> Absent]
  /\ step = [p \in Planners |-> IF p \in Freezers THEN "review" ELSE "load"]
  /\ reads = [p \in Planners |-> Unread]
  /\ held = [v \in Validators |-> Nothing]

-----------------------------------------------------------------------------
(* The producers of the inputs.                                               *)

Replace(field, value) ==
  /\ events < MaxEvents
  /\ events' = events + 1
  /\ inputs' = [inputs EXCEPT ![field] = value]
  /\ UNCHANGED <<disk, step, reads, held>>

\* A dataset is built or split anew; its files may not agree when it is done.
Reprocess(d) ==
  \E w \in Disagreements :
    Replace("data", [inputs.data EXCEPT ![d] = [at |-> events + 1, wrong |-> w]])

\* An independent review of the smoke experiment is filed again.
ReviewSmoke ==
  \E ok \in BOOLEAN : Replace("smoke", [at |-> events + 1, accepted |-> ok])

\* The transformation inventory is made again, from the features of now.
Certify ==
  \E a \in Applicabilities :
    Replace("views", [at |-> events + 1, applicable |-> a,
                      features |-> [d \in Registry |-> inputs.data[d].at]])

\* The smoke experiment is run and timed again.
TimeSmoke == \E u \in Units : Replace("runtime", [at |-> events + 1, unit |-> u])

\* The adapters and the device are probed again.
Probe ==
  \E u \in Units, ok \in BOOLEAN :
    Replace("probes", [at |-> events + 1, unit |-> u, pass |-> ok])

-----------------------------------------------------------------------------
(* build_pilot_plan, by whichever process.                                    *)

Goto(p, s) == step' = [step EXCEPT ![p] = s]

Keep(p, field, value) == reads' = [reads EXCEPT ![p][field] = value]

\* An exception ends the process, and what it had read is gone.
Raise(p) ==
  /\ Goto(p, "blocked")
  /\ reads' = [reads EXCEPT ![p] = Unread]
  /\ held' = [v \in Validators |-> IF v = p THEN Nothing ELSE held[v]]

\* The review must carry the accepted verdict; its checksum is taken later.
ValidateAcceptedSmoke(p) ==
  /\ step[p] = "review"
  /\ IF inputs.smoke.accepted
       THEN Goto(p, "datasets") /\ UNCHANGED <<reads, held>>
       ELSE Raise(p)
  /\ UNCHANGED <<inputs, events, disk>>

\* A cohort exists, meets the required coverage, and what is left out of it
\* was a candidate too.
CohortFound(C) ==
  /\ Cardinality(C) >= CohortSize /\ Anchor \in C
  /\ LET S == SelectCandidateIds[C] IN
       Policy.required \subseteq Covered(S) /\ Registry \ S \subseteq C

\* Candidates, compatibility of the models, selection, exclusions.
SelectCohort(p) ==
  /\ step[p] = "datasets"
  /\ LET C == Candidates(inputs.data) IN
       IF CohortFound(C) /\ ModelsProven(inputs.probes)
         THEN LET S == SelectCandidateIds[C] IN
              /\ Goto(p, "views")
              /\ reads' = [reads EXCEPT ![p] = [Unread EXCEPT
                             !.cohort = S, !.data = [d \in S |-> inputs.data[d]],
                             !.matrix = BuildModelMatrix(inputs.probes)]]
              /\ UNCHANGED held
         ELSE Raise(p)
  /\ UNCHANGED <<inputs, events, disk>>

CollectViews(p) ==
  /\ step[p] = "views"
  /\ IF InventoryAccepted(inputs.views)
       THEN Goto(p, "sources")
            /\ Keep(p, "views", CollectViewApplicability(reads[p].cohort, inputs.views))
            /\ UNCHANGED held
       ELSE Raise(p)
  /\ UNCHANGED <<inputs, events, disk>>

\* Only now are the checksums of the files read so far taken.
AllSourceHashes(p) ==
  /\ step[p] = "sources"
  /\ Goto(p, "estimate")
  /\ Keep(p, "sources", SourceHashes(inputs, reads[p].cohort))
  /\ IF p \in Validators THEN held' = [held EXCEPT ![p].moment = inputs] ELSE UNCHANGED held
  /\ UNCHANGED <<inputs, events, disk>>

\* The measurements are read for the estimate, and the plan is complete.
Complete(p) == [reads[p] EXCEPT !.runtime = inputs.runtime, !.probes = inputs.probes]

Schedule(r) ==
  LET P == Protocol(r) IN BuildStagedSchedule(P, Inventory(P))

PlanHolds(r) ==
  LET P == Protocol(r)
  IN ViewsHold(P) /\ ProtocolHolds(P) /\ InventoryHolds(P, Inventory(P))

-----------------------------------------------------------------------------
(* freeze_pilot_protocol.py.                                                  *)

Freeze(p) ==
  /\ p \in Freezers /\ step[p] = "estimate"
  /\ IF PlanHolds(Complete(p)) /\ ScheduleHolds(Schedule(Complete(p)))
       THEN reads' = [reads EXCEPT ![p] = Complete(p)] /\ Goto(p, "protocol")
       ELSE reads' = [reads EXCEPT ![p] = Unread] /\ Goto(p, "refused")
  /\ UNCHANGED <<inputs, events, disk, held>>

\* The documents are written one after the other.
Write(p) ==
  /\ \/ /\ step[p] = "protocol" /\ Goto(p, "inventory")
        /\ disk' = [disk EXCEPT !.protocol = reads[p]]
        /\ UNCHANGED reads
     \/ /\ step[p] = "inventory" /\ Goto(p, "schedule")
        /\ disk' = [disk EXCEPT !.inventory = reads[p]]
        /\ UNCHANGED reads
     \/ /\ step[p] = "schedule" /\ Goto(p, "done")
        /\ disk' = [disk EXCEPT !.schedule = reads[p]]
        /\ reads' = [reads EXCEPT ![p] = Unread]
  /\ UNCHANGED <<inputs, events, held>>

-----------------------------------------------------------------------------
(* validate_pilot_protocol.py.  A document that is missing or does not hold   *)
(* ends the validator without a report; a gate that fails does not.           *)

LoadProtocol(v) ==
  /\ step[v] = "load"
  /\ disk.protocol # Absent
  /\ held' = [held EXCEPT ![v].protocol = disk.protocol]
  /\ Goto(v, "pair")
  /\ UNCHANGED <<inputs, events, disk, reads>>

\* Each of the two must name the other's checksum.
PairHolds(protocol, inventory) ==
  /\ Inventory(Protocol(protocol)) = Inventory(Protocol(inventory))
  /\ Protocol(inventory) = Protocol(protocol)

LoadInventory(v) ==
  /\ step[v] = "pair"
  /\ IF disk.inventory # Absent /\ PairHolds(held[v].protocol, disk.inventory)
       THEN /\ held' = [held EXCEPT ![v].inventory = disk.inventory]
            /\ Goto(v, "stages") /\ UNCHANGED reads
       ELSE Raise(v)
  /\ UNCHANGED <<inputs, events, disk>>

\* judges the stored schedule by itself
FaultyScheduleMatches(v, schedule) ==
  schedule # Absent /\ Schedule(schedule).withinHard

\* A schedule that is missing or another one is a failed gate, PF23.
ScheduleMatches(v, schedule) ==
  LET expected == Schedule(held[v].protocol)
  IN schedule # Absent /\ Schedule(schedule) = expected /\ expected.withinHard

LoadSchedule(v) ==
  /\ step[v] = "stages"
  /\ held' = [held EXCEPT ![v].schedule = disk.schedule,
                          ![v].good = ScheduleMatches(v, disk.schedule)]
  /\ Goto(v, "before")
  /\ UNCHANGED <<inputs, events, disk, reads>>

\* The files of the protected trees with their checksums.
TreeSnapshot == inputs.data

\* The protected trees are listed, and the review is checked: gate PF02.
Snapshot(v) ==
  /\ step[v] = "before"
  /\ IF inputs.smoke.accepted
       THEN /\ held' = [held EXCEPT
                 ![v].before = TreeSnapshot,
                 ![v].good = @ /\ inputs.smoke.at = held[v].protocol.sources.smoke]
            /\ Goto(v, "review") /\ UNCHANGED reads
       ELSE Raise(v)
  /\ UNCHANGED <<inputs, events, disk>>

\* compares the selection, and relies on the late gates for the rest
FaultySamePlan(v) ==
  LET P == Protocol(Complete(v)) IN
  LET Q == Protocol(held[v].protocol) IN
  P.selected = Q.selected /\ P.excluded = Q.excluded

\* The gates that look at the frozen documents alone.
DocumentGates(v) ==
  LET P == Protocol(held[v].protocol)
  IN CohortGates(P) /\ TupleGates(P, Inventory(P)) /\ StorageGate(P.estimate)

\* Gate PF05: the plan built again is the frozen one.
SamePlan(v) == Protocol(Complete(v)) = Protocol(held[v].protocol)

Rebuild(v) ==
  /\ v \in Validators /\ step[v] = "estimate"
  /\ IF PlanHolds(Complete(v))
       THEN /\ held' = [held EXCEPT ![v].good = @ /\ SamePlan(v) /\ DocumentGates(v)]
            /\ reads' = [reads EXCEPT ![v] = Unread] /\ Goto(v, "gates")
       ELSE Raise(v)
  /\ UNCHANGED <<inputs, events, disk>>

\* Gates PF34, PF35, PF37: what is still as it was frozen.
StillFrozen(sources) ==
  /\ inputs.views.at = sources.views
  /\ inputs.smoke.at = sources.smoke /\ inputs.runtime.at = sources.runtime
  /\ inputs.probes.pass

\* Gates PF26 to PF32: the tests and tools that are run pass or do not.
ToolGates == BOOLEAN

\* The last gates before the second snapshot, with a clean clone among them.
LateGates(v) ==
  /\ step[v] = "gates"
  /\ \E tools \in ToolGates, clone \in BOOLEAN :
       held' = [held EXCEPT ![v].good =
                  @ /\ StillFrozen(held[v].protocol.sources) /\ tools /\ clone]
  /\ Goto(v, "after")
  /\ UNCHANGED <<inputs, events, disk, reads>>

\* forgets to compare the second snapshot with the first
FaultyConclude(v) ==
  /\ step[v] = "after"
  /\ held' = [held EXCEPT ![v].before = Absent, ![v].moment = Absent]
  /\ Goto(v, "report")
  /\ UNCHANGED <<inputs, events, disk, reads>>

\* The second snapshot, gate PF03, and with it the verdict.
Conclude(v) ==
  /\ step[v] = "after"
  /\ held' = [held EXCEPT ![v].good = @ /\ TreeSnapshot = held[v].before,
                          ![v].before = Absent, ![v].moment = Absent]
  /\ Goto(v, "report")
  /\ UNCHANGED <<inputs, events, disk, reads>>

\* build_validation_report
Status(v) ==
  IF ~held[v].good THEN "REPAIR_REQUIRED"
  ELSE IF Protocol(held[v].protocol).estimate.preferred THEN "PASS_PENDING_REVIEW"
  ELSE "RESOURCE_REVIEW_REQUIRED"

Report(v) ==
  /\ step[v] = "report"
  /\ disk' = [disk EXCEPT !.report = Status(v)]
  /\ held' = [held EXCEPT ![v] = Nothing]
  /\ Goto(v, "done")
  /\ UNCHANGED <<inputs, events, reads>>

-----------------------------------------------------------------------------
Produce ==
  \/ \E d \in Changing : Reprocess(d)
  \/ ReviewSmoke \/ Certify \/ TimeSmoke \/ Probe

Plan(p) ==
  ValidateAcceptedSmoke(p) \/ SelectCohort(p) \/ CollectViews(p) \/ AllSourceHashes(p)

Validate(v) ==
  \/ LoadProtocol(v) \/ LoadInventory(v) \/ LoadSchedule(v) \/ Snapshot(v)
  \/ Rebuild(v) \/ LateGates(v) \/ Conclude(v) \/ Report(v)

Next ==
  \/ Produce
  \/ \E p \in Planners : Plan(p)
  \/ \E p \in Freezers : Freeze(p) \/ Write(p)
  \/ \E v \in Validators : Validate(v)

Spec == Init /\ [][Next]_vars

-----------------------------------------------------------------------------
(* Properties.                                                                *)

\* What a planner would read if nothing changed while it reads.
ReadsAt(i) ==
  LET S == SelectCandidateIds[Candidates(i.data)]
  IN [cohort |-> S, data |-> i.data, matrix |-> BuildModelMatrix(i.probes),
      views |-> CollectViewApplicability(S, i.views),
      sources |-> SourceHashes(i, S), runtime |-> i.runtime, probes |-> i.probes]

Concludes(v) == step[v] = "after" /\ step'[v] = "report"

\* A validation without a failed gate vouches for one moment: the frozen
\* documents are what planning at an instant of the validation gives, although
\* freezer and validator read the same files at several points each
\* (build_pilot_plan, gate PF05).
GreenIsOneMoment ==
  [][\A v \in Validators :
       Concludes(v) /\ held'[v].good =>
         Protocol(held[v].protocol) = Protocol(ReadsAt(held[v].moment))]_vars

\* When the verdict falls, the datasets the plan froze are still the files in
\* place, and the tests that ran meanwhile did not touch them (the snapshots
\* of validate, gate PF03).
FrozenDataInPlace ==
  [][\A v \in Validators :
       Concludes(v) /\ held'[v].good =>
         \A d \in held[v].protocol.cohort : inputs.data[d] = held[v].protocol.data[d]]_vars

\* The three documents a validation without a failed gate has read one after
\* the other were made together, however the freezers' writes interleaved
\* (freeze, validate_protocol_artifacts, gate PF23).
GreenIsOneTriple ==
  [][\A v \in Validators :
       Concludes(v) /\ held'[v].good =>
         LET P == Protocol(held[v].protocol) IN
         /\ held[v].schedule # Absent
         /\ P = Protocol(held[v].inventory) /\ P = Protocol(held[v].schedule)]_vars

\* A schedule that is going to be written holds each condition of its inventory in one
\* stage, and its stages together take no less time than the estimate of the
\* whole that says whether staging is needed (build_staged_schedule,
\* _runtime_estimate).
StagingLosesNothing ==
  [][\A p \in Freezers :
       step[p] = "estimate" /\ step'[p] = "protocol" =>
         \A s \in {Schedule(reads'[p])} :
           /\ \A c \in s.inventory.records :
                Cardinality({a \in s.stages : c \in a.conditions}) = 1
           /\ s.wall >= s.protocol.estimate.wall]_vars

\* The planner raises itself, with its reason, wherever the contracts would
\* refuse what it made (build_pilot_plan, PilotProtocolArtifact,
\* PilotConditionInventory, PilotStagedSchedule).
ContractsAgree == \A p \in Planners : step[p] # "refused"

\* The evidence frozen for an excluded dataset is that dataset's
\* (build_pilot_plan, the loop over the excluded datasets).
ExcludedEvidenceIsOwn ==
  disk.protocol # Absent =>
    \A x \in Protocol(disk.protocol).excluded : x.describes = x.dataset
=============================================================================
